SPECIFICATION Spec
CONSTANTS
  Procs = {p}
  Names = {"a", "b", "c"}
  Buffers <- SomeBuffers
  Ops = {"write", "append", "write_at", "read", "delete"}
  SectorSize = 2
  DataEnd = 4
  MaxFiles = 2
  FirstEntries = 2
  MaxSize = 3
  Faults = {"io", "crash"}
  MaxUnsafe = 1
  DeleteFaults = FALSE
  Preemptible = {}
  Deletable = {"a"}
  Readable = {"a"}
  Growing = {"a"}
VIEW Canon
INVARIANTS
  TypeOK
  DirSound

  
