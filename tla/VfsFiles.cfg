SPECIFICATION Spec
CONSTANTS
  Procs = {1, 2}
  Launcher = 1
  Names = {"a", "b"}
  FdMax = 2
  MaxFiles = 1
  Buffers <- OneOrTwo
  Offsets <- BackOrForth
  MaxSize = 2
  MaxDeletes = 1
  DeleteOpen = FALSE
  Preempt = {}
PROPERTIES
  ImplementsOpenFiles
VIEW View
CHECK_DEADLOCK FALSE
