SPECIFICATION Spec
CONSTANTS
  NFrames = 10
  FreeMax = 10
  RefMax = 15
  NProcs = 2
  NTables = 2
  NCode = 1
  NHeap = 1
  TableOf <- OnePagePerTable
  Values = {a}
  Calls = {"alloc", "brk", "mmap", "munmap", "fill", "fork", "exec", "exit", "kill"}
  TickInExec = FALSE
  AnyBuffer = FALSE
VIEW Canon
INVARIANTS
  TypeOK
  PoolSound
  RefCovers
  Aligned
  SoleWriter
  KernelFramesPrivate
  NoFrameLost
  RunsInOwnSpace
CHECK_DEADLOCK FALSE
