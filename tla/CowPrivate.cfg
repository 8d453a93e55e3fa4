SPECIFICATION Spec
CONSTANTS
  NFrames = 9
  FreeMax = 9
  RefMax = 15
  NProcs = 2
  NTables = 1
  NCode = 1
  NHeap = 1
  TableOf <- OneTable
  Values = {a, b}
  Calls = {"alloc", "fork", "exec"}
  TickInExec = FALSE
  AnyBuffer = FALSE
VIEW Canon
INVARIANTS
  StagedPrivate
PROPERTIES
  PrivateMemory
  FaultsInvisible
CHECK_DEADLOCK FALSE
