SPECIFICATION Spec
CONSTANTS
  Clients = {c}
  Servers = {s}
  Slots = {1}
  BufSize = 3
  MSS = 1
  MaxRetries = 1
  IssStep = 20
  MaxOpens <- OneEach
  MaxBytes = 3
  MaxSeq = 6
  Calls = {"send","recv"}
  Writers = {c}
  Faults = {"lose"}
  Preempt = {}
  Timely = FALSE
INVARIANTS
  TypeOK
  
  
CHECK_DEADLOCK FALSE
