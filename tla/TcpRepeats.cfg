SPECIFICATION Spec
CONSTANTS
  Clients = {c}
  Servers = {s}
  Slots = {1}
  BufSize = 4
  MSS = 1
  MaxRetries = 1
  IssStep = 20
  MaxOpens <- OneEach
  MaxBytes = 2
  MaxSeq = 5
  Calls = {"send", "recv"}
  Writers = {c}
  Faults = {}
  Preempt = {}
  Timely = TRUE
INVARIANT
  StreamInOrder
CHECK_DEADLOCK FALSE
