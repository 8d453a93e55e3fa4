SPECIFICATION TimerSpec
CONSTANTS
  Clients = {c}
  Servers = {s}
  Slots = {1}
  BufSize = 2
  MSS = 1
  MaxRetries = 1
  IssStep = 10
  MaxOpens <- ServerTwice
  MaxBytes = 0
  MaxSeq = 6
  Calls = {"close", "exit"}
  Writers = {}
  Faults = {"lose"}
  Preempt = {}
  Timely = FALSE
PROPERTIES
  SlotFreed
  DeadPeerNoticed
CHECK_DEADLOCK FALSE
