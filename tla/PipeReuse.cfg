SPECIFICATION FairSpec
CONSTANTS
  NProcs = 2
  NPipes = 1
  BufSize = 1
  Wrap = 8
  Bytes = {0}
  MaxLen = 1
  MaxGen = 2
  TickIn = {}
INVARIANTS
  TypeOK
  UsedWhileOpen
PROPERTIES
  ImplementsChannels
  CallsReturn
