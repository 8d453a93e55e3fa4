SPECIFICATION Spec
CONSTANTS
  NProcs = 2
  NPipes = 1
  BufSize = 2
  Wrap = 8
  Bytes = {0, 1}
  MaxLen = 3
  MaxGen = 1
  TickIn = {}
INVARIANTS
  RingSound
PROPERTIES
  ImplementsChannels
VIEW Canon
