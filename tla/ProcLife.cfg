SPECIFICATION Spec
CONSTANTS
  NProcs = 3
  Prios = {16}
  DefaultPrio = 16
  Codes = {3}
  Sigs = {1}
  Calls = {"fork", "exit", "exec", "wait", "kill", "suspend", "signal"}
  TickIn = {}
  Named = {2}
  EmbryoTargets = FALSE
INVARIANTS
  TypeOK
  
  
  NobodyLost
  BuildsItsOwn
PROPERTIES
  StaysDown
