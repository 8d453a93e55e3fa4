SPECIFICATION FairSpec
CONSTANTS
  NProcs = 3
  Prios <- TwoPrios
  DefaultPrio = 16
  Codes = {0}
  Sigs = {}
  Calls = {"fork", "exit", "setprio", "wait"}
  TickIn = {}
  Named = {2}
  EmbryoTargets = FALSE
PROPERTIES
  TopRuns
  WaitReturns
