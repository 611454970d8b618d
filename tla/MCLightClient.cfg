SPECIFICATION LiveSpec
CONSTANTS
  h1 = h1
  h2 = h2
  Handlers <- MCHandlers
  InitCfg = "old"
  MaxCrashes = 2
INVARIANTS ConfigRewound
PROPERTIES StopReturns
