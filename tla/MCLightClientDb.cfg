SPECIFICATION Spec
CONSTANTS
  h1 = h1
  h2 = h2
  Handlers <- MCHandlers
  InitCfg = "new"
  MaxCrashes = 0
INVARIANTS DbOutlivesReaders
