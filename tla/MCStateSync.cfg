CONSTANTS
  r = r  a1 = a1  a2 = a2  s1 = s1  s2 = s2  c1 = c1
  Hashes <- MCHashes
  Root = r
  Refs <- MCRefs
  Acct <- MCAcct
  IsCode <- MCIsCode
  EmptyCode = EmptyCode
  ZeroHash = ZeroHash
  EmptyBytes = EmptyBytes
  NotLeaf = NotLeaf
  Malformed = Malformed
  NotFound = NotFound
  Workers = {w1, w2}
  MaxBatch = 2
  FalsePos = {}
  PersistFilter = FALSE
  MaxCrashes = 1
  MaxCancels = 1
  Reachable <- [StateSyncAbs] MCReachable
SPECIFICATION LiveSpec
INVARIANTS UniquePending SyncCorrect
PROPERTIES Termination SyncRefines
CHECK_DEADLOCK FALSE
