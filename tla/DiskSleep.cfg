SPECIFICATION FairSpec
CONSTANTS
  Ranks = {w1, w2}
  Weights = {a1, a2}
  KVCache = {k1}
  MaxFaults = 2
  MaxRot = 1
  MaxCalls = 2
INVARIANTS
  TypeOK
  NothingLost
  ServesIntact
PROPERTIES
  KeepsStore
  AllCommittedBeforeUnmap
  SleepWakeEnds
