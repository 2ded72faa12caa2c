SPECIFICATION Spec
CONSTANTS
  Requests = {r1, r2}
  Size = 2
  SyncInterval = 2
  PrefillInterval = 2
  Calls <- SomeCalls
  MaxInputs = 3
  Discipline = {"paused", "settled", "admitted"}
SYMMETRY Symmetry
INVARIANTS
  RanksTogether
  InLockstep
  NeverStranded
