SPECIFICATION FairSpec
CONSTANTS
  Setups <- MCSetups
  Buffers = 4
CHECK_DEADLOCK FALSE
INVARIANTS
  YieldedInOrder
  NoneLost
PROPERTIES
  EveryCallEnds
