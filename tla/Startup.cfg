SPECIFICATION FairSpec
CONSTANTS
  NumEngines = 2
  NumRanks = 2
  Setups <- MCSetups
  Requested = 5
  FreeMemory = {4, 5}
  Usages = {2}
  GraphSizes = {0, 1}
  FullWorkspace = 2
  ModelLen = 3
  MaxFaults = 1
CHECK_DEADLOCK FALSE
INVARIANTS
  BuiltSoundly
  OnlyFaultsKill
PROPERTIES
  StartupEnds
