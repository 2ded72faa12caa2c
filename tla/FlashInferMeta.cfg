SPECIFICATION Spec
CONSTANTS
  MaxReqs = 2
  MaxLen = 4
  MaxSteps = 2
  PageSize = 2
  Configs <- MCConfigs
CHECK_DEADLOCK FALSE
INVARIANTS
  AttendsOwn
  GraphsPlanned
