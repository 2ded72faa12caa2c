SPECIFICATION FairSpec
CONSTANTS
  Requests = {r1, r2}
  MaxEngines = 5
  MaxTasks = 2
  MaxAttempts = 2
  MaxFails = 2
  MaxCrashes = 1
INVARIANTS
  TypeOK
  OneRespawn
  OpenGateMeansEngine
  DeadOnlyByCrash
PROPERTIES
  FreshRespawn
  GateAnswers
  OrphansReaped
CHECK_DEADLOCK FALSE
