SPECIFICATION Spec
CONSTANTS
  Requests = {r1, r2}
  Named = {r2}
  InitSize = 2
  MaxSize = 3
  InitStart = 1
  Experts = 3
  InitExperts = 6
  MaxScalings = 1
  MaxFailures = 1
INVARIANTS
  InflightExact
  ScalesTogether
PROPERTIES
  EveryRequestEnds
