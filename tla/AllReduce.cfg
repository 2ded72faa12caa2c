SPECIFICATION FairSpec
CONSTANTS
    Setups <- MCSetups
    ChunkCap = 2
    FireflyMin = 2
    CustomMax = 3
    Leftovers = {FALSE, TRUE}
    MaxFaults = 1
CHECK_DEADLOCK FALSE
INVARIANTS
    ExchangeExact
PROPERTIES
    EveryCallReturns
