SPECIFICATION FairSpec
CONSTANTS
    w1 = w1
    w2 = w2
    w3 = w3
    r1 = r1
    r2 = r2
    v1 = v1
    v2 = v2
    Waves = {w1, w2, w3}
    MaxResident = 2
    NSLOTS = 2
    Gens = 2
    MaxCalls = 2
    Requests = {r1}
    Results = {v1}
    None = None
    EarlyStop = TRUE
INVARIANTS
    StopLeavesNoHalfAnswer
PROPERTIES
    JoinReturns
    EveryCallReturns
    GridDrains
    RingKeepsPromise
CHECK_DEADLOCK FALSE
