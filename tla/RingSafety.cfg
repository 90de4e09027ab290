SPECIFICATION Spec
CONSTANTS
    w1 = w1
    w2 = w2
    w3 = w3
    r1 = r1
    r2 = r2
    v1 = v1
    v2 = v2
    Waves = {w1, w2, w3}
    MaxResident = 3
    NSLOTS = 2
    Gens = 3
    MaxCalls = 3
    Requests = {r1, r2}
    Results = {v1}
    None = None
    EarlyStop = FALSE
SYMMETRY RingSymmetry
INVARIANTS
    TypeOK
    SlotExclusive
    TicketQueue
    HostReadsOwnersRequest
    AnswersOwnCall
    RingRestored
PROPERTIES
    HandoverWhenIdle
