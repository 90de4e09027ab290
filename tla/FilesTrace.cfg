SPECIFICATION Spec
CONSTANTS
    w1 = w1
    w2 = w2
    w3 = w3
    Own1 = Own1
    Own2 = Own2
    CapturedPath = CapturedPath
    Input = Input
    TracePath = TracePath
    Null = Null
    Error = Error
    Waves = {w1, w2}
    NSLOTS = 2
    DataSize = 2
    MsgSize = 1
    LineSize = 1
    PrefixSize = 1
    Paths = {Own1, Own2, CapturedPath, Input, TracePath}
    Unopenable = {Own1, TracePath}
    FileSize = 2
    Programs <- TracePrograms
INVARIANTS
    TraceKeepsWrites
