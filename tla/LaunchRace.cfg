SPECIFICATION Spec
CONSTANTS
    t1 = t1
    t2 = t2
    b1 = b1
    b2 = b2
    Threads = {t1, t2}
    Shapes <- MCTwoShapes
    Runs = {}
    NDRuns = {}
    MaxGroup = 4
    Blocks = {b1, b2}
    MaxRuns = 2
    MaxKernels = 2
    Wave = 2
    Null = Null
CHECK_DEADLOCK FALSE
INVARIANTS
    BufferPerLaunch
