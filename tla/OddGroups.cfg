SPECIFICATION Spec
CONSTANTS
    t1 = t1
    t2 = t2
    b1 = b1
    b2 = b2
    Threads = {t1}
    Shapes <- MCTwoShapes
    Runs <- MCOddRuns
    NDRuns = {}
    MaxGroup = 4
    Blocks = {b1}
    MaxRuns = 2
    MaxKernels = 1
    Wave = 2
    Null = Null
CHECK_DEADLOCK FALSE
INVARIANTS
    OneSlotPerWave
