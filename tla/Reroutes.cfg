SPECIFICATION Spec
CONSTANTS
    A = A
    B = B
    Conds = {A, B}
    SplitElses = FALSE
    LoopDepth = 0
    MaxRegions = 5
    MaxBody = 1
SYMMETRY CondSymmetry
INVARIANT RerouteMarked
