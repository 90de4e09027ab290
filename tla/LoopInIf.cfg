SPECIFICATION Spec
CONSTANTS
    A = A
    B = B
    Conds = {A, B}
    SplitElses = FALSE
    LoopDepth = 1
    MaxRegions = 5
    MaxBody = 1
SYMMETRY CondSymmetry
INVARIANT StackIsNesting
