SPECIFICATION Spec
CONSTANTS
    entry = entry
    left = left
    right = right
    join = join
    Blocks = {entry, left, right, join}
    Entry = entry
    Callee = callee
    None = none
    Graphs <- AllGraphs
SYMMETRY BlockSymmetry
INVARIANT ExecLoopsDiverge
CHECK_DEADLOCK FALSE
