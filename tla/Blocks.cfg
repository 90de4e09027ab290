SPECIFICATION Spec
CONSTANTS
    entry = entry
    left = left
    right = right
    join = join
    Blocks = {entry, left, right, join}
    Entry = entry
    Callee = callee
    None = none
    Graphs <- AllGraphs
SYMMETRY BlockSymmetry
INVARIANTS
    OrderComplete
    EdgesForward
    RegionsTogether
    SearchFinds
    LatchTold
CHECK_DEADLOCK FALSE
