SPECIFICATION Spec
CONSTANTS
    None = none
    Kernels <- MCKernels
    Note <- MCNote
    Temps <- MCTemps
    TempPairs <- MCTempPairs
    Offsets = {4, 12}
    MaxSteps = 3
INVARIANTS
    LabelsTrue
    LanesKnown
    FieldsNamed
CHECK_DEADLOCK FALSE
