CONSTANTS
    f1 = f1
    f2 = f2
    f3 = f3
    kadd = kadd
    kmul = kmul
    None = None
    Unread = Unread
    All = All
    Funcs <- MCFuncs
    Word = 4
    Drift = 3
    Sections <- MCSections
    DynTables <- MCDynTables
    Kinds <- MCKinds
    Uses <- MCUses
    Hashes <- MCHashes
    CodeObjects <- MCCodeObjects
    Calls = 2
SPECIFICATION Spec
INVARIANTS
    EveryKernelServed
CHECK_DEADLOCK FALSE
