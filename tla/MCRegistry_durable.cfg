CONSTANTS
    n1 = n1
    n2 = n2
    v1 = v1
    v2 = v2
    Names = {n1, n2}
    Versions = {v1, v2}
    MaxSlot = 2
    InitialFiles <- AllFiles
    SaveMayFail = FALSE
    None = None
    Torn = Torn
SPECIFICATION Spec
INVARIANTS
    AckedRegistrationDurable
PROPERTIES
    ImplementsDurableStore
