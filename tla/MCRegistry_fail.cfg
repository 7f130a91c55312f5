CONSTANTS
    n1 = n1
    n2 = n2
    v1 = v1
    v2 = v2
    Names = {n1}
    Versions = {v1, v2}
    MaxSlot = 3
    InitialFiles <- GoodFiles
    SaveMayFail = TRUE
    None = None
    Torn = Torn
SPECIFICATION Spec
INVARIANTS
    TypeOK
    ActiveResolves
    FlaggedIsActive
    StoreResolves
    MemoryBackedByDisk
PROPERTIES
    StoreNeverTorn
