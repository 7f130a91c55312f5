CONSTANTS
    W32 = 3
    W64 = 5
    M32 = 2
    M64 = 4
    None = None
    NormalName <- MCNormalName
    FoldName <- MCFoldName
    Names <- MCNames
    Deep = 4
    ByteBits = 2
    FixInt = 1
    NegFix = 1
    FixStr = 2
    FixSize = 2
    Small = 2
    MaxDepth = 2
    MaxItems = 8
    Group = 3
    Nodes <- MCNodes
    Height <- MCHeight
    Tasks <- MCTasks
SPECIFICATION Spec
INVARIANTS
    TypeOK
    LossIsReported
    LosslessEntriesHold
    ProjectionFits
    ProjectionStable
    SelectionHonoured
    ClassIsContainment
    
    CutIsNoticed
    VarintExact
CHECK_DEADLOCK FALSE
