CONSTANTS
    NY = 2
    FirstNX = 2
    MaxRow = 4
    ReallocFails = TRUE
    PageSize = 50
    ObjSizes = {1, 3, 520}
    Factors = {1, 2, 0}
    MaxTableRow = 42
    RTR_POOL_N = 4
    FirstN = 2
    MaxBlock = 40
    MaxSite = 4
    MaxNode = 8
    Copies = 3
    MaxInsert = 5
    MaxLen = 5
    Values = {1, 2, 3}
    Keys = {1, 2, 3}
    W = 4
    H = 3
    Ns = {3, 4}
    MaxStone = 4
    NVertex = 3
    MaxEdge = 3
    BagMin = 2
    FirstIndex = {0, 2, 3}
    NVert = 3
    MaxInt = 2
    MaxDisk = 4
    NKey = 4
    NRow = 3
    Prices = {1, 2, 4}
    RodLen = 5
    Time = 4
    NActivity = 3
    BitLen = 4
    TreeDepth = 4
    Chars = {"a", "b"}
    TextLen = 6
    NOperator = 3
    NPut = 3
SPECIFICATION MCSpec
INVARIANTS TypeOK Marked Destroyed Unions
           Ordered RedBlack Sorted Searches FindsRow Represents Traversed Computed Solved 
PROPERTIES ImplementsAllocator TablesImplementAllocator Ends
CHECK_DEADLOCK FALSE
