SPECIFICATION TablesSpec
CONSTANTS
    NumNodes <- MCNumNodes
    NumCnodes <- MCNumCnodes
    NumContinents = 1
    BucketMaps <- MCBucketMaps
    Late <- MCLate
    Shapes <- MCShapes
    NodeLists <- MCNodeLists
    NoShape = NoShape
    TABLE_SIZE = 2
INVARIANTS
    RingsAgree
    ContactsResideAbove
    OneRepresentative
    IdsFit
    CopyKeeps
    ListedRingsAgree
CHECK_DEADLOCK FALSE
