SPECIFICATION TablesSpec
CONSTANTS
    NumNodes <- MCNumNodes
    NumCnodes <- MCNumCnodes
    NumContinents = 1
    BucketMaps <- MCBucketMaps
    Late <- MCLate
    Shapes <- MCShapes
    NodeLists <- MCNodeLists
    NoShape = NoShape
    TABLE_SIZE = 2
INVARIANT
    CopyForms
CHECK_DEADLOCK FALSE
