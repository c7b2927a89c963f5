SPECIFICATION Spec
CONSTANTS
    NumNodes <- PairNodes
    NumCnodes <- PairCnodes
    NumContinents = 1
    BucketMaps <- OneOrder
    Late <- Nobody
    Strides <- Powers
    Origins <- PairOrigins
    MaxLost = 0
    NoNode = NoNode
INVARIANT
    RegionsSentOnce
CHECK_DEADLOCK FALSE
