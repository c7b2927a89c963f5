SPECIFICATION FairSpec
CONSTANTS
    NumNodes <- OddNodes
    NumCnodes <- OddCnodes
    NumContinents = 1
    BucketMaps <- BothOrders
    Late <- Nobody
    Strides <- Powers
    Origins <- OddOrigins
    MaxLost = 0
    NoNode = NoNode
PROPERTY
    BroadcastEnds
CHECK_DEADLOCK FALSE
