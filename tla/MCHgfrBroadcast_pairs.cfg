SPECIFICATION FairSpec
CONSTANTS
    NumNodes <- PairNodes
    NumCnodes <- PairCnodes
    NumContinents = 1
    BucketMaps <- OneOrder
    Late <- Nobody
    Strides <- Powers
    Origins <- PairOrigins
    MaxLost = 0
    NoNode = NoNode
INVARIANTS
    RepeatsNearTurn
    SpanningTree
PROPERTY
    EveryoneServed
CHECK_DEADLOCK FALSE
