SPECIFICATION Spec
CONSTANTS
    NumNodes <- SingleNodes
    NumCnodes <- SingleCnodes
    NumContinents = 1
    BucketMaps <- OneOrder
    Late <- SingleLate
    Strides <- Powers
    Origins <- SingleOrigins
    MaxLost = 1
    NoNode = NoNode
INVARIANTS
    TypeOK
    ShownAtMostOnce
    ClimbEndsAtTop
    LossCutsRegions
PROPERTY
    ImplementsRingCasts
CHECK_DEADLOCK FALSE
