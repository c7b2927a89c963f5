SPECIFICATION Spec
CONSTANTS
    NumNodes <- TripleNodes
    NumCnodes <- TripleCnodes
    NumContinents = 1
    BucketMaps <- BothOrders
    Late <- Nobody
    Strides <- Powers
    Origins <- TripleOrigins
    MaxLost = 0
    NoNode = NoNode
INVARIANT
    SpanningTree
CHECK_DEADLOCK FALSE
