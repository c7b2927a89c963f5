SPECIFICATION FairSpec
CONSTANTS
    RingSize = 11
    Strides <- MCStrides
    MaxLoss = 2
INVARIANTS
    TypeOK
    OrderIsDistance
    AtMostOnce
    ReachesAll
    LossCutsSubtree
PROPERTIES
    ImplementsCast
    AllReached
CHECK_DEADLOCK FALSE
