SPECIFICATION FairGossip
CONSTANTS
    num_nodes_total = 4
    TABLE_SIZE = 2
    NUM_RECEIVERS = 2
    TTL = 3
    Origins <- Last
    MaxLost = 2
INVARIANTS
    TypeOK
    SendsBounded
    TtlCountsForwards
    NobodyLeftOut
    RequestsAnswerable
    RequestsBalance
    InvitedAreServed
PROPERTIES
    GossipEnds
    PullEnds
CHECK_DEADLOCK FALSE
