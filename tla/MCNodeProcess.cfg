SPECIFICATION FairSpec
CONSTANTS
    Datagrams = {d1, d2, d3}
    MaxSends = 1
    Broadcasts = TRUE
INVARIANTS
    NoLostWakeup
    LogKeepsRows
PROPERTIES
    ImplementsChannel
    ArrivalsHandled
CHECK_DEADLOCK FALSE
