SPECIFICATION FairSpec
CONSTANTS
    Clients = {c1, c2}
    Configs <- MCConfigs
    TABLE_SIZE = 2
    PageSize = 2
    LogPage = 2
    Budgets <- MCBudgets
    MaxLag = 1
    RowsSent = 3
INVARIANTS
    PeersFindEachOther
    OneManager
    OrdersFollowed
    LogsWhole
PROPERTIES
    SessionProceeds
CHECK_DEADLOCK FALSE
