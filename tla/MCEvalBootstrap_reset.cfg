SPECIFICATION Spec
CONSTANTS
    Clients = {c1, c2}
    Configs <- MCConfigs
    TABLE_SIZE = 2
    PageSize = 2
    LogPage = 2
    Budgets <- TwoRuns
    MaxLag = 1
    RowsSent = 1
INVARIANTS
    ManagerHears
CHECK_DEADLOCK FALSE
