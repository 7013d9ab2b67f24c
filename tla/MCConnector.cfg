CONSTANTS
    QueueCap = 1
    MaxRetries = 1
    CacheState = TRUE
    Budgets <- MCBudgets
    Calls = {"c", "d"}
    Works <- MCWorks
    Tries = 3
    ChannelCap = 1
    MaxPages = 1
    MaxTurns = 2
SPECIFICATION MCSpec
INVARIANTS
    ConnectorInv
    HandledBeforePassed
    StandsStillOnlySaid
    SaidIsSo
CHECK_DEADLOCK FALSE
