SPECIFICATION SystemFairSpec
CONSTANTS
    Orders <- MCOrders
    Amounts <- MCAmounts
    Transfers = {t1}
    NoTx = NoTx
    Attempts = 2
    LowestFirst = FALSE
    Prompt = FALSE
    DbErrors = FALSE
    TTL = 1
    Grace = 0
    TxTolerance = 0
    MatchDistance = 1
    AllowUntimed = FALSE
    RetryAfterError = FALSE
    ReliableExplorer = TRUE
    Interrupted = FALSE
    MaxRun = 1
    MaxTime = 3
INVARIANTS
    PaidAmountMatches
CHECK_DEADLOCK FALSE
