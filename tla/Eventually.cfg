SPECIFICATION EventuallySpec
CONSTANTS
    Orders <- MCOrders
    Amounts = {10, 11}
    Transfers = {t1}
    NoTx = NoTx
    TTL = 1
    Grace = 2
    TxTolerance = 1
    MatchDistance = 0
    AllowUntimed = FALSE
    RetryAfterError = FALSE
    ReliableExplorer = TRUE
    Interrupted = FALSE
    MaxRun = 1
    MaxTime = 5
INVARIANTS
    PaidInTimeNeverExpired
    NobodyGivesUp
PROPERTIES
    CreationEnds
    PaidIsCredited
    EveryPaymentEnds
    QueuedIsHandled
CHECK_DEADLOCK FALSE
