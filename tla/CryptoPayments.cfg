SPECIFICATION SystemSpec
CONSTANTS
    Orders <- MCOrders
    Amounts <- MCAmounts
    Transfers = {t1}
    NoTx = NoTx
    Attempts = 2
    LowestFirst = FALSE
    Prompt = FALSE
    DbErrors = TRUE
    TTL = 0
    Grace = 0
    TxTolerance = 0
    MatchDistance = 1
    AllowUntimed = FALSE
    RetryAfterError = FALSE
    ReliableExplorer = TRUE
    Interrupted = FALSE
    MaxRun = 1
    MaxTime = 2
INVARIANTS
    SettledApart
    ToldIsStored
    FailureLeavesNothing
PROPERTIES
    JobKeepsToItsPart
    ImplementsSettlement
CHECK_DEADLOCK FALSE
