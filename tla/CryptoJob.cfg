SPECIFICATION CryptoSpec
CONSTANTS
    Orders <- MCOrders
    Amounts <- MCAmounts
    Transfers = {t1, t2}
    NoTx = NoTx
    TTL = 1
    Grace = 0
    TxTolerance = 0
    MatchDistance = 1
    AllowUntimed = TRUE
    RetryAfterError = TRUE
    ReliableExplorer = FALSE
    Interrupted = TRUE
    MaxRun = 1
    MaxTime = 3
INVARIANTS
    OneTransferOneInvoice
    CreditedIffPaid
    PaidByMatchingTransfer
PROPERTIES
    ExactPaymentNotStolen
    ImplementsSettlement
CHECK_DEADLOCK FALSE
