SPECIFICATION GatewaysSpec
CONSTANTS
    Payments = {p1, p2}
    Poller = poller
    Visitors = {visitor}
    POLL_BATCH = 1
    MAX_OPEN_PAYMENTS = 2
INVARIANTS
    CreditedAtMostOnce
    OnlyVerifiedIsCredited
    PaidLostOnlyByAgeOrClaim
    InvoicesKeepFaith
    ReceiptsKeepFaith
    DirectPayOnce
    ChatKeepsFaith
    GiftsOnce
CHECK_DEADLOCK FALSE
