SPECIFICATION FairSpec
CONSTANTS
    Invoices = {i1}
    Custom = {}
    Poller = poller
    Hooks = {hook}
    POLL_BATCH = 1
    MAX_OPEN_INVOICES = 2
INVARIANTS
    CreditedAtMostOnce
CHECK_DEADLOCK FALSE
