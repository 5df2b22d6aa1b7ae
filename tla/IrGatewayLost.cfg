SPECIFICATION FairSpec
CONSTANTS
    Payments = {p1}
    Poller = poller
    Visitors = {visitor}
    POLL_BATCH = 1
    MAX_OPEN_PAYMENTS = 2
INVARIANTS
    VerifiedIsNotLost
CHECK_DEADLOCK FALSE
