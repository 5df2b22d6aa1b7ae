SPECIFICATION Spec
CONSTANTS
    Services = {1, 2}
    Tests = {1}
    Unlinked = {}
    BATCH = 1
    FLUSH = 1
    GRACE = 1
    TERM = 2
    MAX_CLOCK = 4
    MAX_FAULTS = 0
INVARIANT RenewedIsKept
CHECK_DEADLOCK FALSE
