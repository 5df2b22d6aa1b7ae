SPECIFICATION Spec
CONSTANTS
    Jobs = {1, 2}
    USERS = 2
    BATCH = 2
    Dialects = {"redis", "none"}
    Admins = {a1}
    Ops = {"confirm", "panel_send", "pause", "resume", "cancel", "resend", "delete"}
    MAX_WORKERS = 2
    MAX_ORDERS = 4
    MAX_FAULTS = 0
PROPERTY CancelStopsItsOwn
CHECK_DEADLOCK FALSE
