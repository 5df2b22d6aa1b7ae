SPECIFICATION RunsSpec
CONSTANTS
    Callers = {"caller"}
    Modes = {"hourly", "usage"}
    Rate = 1
    Unit = 1
    Caps = {0}
    ALLOW_DEBT = TRUE
    MAX_CLOCK = 1
    MAX_TRAFFIC = 1
    MAX_WALLET = 1
    MAX_RESETS = 0
    MAX_FAULTS = 0
PROPERTIES
    ComesBack
    LapsedIsRemoved
    RunningEnds
CHECK_DEADLOCK FALSE
