SPECIFICATION Spec
CONSTANTS
    Workflows = {f}
    Workers = {w1}
    Store = "sqlite"
    max_attempts = 2
    LeaseCoversAdvance = TRUE
    MaxSignals = 3
    MaxPackets = 2
    MaxCrashes = 1
    f = f
    w1 = w1
INVARIANTS
    TypeOK
    MoneyOnce
PROPERTIES
    CursorFollowsMachine
    TimeoutFinal
CHECK_DEADLOCK FALSE
