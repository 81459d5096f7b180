SPECIFICATION FairSpec
CONSTANTS
    Workflows = {f}
    Workers = {w1}
    Store = "memory"
    max_attempts = 2
    LeaseCoversAdvance = TRUE
    MaxSignals = 2
    MaxPackets = 2
    MaxCrashes = 0
    f = f
    w1 = w1
PROPERTIES
    StartedReachesRest
    GateServed
CHECK_DEADLOCK FALSE
