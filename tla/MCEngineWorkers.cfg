SPECIFICATION Spec
CONSTANTS
    Workflows = {f}
    Workers = {w1, w2}
    Store = "postgres"
    max_attempts = 1
    LeaseCoversAdvance = TRUE
    MaxSignals = 2
    MaxPackets = 1
    MaxCrashes = 0
    f = f
    w1 = w1
    w2 = w2
SYMMETRY Interchangeable
INVARIANTS
    HumanApproved
    
    GateHasWait
CHECK_DEADLOCK FALSE
