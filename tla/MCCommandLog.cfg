SPECIFICATION Spec
CONSTANTS
    Processes = {p1}
    Expenses = {e1}
    Funds = {f1, f2}
    Packets = {k1}
    Donations = {g1}
    MaxIds = 6
    MaxCrashes = 2
SYMMETRY Interchangeable
INVARIANTS
    TypeOK
    ReceiptLogged
    KeyOnce
    LoggedApprovalKept
    
    LoggedReceiptsSound
    SnapshotNotAhead
CHECK_DEADLOCK FALSE
