SPECIFICATION Spec
CONSTANTS
    Processes = {p1, p2}
    Expenses = {e1, e2}
    Funds = {f1, f2}
    Packets = {k1}
    Donations = {g1}
    MaxIds = 4
    MaxCrashes = 0
SYMMETRY Interchangeable
INVARIANT LoggedApprovalKept
CHECK_DEADLOCK FALSE
