SPECIFICATION Spec
CONSTANTS
    f1 = f1
    f2 = f2
    Flows = {f1, f2}
    Expenses = {"e1", "e2"}
    Replacements = {"r1"}
    Requests <- MCRequests
    Simulations = {TRUE, FALSE}
    max_attempts = 2
    MaxSignals = 2
    MaxCrashes = 1
SYMMETRY FlowSymmetry
INVARIANTS
    TypeOK
    DeliveredIsLogged
    GateHonoured
PROPERTIES
    ExpiredIsFinal
