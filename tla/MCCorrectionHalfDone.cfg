SPECIFICATION Spec
CONSTANTS
    f1 = f1
    f2 = f2
    Flows = {f1}
    Expenses = {"e1", "e2"}
    Replacements = {"r1"}
    Requests <- MCRequests
    Simulations = {FALSE}
    max_attempts = 2
    MaxSignals = 1
    MaxCrashes = 0
INVARIANT DeliveredIsComplete
