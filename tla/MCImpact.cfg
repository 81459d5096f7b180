SPECIFICATION ComposedSpec
CONSTANTS
    Flows = {f1}
    Expenses = {"e1"}
    Replacements = {"r1"}
    Requests <- MCRequests
    Simulations = {FALSE}
    max_attempts = 2
    MaxSignals = 1
    MaxCrashes = 1
    Attributions <- MCAttributions
    Programs = {"p1"}
    Assets = {"a1"}
    Events = {"v1"}
    AssetExpense <- MCAssetExpense
    Links <- MCLinks
    MaxPublished = 3

    
PROPERTIES
    ImpactNotOnCorrected
