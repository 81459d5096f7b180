SPECIFICATION Spec
CONSTANTS
    DonorIds = {d1}
    DonationIds = {g1}
    AllocationIds = {f1, f2}
    DaIds = {a1, a2}
    ExpenseIds = {e1, e2}
    Amounts = {1, 2}
    SplitChoices <- RepeatedSplits
    FreshDaIds = TRUE
INVARIANT FundNonNegative
CHECK_DEADLOCK FALSE
