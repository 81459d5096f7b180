SPECIFICATION Spec
CONSTANTS
    DonorIds = {d1}
    DonationIds = {g1}
    AllocationIds = {f1, f2}
    DaIds = {a1, a2}
    ExpenseIds = {e1, e2}
    Amounts = {1, 2}
    SplitChoices <- DistinctSplits
    FreshDaIds = TRUE
SYMMETRY Interchangeable
INVARIANTS
    TypeOK
    DonationNotOverAllocated
    FundNonNegative
    
    AttributionWithinDesignation
    OneLiveReceipt
    CorrectionLineage
PROPERTIES
    ReceiptsAppendOnly
    
CHECK_DEADLOCK FALSE
