------------------------------ MODULE MCLedger ------------------------------
(* Model-checking instances of Ledger: the split lists callers pass. *)
EXTENDS Ledger, TLC

\* Lists that name a fund once.
DistinctSplits ==
    {<<[allocation |-> f, amount |-> a]>> : f \in AllocationIds, a \in Amounts}
    \cup {s \in {<<[allocation |-> f, amount |-> a], [allocation |-> h, amount |-> b]>> :
                   f \in AllocationIds, h \in AllocationIds,
                   a \in Amounts, b \in Amounts} :
            s[1].allocation # s[2].allocation}

\* Lists that may name a fund twice: the code does not refuse them.
RepeatedSplits ==
    {<<[allocation |-> f, amount |-> a], [allocation |-> f, amount |-> b]>> :
        f \in AllocationIds, a \in Amounts, b \in Amounts}

\* Ids are interchangeable: the split lists are closed under renaming.
Interchangeable ==
    Permutations(DonationIds) \cup Permutations(AllocationIds)
    \cup Permutations(DaIds) \cup Permutations(ExpenseIds)

=============================================================================
