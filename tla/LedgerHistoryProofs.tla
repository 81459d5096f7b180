------------------------ MODULE LedgerHistoryProofs -------------------------
(***************************************************************************)
(* The history theorems: what was approved and published stays as it was,  *)
(* and corrections are added to it.                                        *)
(***************************************************************************)
EXTENDS LedgerProofs

-----------------------------------------------------------------------------
(* What one call does to one expense *)

SettledStates == VERIFIED_EXPENSE_STATES \cup CORRECTED_EXPENSE_STATES

\* What supersede_expense leaves behind: the old expense is marked, and its
\* replacement is untouched, imported but not approved, or approved with its
\* charges adding up and the corrections published.
LEMMA SupersedeOutcome ==
    ASSUME TypeOK, NEW e \in ExpenseIds, NEW r \in ExpenseIds,
           NEW amt \in Amounts, NEW s \in SplitChoices, NEW approver,
           supersede_expense(e, r, amt, s, approver)
    PROVE  /\ InState(e, VERIFIED_EXPENSE_STATES)
           /\ expenses'[e] = [amount |-> expenses[e].amount, state |-> "SUPERSEDED"]
           /\ \A h \in ExpenseIds \ {e, r} : expenses'[h] = expenses[h]
           /\ UNCHANGED <<donation_allocations, attributions>>
           /\ \/ /\ r # e => expenses'[r] = expenses[r]
                 /\ UNCHANGED <<expense_allocations, receipts, expense_receipts>>
              \/ /\ r # e /\ expenses[r] = None
                 /\ expenses'[r] \in Expense /\ expenses'[r].state \notin SettledStates
                 /\ \/ UNCHANGED expense_allocations
                    \/ expense_allocations' = Recharged(r, s, expense_allocations)
                 /\ UNCHANGED <<receipts, expense_receipts>>
              \/ /\ r # e /\ expenses[r] = None
                 /\ expenses'[r] \in Expense /\ expenses'[r].state = "APPROVED"
                 /\ expense_allocations' = Recharged(r, s, expense_allocations)
                 /\ SumAmounts(ChargesOf(r, expense_allocations')) = expenses'[r].amount
                 /\ PublishCorrections(e, "SUPERSEDE", expenses')
PROOF
  <1> DEFINE superseded == [expenses EXCEPT ![e].state = "SUPERSEDED"]
             imports    == r # e /\ superseded[r] = None /\ amt > 0
             imported   == [superseded EXCEPT
                              ![r] = [amount |-> amt, state |-> "IMPORTED"]]
             classified == Classified(r, imported)
             charged    == Recharged(r, s, expense_allocations)
             approved   == [classified EXCEPT ![r].state = "APPROVED"]
             ES == [ExpenseIds -> Expense \cup {None}]
             frame == UNCHANGED <<receipts, expense_receipts>>
  <1>1. /\ InState(e, VERIFIED_EXPENSE_STATES) /\ expenses[e] # None /\ expenses \in ES
        /\ UNCHANGED <<donation_allocations, attributions>>
    BY DEF supersede_expense, InState, Exists, TypeOK
  <1>2. /\ superseded \in ES
        /\ superseded[e] = [amount |-> expenses[e].amount, state |-> "SUPERSEDED"]
        /\ \A h \in ExpenseIds \ {e} : superseded[h] = expenses[h]
    <2>1. "SUPERSEDED" \in ExpenseStates
      BY DEF ExpenseStates
    <2>2. /\ superseded \in ES
          /\ superseded[e] = [amount |-> expenses[e].amount, state |-> "SUPERSEDED"]
      BY <1>1, <2>1, SetStateType, Zenon
    <2>3. \A h \in ExpenseIds \ {e} : superseded[h] = expenses[h]
      BY <1>1
    <2> QED
      BY <2>2, <2>3, Zenon
  <1>3. \/ expenses' = superseded /\ frame /\ UNCHANGED expense_allocations
        \/ imports /\ expenses' = imported /\ frame /\ UNCHANGED expense_allocations
        \/ imports /\ expenses' = classified /\ expense_allocations' = charged /\ frame
        \/ /\ imports /\ CanApprove(r, approver, classified, charged)
           /\ expenses' = approved /\ expense_allocations' = charged
           /\ PublishCorrections(e, "SUPERSEDE", approved)
    BY DEF supersede_expense
  <1>4. ASSUME imports
        PROVE  /\ imported \in ES
               /\ imported[r] = [amount |-> amt, state |-> "IMPORTED"]
               /\ \A h \in ExpenseIds \ {r} : imported[h] = superseded[h]
               /\ amt \in Positive
    BY <1>2, <1>4, AmountsAssumption DEF Expense, Positive, ExpenseStates
  <1>5. ASSUME imports PROVE r # e /\ expenses[r] = None
    BY <1>2, <1>5
  <1> HIDE DEF superseded, imports, imported
  <1>6. ASSUME imports
        PROVE  /\ classified \in ES
               /\ classified[r] = [amount |-> amt, state |-> "APPROVAL_PENDING"]
               /\ \A h \in ExpenseIds \ {r} : classified[h] = superseded[h]
    BY <1>4, <1>6 DEF Classified, UnclassifiedStates, Expense, ExpenseStates
  <1> HIDE DEF classified
  <1>7. ASSUME imports
        PROVE  /\ approved \in ES
               /\ approved[r] = [amount |-> amt, state |-> "APPROVED"]
               /\ \A h \in ExpenseIds \ {r} : approved[h] = superseded[h]
    BY <1>4, <1>6, <1>7 DEF Expense, ExpenseStates
  <1> HIDE DEF approved, charged
  <1>8. ASSUME imports, expenses' \in {imported, classified, approved}
        PROVE  /\ expenses'[e] = superseded[e]
               /\ \A h \in ExpenseIds \ {e, r} : expenses'[h] = expenses[h]
               /\ expenses'[r].amount = amt /\ expenses'[r] \in Expense
    <2>1. \A st \in ExpenseStates : [amount |-> amt, state |-> st] \in Expense
      BY <1>4, <1>8 DEF Expense
    <2>2. {"IMPORTED", "APPROVAL_PENDING", "APPROVED"} \subseteq ExpenseStates
      BY DEF ExpenseStates
    <2>3. \E st \in ExpenseStates : expenses'[r] = [amount |-> amt, state |-> st]
      BY <1>4, <1>6, <1>7, <1>8, <2>2
    <2> QED
      BY <1>2, <1>4, <1>5, <1>6, <1>7, <1>8, <2>1, <2>3
  <1>9. CASE expenses' = superseded /\ frame /\ UNCHANGED expense_allocations
    BY <1>1, <1>2, <1>9
  <1>10. CASE imports /\ expenses' = imported /\ frame /\ UNCHANGED expense_allocations
    <2>1. expenses'[r].state \notin SettledStates
      BY <1>4, <1>10 DEF SettledStates, VERIFIED_EXPENSE_STATES, CORRECTED_EXPENSE_STATES
    <2> QED
      BY <1>1, <1>2, <1>5, <1>8, <1>10, <2>1
  <1>11. CASE imports /\ expenses' = classified /\ expense_allocations' = charged /\ frame
    <2>1. expenses'[r].state \notin SettledStates
      BY <1>6, <1>11 DEF SettledStates, VERIFIED_EXPENSE_STATES, CORRECTED_EXPENSE_STATES
    <2> QED
      BY <1>1, <1>2, <1>5, <1>8, <1>11, <2>1 DEF charged
  <1>12. CASE /\ imports /\ CanApprove(r, approver, classified, charged)
              /\ expenses' = approved /\ expense_allocations' = charged
              /\ PublishCorrections(e, "SUPERSEDE", approved)
    <2>1. expenses'[r].state = "APPROVED"
      BY <1>7, <1>12
    <2>2. SumAmounts(ChargesOf(r, charged)) = classified[r].amount /\ classified[r].amount = amt
      <3>1. SumAmounts(ChargesOf(r, charged)) = classified[r].amount
        BY <1>12, Zenon DEF CanApprove
      <3>2. classified[r].amount = amt
        BY <1>6, <1>12
      <3> QED
        BY <3>1, <3>2
    <2>3. SumAmounts(ChargesOf(r, expense_allocations')) = expenses'[r].amount
      BY <1>8, <1>12, <2>2
    <2> QED
      BY <1>1, <1>2, <1>5, <1>8, <1>12, <2>1, <2>3 DEF charged
  <1> QED
    BY <1>3, <1>9, <1>10, <1>11, <1>12

\* Re-charging an expense leaves the charges of the others alone.
LEMMA RechargedOthers ==
    ASSUME NEW e, NEW h, h # e, NEW s, NEW eas
    PROVE  ChargesOf(h, Recharged(e, s, eas)) = ChargesOf(h, eas)
BY DEF ChargesOf, Recharged

\* What a step may do to one expense: it keeps its amount; once settled it
\* keeps its charges and moves only along the lines of a reconciliation or a
\* correction; a rejected one stays rejected; and it becomes settled only with
\* charges that add up to its amount.
ExpenseStep(e) ==
    /\ Exists(e) => expenses'[e] # None /\ expenses'[e].amount = expenses[e].amount
    /\ InState(e, SettledStates) =>
          /\ ChargesOf(e, expense_allocations') = ChargesOf(e, expense_allocations)
          /\ \/ expenses'[e].state = expenses[e].state
             \/ expenses'[e].state = "SUPERSEDED" /\ InState(e, VERIFIED_EXPENSE_STATES)
             \/ expenses'[e].state = "REVERSED" /\ reverse_expense(e)
             \/ expenses'[e].state = "RECONCILED" /\ InState(e, {"APPROVED"})
    /\ InState(e, {"REJECTED"}) => expenses'[e].state = "REJECTED"
    /\ ~InState(e, SettledStates) /\ expenses'[e] # None
       /\ expenses'[e].state \in SettledStates =>
          /\ expenses'[e].state = "APPROVED"
          /\ SumAmounts(ChargesOf(e, expense_allocations')) = expenses'[e].amount

\* An expense that a step leaves as it was.
LEMMA ExpenseUntouched ==
    ASSUME NEW e \in ExpenseIds, expenses'[e] = expenses[e],
           \/ ChargesOf(e, expense_allocations') = ChargesOf(e, expense_allocations)
           \/ ~InState(e, SettledStates)
    PROVE  ExpenseStep(e)
BY DEF ExpenseStep, Exists, InState

\* Re-classification, in either form.
LEMMA RechargeStep ==
    ASSUME TypeOK, NEW e \in ExpenseIds, NEW s, Rechargeable(e),
           expense_allocations' = Recharged(e, s, expense_allocations),
           expenses' = Classified(e, expenses), NEW h \in ExpenseIds
    PROVE  ExpenseStep(h)
PROOF
  <1>1. expenses[e] \in Expense /\ expenses[e] # None /\ expenses[e].state \notin SettledStates
    BY DEF Rechargeable, Exists, SettledStates, TypeOK
  <1>2. CASE h # e
    <2>1. expenses'[h] = expenses[h]
      BY <1>1, <1>2, ClassifiedFrame DEF TypeOK, SettledStates
    <2>2. ChargesOf(h, expense_allocations') = ChargesOf(h, expense_allocations)
      BY <1>2, RechargedOthers
    <2> QED
      BY <2>1, <2>2, ExpenseUntouched
  <1>3. CASE h = e /\ expenses[e].state \in UnclassifiedStates
    <2>1. expenses' = [expenses EXCEPT ![e].state = "APPROVAL_PENDING"]
      BY <1>3 DEF Classified
    <2>2. expenses'[e] = [amount |-> expenses[e].amount, state |-> "APPROVAL_PENDING"]
          /\ expenses'[e] \in Expense
      <3>1. "APPROVAL_PENDING" \in ExpenseStates /\ expenses \in [ExpenseIds -> Expense \cup {None}]
        BY DEF ExpenseStates, TypeOK
      <3> DEFINE classified == [expenses EXCEPT ![e].state = "APPROVAL_PENDING"]
      <3>2. classified[e] = [amount |-> expenses[e].amount, state |-> "APPROVAL_PENDING"]
            /\ classified[e] \in Expense
        BY <1>1, <3>1, SetStateType
      <3> QED
        BY <2>1, <3>2, Zenon
    <2>3. expenses'[e] # None
      BY <2>2, NoneIsNoRecord
    <2>4. expenses'[e].state \notin SettledStates /\ expenses[e].state # "REJECTED"
          /\ expenses'[e].amount = expenses[e].amount
      BY <1>3, <2>2 DEF SettledStates, VERIFIED_EXPENSE_STATES, CORRECTED_EXPENSE_STATES,
                        UnclassifiedStates
    <2> QED
      BY <1>1, <1>3, <2>3, <2>4 DEF ExpenseStep, InState, Exists
  <1>4. CASE h = e /\ expenses[e].state \notin UnclassifiedStates
    <2>1. expenses' = expenses
      BY <1>4 DEF Classified
    <2> QED
      BY <1>1, <1>4, <2>1, ExpenseUntouched DEF InState
  <1> QED
    BY <1>2, <1>3, <1>4

\* Every step is such a step for every expense.
LEMMA EveryExpenseStep ==
    ASSUME TypeOK, [Next]_vars, NEW h \in ExpenseIds
    PROVE  ExpenseStep(h)
PROOF
  <1>1. ASSUME UNCHANGED <<expenses, expense_allocations>>
        PROVE  ExpenseStep(h)
    BY <1>1, ExpenseUntouched
  \* Calls that set the state of one expense.
  <1>2. ASSUME NEW e \in ExpenseIds, NEW st \in ExpenseStates, Exists(e),
               expenses' = [expenses EXCEPT ![e].state = st],
               UNCHANGED expense_allocations
        PROVE  /\ h # e => ExpenseStep(h)
               /\ expenses'[e] # None /\ expenses'[e].amount = expenses[e].amount
               /\ expenses'[e].state = st
    <2>1. /\ expenses'[e] = [amount |-> expenses[e].amount, state |-> st]
          /\ expenses'[e] \in Expense
      BY <1>2, SetStateType DEF TypeOK, Exists
    <2>2. expenses'[e] # None
      BY <2>1, NoneIsNoRecord
    <2>3. ASSUME h # e PROVE ExpenseStep(h)
      <3>1. expenses'[h] = expenses[h]
        BY <1>2, <2>3 DEF TypeOK
      <3> QED
        BY <1>2, <3>1, ExpenseUntouched
    <2> QED
      BY <2>1, <2>2, <2>3
  <1>3. ASSUME NEW e \in ExpenseIds, NEW amt \in Amounts,
               NEW st \in {"DRAFT", "IMPORTED"}, import_expense(e, amt, st)
        PROVE  ExpenseStep(h)
    <2>1. /\ UNCHANGED expense_allocations /\ ~Exists(e)
          /\ expenses'[e] = [amount |-> amt, state |-> st]
          /\ \A x \in ExpenseIds \ {e} : expenses'[x] = expenses[x]
      BY <1>3 DEF import_expense, TypeOK
    <2>2. expenses'[e].state \notin SettledStates
      BY <2>1 DEF SettledStates, VERIFIED_EXPENSE_STATES, CORRECTED_EXPENSE_STATES
    <2>3. CASE h = e
      BY <2>1, <2>2, <2>3 DEF ExpenseStep, InState
    <2> QED
      BY <2>1, <2>3, ExpenseUntouched
  <1>4. ASSUME NEW e \in ExpenseIds, NEW f \in AllocationIds, NEW amt \in Amounts,
               allocate_expense(e, f, amt)
        PROVE  ExpenseStep(h)
    BY <1>4, RechargeStep DEF allocate_expense
  <1>5. ASSUME NEW e \in ExpenseIds, NEW s \in SplitChoices, allocate_expense_splits(e, s)
        PROVE  ExpenseStep(h)
    BY <1>5, RechargeStep DEF allocate_expense_splits
  <1>6. ASSUME NEW e \in ExpenseIds, NEW approver \in Approvers, approve_expense(e, approver)
        PROVE  ExpenseStep(h)
    <2>1. /\ Exists(e) /\ UNCHANGED expense_allocations
          /\ expenses' = [expenses EXCEPT ![e].state = "APPROVED"]
          /\ CanApprove(e, approver, expenses, expense_allocations)
      BY <1>6 DEF approve_expense
    <2>2. /\ h # e => ExpenseStep(h)
          /\ expenses'[e] # None /\ expenses'[e].amount = expenses[e].amount
          /\ expenses'[e].state = "APPROVED"
      BY <2>1, <1>2 DEF ExpenseStates
    <2>3. /\ SumAmounts(ChargesOf(e, expense_allocations)) = expenses[e].amount
          /\ expenses[e].state \in ApprovableStates
      BY <2>1, Zenon DEF CanApprove
    <2>4. ~InState(e, SettledStates) /\ ~InState(e, {"REJECTED"})
      BY <2>3 DEF InState, SettledStates, ApprovableStates, VERIFIED_EXPENSE_STATES,
                  CORRECTED_EXPENSE_STATES
    <2> QED
      BY <2>1, <2>2, <2>3, <2>4 DEF ExpenseStep
  <1>7. ASSUME NEW e \in ExpenseIds, reconcile_expense(e)
        PROVE  ExpenseStep(h)
    <2>1. /\ Exists(e) /\ UNCHANGED expense_allocations /\ InState(e, {"APPROVED"})
          /\ expenses' = [expenses EXCEPT ![e].state = "RECONCILED"]
      BY <1>7 DEF reconcile_expense, InState
    <2>2. /\ h # e => ExpenseStep(h)
          /\ expenses'[e] # None /\ expenses'[e].amount = expenses[e].amount
          /\ expenses'[e].state = "RECONCILED"
      BY <2>1, <1>2 DEF ExpenseStates
    <2>3. InState(e, SettledStates) /\ ~InState(e, {"REJECTED"})
      BY <2>1 DEF InState, SettledStates, VERIFIED_EXPENSE_STATES
    <2> QED
      BY <2>1, <2>2, <2>3 DEF ExpenseStep
  <1>8. ASSUME NEW e \in ExpenseIds, reverse_expense(e)
        PROVE  ExpenseStep(h)
    <2>1. /\ Exists(e) /\ UNCHANGED expense_allocations /\ InState(e, VERIFIED_EXPENSE_STATES)
          /\ expenses' = [expenses EXCEPT ![e].state = "REVERSED"]
      BY <1>8 DEF reverse_expense, InState
    <2>2. /\ h # e => ExpenseStep(h)
          /\ expenses'[e] # None /\ expenses'[e].amount = expenses[e].amount
          /\ expenses'[e].state = "REVERSED"
      BY <2>1, <1>2 DEF ExpenseStates
    <2>3. InState(e, SettledStates) /\ ~InState(e, {"REJECTED"})
      BY <2>1 DEF InState, SettledStates, VERIFIED_EXPENSE_STATES
    <2> QED
      BY <1>8, <2>1, <2>2, <2>3 DEF ExpenseStep
  <1>9. ASSUME NEW e \in ExpenseIds, NEW r \in ExpenseIds, NEW amt \in Amounts,
               NEW s \in SplitChoices, NEW approver \in Approvers,
               supersede_expense(e, r, amt, s, approver)
        PROVE  ExpenseStep(h)
    <2> DEFINE charged == Recharged(r, s, expense_allocations)
    <2>1. /\ InState(e, VERIFIED_EXPENSE_STATES)
          /\ expenses'[e] = [amount |-> expenses[e].amount, state |-> "SUPERSEDED"]
          /\ \A x \in ExpenseIds \ {e, r} : expenses'[x] = expenses[x]
          /\ \/ expense_allocations' = expense_allocations
             \/ expense_allocations' = charged /\ r # e
          /\ \/ r # e => expenses'[r] = expenses[r] /\ UNCHANGED expense_allocations
             \/ /\ r # e /\ expenses[r] = None
                /\ \/ expenses'[r].state \notin SettledStates
                   \/ /\ expenses'[r].state = "APPROVED"
                      /\ SumAmounts(ChargesOf(r, expense_allocations')) = expenses'[r].amount
      BY <1>9, SupersedeOutcome, Zenon
    <2>2. ASSUME h # r
          PROVE  ChargesOf(h, expense_allocations') = ChargesOf(h, expense_allocations)
      BY <2>1, <2>2, RechargedOthers
    <2>3. CASE h # e /\ h # r
      BY <2>1, <2>2, <2>3, ExpenseUntouched
    <2>4. CASE h = e
      <3>1. ChargesOf(e, expense_allocations') = ChargesOf(e, expense_allocations)
        BY <2>1, <2>2, <2>4
      <3>2. expenses'[e].amount = expenses[e].amount /\ expenses'[e].state = "SUPERSEDED"
            /\ expenses[e] \in Expense
        BY <2>1 DEF InState, Exists, TypeOK
      <3>3. expenses'[e] # None
        <4>1. expenses'[e] \in Expense
          BY <2>1, <3>2 DEF Expense, ExpenseStates
        <4> QED
          BY <4>1, NoneIsNoRecord
      <3>4. InState(e, SettledStates) /\ ~InState(e, {"REJECTED"})
        BY <2>1 DEF InState, SettledStates, VERIFIED_EXPENSE_STATES
      <3> QED
        BY <2>1, <2>4, <3>1, <3>2, <3>3, <3>4 DEF ExpenseStep, CORRECTED_EXPENSE_STATES
    <2>5. CASE h = r /\ r # e
      <3>1. CASE expenses'[r] = expenses[r] /\ UNCHANGED expense_allocations
        BY <2>5, <3>1, ExpenseUntouched
      <3>2. CASE /\ r # e /\ expenses[r] = None
                 /\ \/ expenses'[r].state \notin SettledStates
                    \/ /\ expenses'[r].state = "APPROVED"
                       /\ SumAmounts(ChargesOf(r, expense_allocations')) = expenses'[r].amount
        BY <2>5, <3>2 DEF ExpenseStep, InState, Exists
      <3> QED
        BY <2>1, <2>5, <3>1, <3>2
    <2> QED
      BY <2>3, <2>4, <2>5
  <1> QED
    BY <1>1, <1>3, <1>4, <1>5, <1>6, <1>7, <1>8, <1>9
       DEF Next, vars, register_donor, import_donation, register_allocation,
           assign_donation_allocation, attribute_donor_to_expense,
           publish_use_of_funds_receipt

\* Financial state is append-only after approval: the amount and the charges of
\* an approved expense never change again and it only moves on to RECONCILED or
\* to a correction, for any number of expenses and funds and whatever calls are
\* made, the ones that raise half way through supersede_expense included.
THEOREM ApprovedFactsFrozenHolds == Spec => ApprovedFactsFrozen
PROOF
  <1> DEFINE P == \A e \in ExpenseIds :
        InState(e, VERIFIED_EXPENSE_STATES \cup CORRECTED_EXPENSE_STATES) =>
            /\ expenses'[e].amount = expenses[e].amount
            /\ ChargesOf(e, expense_allocations') = ChargesOf(e, expense_allocations)
            /\ expenses'[e].state # expenses[e].state =>
                  \/ expenses'[e].state \in CORRECTED_EXPENSE_STATES
                     /\ InState(e, VERIFIED_EXPENSE_STATES)
                  \/ expenses'[e].state = "RECONCILED" /\ InState(e, {"APPROVED"})
  <1>1. TypeOK /\ [Next]_vars => P
    <2> SUFFICES ASSUME TypeOK, [Next]_vars, NEW e \in ExpenseIds, ExpenseStep(e),
                        InState(e, SettledStates)
                 PROVE  /\ expenses'[e].amount = expenses[e].amount
                        /\ ChargesOf(e, expense_allocations') = ChargesOf(e, expense_allocations)
                        /\ expenses'[e].state # expenses[e].state =>
                             \/ expenses'[e].state \in CORRECTED_EXPENSE_STATES
                                /\ InState(e, VERIFIED_EXPENSE_STATES)
                             \/ expenses'[e].state = "RECONCILED" /\ InState(e, {"APPROVED"})
      BY EveryExpenseStep DEF SettledStates
    <2>1. Exists(e)
      BY DEF InState
    <2>2. reverse_expense(e) => InState(e, VERIFIED_EXPENSE_STATES)
      BY DEF reverse_expense
    <2> QED
      BY <2>1, <2>2 DEF ExpenseStep, CORRECTED_EXPENSE_STATES
  <1>2. TypeOK /\ [Next]_vars => [P]_vars
    BY <1>1
  <1> QED
    BY <1>2, TypeCorrect, PTL DEF Spec, ApprovedFactsFrozen

\* An approved expense is charged to funds for exactly its amount, and stays so
\* after it is reconciled, reversed or superseded, for every constant.
THEOREM FullyCharged == Spec => []ApprovedExpenseFullyCharged
PROOF
  <1>1. Init => ApprovedExpenseFullyCharged
    BY DEF Init, ApprovedExpenseFullyCharged, InState, Exists
  <1>2. TypeOK /\ ApprovedExpenseFullyCharged /\ [Next]_vars => ApprovedExpenseFullyCharged'
    <2> SUFFICES ASSUME TypeOK, ApprovedExpenseFullyCharged, [Next]_vars,
                        NEW e \in ExpenseIds, expenses'[e] # None,
                        expenses'[e].state \in SettledStates
                 PROVE  SumAmounts(ChargesOf(e, expense_allocations')) = expenses'[e].amount
      BY DEF ApprovedExpenseFullyCharged, InState, Exists, SettledStates, ChargesOf
    <2>1. ExpenseStep(e)
      BY EveryExpenseStep
    <2>2. CASE InState(e, SettledStates)
      <3>1. SumAmounts(ChargesOf(e, expense_allocations)) = expenses[e].amount
        BY <2>2 DEF ApprovedExpenseFullyCharged, SettledStates
      <3>2. ChargesOf(e, expense_allocations') = ChargesOf(e, expense_allocations)
            /\ expenses'[e].amount = expenses[e].amount
        BY <2>1, <2>2 DEF ExpenseStep, InState
      <3> QED
        BY <3>1, <3>2
    <2>3. CASE ~InState(e, SettledStates)
      BY <2>1, <2>3 DEF ExpenseStep
    <2> QED
      BY <2>2, <2>3
  <1> QED
    BY <1>1, <1>2, TypeCorrect, PTL DEF Spec

-----------------------------------------------------------------------------
(* Receipts *)

\* A step that publishes corrections for e, in the way both callers of
\* _publish_correction_receipt do.
Corrects(e, kind) ==
    /\ InState(e, VERIFIED_EXPENSE_STATES)
    /\ PublishCorrections(e, kind, expenses')
    /\ expenses'[e] # None
    /\ expenses'[e].state = IF kind = "REVERSAL" THEN "REVERSED" ELSE "SUPERSEDED"
    /\ \A h \in ExpenseIds \ {e} : Exists(h) => expenses'[h] = expenses[h]

\* What a step may do to the receipts: nothing, one published, or the
\* corrections of one expense.
LEMMA ReceiptCases ==
    ASSUME TypeOK, [Next]_vars
    PROVE  \/ /\ UNCHANGED <<receipts, expense_receipts>>
              /\ ~ \E e \in ExpenseIds : reverse_expense(e)
           \/ \E e \in ExpenseIds, g \in DonationIds, f \in AllocationIds :
                 publish_use_of_funds_receipt(e, g, f)
           \/ \E e \in ExpenseIds, kind \in {"REVERSAL", "SUPERSEDE"} : Corrects(e, kind)
PROOF
  <1>1. ASSUME NEW e \in ExpenseIds, reverse_expense(e)
        PROVE  Corrects(e, "REVERSAL")
    <2> DEFINE reversed == [expenses EXCEPT ![e].state = "REVERSED"]
    <2>1. /\ expenses' = reversed /\ PublishCorrections(e, "REVERSAL", reversed)
          /\ expenses[e] # None /\ InState(e, VERIFIED_EXPENSE_STATES)
      BY <1>1 DEF reverse_expense, InState, Exists
    <2>2. reversed[e] = [amount |-> expenses[e].amount, state |-> "REVERSED"]
          /\ reversed[e] \in Expense
      BY <2>1, SetStateType DEF TypeOK, ExpenseStates
    <2>3. \A h \in ExpenseIds \ {e} : reversed[h] = expenses[h]
      BY DEF TypeOK
    <2> HIDE DEF reversed
    <2>4. reversed[e] # None /\ reversed[e].state = "REVERSED"
      BY <2>2, NoneIsNoRecord
    <2> QED
      BY <2>1, <2>3, <2>4 DEF Corrects
  <1>2. ASSUME NEW e \in ExpenseIds, NEW r \in ExpenseIds, NEW amt \in Amounts,
               NEW s \in SplitChoices, NEW approver \in Approvers,
               supersede_expense(e, r, amt, s, approver)
        PROVE  UNCHANGED <<receipts, expense_receipts>> \/ Corrects(e, "SUPERSEDE")
    <2>1. /\ InState(e, VERIFIED_EXPENSE_STATES)
          /\ expenses'[e] = [amount |-> expenses[e].amount, state |-> "SUPERSEDED"]
          /\ \A h \in ExpenseIds \ {e, r} : expenses'[h] = expenses[h]
          /\ \/ UNCHANGED <<receipts, expense_receipts>>
             \/ expenses[r] = None /\ PublishCorrections(e, "SUPERSEDE", expenses')
      BY <1>2, SupersedeOutcome, Zenon
    <2>2. expenses'[e].state = "SUPERSEDED" /\ expenses'[e] # None
      <3>1. expenses'[e] \in Expense
        BY <2>1 DEF TypeOK, InState, Exists, Expense, ExpenseStates
      <3> QED
        BY <2>1, <3>1, NoneIsNoRecord
    <2> QED
      BY <2>1, <2>2 DEF Corrects, Exists
  <1>3. CASE \E e \in ExpenseIds : reverse_expense(e)
    BY <1>1, <1>3
  <1>4. CASE \E e, r \in ExpenseIds, amt \in Amounts, s \in SplitChoices,
                approver \in Approvers : supersede_expense(e, r, amt, s, approver)
    BY <1>2, <1>3, <1>4
  <1> QED
    BY <1>3, <1>4
       DEF Next, vars, register_donor, import_donation, register_allocation,
           assign_donation_allocation, import_expense, allocate_expense,
           allocate_expense_splits, approve_expense, reconcile_expense,
           attribute_donor_to_expense

\* What a correction rc of the receipt at position i says.
IsCorrection(rc, e, i, kind) ==
    /\ i \in DOMAIN receipts /\ receipts[i].expense = e
    /\ SameTriple(rc, receipts[i].donation, e, receipts[i].allocation)
    /\ rc.corrects = i /\ rc.kind = kind
    /\ kind = "REVERSAL" => rc.attributed_amount = 0

\* The m receipts are followed by a correction of each of the n receipts of e.
Corrected(e, kind, m, n) ==
    /\ DOMAIN receipts = 1..m /\ DOMAIN expense_receipts[e] = 1..n
    /\ DOMAIN receipts' = 1..(m + n)
    /\ \A i \in 1..m : receipts'[i] = receipts[i]
    /\ \A k \in 1..n : IsCorrection(receipts'[m + k], e, expense_receipts[e][k], kind)
    /\ \A i \in 1..(m + n) : i \in 1..m \/ \E k \in 1..n : i = m + k

\* The receipts and the positions of the receipts of e, after its corrections.
LEMMA CorrectsAppends ==
    ASSUME TypeOK, ReceiptIndex, NEW e \in ExpenseIds,
           NEW kind \in {"REVERSAL", "SUPERSEDE"}, Corrects(e, kind)
    PROVE  \E m, n \in Nat : /\ Corrected(e, kind, m, n)
                             /\ Len(receipts) = m /\ Len(receipts') = m + n
PROOF
  <1> DEFINE m == Len(receipts)
             n == Len(expense_receipts[e])
  <1>1. expenses'[e].state \in CORRECTED_EXPENSE_STATES /\ PublishCorrections(e, kind, expenses')
    BY DEF Corrects, CORRECTED_EXPENSE_STATES
  <1>2. /\ receipts' \in Seq(UseOfFundsReceipt)
        /\ Len(receipts') = m + n
        /\ \A i \in 1..m : receipts'[i] = receipts[i]
        /\ \A k \in 1..n :
              receipts'[m + k] = CorrectionReceipt(e, expense_receipts[e][k], kind, expenses')
    BY <1>1, CorrectionsAppended
  <1>3. /\ m \in Nat /\ n \in Nat /\ DOMAIN receipts = 1..m
        /\ DOMAIN expense_receipts[e] = 1..n /\ DOMAIN receipts' = 1..(m + n)
    BY <1>2, LenProperties DEF TypeOK
  <1>4. ASSUME NEW i \in 1..(m + n), i \notin 1..m
        PROVE  \E k \in 1..n : i = m + k
    <2>1. i - m \in 1..n /\ i = m + (i - m)
      BY <1>3, <1>4
    <2> QED
      BY <2>1
  <1>5. ASSUME NEW k \in 1..n
        PROVE  IsCorrection(receipts'[m + k], e, expense_receipts[e][k], kind)
    <2> DEFINE i == expense_receipts[e][k]
    <2>1. receipts'[m + k] = CorrectionReceipt(e, i, kind, expenses')
      BY <1>2
    <2>2. i \in DOMAIN receipts /\ receipts[i].expense = e
      BY <1>3 DEF ReceiptIndex
    <2> HIDE DEF i
    <2>3. LET rc == CorrectionReceipt(e, i, kind, expenses')
          IN  /\ SameTriple(rc, receipts[i].donation, e, receipts[i].allocation)
              /\ rc.corrects = i /\ rc.kind = kind
              /\ kind = "REVERSAL" => rc.attributed_amount = 0
      BY DEF CorrectionReceipt, SameTriple
    <2> QED
      BY <2>1, <2>2, <2>3 DEF IsCorrection, i
  <1>6. Len(receipts) = m /\ Len(receipts') = m + n
    BY <1>2
  <1> HIDE DEF m, n
  <1>7. Corrected(e, kind, m, n)
    BY <1>2, <1>3, <1>4, <1>5 DEF Corrected
  <1> QED
    BY <1>3, <1>6, <1>7

\* Publishing appends one receipt.
LEMMA PublishAppends ==
    ASSUME TypeOK, NEW e \in ExpenseIds, NEW g \in DonationIds, NEW f \in AllocationIds,
           publish_use_of_funds_receipt(e, g, f)
    PROVE  \E m \in Nat :
              /\ DOMAIN receipts = 1..m /\ DOMAIN receipts' = 1..(m + 1)
              /\ \A i \in 1..m : receipts'[i] = receipts[i]
              /\ SameTriple(receipts'[m + 1], g, e, f) /\ receipts'[m + 1].corrects = 0
              /\ \A i \in 1..(m + 1) : i \in 1..m \/ i = m + 1
              /\ Len(receipts) = m /\ Len(receipts') = m + 1
PROOF
  <1> DEFINE m == Len(receipts)
  <1>1. PICK rc \in UseOfFundsReceipt :
              /\ rc.donation = g /\ rc.expense = e /\ rc.allocation = f /\ rc.corrects = 0
              /\ receipts' = Append(receipts, rc)
              /\ receipts' \in Seq(UseOfFundsReceipt)
    BY PublishedReceipt
  <1>2. receipts \in Seq(UseOfFundsReceipt) /\ m \in Nat /\ DOMAIN receipts = 1..m
    BY LenProperties DEF TypeOK
  <1>3. /\ DOMAIN receipts' = 1..(m + 1) /\ receipts'[m + 1] = rc
        /\ Len(receipts') = m + 1
        /\ \A i \in 1..m : receipts'[i] = receipts[i]
    BY <1>1, <1>2
  <1>4. \A i \in 1..(m + 1) : i \in 1..m \/ i = m + 1
    BY <1>2
  <1> HIDE DEF m
  <1> QED
    BY <1>1, <1>2, <1>3, <1>4 DEF SameTriple, m

\* Receipts are immutable: no step rewrites or withdraws a published receipt,
\* whatever is corrected or superseded later, for every constant.
THEOREM ReceiptsAppendOnlyHolds == Spec => ReceiptsAppendOnly
PROOF
  <1> DEFINE P == /\ Len(receipts) <= Len(receipts')
                  /\ \A i \in DOMAIN receipts : receipts'[i] = receipts[i]
  <1>1. TypeOK /\ ReceiptIndex /\ [Next]_vars => P
    <2> SUFFICES ASSUME TypeOK, ReceiptIndex, [Next]_vars PROVE P
      OBVIOUS
    <2>1. CASE UNCHANGED receipts
      <3>1. Len(receipts) \in Nat
        BY LenProperties DEF TypeOK
      <3> QED
        BY <2>1, <3>1
    <2>2. CASE \E e \in ExpenseIds, g \in DonationIds, f \in AllocationIds :
                  publish_use_of_funds_receipt(e, g, f)
      <3>1. PICK m \in Nat : /\ DOMAIN receipts = 1..m
                             /\ \A i \in 1..m : receipts'[i] = receipts[i]
                             /\ Len(receipts) = m /\ Len(receipts') = m + 1
        BY <2>2, PublishAppends
      <3> QED
        BY <3>1
    <2>3. CASE \E e \in ExpenseIds, kind \in {"REVERSAL", "SUPERSEDE"} : Corrects(e, kind)
      <3>1. PICK m \in Nat, n \in Nat : /\ DOMAIN receipts = 1..m
                                        /\ \A i \in 1..m : receipts'[i] = receipts[i]
                                        /\ Len(receipts) = m /\ Len(receipts') = m + n
        BY <2>3, CorrectsAppends DEF Corrected
      <3> QED
        BY <3>1
    <2> QED
      BY <2>1, <2>2, <2>3, ReceiptCases
  <1>2. TypeOK /\ ReceiptIndex /\ [Next]_vars => [P]_vars
    BY <1>1
  <1> QED
    BY <1>2, IndexCorrect, TypeCorrect, PTL DEF Spec, ReceiptsAppendOnly

\* The receipts of an expense that still counts are all published ones, and
\* every receipt belongs to an expense that was approved.
ReceiptsOfSettled ==
    \A i \in DOMAIN receipts :
        /\ receipts[i].expense \in ExpenseIds
        /\ InState(receipts[i].expense, SettledStates)
        /\ InState(receipts[i].expense, VERIFIED_EXPENSE_STATES) => receipts[i].corrects = 0

\* Both parts of the lineage: what corrections name, and how a reversed
\* expense's receipts are corrected.
CorrectionsNameOriginals ==
    \A j \in DOMAIN receipts \ Originals :
        /\ receipts[j].corrects \in Originals
        /\ receipts[j].corrects < j
        /\ SameTriple(receipts[j], receipts[receipts[j].corrects].donation,
                      receipts[receipts[j].corrects].expense,
                      receipts[receipts[j].corrects].allocation)

ReversedCorrectedOnce ==
    \A i \in Originals :
        expenses[receipts[i].expense].state = "REVERSED" =>
            \E j \in DOMAIN receipts :
                /\ receipts[j].corrects = i
                /\ \A x \in DOMAIN receipts : receipts[x].corrects = i => x = j
                /\ receipts[j].kind = "REVERSAL"
                /\ receipts[j].attributed_amount = 0

LineageInv ==
    ReceiptsOfSettled /\ CorrectionsNameOriginals /\ ReversedCorrectedOnce

\* The inductive form says what the property says.
LEMMA LineageImplies ==
    ASSUME TypeOK, LineageInv
    PROVE  CorrectionLineage
PROOF
  <1>0. \A i \in DOMAIN receipts : i # 0
    BY LenProperties DEF TypeOK
  <1>1. ASSUME NEW i \in Originals
        PROVE  expenses[receipts[i].expense] # None
    BY DEF LineageInv, ReceiptsOfSettled, InState, Exists, Originals
  <1>2. ASSUME NEW i \in Originals,
               expenses[receipts[i].expense].state = "REVERSED"
        PROVE  \E j \in DOMAIN receipts :
                    /\ CorrectionsOf(i) = {j}
                    /\ receipts[j].kind = "REVERSAL"
                    /\ receipts[j].attributed_amount = 0
    BY <1>2 DEF LineageInv, ReversedCorrectedOnce, CorrectionsOf
  <1>3. ASSUME NEW i \in Originals,
               expenses[receipts[i].expense].state \in VERIFIED_EXPENSE_STATES
        PROVE  CorrectionsOf(i) = {}
    <2> SUFFICES ASSUME NEW j \in DOMAIN receipts, receipts[j].corrects = i PROVE FALSE
      BY DEF CorrectionsOf
    <2>1. i # 0
      BY <1>0 DEF Originals
    <2>2. receipts[j].expense = receipts[i].expense
      BY <2>1 DEF LineageInv, CorrectionsNameOriginals, Originals, SameTriple
    <2>3. InState(receipts[j].expense, VERIFIED_EXPENSE_STATES)
      BY <1>1, <1>3, <2>2 DEF InState, Exists
    <2> QED
      BY <2>1, <2>3 DEF LineageInv, ReceiptsOfSettled
  <1>4. \A j \in DOMAIN receipts \ Originals :
          /\ receipts[j].corrects \in Originals
          /\ receipts[j].corrects < j
          /\ SameTriple(receipts[j], receipts[receipts[j].corrects].donation,
                        receipts[receipts[j].corrects].expense,
                        receipts[receipts[j].corrects].allocation)
    BY DEF LineageInv, CorrectionsNameOriginals
  <1> QED
    BY <1>1, <1>2, <1>3, <1>4 DEF CorrectionLineage

\* While no receipt is added and nothing is reversed, the lineage stays.
LEMMA LineageUnchanged ==
    ASSUME TypeOK, LineageInv, UNCHANGED receipts,
           \A e \in ExpenseIds : ExpenseStep(e),
           ~ \E e \in ExpenseIds : reverse_expense(e)
    PROVE  LineageInv'
PROOF
  <1>1. ASSUME NEW e \in ExpenseIds, InState(e, SettledStates)
        PROVE  /\ expenses'[e] # None /\ expenses'[e].state \in SettledStates
               /\ expenses'[e].state \in VERIFIED_EXPENSE_STATES =>
                     InState(e, VERIFIED_EXPENSE_STATES)
               /\ expenses'[e].state = "REVERSED" => expenses[e].state = "REVERSED"
    <2>1. ExpenseStep(e) /\ Exists(e) /\ ~reverse_expense(e)
      BY <1>1 DEF InState
    <2>2. expenses[e].state \in SettledStates
      BY <1>1 DEF InState
    <2>3. CASE expenses'[e].state = expenses[e].state
      BY <2>1, <2>2, <2>3 DEF ExpenseStep, InState
    <2>4. CASE expenses'[e].state = "SUPERSEDED"
      BY <2>1, <2>4 DEF ExpenseStep, SettledStates, CORRECTED_EXPENSE_STATES,
                        VERIFIED_EXPENSE_STATES
    <2>5. CASE expenses'[e].state = "RECONCILED" /\ InState(e, {"APPROVED"})
      BY <2>1, <2>5 DEF ExpenseStep, SettledStates, VERIFIED_EXPENSE_STATES, InState
    <2> QED
      BY <1>1, <2>1, <2>3, <2>4, <2>5 DEF ExpenseStep
  <1>2. \A i \in DOMAIN receipts :
           receipts[i].expense \in ExpenseIds /\ InState(receipts[i].expense, SettledStates)
    BY DEF LineageInv, ReceiptsOfSettled
  <1>3. ReceiptsOfSettled'
    BY <1>1, <1>2 DEF LineageInv, ReceiptsOfSettled, InState, Exists
  <1>4. CorrectionsNameOriginals'
    BY DEF LineageInv, CorrectionsNameOriginals, Originals, SameTriple
  <1>5. ReversedCorrectedOnce'
    BY <1>1, <1>2 DEF LineageInv, ReversedCorrectedOnce, Originals
  <1> QED
    BY <1>3, <1>4, <1>5 DEF LineageInv

\* A published receipt is an uncorrected one of an approved expense.
LEMMA LineagePublish ==
    ASSUME TypeOK, LineageInv, NEW e \in ExpenseIds, NEW g \in DonationIds,
           NEW f \in AllocationIds, publish_use_of_funds_receipt(e, g, f)
    PROVE  LineageInv'
PROOF
  <1>1. PICK m \in Nat :
              /\ DOMAIN receipts = 1..m /\ DOMAIN receipts' = 1..(m + 1)
              /\ \A i \in 1..m : receipts'[i] = receipts[i]
              /\ SameTriple(receipts'[m + 1], g, e, f) /\ receipts'[m + 1].corrects = 0
              /\ \A i \in 1..(m + 1) : i \in 1..m \/ i = m + 1
    BY PublishAppends
  <1>2. expenses' = expenses /\ InState(e, VERIFIED_EXPENSE_STATES)
    BY DEF publish_use_of_funds_receipt
  <1>3. \A i \in 1..m : i \in 1..(m + 1) /\ i # m + 1 /\ i # 0
    BY <1>1
  <1>4. \A h : InState(h, SettledStates)' = InState(h, SettledStates)
               /\ InState(h, VERIFIED_EXPENSE_STATES)' = InState(h, VERIFIED_EXPENSE_STATES)
    BY <1>2 DEF InState, Exists
  <1>5. InState(e, SettledStates)
    BY <1>2 DEF InState, SettledStates
  <1>6. ReceiptsOfSettled'
    BY <1>1, <1>4, <1>5 DEF LineageInv, ReceiptsOfSettled, SameTriple
  <1>7. \A i : i \in Originals' <=> i \in Originals \/ i = m + 1
    BY <1>1, <1>3 DEF Originals
  <1>8. CorrectionsNameOriginals'
    <2> SUFFICES ASSUME NEW j \in (DOMAIN receipts \ Originals)'
                 PROVE  /\ receipts'[j].corrects \in Originals'
                        /\ receipts'[j].corrects < j
                        /\ SameTriple(receipts'[j], receipts'[receipts'[j].corrects].donation,
                                      receipts'[receipts'[j].corrects].expense,
                                      receipts'[receipts'[j].corrects].allocation)
      BY DEF CorrectionsNameOriginals, SameTriple
    <2>1. j \in DOMAIN receipts \ Originals /\ receipts'[j] = receipts[j]
      BY <1>1, <1>7
    <2>2. /\ receipts[j].corrects \in Originals /\ receipts[j].corrects < j
          /\ SameTriple(receipts[j], receipts[receipts[j].corrects].donation,
                      receipts[receipts[j].corrects].expense,
                      receipts[receipts[j].corrects].allocation)
      BY <2>1 DEF LineageInv, CorrectionsNameOriginals
    <2>3. receipts'[receipts[j].corrects] = receipts[receipts[j].corrects]
      BY <1>1, <2>2 DEF Originals
    <2> QED
      BY <1>7, <2>1, <2>2, <2>3
  <1>9. ReversedCorrectedOnce'
    <2> SUFFICES ASSUME NEW i \in Originals', expenses[receipts'[i].expense].state = "REVERSED"
                 PROVE  \E j \in DOMAIN receipts' :
                            /\ receipts'[j].corrects = i
                            /\ \A x \in DOMAIN receipts' : receipts'[x].corrects = i => x = j
                            /\ receipts'[j].kind = "REVERSAL"
                            /\ receipts'[j].attributed_amount = 0
      BY <1>2 DEF ReversedCorrectedOnce
    <2>1. i # m + 1
      BY <1>1, <1>2 DEF SameTriple, InState, VERIFIED_EXPENSE_STATES
    <2>2. i \in Originals /\ receipts'[i] = receipts[i] /\ i # 0
      BY <1>1, <1>3, <1>7, <2>1 DEF Originals
    <2>3. PICK j \in DOMAIN receipts :
                /\ receipts[j].corrects = i
                /\ \A x \in DOMAIN receipts : receipts[x].corrects = i => x = j
                /\ receipts[j].kind = "REVERSAL"
                /\ receipts[j].attributed_amount = 0
      BY <2>2 DEF LineageInv, ReversedCorrectedOnce
    <2> QED
      BY <1>1, <1>3, <2>2, <2>3
  <1> QED
    BY <1>6, <1>8, <1>9 DEF LineageInv

\* The corrections of an expense name each of its receipts once.
LEMMA LineageCorrects ==
    ASSUME TypeOK, ReceiptIndex, LineageInv, NEW e \in ExpenseIds,
           NEW kind \in {"REVERSAL", "SUPERSEDE"}, Corrects(e, kind)
    PROVE  LineageInv'
PROOF
  <1> DEFINE idx == expense_receipts[e]
  <1>0. PICK m \in Nat, n \in Nat : Corrected(e, kind, m, n)
    BY CorrectsAppends
  <1>1. /\ DOMAIN receipts = 1..m /\ DOMAIN idx = 1..n
        /\ DOMAIN receipts' = 1..(m + n)
        /\ \A i \in 1..m : receipts'[i] = receipts[i]
        /\ \A k \in 1..n : IsCorrection(receipts'[m + k], e, idx[k], kind)
        /\ \A i \in 1..(m + n) : i \in 1..m \/ \E k \in 1..n : i = m + k
    BY <1>0 DEF Corrected
  <1>2. /\ InState(e, VERIFIED_EXPENSE_STATES)
        /\ expenses'[e] # None
        /\ expenses'[e].state = IF kind = "REVERSAL" THEN "REVERSED" ELSE "SUPERSEDED"
        /\ \A h \in ExpenseIds \ {e} : Exists(h) => expenses'[h] = expenses[h]
    BY DEF Corrects
  <1>3. /\ expenses'[e].state \in SettledStates
        /\ expenses'[e].state \notin VERIFIED_EXPENSE_STATES
    BY <1>2 DEF SettledStates, CORRECTED_EXPENSE_STATES, VERIFIED_EXPENSE_STATES
  <1>4. \A i \in 1..m : i \in 1..(m + n) /\ i # 0
    BY <1>1
  <1>5. \A k \in 1..n : /\ m + k \in 1..(m + n) /\ m + k \notin 1..m
                        /\ \A i \in 1..m : i < m + k
                        /\ \A q \in 1..n : m + k = m + q => k = q
    BY <1>1
  <1>6. ASSUME NEW k \in 1..n
        PROVE  /\ idx[k] \in 1..m /\ receipts[idx[k]].expense = e
               /\ receipts[idx[k]].corrects = 0
    <2>1. idx[k] \in 1..m /\ receipts[idx[k]].expense = e
      BY <1>1 DEF ReceiptIndex
    <2> QED
      BY <1>1, <1>2, <2>1 DEF LineageInv, ReceiptsOfSettled
  <1>7. ASSUME NEW k \in 1..n
        PROVE  /\ receipts'[m + k].expense = e
               /\ receipts'[m + k].corrects = idx[k]
               /\ receipts'[m + k].corrects # 0
               /\ receipts'[m + k].donation = receipts[idx[k]].donation
               /\ receipts'[m + k].allocation = receipts[idx[k]].allocation
               /\ receipts'[m + k].kind = kind
               /\ kind = "REVERSAL" => receipts'[m + k].attributed_amount = 0
    <2> HIDE DEF idx
    <2>1. IsCorrection(receipts'[m + k], e, idx[k], kind) /\ idx[k] # 0
      BY <1>1, <1>4, <1>6
    <2> QED
      BY <2>1 DEF IsCorrection, SameTriple
  <1>8. \A i \in 1..m : receipts[i].expense \in ExpenseIds
                       /\ InState(receipts[i].expense, SettledStates)
    BY <1>1 DEF LineageInv, ReceiptsOfSettled
  <1>9. ASSUME NEW i \in 1..m, receipts[i].expense = e
        PROVE  \E k \in 1..n : idx[k] = i
    BY <1>1, <1>9 DEF ReceiptIndex
  <1>10. \A k, q \in 1..n : idx[k] = idx[q] => k = q
    BY <1>1 DEF ReceiptIndex
  <1> HIDE DEF idx
  <1>11. \A i : i \in Originals' <=> i \in Originals
    <2>1. ASSUME NEW i \in Originals'
          PROVE  i \in Originals
      <3>1. i \in 1..(m + n) /\ receipts'[i].corrects = 0
        BY <1>1 DEF Originals
      <3>2. i \in 1..m
        BY <1>1, <1>7, <3>1
      <3> QED
        BY <1>1, <3>1, <3>2 DEF Originals
    <2>2. ASSUME NEW i \in Originals
          PROVE  i \in Originals'
      BY <1>1, <1>4 DEF Originals
    <2> QED
      BY <2>1, <2>2
  <1>12. ReceiptsOfSettled'
    <2> SUFFICES ASSUME NEW i \in 1..(m + n)
                 PROVE  /\ receipts'[i].expense \in ExpenseIds
                        /\ expenses'[receipts'[i].expense] # None
                        /\ expenses'[receipts'[i].expense].state \in SettledStates
                        /\ expenses'[receipts'[i].expense].state \in VERIFIED_EXPENSE_STATES
                               => receipts'[i].corrects = 0
      BY <1>1 DEF ReceiptsOfSettled, InState, Exists
    <2>1. CASE receipts'[i].expense = e
      BY <1>2, <1>3, <2>1
    <2>2. CASE receipts'[i].expense # e
      <3>1. i \in 1..m /\ receipts'[i] = receipts[i]
        BY <1>1, <1>7, <2>2
      <3>2. /\ receipts[i].expense \in ExpenseIds
            /\ InState(receipts[i].expense, SettledStates)
            /\ InState(receipts[i].expense, VERIFIED_EXPENSE_STATES) => receipts[i].corrects = 0
        BY <1>1, <3>1 DEF LineageInv, ReceiptsOfSettled
      <3>3. expenses'[receipts[i].expense] = expenses[receipts[i].expense]
        BY <1>2, <2>2, <3>1, <3>2 DEF InState
      <3> QED
        BY <3>1, <3>2, <3>3 DEF InState, Exists
    <2> QED
      BY <2>1, <2>2
  <1>13. CorrectionsNameOriginals'
    <2> SUFFICES ASSUME NEW j \in (DOMAIN receipts \ Originals)'
                 PROVE  /\ receipts'[j].corrects \in Originals'
                        /\ receipts'[j].corrects < j
                        /\ SameTriple(receipts'[j], receipts'[receipts'[j].corrects].donation,
                                      receipts'[receipts'[j].corrects].expense,
                                      receipts'[receipts'[j].corrects].allocation)
      BY DEF CorrectionsNameOriginals, SameTriple
    <2>1. CASE j \in 1..m
      <3>1. j \in DOMAIN receipts \ Originals /\ receipts'[j] = receipts[j]
        BY <1>1, <1>11, <2>1
      <3>2. /\ receipts[j].corrects \in Originals /\ receipts[j].corrects < j
            /\ SameTriple(receipts[j], receipts[receipts[j].corrects].donation,
                        receipts[receipts[j].corrects].expense,
                        receipts[receipts[j].corrects].allocation)
        BY <3>1 DEF LineageInv, CorrectionsNameOriginals
      <3>3. receipts'[receipts[j].corrects] = receipts[receipts[j].corrects]
        BY <1>1, <3>2 DEF Originals
      <3> QED
        BY <1>11, <3>1, <3>2, <3>3
    <2>2. CASE \E k \in 1..n : j = m + k
      <3>1. PICK k \in 1..n : j = m + k
        BY <2>2
      <3>2. receipts'[j].corrects = idx[k] /\ idx[k] \in 1..m /\ idx[k] < j
        BY <1>5, <1>6, <1>7, <3>1
      <3>3. idx[k] \in Originals /\ receipts'[idx[k]] = receipts[idx[k]]
        BY <1>1, <1>6 DEF Originals
      <3>4. SameTriple(receipts'[j], receipts[idx[k]].donation, receipts[idx[k]].expense,
                       receipts[idx[k]].allocation)
        BY <1>6, <1>7, <3>1 DEF SameTriple
      <3> QED
        BY <1>11, <3>2, <3>3, <3>4
    <2> QED
      BY <1>1, <2>1, <2>2
  <1>14. ReversedCorrectedOnce'
    <2> SUFFICES ASSUME NEW i \in Originals', expenses'[receipts'[i].expense].state = "REVERSED"
                 PROVE  \E j \in DOMAIN receipts' :
                            /\ receipts'[j].corrects = i
                            /\ \A x \in DOMAIN receipts' : receipts'[x].corrects = i => x = j
                            /\ receipts'[j].kind = "REVERSAL"
                            /\ receipts'[j].attributed_amount = 0
      BY DEF ReversedCorrectedOnce
    <2>1. i \in Originals /\ i \in 1..m /\ i # 0 /\ receipts'[i] = receipts[i]
      BY <1>1, <1>4, <1>11 DEF Originals
    <2>2. CASE receipts[i].expense = e
      <3>1. PICK k \in 1..n : idx[k] = i
        BY <1>9, <2>1, <2>2
      <3>2. kind = "REVERSAL"
        BY <1>2, <2>1, <2>2
      <3>3. ASSUME NEW x \in 1..(m + n), receipts'[x].corrects = i
            PROVE  x = m + k
        <4>1. CASE x \in 1..m
          <5>1. receipts[x].corrects = i
            BY <1>1, <3>3, <4>1
          <5>2. receipts[x].expense = e
            BY <1>1, <2>1, <2>2, <4>1, <5>1
               DEF LineageInv, CorrectionsNameOriginals, Originals, SameTriple
          <5> QED
            BY <1>1, <1>2, <2>1, <4>1, <5>1, <5>2 DEF LineageInv, ReceiptsOfSettled
        <4>2. CASE \E q \in 1..n : x = m + q
          BY <1>7, <1>10, <3>1, <3>3, <4>2
        <4>3. x \in 1..m \/ \E q \in 1..n : x = m + q
          BY <1>1, Zenon
        <4> QED
          BY <4>1, <4>2, <4>3, Zenon
      <3>4. /\ m + k \in 1..(m + n) /\ receipts'[m + k].corrects = i
            /\ receipts'[m + k].kind = "REVERSAL"
            /\ receipts'[m + k].attributed_amount = 0
        BY <1>5, <1>7, <3>1, <3>2
      <3>5. DOMAIN receipts' = 1..(m + n)
        BY <1>1
      <3> QED
        BY <3>3, <3>4, <3>5, Zenon
    <2>3. CASE receipts[i].expense # e
      <3>1. expenses[receipts[i].expense].state = "REVERSED"
        BY <1>2, <1>8, <2>1, <2>3 DEF InState
      <3>2. PICK j \in DOMAIN receipts :
                /\ receipts[j].corrects = i
                /\ \A x \in DOMAIN receipts : receipts[x].corrects = i => x = j
                /\ receipts[j].kind = "REVERSAL"
                /\ receipts[j].attributed_amount = 0
        BY <2>1, <3>1 DEF LineageInv, ReversedCorrectedOnce
      <3>3. \A k \in 1..n : receipts'[m + k].corrects # i
        BY <1>6, <1>7, <2>3
      <3>4. /\ j \in 1..m /\ j \in DOMAIN receipts' /\ receipts'[j] = receipts[j]
        BY <1>1, <1>4, <3>2
      <3>5. ASSUME NEW x \in DOMAIN receipts', receipts'[x].corrects = i
            PROVE  x = j
        <4>1. x \in 1..m \/ \E q \in 1..n : x = m + q
          BY <1>1, Zenon
        <4>2. x \in 1..m
          BY <3>3, <3>5, <4>1, Zenon
        <4>3. x \in DOMAIN receipts /\ receipts[x].corrects = i
          BY <1>1, <3>5, <4>2
        <4> QED
          BY <3>2, <4>3
      <3> QED
        BY <3>2, <3>4, <3>5
    <2> QED
      BY <2>2, <2>3
  <1> QED
    BY <1>12, <1>13, <1>14 DEF LineageInv

\* Corrections form the lineage the code promises: every receipt of a reversed
\* expense has exactly one correction, of kind REVERSAL and attributing
\* nothing, no receipt of an expense that still counts has one, and a
\* correction names an earlier published receipt of the same triple.
THEOREM CorrectionLineageHolds == Spec => []CorrectionLineage
PROOF
  <1>1. Init => LineageInv
    BY DEF Init, LineageInv, ReceiptsOfSettled, CorrectionsNameOriginals,
           ReversedCorrectedOnce, Originals
  <1>2. TypeOK /\ ReceiptIndex /\ LineageInv /\ [Next]_vars => LineageInv'
    <2> SUFFICES ASSUME TypeOK, ReceiptIndex, LineageInv, [Next]_vars
                 PROVE  LineageInv'
      OBVIOUS
    <2>1. \A e \in ExpenseIds : ExpenseStep(e)
      BY EveryExpenseStep
    <2> QED
      BY <2>1, ReceiptCases, LineageUnchanged, LineagePublish, LineageCorrects
  <1>3. TypeOK /\ LineageInv => CorrectionLineage
    BY LineageImplies
  <1> QED
    BY <1>1, <1>2, <1>3, TypeAndIndex, PTL DEF Spec

\* One receipt is published for a donation, expense and fund, ever: neither a
\* second publication nor a correction adds another.
THEOREM OneLiveReceiptHolds == Spec => []OneLiveReceipt
PROOF
  <1>1. Init => OneLiveReceipt
    BY DEF Init, OneLiveReceipt, Originals
  <1>2. TypeOK /\ ReceiptIndex /\ OneLiveReceipt /\ [Next]_vars => OneLiveReceipt'
    <2> SUFFICES ASSUME TypeOK, ReceiptIndex, OneLiveReceipt, [Next]_vars
                 PROVE  OneLiveReceipt'
      OBVIOUS
    <2>1. CASE UNCHANGED receipts
      BY <2>1 DEF OneLiveReceipt, Originals, SameTriple
    <2>2. ASSUME NEW e \in ExpenseIds, NEW g \in DonationIds, NEW f \in AllocationIds,
                 publish_use_of_funds_receipt(e, g, f)
          PROVE  OneLiveReceipt'
      <3>1. PICK m \in Nat :
              /\ DOMAIN receipts = 1..m /\ DOMAIN receipts' = 1..(m + 1)
              /\ \A i \in 1..m : receipts'[i] = receipts[i]
              /\ SameTriple(receipts'[m + 1], g, e, f) /\ receipts'[m + 1].corrects = 0
              /\ \A i \in 1..(m + 1) : i \in 1..m \/ i = m + 1
        BY <2>2, PublishAppends
      <3>2. \A i \in Originals : ~SameTriple(receipts[i], g, e, f)
        BY <2>2 DEF publish_use_of_funds_receipt, LiveReceipts
      <3>3. \A i \in Originals' : (i \in Originals /\ receipts'[i] = receipts[i]) \/ i = m + 1
        BY <3>1 DEF Originals
      <3> QED
        BY <3>1, <3>2, <3>3 DEF OneLiveReceipt, SameTriple
    <2>3. ASSUME NEW e \in ExpenseIds, NEW kind \in {"REVERSAL", "SUPERSEDE"},
                 Corrects(e, kind)
          PROVE  OneLiveReceipt'
      <3> DEFINE idx == expense_receipts[e]
      <3>0. PICK m \in Nat, n \in Nat : Corrected(e, kind, m, n)
        BY <2>3, CorrectsAppends
      <3>1. /\ DOMAIN receipts = 1..m /\ DOMAIN idx = 1..n
            /\ DOMAIN receipts' = 1..(m + n)
            /\ \A i \in 1..m : receipts'[i] = receipts[i]
            /\ \A k \in 1..n : IsCorrection(receipts'[m + k], e, idx[k], kind)
            /\ \A i \in 1..(m + n) : i \in 1..m \/ \E k \in 1..n : i = m + k
        BY <3>0 DEF Corrected
      <3>2. \A k \in 1..n : idx[k] # 0
        BY <3>1 DEF ReceiptIndex
      <3> HIDE DEF idx
      <3>3. \A k \in 1..n : receipts'[m + k].corrects # 0
        BY <3>1, <3>2 DEF IsCorrection
      <3>4. \A i \in Originals' : i \in Originals /\ receipts'[i] = receipts[i]
        BY <3>1, <3>3 DEF Originals
      <3> QED
        BY <3>4 DEF OneLiveReceipt, SameTriple
    <2> QED
      BY <2>1, <2>2, <2>3, ReceiptCases
  <1> QED
    BY <1>1, <1>2, TypeAndIndex, PTL DEF Spec

-----------------------------------------------------------------------------
(* Attributions *)

\* Where an attribution no longer claims part of a designation.
DeadStates == CORRECTED_EXPENSE_STATES \cup {"REJECTED"}

AttributionInv ==
    /\ \A at \in attributions : Exists(at.expense)
    /\ AttributionWithinDesignation

\* The attributions that count are finite and add up to a natural number.
LEMMA ActiveType ==
    ASSUME TypeOK, NEW g, NEW f
    PROVE  /\ IsFiniteSet(ActiveAttributions(g, f))
           /\ \A x \in ActiveAttributions(g, f) : x.amount \in Nat
           /\ SumAmounts(ActiveAttributions(g, f)) \in Nat
PROOF
  <1>1. ActiveAttributions(g, f) \subseteq attributions
    BY DEF ActiveAttributions
  <1>2. IsFiniteSet(ActiveAttributions(g, f))
    BY <1>1, FS_Subset DEF TypeOK
  <1>3. \A x \in ActiveAttributions(g, f) : x.amount \in Nat
    BY <1>1 DEF TypeOK, DonorExpenseAttribution, Positive
  <1> QED
    BY <1>2, <1>3, SumType

\* No step brings an attribution back to life, and none adds one but
\* attribute_donor_to_expense.
LEMMA NoRevival ==
    ASSUME TypeOK, AttributionInv, \A e \in ExpenseIds : ExpenseStep(e),
           attributions' = attributions, NEW g, NEW f
    PROVE  ActiveAttributions(g, f)' \in SUBSET ActiveAttributions(g, f)
PROOF
  <1> SUFFICES ASSUME NEW at \in attributions, at.donation = g, at.allocation = f,
                      expenses'[at.expense] # None,
                      expenses'[at.expense].state \notin DeadStates
               PROVE  expenses[at.expense].state \notin DeadStates /\ Exists(at.expense)
    BY DEF ActiveAttributions, Exists, DeadStates
  <1>1. at.expense \in ExpenseIds /\ Exists(at.expense) /\ ExpenseStep(at.expense)
    BY DEF TypeOK, DonorExpenseAttribution, AttributionInv
  <1> SUFFICES ASSUME expenses[at.expense].state \in DeadStates PROVE FALSE
    BY <1>1
  <1>2. CASE expenses[at.expense].state = "REJECTED"
    BY <1>1, <1>2 DEF ExpenseStep, InState, DeadStates
  <1>3. CASE expenses[at.expense].state \in CORRECTED_EXPENSE_STATES
    <2>1. InState(at.expense, SettledStates) /\ ~InState(at.expense, VERIFIED_EXPENSE_STATES)
          /\ ~InState(at.expense, {"APPROVED"})
      BY <1>1, <1>3 DEF InState, SettledStates, VERIFIED_EXPENSE_STATES, CORRECTED_EXPENSE_STATES
    <2>2. ~reverse_expense(at.expense)
      BY <2>1 DEF reverse_expense
    <2>3. expenses'[at.expense].state = expenses[at.expense].state
      BY <1>1, <2>1, <2>2 DEF ExpenseStep
    <2> QED
      BY <1>3, <2>3 DEF DeadStates
  <1> QED
    BY <1>2, <1>3 DEF DeadStates

\* Steps that leave attributions alone and take no designation away.
LEMMA AttributionKept ==
    ASSUME TypeOK, TypeOK', AttributionInv, \A e \in ExpenseIds : ExpenseStep(e),
           attributions' = attributions, donation_allocations \subseteq donation_allocations'
    PROVE  AttributionInv'
PROOF
  <1>1. \A at \in attributions' : Exists(at.expense)'
    <2> SUFFICES ASSUME NEW at \in attributions PROVE expenses'[at.expense] # None
      BY DEF Exists
    <2>1. at.expense \in ExpenseIds /\ Exists(at.expense)
      BY DEF TypeOK, DonorExpenseAttribution, AttributionInv
    <2> QED
      BY <2>1 DEF ExpenseStep
  <1>2. ASSUME NEW g \in DonationIds, NEW f \in AllocationIds
        PROVE  SumAmounts(ActiveAttributions(g, f)') <= SumAmounts(Designations(g, f)')
    <2>1. /\ SumAmounts(ActiveAttributions(g, f)') <= SumAmounts(ActiveAttributions(g, f))
          /\ SumAmounts(ActiveAttributions(g, f)') \in Nat
      <3>1. ActiveAttributions(g, f)' \in SUBSET ActiveAttributions(g, f)
        BY NoRevival
      <3>2. IsFiniteSet(ActiveAttributions(g, f)) /\ \A x \in ActiveAttributions(g, f) : x.amount \in Nat
        BY ActiveType
      <3>3. IsFiniteSet(ActiveAttributions(g, f)') /\ \A x \in ActiveAttributions(g, f)' : x.amount \in Nat
        BY <3>1, <3>2, FS_Subset
      <3> QED
        BY <3>1, <3>2, <3>3, SumSubset, SumType
    <2>2. /\ SumAmounts(Designations(g, f)) <= SumAmounts(Designations(g, f)')
          /\ SumAmounts(Designations(g, f)') \in Nat
      <3>1. Designations(g, f) \in SUBSET Designations(g, f)'
        BY DEF Designations
      <3>2. Designations(g, f)' \subseteq donation_allocations'
        BY DEF Designations
      <3>3. IsFiniteSet(Designations(g, f)') /\ \A x \in Designations(g, f)' : x.amount \in Nat
        BY <3>2, FS_Subset DEF TypeOK, DonationAllocation, Positive
      <3> QED
        BY <3>1, <3>3, SumSubset, SumType
    <2>3. SumAmounts(ActiveAttributions(g, f)) <= SumAmounts(Designations(g, f))
      BY DEF AttributionInv, AttributionWithinDesignation
    <2>4. SumAmounts(ActiveAttributions(g, f)) \in Nat /\ SumAmounts(Designations(g, f)) \in Nat
      BY ActiveType, DesignatedType
    <2> QED
      BY <2>1, <2>2, <2>3, <2>4
  <1> QED
    BY <1>1, <1>2 DEF AttributionInv, AttributionWithinDesignation

\* An attribution replaces the one of its triple and is checked with the rest.
LEMMA AttributionAdded ==
    ASSUME TypeOK, AttributionInv, NEW g \in DonationIds, NEW e \in ExpenseIds,
           NEW f \in AllocationIds, NEW mth \in Methods,
           attribute_donor_to_expense(g, e, f, mth)
    PROVE  AttributionInv'
PROOF
  <1> DEFINE kept == {at \in attributions : ~SameTriple(at, g, e, f)}
             charge == SumAmounts(ChargesOn(e, f))
             designated == SumAmounts(Designations(g, f))
             pool == SumAmounts(Pool(f))
             Att(amt) == [donation |-> g, expense |-> e, allocation |-> f, amount |-> amt]
             other == OtherAttributions(g, e, f)
  <1>1. PICK amt \in AttributedAmounts(mth, designated, charge, pool) :
            /\ amt > 0
            /\ SumAmounts(other) + amt <= designated
            /\ attributions' = kept \cup {Att(amt)}
    BY DEF attribute_donor_to_expense
  <1>2. /\ Exists(e) /\ UNCHANGED <<expenses, donation_allocations>>
        /\ designated > 0
    BY DEF attribute_donor_to_expense
  <1>3. amt \in Nat
    <2>1. designated \in Nat /\ charge \in Nat /\ pool \in Nat
      BY DesignatedType, ChargeType, PoolType
    <2>2. pool > 0
      BY <1>2, <2>1, DesignatedInPool, PoolType
    <2> HIDE DEF designated, charge, pool
    <2> QED
      BY <2>1, <2>2, AmountsAssumption, AttributedType
  <1> DEFINE new == Att(amt)
  <1>4. new.amount = amt /\ new.donation = g /\ new.expense = e /\ new.allocation = f
    OBVIOUS
  <1>5. attributions' = kept \cup {new}
    BY <1>1
  <1> HIDE DEF Att, new, designated
  <1>6. \A h, k : Designations(h, k)' = Designations(h, k)
    BY <1>2 DEF Designations
  <1>7. \A at \in attributions' : Exists(at.expense)'
    BY <1>2, <1>4, <1>5 DEF AttributionInv, Exists
  <1>8. ASSUME NEW h \in DonationIds, NEW k \in AllocationIds, h # g \/ k # f
        PROVE  SumAmounts(ActiveAttributions(h, k)') <= SumAmounts(Designations(h, k)')
    <2>1. ActiveAttributions(h, k)' = ActiveAttributions(h, k)
      BY <1>2, <1>4, <1>5, <1>8 DEF ActiveAttributions, Exists, SameTriple
    <2> QED
      BY <1>6, <2>1 DEF AttributionInv, AttributionWithinDesignation
  <1>9. SumAmounts(ActiveAttributions(g, f)') <= SumAmounts(Designations(g, f)')
    <2>1. ActiveAttributions(g, f)' \in SUBSET (other \cup {new})
      BY <1>2, <1>5 DEF ActiveAttributions, Exists, SameTriple, OtherAttributions
    <2>2. other \in SUBSET ActiveAttributions(g, f)
      BY DEF OtherAttributions
    <2>3. IsFiniteSet(other) /\ \A x \in other : x.amount \in Nat
      BY <2>2, ActiveType, FS_Subset
    <2>4. SumAmounts(other \cup {new}) <= SumAmounts(other) + amt
      BY <1>3, <1>4, <2>3, SumAddAtMost
    <2>5. IsFiniteSet(other \cup {new}) /\ \A x \in other \cup {new} : x.amount \in Nat
      BY <1>3, <1>4, <2>3, FS_AddElement
    <2>6. SumAmounts(ActiveAttributions(g, f)') <= SumAmounts(other \cup {new})
      BY <2>1, <2>5, SumSubset
    <2>7. IsFiniteSet(ActiveAttributions(g, f)')
          /\ \A x \in ActiveAttributions(g, f)' : x.amount \in Nat
      BY <2>1, <2>5, FS_Subset
    <2>8. /\ SumAmounts(ActiveAttributions(g, f)') \in Nat
          /\ SumAmounts(other \cup {new}) \in Nat /\ SumAmounts(other) \in Nat
          /\ SumAmounts(Designations(g, f)) \in Nat
      BY <2>3, <2>5, <2>7, SumType, DesignatedType
    <2>9. SumAmounts(Designations(g, f)') = SumAmounts(Designations(g, f))
      BY <1>6
    <2> HIDE DEF other
    <2> QED
      BY <1>1, <1>3, <2>4, <2>6, <2>8, <2>9 DEF designated
  <1>10. ASSUME NEW h \in DonationIds, NEW k \in AllocationIds
         PROVE  SumAmounts(ActiveAttributions(h, k)') <= SumAmounts(Designations(h, k)')
    BY <1>8, <1>9
  <1> QED
    BY <1>7, <1>10 DEF AttributionInv, AttributionWithinDesignation

\* What a donation is said to have paid stays within what it designated, over
\* any number of expenses, re-attributions and corrections, provided no
\* designation id is reused (assign_donation_allocation overwrites one that is).
THEOREM AttributionSafe ==
    ASSUME FreshDaIds
    PROVE  Spec => []AttributionWithinDesignation
PROOF
  <1>1. Init => AttributionInv
    <2> SUFFICES ASSUME Init PROVE AttributionInv
      OBVIOUS
    <2>1. \A g, f : ActiveAttributions(g, f) = {} /\ Designations(g, f) = {}
      BY DEF Init, ActiveAttributions, Designations
    <2>2. \A g, f : SumAmounts(ActiveAttributions(g, f)) = 0 /\ SumAmounts(Designations(g, f)) = 0
      BY <2>1, SumEmpty
    <2> QED
      BY <2>2 DEF Init, AttributionInv, AttributionWithinDesignation
  <1>2. TypeOK /\ TypeOK' /\ AttributionInv /\ [Next]_vars => AttributionInv'
    <2> SUFFICES ASSUME TypeOK, TypeOK', AttributionInv, [Next]_vars PROVE AttributionInv'
      OBVIOUS
    <2>1. \A e \in ExpenseIds : ExpenseStep(e)
      BY EveryExpenseStep
    <2>2. ASSUME UNCHANGED <<attributions, donation_allocations>>
          PROVE  AttributionInv'
      BY <2>1, <2>2, AttributionKept
    <2>3. ASSUME NEW id \in DaIds, NEW g \in DonationIds, NEW f \in AllocationIds,
                 NEW amt \in Amounts, assign_donation_allocation(id, g, f, amt)
          PROVE  AttributionInv'
      <3>1. attributions' = attributions /\ donation_allocations \subseteq donation_allocations'
        BY <2>3 DEF assign_donation_allocation
      <3> QED
        BY <2>1, <3>1, AttributionKept
    <2>4. CASE \E g \in DonationIds, e \in ExpenseIds, f \in AllocationIds, mth \in Methods :
                 attribute_donor_to_expense(g, e, f, mth)
      BY <2>4, AttributionAdded
    <2>5. CASE \E e, r \in ExpenseIds, amt \in Amounts, s \in SplitChoices,
                 approver \in Approvers : supersede_expense(e, r, amt, s, approver)
      BY <2>2, <2>5 DEF supersede_expense
    <2> QED
      BY <2>2, <2>3, <2>4, <2>5
         DEF Next, vars, register_donor, import_donation, register_allocation,
             import_expense, allocate_expense, allocate_expense_splits,
             approve_expense, reconcile_expense, publish_use_of_funds_receipt,
             reverse_expense
  <1>3. AttributionInv => AttributionWithinDesignation
    BY DEF AttributionInv
  <1> QED
    BY <1>1, <1>2, <1>3, TypeCorrect, PTL DEF Spec

=============================================================================
