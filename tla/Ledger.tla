------------------------------- MODULE Ledger -------------------------------
(***************************************************************************)
(* The domain ledger (src/src/impact_relay/domain/ledger.py): the money    *)
(* truth of one organization.  Donations are designated to restricted      *)
(* funds ("allocations"), expenses are charged to funds and approved, a    *)
(* donor is attributed a part of an expense, and a use-of-funds receipt is *)
(* published; corrections reverse or supersede an expense and append       *)
(* correction receipts.                                                    *)
(*                                                                         *)
(* Money is counted in cents, so money() is the identity on every amount   *)
(* except the pro-rata share, where its rounding is modelled.  A call that *)
(* raises leaves the ledger as it was and is not an action, with one       *)
(* exception: supersede_expense, which has already marked the old expense  *)
(* when a later stage of it raises.                                        *)
(*                                                                         *)
(* Ids the code draws at random are modelled by their position (receipts,  *)
(* expense allocations) or by the key the code replaces them under         *)
(* (attributions).  Donation allocations may be given an id by the caller  *)
(* (pilot.py:101), so theirs is an input.                                  *)
(***************************************************************************)
EXTENDS Money, Sequences

CONSTANTS
    DonorIds,       \* ids of donors
    DonationIds,    \* ids of donations
    AllocationIds,  \* ids of restricted funds
    DaIds,          \* ids of donation allocations
    ExpenseIds,     \* ids of expenses
    Amounts,        \* the amounts callers pass, in cents
    SplitChoices,   \* the split lists callers pass to allocate_expense_splits
    FreshDaIds      \* TRUE when no caller reuses a donation allocation id

ASSUME AmountsAssumption == Amounts \subseteq Nat

ASSUME SplitsAssumption ==
    SplitChoices \subseteq Seq([allocation: AllocationIds, amount: Nat])

ASSUME FreshAssumption == FreshDaIds \in BOOLEAN

VARIABLES
    donors,                \* registered donors
    donations,             \* donation id -> record, or None
    allocations,           \* registered funds
    donation_allocations,  \* set of donation-to-fund designations
    expenses,              \* expense id -> record, or None
    expense_allocations,   \* set of expense-to-fund charges
    attributions,          \* set of donor-to-expense attributions
    receipts,              \* every receipt ever published, in order
    expense_receipts       \* expense id -> positions of its receipts

vars == <<donors, donations, allocations, donation_allocations, expenses,
          expense_allocations, attributions, receipts, expense_receipts>>

-----------------------------------------------------------------------------
None == [none |-> TRUE]   \* the missing value of a dict

ExpenseStates ==
    {"DRAFT", "IMPORTED", "CLASSIFICATION_PENDING", "APPROVAL_PENDING",
     "APPROVED", "RECONCILED", "REJECTED", "REVERSED", "SUPERSEDED"}

VERIFIED_EXPENSE_STATES == {"APPROVED", "RECONCILED"}

CORRECTED_EXPENSE_STATES == {"REVERSED", "SUPERSEDED"}

\* Where (re-)classification moves an expense on to APPROVAL_PENDING.
UnclassifiedStates == {"DRAFT", "IMPORTED", "CLASSIFICATION_PENDING"}

\* Where approve_expense starts from.
ApprovableStates == {"APPROVAL_PENDING", "CLASSIFICATION_PENDING", "IMPORTED"}

Donation == [donor: DonorIds, amount: Positive, cleared: BOOLEAN]

DonationAllocation ==
    [id: DaIds, donation: DonationIds, allocation: AllocationIds,
     amount: Positive]

Expense == [amount: Positive, state: ExpenseStates]

ExpenseAllocation ==
    [expense: ExpenseIds, n: Positive, allocation: AllocationIds,
     amount: Positive]

DonorExpenseAttribution ==
    [donation: DonationIds, expense: ExpenseIds, allocation: AllocationIds,
     amount: Positive]

\* corrects is 0 in a published receipt and the position of the corrected
\* receipt in a correction.
UseOfFundsReceipt ==
    [kind: {"USE_OF_FUNDS", "REVERSAL", "SUPERSEDE"},
     donation: DonationIds, expense: ExpenseIds, allocation: AllocationIds,
     attributed_amount: Nat, remaining: Int,
     verification_state: VERIFIED_EXPENSE_STATES \cup CORRECTED_EXPENSE_STATES,
     corrects: Nat]

TypeOK ==
    /\ donors \subseteq DonorIds
    /\ donations \in [DonationIds -> Donation \cup {None}]
    /\ allocations \subseteq AllocationIds
    /\ donation_allocations \subseteq DonationAllocation
    /\ IsFiniteSet(donation_allocations)
    /\ expenses \in [ExpenseIds -> Expense \cup {None}]
    /\ expense_allocations \subseteq ExpenseAllocation
    /\ IsFiniteSet(expense_allocations)
    /\ attributions \subseteq DonorExpenseAttribution
    /\ IsFiniteSet(attributions)
    /\ receipts \in Seq(UseOfFundsReceipt)
    /\ expense_receipts \in [ExpenseIds -> Seq(Nat)]

-----------------------------------------------------------------------------
(* Lookups and balances.  The ones approve_expense uses take the expenses  *)
(* and charges they read as arguments: supersede_expense evaluates them in *)
(* a state of its own making.                                              *)

Exists(e) == expenses[e] # None

InState(e, states) == Exists(e) /\ expenses[e].state \in states

Designations(g, f) ==
    {da \in donation_allocations : da.donation = g /\ da.allocation = f}

Pool(f) == {da \in donation_allocations : da.allocation = f}

DesignationsOf(g) == {da \in donation_allocations : da.donation = g}

ChargesOf(e, eas) == {ea \in eas : ea.expense = e}

ChargesOn(e, f) ==
    {ea \in expense_allocations : ea.expense = e /\ ea.allocation = f}

VerifiedCharges(f, exps, eas) ==
    {ea \in eas : /\ ea.allocation = f
                  /\ exps[ea.expense] # None
                  /\ exps[ea.expense].state \in VERIFIED_EXPENSE_STATES}

allocation_remaining_balance(f, exps, eas) ==
    SumAmounts(Pool(f)) - SumAmounts(VerifiedCharges(f, exps, eas))

VerifiedAttributions(g, f, exps) ==
    {at \in attributions : /\ at.donation = g
                           /\ at.allocation = f
                           /\ exps[at.expense] # None
                           /\ exps[at.expense].state \in VERIFIED_EXPENSE_STATES}

donor_remaining_on_allocation(g, f, exps) ==
    SumAmounts(Designations(g, f)) - SumAmounts(VerifiedAttributions(g, f, exps))

\* Attributions that still claim part of a designation.
ActiveAttributions(g, f) ==
    {at \in attributions :
        /\ at.donation = g
        /\ at.allocation = f
        /\ Exists(at.expense)
        /\ expenses[at.expense].state \notin CORRECTED_EXPENSE_STATES \cup {"REJECTED"}}

SameTriple(x, g, e, f) == x.donation = g /\ x.expense = e /\ x.allocation = f

Originals == {i \in DOMAIN receipts : receipts[i].corrects = 0}

\* Mutant: the lookup finds no published receipt.
LiveReceipts_Blind(g, e, f) == {i \in Originals : receipts[i].attributed_amount = 0}

\* The code looks for a receipt whose own corrected flag is unset, so a
\* receipt that a later one corrects still counts as live here.
LiveReceipts(g, e, f) == {i \in Originals : SameTriple(receipts[i], g, e, f)}

-----------------------------------------------------------------------------
(* Registration and import *)

Init ==
    /\ donors = {}
    /\ donations = [g \in DonationIds |-> None]
    /\ allocations = {}
    /\ donation_allocations = {}
    /\ expenses = [e \in ExpenseIds |-> None]
    /\ expense_allocations = {}
    /\ attributions = {}
    /\ receipts = << >>
    /\ expense_receipts = [e \in ExpenseIds |-> << >>]

register_donor(d) ==
    /\ donors' = donors \cup {d}
    /\ UNCHANGED <<donations, allocations, donation_allocations, expenses,
                   expense_allocations, attributions, receipts, expense_receipts>>

import_donation(g, d, amt, cleared) ==
    /\ amt > 0
    /\ donations[g] = None
    /\ d \in donors
    /\ donations' = [donations EXCEPT
                       ![g] = [donor |-> d, amount |-> amt, cleared |-> cleared]]
    /\ UNCHANGED <<donors, allocations, donation_allocations, expenses,
                   expense_allocations, attributions, receipts, expense_receipts>>

register_allocation(f) ==
    /\ allocations' = allocations \cup {f}
    /\ UNCHANGED <<donors, donations, donation_allocations, expenses,
                   expense_allocations, attributions, receipts, expense_receipts>>

\* Mutant: the amount already designated is forgotten.
assign_ForgetsPrior(id, g, f, amt) ==
    /\ FreshDaIds => \A da \in donation_allocations : da.id # id
    /\ donations[g] # None
    /\ f \in allocations
    /\ donations[g].cleared
    /\ amt > 0
    /\ amt <= donations[g].amount
    /\ donation_allocations' =
           {da \in donation_allocations : da.id # id} \cup
           {[id |-> id, donation |-> g, allocation |-> f, amount |-> amt]}
    /\ UNCHANGED <<donors, donations, allocations, expenses,
                   expense_allocations, attributions, receipts, expense_receipts>>

\* The dict is keyed by id: an id used before is overwritten.
assign_donation_allocation(id, g, f, amt) ==
    /\ FreshDaIds => \A da \in donation_allocations : da.id # id
    /\ donations[g] # None
    /\ f \in allocations
    /\ donations[g].cleared
    /\ amt > 0
    /\ SumAmounts(DesignationsOf(g)) + amt <= donations[g].amount
    /\ donation_allocations' =
           {da \in donation_allocations : da.id # id} \cup
           {[id |-> id, donation |-> g, allocation |-> f, amount |-> amt]}
    /\ UNCHANGED <<donors, donations, allocations, expenses,
                   expense_allocations, attributions, receipts, expense_receipts>>

import_expense(e, amt, state) ==
    /\ amt > 0
    /\ ~Exists(e)
    /\ state \in {"DRAFT", "IMPORTED"}
    /\ expenses' = [expenses EXCEPT ![e] = [amount |-> amt, state |-> state]]
    /\ UNCHANGED <<donors, donations, allocations, donation_allocations,
                   expense_allocations, attributions, receipts, expense_receipts>>

-----------------------------------------------------------------------------
(* Classification: charging an expense to funds *)

\* The charges after those of e are replaced by the list s.
Recharged(e, s, eas) ==
    {ea \in eas : ea.expense # e} \cup
    {[expense |-> e, n |-> i, allocation |-> s[i].allocation,
      amount |-> s[i].amount] : i \in DOMAIN s}

Classified(e, exps) ==
    IF exps[e].state \in UnclassifiedStates
    THEN [exps EXCEPT ![e].state = "APPROVAL_PENDING"]
    ELSE exps

\* Mutant: an approved expense may still be re-classified.
Rechargeable_Verified(e) ==
    /\ Exists(e)
    /\ expenses[e].state \notin CORRECTED_EXPENSE_STATES

\* Mutant: a corrected expense may be re-classified.
Rechargeable_Corrected(e) ==
    /\ Exists(e)
    /\ expenses[e].state \notin VERIFIED_EXPENSE_STATES

Rechargeable(e) ==
    /\ Exists(e)
    /\ expenses[e].state \notin CORRECTED_EXPENSE_STATES
    /\ expenses[e].state \notin VERIFIED_EXPENSE_STATES

\* Each split names a registered fund and a positive amount, and they add up.
SplitsFit(s, amt) ==
    /\ \A i \in DOMAIN s : s[i].allocation \in allocations /\ s[i].amount > 0
    /\ SumAmounts({[n |-> i, amount |-> s[i].amount] : i \in DOMAIN s}) = amt

\* The sum is not compared with the expense here: approval does that.
allocate_expense(e, f, amt) ==
    /\ Rechargeable(e)
    /\ f \in allocations
    /\ amt > 0
    /\ expense_allocations' =
           Recharged(e, <<[allocation |-> f, amount |-> amt]>>, expense_allocations)
    /\ expenses' = Classified(e, expenses)
    /\ UNCHANGED <<donors, donations, allocations, donation_allocations,
                   attributions, receipts, expense_receipts>>

allocate_expense_splits(e, s) ==
    /\ Rechargeable(e)
    /\ SplitsFit(s, expenses[e].amount)
    /\ expense_allocations' = Recharged(e, s, expense_allocations)
    /\ expenses' = Classified(e, expenses)
    /\ UNCHANGED <<donors, donations, allocations, donation_allocations,
                   attributions, receipts, expense_receipts>>

-----------------------------------------------------------------------------
(* Approval and reconciliation *)

\* Mutant: the fund's balance is not looked at.
CanApprove_NoBalance(e, approver, exps, eas) ==
    /\ exps[e].state \in ApprovableStates
    /\ ChargesOf(e, eas) # {}
    /\ SumAmounts(ChargesOf(e, eas)) = exps[e].amount
    /\ approver # ""

\* Every condition approve_expense raises on; approver is "" when no human is
\* named.  The balance is checked charge by charge.
CanApprove(e, approver, exps, eas) ==
    /\ exps[e].state \in ApprovableStates
    /\ ChargesOf(e, eas) # {}
    /\ SumAmounts(ChargesOf(e, eas)) = exps[e].amount
    /\ \A ea \in ChargesOf(e, eas) :
          allocation_remaining_balance(ea.allocation, exps, eas) >= ea.amount
    /\ approver # ""

approve_expense(e, approver) ==
    /\ Exists(e)
    /\ CanApprove(e, approver, expenses, expense_allocations)
    /\ expenses' = [expenses EXCEPT ![e].state = "APPROVED"]
    /\ UNCHANGED <<donors, donations, allocations, donation_allocations,
                   expense_allocations, attributions, receipts, expense_receipts>>

reconcile_expense(e) ==
    /\ InState(e, {"APPROVED"})
    /\ expenses' = [expenses EXCEPT ![e].state = "RECONCILED"]
    /\ UNCHANGED <<donors, donations, allocations, donation_allocations,
                   expense_allocations, attributions, receipts, expense_receipts>>

-----------------------------------------------------------------------------
(* Attribution and publication *)

\* The amounts a method may yield; the explicit ones are the caller's.
AttributedAmounts(method, designated, charge, pool) ==
    CASE method = "DIRECT_RESTRICTED" -> {Lower(designated, charge)} \cup Amounts
      [] method = "PRO_RATA_POOL"     -> ProRata(designated, charge, pool)
      [] method = "MANUAL_APPROVED"   -> Amounts

\* MANUAL_APPROVED stands for the five methods that only take an explicit
\* amount; NONE is refused.
Methods == {"DIRECT_RESTRICTED", "PRO_RATA_POOL", "MANUAL_APPROVED"}

\* Mutant: what the donation already paid for other expenses is forgotten.
OtherAttributions_Forgotten(g, e, f) == {}

\* What the donation is attributed of the fund on other expenses.
OtherAttributions(g, e, f) == {at \in ActiveAttributions(g, f) : at.expense # e}

\* The state of the expense is not looked at.
attribute_donor_to_expense(g, e, f, method) ==
    LET designated == SumAmounts(Designations(g, f))
        charge     == SumAmounts(ChargesOn(e, f))
    IN  /\ donations[g] # None
        /\ donations[g].donor \in donors
        /\ Exists(e)
        /\ f \in allocations
        /\ designated > 0
        /\ charge > 0
        /\ \E amt \in AttributedAmounts(method, designated, charge,
                                         SumAmounts(Pool(f))) :
              /\ amt > 0
              /\ amt <= charge
              /\ amt <= designated
              /\ SumAmounts(OtherAttributions(g, e, f)) + amt <= designated
              /\ attributions' =
                    {at \in attributions : ~SameTriple(at, g, e, f)} \cup
                    {[donation |-> g, expense |-> e, allocation |-> f,
                      amount |-> amt]}
        /\ UNCHANGED <<donors, donations, allocations, donation_allocations,
                       expenses, expense_allocations, receipts, expense_receipts>>

publish_use_of_funds_receipt(e, g, f) ==
    /\ InState(e, VERIFIED_EXPENSE_STATES)
    /\ donations[g] # None
    /\ f \in allocations
    /\ LiveReceipts(g, e, f) = {}
    /\ donor_remaining_on_allocation(g, f, expenses) >= 0
    /\ \E at \in attributions :
          /\ SameTriple(at, g, e, f)
          /\ receipts' = Append(receipts,
                [kind |-> "USE_OF_FUNDS", donation |-> g, expense |-> e,
                 allocation |-> f, attributed_amount |-> at.amount,
                 remaining |-> donor_remaining_on_allocation(g, f, expenses),
                 verification_state |-> expenses[e].state, corrects |-> 0])
    /\ expense_receipts' =
          [expense_receipts EXCEPT ![e] = Append(@, Len(receipts) + 1)]
    /\ UNCHANGED <<donors, donations, allocations, donation_allocations,
                   expenses, expense_allocations, attributions>>

-----------------------------------------------------------------------------
(* Corrections *)

\* Mutant: a reversal carries the negated amount.
CorrectionReceipt_Negated(e, i, kind, exps) ==
    [kind |-> kind, donation |-> receipts[i].donation, expense |-> e,
     allocation |-> receipts[i].allocation,
     attributed_amount |-> 0 - receipts[i].attributed_amount,
     remaining |-> 0, verification_state |-> exps[e].state, corrects |-> i]

\* The correction of receipt i of expense e, in the expenses exps that already
\* mark e as corrected.
CorrectionReceipt(e, i, kind, exps) ==
    [kind |-> kind, donation |-> receipts[i].donation, expense |-> e,
     allocation |-> receipts[i].allocation,
     attributed_amount |->
        IF kind = "REVERSAL" THEN 0 ELSE receipts[i].attributed_amount,
     remaining |-> donor_remaining_on_allocation(
                      receipts[i].donation, receipts[i].allocation, exps),
     verification_state |-> exps[e].state,
     corrects |-> i]

\* Mutant: only the first receipt of the expense is corrected.
PublishCorrections_FirstOnly(e, kind, exps) ==
    /\ receipts' = receipts \o
         [k \in DOMAIN expense_receipts[e] \cap {1} |->
            CorrectionReceipt(e, expense_receipts[e][k], kind, exps)]
    /\ UNCHANGED expense_receipts

\* Mutant: the published receipts are rewritten in place.
PublishCorrections_InPlace(e, kind, exps) ==
    /\ receipts' = [i \in DOMAIN receipts |->
                      IF receipts[i].expense = e
                      THEN CorrectionReceipt(e, i, kind, exps) ELSE receipts[i]]
    /\ UNCHANGED expense_receipts

\* One correction for each receipt published so far for e.
PublishCorrections(e, kind, exps) ==
    LET prior == expense_receipts[e]
    IN  /\ receipts' = receipts \o
              [k \in DOMAIN prior |-> CorrectionReceipt(e, prior[k], kind, exps)]
        /\ expense_receipts' =
              [expense_receipts EXCEPT
                 ![e] = @ \o [k \in DOMAIN prior |-> Len(receipts) + k]]

reverse_expense(e) ==
    LET reversed == [expenses EXCEPT ![e].state = "REVERSED"]
    IN  /\ InState(e, VERIFIED_EXPENSE_STATES)
        /\ expenses' = reversed
        /\ PublishCorrections(e, "REVERSAL", reversed)
        /\ UNCHANGED <<donors, donations, allocations, donation_allocations,
                       expense_allocations, attributions>>

\* The stages of supersede_expense run on the ledger in place.  The first one
\* that raises ends the call and what the earlier ones did stays.
supersede_expense(e, r, amt, s, approver) ==
    LET superseded == [expenses EXCEPT ![e].state = "SUPERSEDED"]
        imports    == r # e /\ superseded[r] = None /\ amt > 0
        imported   == [superseded EXCEPT
                         ![r] = [amount |-> amt, state |-> "IMPORTED"]]
        classified == Classified(r, imported)
        charged    == Recharged(r, s, expense_allocations)
        approves   == CanApprove(r, approver, classified, charged)
        approved   == [classified EXCEPT ![r].state = "APPROVED"]
    IN  /\ InState(e, VERIFIED_EXPENSE_STATES)
        /\ \/ /\ ~imports
              /\ expenses' = superseded
              /\ UNCHANGED <<expense_allocations, receipts, expense_receipts>>
           \/ /\ imports /\ ~SplitsFit(s, amt)
              /\ expenses' = imported
              /\ UNCHANGED <<expense_allocations, receipts, expense_receipts>>
           \/ /\ imports /\ SplitsFit(s, amt) /\ ~approves
              /\ expenses' = classified
              /\ expense_allocations' = charged
              /\ UNCHANGED <<receipts, expense_receipts>>
           \/ /\ imports /\ SplitsFit(s, amt) /\ approves
              /\ expenses' = approved
              /\ expense_allocations' = charged
              /\ PublishCorrections(e, "SUPERSEDE", approved)
        /\ UNCHANGED <<donors, donations, allocations, donation_allocations,
                       attributions>>

-----------------------------------------------------------------------------
Approvers == {"", "finance"}

Next ==
    \/ \E d \in DonorIds : register_donor(d)
    \/ \E g \in DonationIds, d \in DonorIds, amt \in Amounts, cleared \in BOOLEAN :
          import_donation(g, d, amt, cleared)
    \/ \E f \in AllocationIds : register_allocation(f)
    \/ \E id \in DaIds, g \in DonationIds, f \in AllocationIds, amt \in Amounts :
          assign_donation_allocation(id, g, f, amt)
    \/ \E e \in ExpenseIds, amt \in Amounts, state \in {"DRAFT", "IMPORTED"} :
          import_expense(e, amt, state)
    \/ \E e \in ExpenseIds, f \in AllocationIds, amt \in Amounts :
          allocate_expense(e, f, amt)
    \/ \E e \in ExpenseIds, s \in SplitChoices : allocate_expense_splits(e, s)
    \/ \E e \in ExpenseIds, approver \in Approvers : approve_expense(e, approver)
    \/ \E e \in ExpenseIds : reconcile_expense(e)
    \/ \E g \in DonationIds, e \in ExpenseIds, f \in AllocationIds, m \in Methods :
          attribute_donor_to_expense(g, e, f, m)
    \/ \E e \in ExpenseIds, g \in DonationIds, f \in AllocationIds :
          publish_use_of_funds_receipt(e, g, f)
    \/ \E e \in ExpenseIds : reverse_expense(e)
    \/ \E e, r \in ExpenseIds, amt \in Amounts, s \in SplitChoices,
          approver \in Approvers : supersede_expense(e, r, amt, s, approver)

Spec == Init /\ [][Next]_vars

-----------------------------------------------------------------------------
(* Properties *)

\* No donation is designated to funds beyond its amount, and only a cleared
\* donation is designated at all (assign_donation_allocation; HD-IR-001.md:40).
DonationNotOverAllocated ==
    \A g \in DonationIds :
        DesignationsOf(g) # {} =>
            /\ donations[g] # None
            /\ donations[g].cleared
            /\ SumAmounts(DesignationsOf(g)) <= donations[g].amount

\* What callers must respect for the balances to hold: no split list names a
\* fund twice (the code does not refuse one that does).
SplitsNameFundsOnce ==
    \A s \in SplitChoices : \A i, j \in DOMAIN s :
        s[i].allocation = s[j].allocation => i = j

\* The approved and reconciled expenses charged to a fund never exceed what
\* donations designated to it, whatever mix of approvals, corrections and
\* replacements is made (approve_expense; HD-IR-001.md:41).
FundNonNegative ==
    \A f \in AllocationIds :
        allocation_remaining_balance(f, expenses, expense_allocations) >= 0

\* An expense that is approved or reconciled, or was before it was corrected,
\* is charged to funds for exactly its amount (approve_expense;
\* HD-IR-001.md:42): no later re-classification touches it.
ApprovedExpenseFullyCharged ==
    \A e \in ExpenseIds :
        InState(e, VERIFIED_EXPENSE_STATES \cup CORRECTED_EXPENSE_STATES) =>
            SumAmounts(ChargesOf(e, expense_allocations)) = expenses[e].amount

\* What a donation is said to have paid, over all the expenses that still
\* count, stays within what it designated to that fund, so no receipt shows a
\* donor a negative remainder (attribute_donor_to_expense; DOMAIN-MODEL.md:167).
AttributionWithinDesignation ==
    \A g \in DonationIds, f \in AllocationIds :
        SumAmounts(ActiveAttributions(g, f)) <= SumAmounts(Designations(g, f))

\* One receipt is published for a donation, expense and fund, ever; only
\* corrections follow it (publish_use_of_funds_receipt; DOMAIN-MODEL.md:179).
OneLiveReceipt ==
    \A i, j \in Originals :
        SameTriple(receipts[i], receipts[j].donation, receipts[j].expense,
                   receipts[j].allocation) => i = j

CorrectionsOf(i) == {j \in DOMAIN receipts : receipts[j].corrects = i}

\* Every receipt of a reversed expense has exactly one correction, of kind
\* REVERSAL and attributing nothing; no receipt of an expense that still counts
\* has one; and a correction names an earlier receipt of the same donation,
\* expense and fund (reverse_expense, _publish_correction_receipt).
CorrectionLineage ==
    /\ \A i \in Originals :
          /\ expenses[receipts[i].expense] # None
          /\ expenses[receipts[i].expense].state = "REVERSED" =>
                \E j \in DOMAIN receipts :
                    /\ CorrectionsOf(i) = {j}
                    /\ receipts[j].kind = "REVERSAL"
                    /\ receipts[j].attributed_amount = 0
          /\ expenses[receipts[i].expense].state \in VERIFIED_EXPENSE_STATES =>
                CorrectionsOf(i) = {}
    /\ \A j \in DOMAIN receipts \ Originals :
          LET i == receipts[j].corrects
          IN  /\ i \in Originals
              /\ i < j
              /\ SameTriple(receipts[j], receipts[i].donation,
                            receipts[i].expense, receipts[i].allocation)

\* Published receipts are never rewritten or withdrawn: the sequence only grows
\* at its end (receipts are "immutable", DOMAIN-MODEL.md:140).
ReceiptsAppendOnly ==
    [][/\ Len(receipts) <= Len(receipts')
       /\ \A i \in DOMAIN receipts : receipts'[i] = receipts[i]]_vars

\* Financial state is append-only after approval: the amount and the charges of
\* an approved expense never change again, the expense only moves on to
\* RECONCILED or to a correction, and a corrected one stays as it is
\* (ENGINEERING_PRINCIPLES.md, Financial truth 1 and 2).
ApprovedFactsFrozen ==
    [][\A e \in ExpenseIds :
        InState(e, VERIFIED_EXPENSE_STATES \cup CORRECTED_EXPENSE_STATES) =>
            /\ expenses'[e].amount = expenses[e].amount
            /\ ChargesOf(e, expense_allocations') = ChargesOf(e, expense_allocations)
            /\ expenses'[e].state # expenses[e].state =>
                  \/ expenses'[e].state \in CORRECTED_EXPENSE_STATES
                     /\ InState(e, VERIFIED_EXPENSE_STATES)
                  \/ expenses'[e].state = "RECONCILED" /\ InState(e, {"APPROVED"})]_vars

=============================================================================
