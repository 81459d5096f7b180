---------------------------- MODULE LedgerProofs ----------------------------
(***************************************************************************)
(* Theorems about the ledger, for every set of ids, amounts and split      *)
(* lists.                                                                  *)
(***************************************************************************)
EXTENDS Ledger, FiniteSetTheorems, SequenceTheorems, TLAPS

-----------------------------------------------------------------------------
(* What the proofs use of sums: they are natural numbers, they grow with   *)
(* the set, and adding a record adds its amount.  A sum is a cardinality,  *)
(* so these follow from the library's facts about finite sets.             *)

\* The cents of finitely many records are finitely many.
LEMMA CentsFinite ==
    ASSUME NEW S, IsFiniteSet(S), \A x \in S : x.amount \in Nat
    PROVE  IsFiniteSet(Cents(S))
PROOF
  <1> DEFINE T == {{x} \X (1..x.amount) : x \in S}
             f == [x \in S |-> {x} \X (1..x.amount)]
  <1>1. f \in Surjection(S, T)
    BY DEF Surjection
  <1>2. IsFiniteSet(T)
    BY <1>1, FS_Surjection
  <1>3. ASSUME NEW x \in S
        PROVE  IsFiniteSet({x} \X (1..x.amount))
    <2>1. IsFiniteSet({x})
      BY FS_Singleton
    <2>2. IsFiniteSet(1..x.amount)
      BY FS_Interval
    <2> QED
      BY <2>1, <2>2, FS_Product
  <1>4. \A t \in T : IsFiniteSet(t)
    BY <1>3
  <1> QED
    BY <1>2, <1>4, FS_UNION DEF Cents

\* A sum is a natural number.
LEMMA SumType ==
    ASSUME NEW S, IsFiniteSet(S), \A x \in S : x.amount \in Nat
    PROVE  SumAmounts(S) \in Nat
BY CentsFinite, FS_CardinalityType DEF SumAmounts

\* The sum over no records is zero.
LEMMA SumEmpty == SumAmounts({}) = 0
PROOF
  <1>1. Cents({}) = {}
    BY DEF Cents
  <1> QED
    BY <1>1, FS_EmptySet DEF SumAmounts

\* Fewer records have a smaller sum.
LEMMA SumSubset ==
    ASSUME NEW S, IsFiniteSet(S), \A x \in S : x.amount \in Nat,
           NEW T \in SUBSET S
    PROVE  SumAmounts(T) <= SumAmounts(S)
PROOF
  <1>1. Cents(T) \subseteq Cents(S)
    BY DEF Cents
  <1>2. IsFiniteSet(Cents(S))
    BY CentsFinite
  <1> QED
    BY <1>1, <1>2, FS_Subset DEF SumAmounts

\* Adding a record adds its amount.
LEMMA SumAdd ==
    ASSUME NEW S, IsFiniteSet(S), \A x \in S : x.amount \in Nat,
           NEW r, r \notin S, r.amount \in Nat
    PROVE  SumAmounts(S \cup {r}) = SumAmounts(S) + r.amount
PROOF
  <1> DEFINE R == {r} \X (1..r.amount)
  <1>1. Cents(S \cup {r}) = Cents(S) \cup R
    BY DEF Cents
  <1>2. IsFiniteSet(Cents(S))
    BY CentsFinite
  <1>3. IsFiniteSet(R) /\ Cardinality(R) = r.amount
    <2>1. IsFiniteSet({r}) /\ Cardinality({r}) = 1
      BY FS_Singleton
    <2>2. IsFiniteSet(1..r.amount) /\ Cardinality(1..r.amount) = r.amount
      BY FS_Interval
    <2>3. IsFiniteSet(R) /\ Cardinality(R) = Cardinality({r}) * Cardinality(1..r.amount)
      BY <2>1, <2>2, FS_Product
    <2> QED
      BY <2>1, <2>2, <2>3
  <1>4. Cents(S) \cap R = {}
    BY DEF Cents
  <1>5. Cardinality(Cents(S)) \in Nat
    BY <1>2, FS_CardinalityType
  <1>6. Cardinality(Cents(S) \cup R) =
            Cardinality(Cents(S)) + Cardinality(R) - Cardinality(Cents(S) \cap R)
    BY <1>2, <1>3, FS_Union
  <1>7. Cardinality(Cents(S) \cap R) = 0
    BY <1>4, FS_EmptySet
  <1> HIDE DEF R
  <1>8. Cardinality(Cents(S) \cup R) = Cardinality(Cents(S)) + r.amount
    BY <1>3, <1>5, <1>6, <1>7
  <1> QED
    BY <1>1, <1>8 DEF SumAmounts

-----------------------------------------------------------------------------
(* Typing of the pieces *)

\* The missing value is none of the records.
LEMMA NoneIsNoRecord == None \notin Expense /\ None \notin Donation
PROOF
  <1>1. None = [none |-> TRUE]
    BY DEF None
  <1>2. "none" \in DOMAIN None
    BY <1>1
  <1>3. \A x \in Expense : "none" \notin DOMAIN x
    BY DEF Expense
  <1>4. \A x \in Donation : "none" \notin DOMAIN x
    BY DEF Donation
  <1> QED
    BY <1>2, <1>3, <1>4

\* Replacing part of a finite set by one record keeps it finite.
LEMMA FiniteReplace ==
    ASSUME NEW S, IsFiniteSet(S), NEW T \in SUBSET S, NEW r
    PROVE  IsFiniteSet(T \cup {r})
BY FS_Subset, FS_AddElement

\* Re-classification writes well-formed charges.
LEMMA RechargedType ==
    ASSUME NEW e \in ExpenseIds,
           NEW s \in Seq([allocation: AllocationIds, amount: Nat]),
           \A i \in DOMAIN s : s[i].amount > 0,
           NEW eas \in SUBSET ExpenseAllocation, IsFiniteSet(eas)
    PROVE  /\ Recharged(e, s, eas) \in SUBSET ExpenseAllocation
           /\ IsFiniteSet(Recharged(e, s, eas))
PROOF
  <1> DEFINE Rec(i) == [expense |-> e, n |-> i, allocation |-> s[i].allocation,
                        amount |-> s[i].amount]
             New == {Rec(i) : i \in DOMAIN s}
             Old == {ea \in eas : ea.expense # e}
             f == [i \in DOMAIN s |-> Rec(i)]
  <1>1. DOMAIN s = 1..Len(s) /\ Len(s) \in Nat
    BY LenProperties
  <1>2. IsFiniteSet(DOMAIN s)
    BY <1>1, FS_Interval
  <1>3. f \in Surjection(DOMAIN s, New)
    BY DEF Surjection
  <1>4. IsFiniteSet(New)
    BY <1>2, <1>3, FS_Surjection
  <1>5. IsFiniteSet(Old)
    BY FS_Subset
  <1>6. Recharged(e, s, eas) = Old \cup New
    BY DEF Recharged
  <1>7. ASSUME NEW i \in DOMAIN s
        PROVE  Rec(i) \in ExpenseAllocation
    <2>0. i \in 1..Len(s)
      BY <1>1
    <2>1. s[i] \in [allocation: AllocationIds, amount: Nat]
      BY <2>0, ElementOfSeq
    <2>2. s[i].allocation \in AllocationIds /\ s[i].amount \in Positive /\ i \in Positive
      BY <1>1, <2>0, <2>1 DEF Positive
    <2> QED
      BY <2>1, <2>2 DEF ExpenseAllocation
  <1>8. New \subseteq ExpenseAllocation
    BY <1>7
  <1>9. IsFiniteSet(Old \cup New)
    BY <1>4, <1>5, FS_Union
  <1> HIDE DEF New
  <1> QED
    BY <1>6, <1>8, <1>9

\* Classification keeps the expenses well formed.
LEMMA ClassifiedType ==
    ASSUME NEW exps \in [ExpenseIds -> Expense \cup {None}],
           NEW e \in ExpenseIds, exps[e] # None
    PROVE  Classified(e, exps) \in [ExpenseIds -> Expense \cup {None}]
BY DEF Classified, Expense, ExpenseStates, UnclassifiedStates

\* Setting the state of an existing expense keeps the expenses well formed.
LEMMA SetStateType ==
    ASSUME NEW exps \in [ExpenseIds -> Expense \cup {None}],
           NEW e \in ExpenseIds, exps[e] # None, NEW st \in ExpenseStates
    PROVE  /\ [exps EXCEPT ![e].state = st] \in [ExpenseIds -> Expense \cup {None}]
           /\ [exps EXCEPT ![e].state = st][e] = [amount |-> exps[e].amount, state |-> st]
           /\ [exps EXCEPT ![e].state = st][e] \in Expense
BY DEF Expense

\* A donor's remainder is an integer.
LEMMA DonorRemainingType ==
    ASSUME TypeOK, NEW g, NEW f, NEW exps
    PROVE  donor_remaining_on_allocation(g, f, exps) \in Int
PROOF
  <1>1. SumAmounts(Designations(g, f)) \in Nat
    <2>1. Designations(g, f) \subseteq donation_allocations
      BY DEF Designations
    <2>2. IsFiniteSet(Designations(g, f))
      BY <2>1, FS_Subset DEF TypeOK
    <2>3. \A x \in Designations(g, f) : x.amount \in Nat
      BY <2>1 DEF TypeOK, DonationAllocation, Positive
    <2> QED
      BY <2>2, <2>3, SumType
  <1>2. SumAmounts(VerifiedAttributions(g, f, exps)) \in Nat
    <2>1. VerifiedAttributions(g, f, exps) \subseteq attributions
      BY DEF VerifiedAttributions
    <2>2. IsFiniteSet(VerifiedAttributions(g, f, exps))
      BY <2>1, FS_Subset DEF TypeOK
    <2>3. \A x \in VerifiedAttributions(g, f, exps) : x.amount \in Nat
      BY <2>1 DEF TypeOK, DonorExpenseAttribution, Positive
    <2> QED
      BY <2>2, <2>3, SumType
  <1> QED
    BY <1>1, <1>2 DEF donor_remaining_on_allocation

\* A function on 1..n is a sequence of length n.
LEMMA FunctionIsSeq ==
    ASSUME NEW S, NEW n \in Nat, NEW f \in [1..n -> S]
    PROVE  f \in Seq(S) /\ Len(f) = n
PROOF
  <1>1. f \in Seq(S)
    BY SeqDef
  <1>2. DOMAIN f = 1..Len(f) /\ Len(f) \in Nat
    BY <1>1, LenProperties
  <1> QED
    BY <1>1, <1>2

-----------------------------------------------------------------------------
(* The index of receipts by expense *)

\* expense_receipts lists exactly the receipts of each expense, each once
\* (ledger.py keeps _expense_receipts beside receipts, by hand).
ReceiptIndex ==
    /\ \A e \in ExpenseIds : \A k \in DOMAIN expense_receipts[e] :
          /\ expense_receipts[e][k] \in DOMAIN receipts
          /\ receipts[expense_receipts[e][k]].expense = e
    /\ \A i \in DOMAIN receipts :
          \E k \in DOMAIN expense_receipts[receipts[i].expense] :
              expense_receipts[receipts[i].expense][k] = i
    /\ \A e \in ExpenseIds : \A k, m \in DOMAIN expense_receipts[e] :
          expense_receipts[e][k] = expense_receipts[e][m] => k = m

\* What PublishCorrections does to the two sequences, position by position.
LEMMA CorrectionsAppended ==
    ASSUME TypeOK, ReceiptIndex,
           NEW e \in ExpenseIds, NEW kind \in {"REVERSAL", "SUPERSEDE"},
           NEW exps, exps[e].state \in CORRECTED_EXPENSE_STATES,
           PublishCorrections(e, kind, exps)
    PROVE  /\ receipts' \in Seq(UseOfFundsReceipt)
           /\ expense_receipts' \in [ExpenseIds -> Seq(Nat)]
           /\ Len(receipts') = Len(receipts) + Len(expense_receipts[e])
           /\ \A i \in 1..Len(receipts) : receipts'[i] = receipts[i]
           /\ \A k \in 1..Len(expense_receipts[e]) :
                 receipts'[Len(receipts) + k] =
                    CorrectionReceipt(e, expense_receipts[e][k], kind, exps)
           /\ \A h \in ExpenseIds \ {e} : expense_receipts'[h] = expense_receipts[h]
           /\ Len(expense_receipts'[e]) = 2 * Len(expense_receipts[e])
           /\ \A k \in 1..Len(expense_receipts[e]) :
                 /\ expense_receipts'[e][k] = expense_receipts[e][k]
                 /\ expense_receipts'[e][Len(expense_receipts[e]) + k] = Len(receipts) + k
PROOF
  <1> DEFINE prior == expense_receipts[e]
             n == Len(prior)
             m == Len(receipts)
             news == [k \in DOMAIN prior |-> CorrectionReceipt(e, prior[k], kind, exps)]
             pos == [k \in DOMAIN prior |-> Len(receipts) + k]
  <1>1. prior \in Seq(Nat) /\ DOMAIN prior = 1..n /\ n \in Nat
    BY LenProperties DEF TypeOK
  <1>2. receipts \in Seq(UseOfFundsReceipt) /\ DOMAIN receipts = 1..m /\ m \in Nat
    BY LenProperties DEF TypeOK
  <1>3. ASSUME NEW k \in 1..n
        PROVE  CorrectionReceipt(e, prior[k], kind, exps) \in UseOfFundsReceipt
    <2> DEFINE i == prior[k]
    <2>1. i \in 1..m
      BY <1>1, <1>2 DEF ReceiptIndex
    <2>2. receipts[i] \in UseOfFundsReceipt
      BY <2>1, <1>2, ElementOfSeq
    <2>3. donor_remaining_on_allocation(receipts[i].donation, receipts[i].allocation, exps) \in Int
      BY DonorRemainingType
    <2> HIDE DEF i
    <2> QED
      BY <1>2, <2>1, <2>2, <2>3 DEF CorrectionReceipt, UseOfFundsReceipt, i
  <1>4. news \in Seq(UseOfFundsReceipt) /\ Len(news) = n
    <2>1. news \in [1..n -> UseOfFundsReceipt]
      BY <1>1, <1>3
    <2> QED
      BY <2>1, <1>1, FunctionIsSeq
  <1>5. pos \in Seq(Nat) /\ Len(pos) = n
    <2>1. pos \in [1..n -> Nat]
      BY <1>1, <1>2
    <2> QED
      BY <2>1, <1>1, FunctionIsSeq
  <1>6. /\ receipts' = receipts \o news
        /\ expense_receipts' = [expense_receipts EXCEPT ![e] = prior \o pos]
    BY DEF PublishCorrections
  <1> HIDE DEF news, pos, prior, n, m
  <1>7. /\ receipts \o news \in Seq(UseOfFundsReceipt)
        /\ Len(receipts \o news) = m + n
        /\ \A i \in 1..m + n : (receipts \o news)[i] =
              IF i <= m THEN receipts[i] ELSE news[i - m]
    <2>1. /\ receipts \o news \in Seq(UseOfFundsReceipt)
          /\ Len(receipts \o news) = Len(receipts) + Len(news)
          /\ \A i \in 1..Len(receipts) + Len(news) : (receipts \o news)[i] =
                IF i <= Len(receipts) THEN receipts[i] ELSE news[i - Len(receipts)]
      BY <1>2, <1>4, ConcatProperties, Zenon
    <2> QED
      BY <2>1, <1>4, Zenon DEF m
  <1>8. /\ prior \o pos \in Seq(Nat)
        /\ Len(prior \o pos) = n + n
        /\ \A i \in 1..n + n : (prior \o pos)[i] =
              IF i <= n THEN prior[i] ELSE pos[i - n]
    <2>1. /\ prior \o pos \in Seq(Nat)
          /\ Len(prior \o pos) = Len(prior) + Len(pos)
          /\ \A i \in 1..Len(prior) + Len(pos) : (prior \o pos)[i] =
                IF i <= Len(prior) THEN prior[i] ELSE pos[i - Len(prior)]
      BY <1>1, <1>5, ConcatProperties, Zenon
    <2> QED
      BY <2>1, <1>5, Zenon DEF n
  <1>9. expense_receipts'[e] = prior \o pos
    BY <1>6 DEF TypeOK
  <1>10. \A h \in ExpenseIds \ {e} : expense_receipts'[h] = expense_receipts[h]
    BY <1>6 DEF TypeOK
  <1>11. expense_receipts' \in [ExpenseIds -> Seq(Nat)]
    BY <1>6, <1>8 DEF TypeOK
  <1>12. ASSUME NEW k \in 1..n
         PROVE  /\ receipts'[m + k] = CorrectionReceipt(e, prior[k], kind, exps)
                /\ expense_receipts'[e][k] = prior[k]
                /\ expense_receipts'[e][n + k] = m + k
    <2>1. m + k \in 1..m + n /\ ~(m + k <= m) /\ (m + k) - m = k
      BY <1>1, <1>2
    <2>2. n + k \in 1..n + n /\ ~(n + k <= n) /\ (n + k) - n = k /\ k \in 1..n + n
      BY <1>1
    <2>3. news[k] = CorrectionReceipt(e, prior[k], kind, exps) /\ pos[k] = m + k
      BY <1>1 DEF news, pos, m
    <2>4. (receipts \o news)[m + k] = news[k]
      BY <1>7, <2>1
    <2>5. (prior \o pos)[n + k] = pos[k]
      BY <1>8, <2>2
    <2>6. (prior \o pos)[k] = prior[k]
      BY <1>8, <2>2, <1>1
    <2> QED
      BY <1>6, <1>9, <2>3, <2>4, <2>5, <2>6
  <1>13. \A i \in 1..m : receipts'[i] = receipts[i]
    BY <1>1, <1>2, <1>6, <1>7
  <1>14. Len(expense_receipts'[e]) = 2 * n
    BY <1>1, <1>8, <1>9
  <1> QED
    BY <1>6, <1>7, <1>10, <1>11, <1>12, <1>13, <1>14 DEF prior, n, m

-----------------------------------------------------------------------------
(* Type correctness *)

\* The sums the ledger takes are natural numbers, and a donation's part of a
\* fund is part of the fund's pool.
LEMMA DesignatedType ==
    ASSUME TypeOK, NEW g, NEW f
    PROVE  SumAmounts(Designations(g, f)) \in Nat
PROOF
  <1>1. Designations(g, f) \subseteq donation_allocations
    BY DEF Designations
  <1>2. IsFiniteSet(Designations(g, f))
    BY <1>1, FS_Subset DEF TypeOK
  <1>3. \A x \in Designations(g, f) : x.amount \in Nat
    BY <1>1 DEF TypeOK, DonationAllocation, Positive
  <1> QED
    BY <1>2, <1>3, SumType

\* The pool of a fund is a natural number.
LEMMA PoolType ==
    ASSUME TypeOK, NEW f
    PROVE  /\ IsFiniteSet(Pool(f))
           /\ \A x \in Pool(f) : x.amount \in Nat
           /\ SumAmounts(Pool(f)) \in Nat
PROOF
  <1>1. Pool(f) \subseteq donation_allocations
    BY DEF Pool
  <1>2. IsFiniteSet(Pool(f))
    BY <1>1, FS_Subset DEF TypeOK
  <1>3. \A x \in Pool(f) : x.amount \in Nat
    BY <1>1 DEF TypeOK, DonationAllocation, Positive
  <1> QED
    BY <1>2, <1>3, SumType

\* A donation's part of a fund is within the pool.
LEMMA DesignatedInPool ==
    ASSUME TypeOK, NEW g, NEW f
    PROVE  SumAmounts(Designations(g, f)) <= SumAmounts(Pool(f))
PROOF
  <1>1. Designations(g, f) \in SUBSET Pool(f)
    BY DEF Designations, Pool
  <1> QED
    BY <1>1, PoolType, SumSubset

\* What an expense charges a fund is a natural number.
LEMMA ChargeType ==
    ASSUME TypeOK, NEW e, NEW f
    PROVE  SumAmounts(ChargesOn(e, f)) \in Nat
PROOF
  <1>1. ChargesOn(e, f) \subseteq expense_allocations
    BY DEF ChargesOn
  <1>2. IsFiniteSet(ChargesOn(e, f))
    BY <1>1, FS_Subset DEF TypeOK
  <1>3. \A x \in ChargesOn(e, f) : x.amount \in Nat
    BY <1>1 DEF TypeOK, ExpenseAllocation, Positive
  <1> QED
    BY <1>2, <1>3, SumType

\* Every attribution method yields whole cents.
LEMMA AttributedType ==
    ASSUME NEW mth \in Methods, NEW d \in Nat, NEW c \in Nat, NEW p \in Nat, p > 0
    PROVE  AttributedAmounts(mth, d, c, p) \subseteq Nat
PROOF
  <1>1. Lower(d, c) \in Nat
    BY DEF Lower
  <1>2. ProRata(d, c, p) \subseteq Nat
    <2>1. c * d \in Nat
      OBVIOUS
    <2> DEFINE q == (c * d) \div p
    <2>2. q \in Nat
      BY <2>1
    <2> HIDE DEF q
    <2> QED
      BY <2>2 DEF ProRata, q
  <1> QED
    BY <1>1, <1>2, AmountsAssumption DEF AttributedAmounts, Methods

\* What publishing appends.
LEMMA PublishedReceipt ==
    ASSUME TypeOK, NEW e \in ExpenseIds, NEW g \in DonationIds, NEW f \in AllocationIds,
           publish_use_of_funds_receipt(e, g, f)
    PROVE  \E rc \in UseOfFundsReceipt :
              /\ rc.donation = g /\ rc.expense = e /\ rc.allocation = f
              /\ rc.corrects = 0
              /\ receipts' = Append(receipts, rc)
              /\ receipts' \in Seq(UseOfFundsReceipt)
              /\ expense_receipts' =
                    [expense_receipts EXCEPT ![e] = Append(@, Len(receipts) + 1)]
              /\ expense_receipts' \in [ExpenseIds -> Seq(Nat)]
PROOF
  <1> DEFINE left == donor_remaining_on_allocation(g, f, expenses)
             Rc(at) == [kind |-> "USE_OF_FUNDS", donation |-> g, expense |-> e,
                        allocation |-> f, attributed_amount |-> at.amount,
                        remaining |-> left,
                        verification_state |-> expenses[e].state, corrects |-> 0]
  <1>1. PICK at \in attributions : receipts' = Append(receipts, Rc(at))
    BY DEF publish_use_of_funds_receipt
  <1>2. left \in Int
    BY DonorRemainingType
  <1>3. at.amount \in Nat
    BY DEF TypeOK, DonorExpenseAttribution, Positive
  <1>4. expenses[e].state \in VERIFIED_EXPENSE_STATES
    BY DEF publish_use_of_funds_receipt, InState
  <1> HIDE DEF left
  <1>5. Rc(at) \in UseOfFundsReceipt
    BY <1>2, <1>3, <1>4 DEF UseOfFundsReceipt
  <1>6. Rc(at).donation = g /\ Rc(at).expense = e /\ Rc(at).allocation = f /\ Rc(at).corrects = 0
    OBVIOUS
  <1> HIDE DEF Rc
  <1>7. receipts \in Seq(UseOfFundsReceipt) /\ Len(receipts) \in Nat
    BY LenProperties DEF TypeOK
  <1>8. receipts' \in Seq(UseOfFundsReceipt)
    BY <1>1, <1>5, <1>7
  <1>9. expense_receipts' = [expense_receipts EXCEPT ![e] = Append(@, Len(receipts) + 1)]
    BY DEF publish_use_of_funds_receipt
  <1>10. Append(expense_receipts[e], Len(receipts) + 1) \in Seq(Nat)
    BY <1>7 DEF TypeOK
  <1>11. expense_receipts' \in [ExpenseIds -> Seq(Nat)]
    BY <1>9, <1>10 DEF TypeOK
  <1> QED
    BY <1>1, <1>5, <1>6, <1>8, <1>9, <1>11

\* Whichever way supersede_expense ends, the old expense is SUPERSEDED.
LEMMA SupersededState ==
    ASSUME TypeOK, NEW e \in ExpenseIds, NEW r \in ExpenseIds,
           NEW amt, NEW s, NEW approver, supersede_expense(e, r, amt, s, approver)
    PROVE  expenses'[e].state = "SUPERSEDED" /\ expenses'[e].amount = expenses[e].amount
PROOF
  <1> DEFINE superseded == [expenses EXCEPT ![e].state = "SUPERSEDED"]
             imported   == [superseded EXCEPT
                              ![r] = [amount |-> amt, state |-> "IMPORTED"]]
             classified == Classified(r, imported)
  <1>1. expenses[e] # None /\ expenses \in [ExpenseIds -> Expense \cup {None}]
    BY DEF supersede_expense, InState, Exists, TypeOK
  <1>2. superseded[e] = [amount |-> expenses[e].amount, state |-> "SUPERSEDED"]
        /\ DOMAIN superseded = ExpenseIds
    BY <1>1, SetStateType DEF ExpenseStates
  <1>3. \/ expenses' = superseded
        \/ r # e /\ expenses' = imported
        \/ r # e /\ expenses' = classified
        \/ r # e /\ expenses' = [classified EXCEPT ![r].state = "APPROVED"]
    BY DEF supersede_expense
  <1>4. ASSUME r # e
        PROVE  imported[e] = superseded[e] /\ DOMAIN imported = ExpenseIds
    BY <1>2, <1>4
  <1> HIDE DEF superseded
  <1>5. ASSUME r # e
        PROVE  classified[e] = superseded[e] /\ DOMAIN classified = ExpenseIds
    BY <1>4, <1>5 DEF Classified
  <1> HIDE DEF imported, classified
  <1>6. expenses'[e] = superseded[e]
    BY <1>2, <1>3, <1>4, <1>5
  <1> QED
    BY <1>2, <1>6

\* The four ways out of supersede_expense keep expenses and charges well formed.
LEMMA SupersedeType ==
    ASSUME TypeOK, ReceiptIndex, NEW e \in ExpenseIds, NEW r \in ExpenseIds,
           NEW amt \in Amounts, NEW s \in SplitChoices, NEW approver,
           supersede_expense(e, r, amt, s, approver)
    PROVE  TypeOK'
PROOF
  <1> DEFINE superseded == [expenses EXCEPT ![e].state = "SUPERSEDED"]
             imports    == r # e /\ superseded[r] = None /\ amt > 0
             imported   == [superseded EXCEPT
                              ![r] = [amount |-> amt, state |-> "IMPORTED"]]
             classified == Classified(r, imported)
             charged    == Recharged(r, s, expense_allocations)
             approves   == CanApprove(r, approver, classified, charged)
             approved   == [classified EXCEPT ![r].state = "APPROVED"]
             ES == [ExpenseIds -> Expense \cup {None}]
  <1>1. Exists(e) /\ expenses \in ES
    BY DEF supersede_expense, InState, TypeOK
  <1>2. superseded \in ES /\ superseded[e] \in Expense
        /\ superseded[e].state = "SUPERSEDED"
    <2>1. "SUPERSEDED" \in ExpenseStates /\ expenses[e] # None
      BY <1>1 DEF Exists, ExpenseStates
    <2>2. /\ superseded \in ES
          /\ superseded[e] = [amount |-> expenses[e].amount, state |-> "SUPERSEDED"]
          /\ superseded[e] \in Expense
      BY <1>1, <2>1, SetStateType, Zenon
    <2> HIDE DEF superseded
    <2> QED
      BY <2>2
  <1>3. ASSUME imports
        PROVE  /\ imported \in ES
               /\ imported[r] = [amount |-> amt, state |-> "IMPORTED"]
               /\ imported[r] \in Expense
               /\ imported[e] = superseded[e]
    BY <1>2, <1>3, AmountsAssumption DEF Expense, Positive, ExpenseStates
  <1>4. ASSUME imports
        PROVE  /\ classified \in ES
               /\ classified[r] \in Expense
               /\ classified[e] = superseded[e]
    <2>1. imported[r] # None
      BY <1>3, <1>4, NoneIsNoRecord
    <2>2. classified \in ES
      BY <1>3, <1>4, <2>1, ClassifiedType
    <2>3. classified[r] = [amount |-> amt, state |-> "APPROVAL_PENDING"]
          /\ classified[e] = imported[e]
      BY <1>3, <1>4, r # e DEF Classified, UnclassifiedStates
    <2>4. amt \in Positive /\ "APPROVAL_PENDING" \in ExpenseStates
      BY <1>4, AmountsAssumption DEF Positive, ExpenseStates
    <2>5. classified[r] \in Expense
      BY <2>3, <2>4 DEF Expense
    <2> QED
      BY <1>3, <1>4, <2>2, <2>3, <2>5, Zenon
  <1>5. ASSUME imports
        PROVE  approved \in ES /\ approved[e] = superseded[e]
    <2>1. classified[r] # None
      BY <1>4, <1>5, NoneIsNoRecord
    <2> HIDE DEF classified
    <2>2. approved \in ES
      BY <1>4, <1>5, <2>1, SetStateType DEF ExpenseStates
    <2>3. approved[e] = classified[e]
      BY <1>4, <1>5
    <2> QED
      BY <1>4, <1>5, <2>2, <2>3
  <1>6. ASSUME SplitsFit(s, amt)
        PROVE  charged \in SUBSET ExpenseAllocation /\ IsFiniteSet(charged)
    <2>1. s \in Seq([allocation: AllocationIds, amount: Nat])
      BY SplitsAssumption
    <2>2. \A i \in DOMAIN s : s[i].amount > 0
      BY <1>6 DEF SplitsFit
    <2> QED
      BY <2>1, <2>2, RechargedType DEF TypeOK
  <1>7. UNCHANGED <<donors, donations, allocations, donation_allocations, attributions>>
    BY DEF supersede_expense
  <1>8. \/ /\ expenses' = superseded
           /\ UNCHANGED <<expense_allocations, receipts, expense_receipts>>
        \/ /\ imports /\ expenses' = imported
           /\ UNCHANGED <<expense_allocations, receipts, expense_receipts>>
        \/ /\ imports /\ SplitsFit(s, amt)
           /\ expenses' = classified /\ expense_allocations' = charged
           /\ UNCHANGED <<receipts, expense_receipts>>
        \/ /\ imports /\ SplitsFit(s, amt)
           /\ expenses' = approved /\ expense_allocations' = charged
           /\ PublishCorrections(e, "SUPERSEDE", approved)
    BY DEF supersede_expense
  <1> HIDE DEF superseded, imports, imported, classified, charged, approved, ES
  <1>9. expenses' \in ES
    BY <1>2, <1>3, <1>4, <1>5, <1>8
  <1>10. expense_allocations' \in SUBSET ExpenseAllocation /\ IsFiniteSet(expense_allocations')
    BY <1>6, <1>8 DEF TypeOK
  <1>11. receipts' \in Seq(UseOfFundsReceipt) /\ expense_receipts' \in [ExpenseIds -> Seq(Nat)]
    <2>1. CASE UNCHANGED <<receipts, expense_receipts>>
      BY <2>1 DEF TypeOK
    <2>2. CASE imports /\ PublishCorrections(e, "SUPERSEDE", approved)
      <3>1. approved[e].state \in CORRECTED_EXPENSE_STATES
        BY <1>2, <1>5, <2>2 DEF CORRECTED_EXPENSE_STATES
      <3> QED
        BY <2>2, <3>1, CorrectionsAppended
    <2> QED
      BY <1>8, <2>1, <2>2
  <1> QED
    BY <1>7, <1>9, <1>10, <1>11 DEF TypeOK, ES

\* A designation is well formed.
LEMMA AssignType ==
    ASSUME TypeOK, NEW id \in DaIds, NEW g \in DonationIds, NEW f \in AllocationIds,
           NEW amt \in Amounts, assign_donation_allocation(id, g, f, amt)
    PROVE  TypeOK'
PROOF
  <1> DEFINE da == [id |-> id, donation |-> g, allocation |-> f, amount |-> amt]
             kept == {x \in donation_allocations : x.id # id}
  <1>1. da \in DonationAllocation
    BY AmountsAssumption DEF assign_donation_allocation, DonationAllocation, Positive
  <1>2. donation_allocations' = kept \cup {da}
    BY DEF assign_donation_allocation
  <1>3. IsFiniteSet(kept \cup {da})
    BY FiniteReplace DEF TypeOK
  <1> HIDE DEF da
  <1> QED
    BY <1>1, <1>2, <1>3 DEF TypeOK, assign_donation_allocation

\* Every step of the ledger keeps it well formed.
LEMMA TypeStep ==
    ASSUME TypeOK, ReceiptIndex, [Next]_vars
    PROVE  TypeOK'
PROOF
  <1>1. ASSUME NEW d \in DonorIds, register_donor(d)
        PROVE  TypeOK'
    BY <1>1 DEF TypeOK, register_donor
  <1>2. ASSUME NEW g \in DonationIds, NEW d \in DonorIds, NEW amt \in Amounts,
               NEW cleared \in BOOLEAN, import_donation(g, d, amt, cleared)
        PROVE  TypeOK'
    <2>1. [donor |-> d, amount |-> amt, cleared |-> cleared] \in Donation
      BY <1>2, AmountsAssumption DEF import_donation, Donation, Positive
    <2> QED
      BY <1>2, <2>1 DEF TypeOK, import_donation
  <1>3. ASSUME NEW f \in AllocationIds, register_allocation(f)
        PROVE  TypeOK'
    BY <1>3 DEF TypeOK, register_allocation
  <1>4. ASSUME NEW id \in DaIds, NEW g \in DonationIds, NEW f \in AllocationIds,
               NEW amt \in Amounts, assign_donation_allocation(id, g, f, amt)
        PROVE  TypeOK'
    BY <1>4, AssignType
  <1>5. ASSUME NEW e \in ExpenseIds, NEW amt \in Amounts,
               NEW st \in {"DRAFT", "IMPORTED"}, import_expense(e, amt, st)
        PROVE  TypeOK'
    <2>1. [amount |-> amt, state |-> st] \in Expense
      BY <1>5, AmountsAssumption DEF import_expense, Expense, Positive, ExpenseStates
    <2> QED
      BY <1>5, <2>1 DEF TypeOK, import_expense
  <1>6. ASSUME NEW e \in ExpenseIds, NEW f \in AllocationIds, NEW amt \in Amounts,
               allocate_expense(e, f, amt)
        PROVE  TypeOK'
    <2> DEFINE s == <<[allocation |-> f, amount |-> amt]>>
    <2>1. [allocation |-> f, amount |-> amt] \in [allocation: AllocationIds, amount: Nat]
      BY AmountsAssumption
    <2>2. s \in Seq([allocation: AllocationIds, amount: Nat])
      BY <2>1
    <2>3. \A i \in DOMAIN s : s[i].amount > 0
      BY <1>6 DEF allocate_expense
    <2>4. /\ expense_allocations' = Recharged(e, s, expense_allocations)
          /\ expenses' = Classified(e, expenses)
          /\ expenses[e] # None
      BY <1>6 DEF allocate_expense, Rechargeable, Exists
    <2> HIDE DEF s
    <2>5. expense_allocations' \in SUBSET ExpenseAllocation /\ IsFiniteSet(expense_allocations')
      BY <2>2, <2>3, <2>4, RechargedType DEF TypeOK
    <2>6. expenses' \in [ExpenseIds -> Expense \cup {None}]
      BY <2>4, ClassifiedType DEF TypeOK
    <2> QED
      BY <1>6, <2>5, <2>6 DEF TypeOK, allocate_expense
  <1>7. ASSUME NEW e \in ExpenseIds, NEW s \in SplitChoices, allocate_expense_splits(e, s)
        PROVE  TypeOK'
    <2>2. s \in Seq([allocation: AllocationIds, amount: Nat])
      BY SplitsAssumption
    <2>3. \A i \in DOMAIN s : s[i].amount > 0
      BY <1>7 DEF allocate_expense_splits, SplitsFit
    <2>4. /\ expense_allocations' = Recharged(e, s, expense_allocations)
          /\ expenses' = Classified(e, expenses)
          /\ expenses[e] # None
      BY <1>7 DEF allocate_expense_splits, Rechargeable, Exists
    <2>5. expense_allocations' \in SUBSET ExpenseAllocation /\ IsFiniteSet(expense_allocations')
      BY <2>2, <2>3, <2>4, RechargedType DEF TypeOK
    <2>6. expenses' \in [ExpenseIds -> Expense \cup {None}]
      BY <2>4, ClassifiedType DEF TypeOK
    <2> QED
      BY <1>7, <2>5, <2>6 DEF TypeOK, allocate_expense_splits
  <1>8. ASSUME NEW e \in ExpenseIds, NEW approver \in Approvers, approve_expense(e, approver)
        PROVE  TypeOK'
    <2>1. expenses' \in [ExpenseIds -> Expense \cup {None}]
      BY <1>8, SetStateType DEF approve_expense, Exists, TypeOK, ExpenseStates
    <2> QED
      BY <1>8, <2>1 DEF TypeOK, approve_expense
  <1>9. ASSUME NEW e \in ExpenseIds, reconcile_expense(e)
        PROVE  TypeOK'
    <2>1. expenses' \in [ExpenseIds -> Expense \cup {None}]
      BY <1>9, SetStateType DEF reconcile_expense, InState, Exists, TypeOK, ExpenseStates
    <2> QED
      BY <1>9, <2>1 DEF TypeOK, reconcile_expense
  <1>10. ASSUME NEW g \in DonationIds, NEW e \in ExpenseIds, NEW f \in AllocationIds,
                NEW mth \in Methods, attribute_donor_to_expense(g, e, f, mth)
         PROVE  TypeOK'
    <2> DEFINE kept == {at \in attributions : ~SameTriple(at, g, e, f)}
               charge == SumAmounts(ChargesOn(e, f))
               designated == SumAmounts(Designations(g, f))
               pool == SumAmounts(Pool(f))
               Att(amt) == [donation |-> g, expense |-> e, allocation |-> f, amount |-> amt]
    <2>1. PICK amt \in AttributedAmounts(mth, designated, charge, pool) :
            /\ amt > 0
            /\ attributions' = kept \cup {Att(amt)}
      BY <1>10 DEF attribute_donor_to_expense
    <2>2. designated \in Nat /\ charge \in Nat /\ pool \in Nat /\ designated > 0
      BY <1>10, DesignatedType, ChargeType, PoolType DEF attribute_donor_to_expense
    <2>3. pool > 0
      BY <2>2, DesignatedInPool, PoolType
    <2> HIDE DEF designated, charge, pool
    <2>4. amt \in Positive
      BY <2>1, <2>2, <2>3, AmountsAssumption, AttributedType DEF Positive
    <2>5. Att(amt) \in DonorExpenseAttribution
      BY <2>4 DEF DonorExpenseAttribution
    <2> HIDE DEF Att
    <2>6. IsFiniteSet(kept \cup {Att(amt)})
      BY FiniteReplace DEF TypeOK
    <2> QED
      BY <1>10, <2>1, <2>5, <2>6 DEF TypeOK, attribute_donor_to_expense
  <1>11. ASSUME NEW e \in ExpenseIds, NEW g \in DonationIds, NEW f \in AllocationIds,
                publish_use_of_funds_receipt(e, g, f)
         PROVE  TypeOK'
    BY <1>11, PublishedReceipt DEF TypeOK, publish_use_of_funds_receipt
  <1>12. ASSUME NEW e \in ExpenseIds, reverse_expense(e)
         PROVE  TypeOK'
    <2> DEFINE reversed == [expenses EXCEPT ![e].state = "REVERSED"]
    <2>1. expenses' = reversed /\ PublishCorrections(e, "REVERSAL", reversed) /\ expenses[e] # None
      BY <1>12 DEF reverse_expense, InState, Exists
    <2>2. reversed \in [ExpenseIds -> Expense \cup {None}]
          /\ reversed[e] = [amount |-> expenses[e].amount, state |-> "REVERSED"]
      BY <2>1, SetStateType DEF TypeOK, ExpenseStates
    <2> HIDE DEF reversed
    <2>3. reversed[e].state \in CORRECTED_EXPENSE_STATES
      BY <2>2 DEF CORRECTED_EXPENSE_STATES
    <2>4. receipts' \in Seq(UseOfFundsReceipt) /\ expense_receipts' \in [ExpenseIds -> Seq(Nat)]
      BY <2>1, <2>3, CorrectionsAppended
    <2> QED
      BY <1>12, <2>1, <2>2, <2>4 DEF TypeOK, reverse_expense
  <1>13. CASE UNCHANGED vars
    BY <1>13 DEF TypeOK, vars
  <1> QED
    BY <1>1, <1>2, <1>3, <1>4, <1>5, <1>6, <1>7, <1>8, <1>9, <1>10, <1>11,
       <1>12, <1>13, SupersedeType DEF Next

\* Corrections extend the index of their expense.
LEMMA IndexAfterCorrections ==
    ASSUME TypeOK, ReceiptIndex,
           NEW e \in ExpenseIds, NEW kind \in {"REVERSAL", "SUPERSEDE"},
           NEW exps, exps[e].state \in CORRECTED_EXPENSE_STATES,
           PublishCorrections(e, kind, exps)
    PROVE  ReceiptIndex'
PROOF
  <1> DEFINE n == Len(expense_receipts[e])
             m == Len(receipts)
             idx == expense_receipts
             idx2 == expense_receipts'
             rc2 == receipts'
  <1>1. /\ rc2 \in Seq(UseOfFundsReceipt) /\ idx2 \in [ExpenseIds -> Seq(Nat)]
        /\ Len(rc2) = m + n
        /\ \A i \in 1..m : rc2[i] = receipts[i]
        /\ \A k \in 1..n : rc2[m + k] = CorrectionReceipt(e, idx[e][k], kind, exps)
        /\ \A h \in ExpenseIds \ {e} : idx2[h] = idx[h]
        /\ Len(idx2[e]) = 2 * n
        /\ \A k \in 1..n : idx2[e][k] = idx[e][k] /\ idx2[e][n + k] = m + k
    BY CorrectionsAppended
  <1>2. /\ n \in Nat /\ m \in Nat
        /\ DOMAIN receipts = 1..m /\ DOMAIN rc2 = 1..(m + n)
        /\ DOMAIN idx[e] = 1..n /\ DOMAIN idx2[e] = 1..(2 * n)
    BY <1>1, LenProperties DEF TypeOK
  <1>3. \A k \in 1..n : rc2[m + k].expense = e
    <2>1. \A i : CorrectionReceipt(e, i, kind, exps).expense = e
      BY DEF CorrectionReceipt
    <2> HIDE DEF n, m, idx, idx2, rc2
    <2> QED
      BY <1>1, <2>1
  <1>4. \A i \in 1..m : receipts[i].expense \in ExpenseIds
    <2>1. \A i \in 1..m : receipts[i] \in UseOfFundsReceipt
      BY <1>2, ElementOfSeq DEF TypeOK
    <2> QED
      BY <2>1 DEF UseOfFundsReceipt
  <1>5. \A k \in 1..(2 * n) : k \in 1..n \/ \E q \in 1..n : k = n + q
    <2> SUFFICES ASSUME NEW k \in 1..(2 * n), k \notin 1..n
                 PROVE  \E q \in 1..n : k = n + q
      OBVIOUS
    <2>1. k - n \in 1..n /\ k = n + (k - n)
      BY <1>2
    <2> QED
      BY <2>1
  <1>6. \A i \in 1..(m + n) : i \in 1..m \/ \E q \in 1..n : i = m + q
    <2> SUFFICES ASSUME NEW i \in 1..(m + n), i \notin 1..m
                 PROVE  \E q \in 1..n : i = m + q
      OBVIOUS
    <2>1. i - m \in 1..n /\ i = m + (i - m)
      BY <1>2
    <2> QED
      BY <2>1
  <1>7. \A h \in ExpenseIds : \A k \in DOMAIN idx[h] :
           idx[h][k] \in 1..m /\ receipts[idx[h][k]].expense = h
    BY <1>2 DEF ReceiptIndex
  <1> HIDE DEF n, m, idx, idx2, rc2
  <1>8. ASSUME NEW h \in ExpenseIds, NEW k \in DOMAIN idx2[h]
        PROVE  idx2[h][k] \in DOMAIN rc2 /\ rc2[idx2[h][k]].expense = h
    <2>0. \A i \in 1..m : i \in 1..(m + n)
      BY <1>2
    <2>1. CASE h # e
      <3>1. idx2[h] = idx[h]
        BY <1>1, <2>1
      <3>2. idx[h][k] \in 1..m /\ receipts[idx[h][k]].expense = h
        BY <1>7, <1>8, <3>1
      <3> QED
        BY <1>1, <1>2, <2>0, <3>1, <3>2
    <2>2. CASE h = e /\ k \in 1..n
      <3>1. idx2[e][k] = idx[e][k] /\ k \in DOMAIN idx[e]
        BY <1>1, <1>2, <2>2
      <3>2. idx[e][k] \in 1..m /\ receipts[idx[e][k]].expense = e
        BY <1>7, <3>1
      <3> QED
        BY <1>1, <1>2, <2>0, <2>2, <3>1, <3>2
    <2>3. CASE h = e /\ \E q \in 1..n : k = n + q
      <3>1. PICK q \in 1..n : k = n + q
        BY <2>3
      <3>2. idx2[e][k] = m + q
        BY <1>1, <3>1
      <3>3. m + q \in 1..(m + n)
        BY <1>2
      <3> QED
        BY <1>2, <1>3, <2>3, <3>2, <3>3
    <2> QED
      BY <1>2, <1>5, <1>8, <2>1, <2>2, <2>3
  <1>9. ASSUME NEW i \in DOMAIN rc2
        PROVE  \E k \in DOMAIN idx2[rc2[i].expense] : idx2[rc2[i].expense][k] = i
    <2>1. CASE i \in 1..m
      <3>1. rc2[i].expense = receipts[i].expense
        BY <1>1, <2>1
      <3>2. PICK k \in DOMAIN idx[receipts[i].expense] : idx[receipts[i].expense][k] = i
        BY <1>2, <2>1 DEF ReceiptIndex, idx
      <3>3. CASE receipts[i].expense = e
        <4>1. k \in 1..n /\ k \in 1..(2 * n)
          BY <1>2, <3>2, <3>3
        <4> QED
          BY <1>1, <1>2, <3>1, <3>2, <3>3, <4>1
      <3>4. CASE receipts[i].expense # e
        BY <1>1, <1>4, <2>1, <3>1, <3>2, <3>4
      <3> QED
        BY <3>3, <3>4
    <2>2. CASE \E q \in 1..n : i = m + q
      <3>1. PICK q \in 1..n : i = m + q
        BY <2>2
      <3>2. n + q \in 1..(2 * n)
        BY <1>2
      <3> QED
        BY <1>1, <1>2, <1>3, <3>1, <3>2
    <2> QED
      BY <1>2, <1>6, <1>9, <2>1, <2>2
  <1>10. ASSUME NEW h \in ExpenseIds, NEW k \in DOMAIN idx2[h], NEW l \in DOMAIN idx2[h],
                idx2[h][k] = idx2[h][l]
         PROVE  k = l
    <2>1. CASE h # e
      <3>1. idx2[h] = idx[h]
        BY <1>1, <2>1
      <3>2. \A q, p \in DOMAIN idx[h] : idx[h][q] = idx[h][p] => q = p
        BY DEF ReceiptIndex, idx
      <3> QED
        BY <1>10, <3>1, <3>2
    <2>2. CASE h = e
      <3>1. \A q, p \in 1..n : idx[e][q] = idx[e][p] => q = p
        BY <1>2 DEF ReceiptIndex, idx
      <3>2. \A q \in 1..n : idx[e][q] \in 1..m
        BY <1>2, <1>7
      <3>3. k \in 1..n \/ \E q \in 1..n : k = n + q
        BY <1>2, <1>5, <2>2, <1>10
      <3>4. l \in 1..n \/ \E q \in 1..n : l = n + q
        BY <1>2, <1>5, <2>2, <1>10
      <3>5. \A q \in 1..n : idx2[e][q] = idx[e][q] /\ idx2[e][n + q] = m + q
        BY <1>1
      <3>6. \A q, p \in 1..n : idx[e][q] # m + p
        BY <1>2, <3>2
      <3>7. CASE k \in 1..n /\ l \in 1..n
        BY <1>10, <2>2, <3>1, <3>5, <3>7
      <3>8. CASE k \in 1..n /\ \E q \in 1..n : l = n + q
        BY <1>10, <2>2, <3>5, <3>6, <3>8
      <3>9. CASE l \in 1..n /\ \E q \in 1..n : k = n + q
        BY <1>10, <2>2, <3>5, <3>6, <3>9
      <3>10. CASE (\E q \in 1..n : k = n + q) /\ (\E q \in 1..n : l = n + q)
        <4>1. PICK q \in 1..n : k = n + q
          BY <3>10
        <4>2. PICK p \in 1..n : l = n + p
          BY <3>10
        <4>3. m + q = m + p
          BY <1>10, <2>2, <3>5, <4>1, <4>2
        <4> QED
          BY <1>2, <4>1, <4>2, <4>3
      <3> QED
        BY <3>3, <3>4, <3>7, <3>8, <3>9, <3>10
    <2> QED
      BY <2>1, <2>2
  <1> QED
    BY <1>8, <1>9, <1>10 DEF ReceiptIndex, idx2, rc2

\* A published receipt is entered in the index.
LEMMA IndexAfterPublish ==
    ASSUME TypeOK, ReceiptIndex, NEW e \in ExpenseIds, NEW g \in DonationIds,
           NEW f \in AllocationIds, publish_use_of_funds_receipt(e, g, f)
    PROVE  ReceiptIndex'
PROOF
  <1> DEFINE n == Len(expense_receipts[e])
             m == Len(receipts)
             idx == expense_receipts
             idx2 == expense_receipts'
             rc2 == receipts'
  <1>1. PICK rc \in UseOfFundsReceipt :
            /\ rc.expense = e
            /\ rc2 = Append(receipts, rc) /\ rc2 \in Seq(UseOfFundsReceipt)
            /\ idx2 = [expense_receipts EXCEPT ![e] = Append(@, m + 1)]
            /\ idx2 \in [ExpenseIds -> Seq(Nat)]
    BY PublishedReceipt
  <1>2. /\ n \in Nat /\ m \in Nat
        /\ receipts \in Seq(UseOfFundsReceipt) /\ idx[e] \in Seq(Nat)
        /\ DOMAIN receipts = 1..m /\ DOMAIN idx[e] = 1..n
    BY LenProperties DEF TypeOK
  <1>3. DOMAIN rc2 = 1..(m + 1) /\ rc2[m + 1] = rc /\ \A i \in 1..m : rc2[i] = receipts[i]
    BY <1>1, <1>2
  <1>4. /\ idx2[e] = Append(idx[e], m + 1)
        /\ \A h \in ExpenseIds \ {e} : idx2[h] = idx[h]
    BY <1>1 DEF TypeOK
  <1>5. /\ DOMAIN idx2[e] = 1..(n + 1) /\ idx2[e][n + 1] = m + 1
        /\ \A k \in 1..n : idx2[e][k] = idx[e][k]
    BY <1>2, <1>4
  <1>6. \A i \in 1..m : receipts[i].expense \in ExpenseIds
    <2>1. \A i \in 1..m : receipts[i] \in UseOfFundsReceipt
      BY <1>2, ElementOfSeq DEF TypeOK
    <2> QED
      BY <2>1 DEF UseOfFundsReceipt
  <1>7. \A h \in ExpenseIds : \A k \in DOMAIN idx[h] :
           idx[h][k] \in 1..m /\ receipts[idx[h][k]].expense = h
    BY <1>2 DEF ReceiptIndex
  <1>8. \A k \in 1..(n + 1) : k \in 1..n \/ k = n + 1
    BY <1>2
  <1>9. \A i \in 1..(m + 1) : i \in 1..m \/ i = m + 1
    BY <1>2
  <1>10. (\A i \in 1..m : i \in 1..(m + 1) /\ i # m + 1) /\ m + 1 \in 1..(m + 1) /\ n + 1 \in 1..(n + 1)
         /\ \A k \in 1..n : k \in 1..(n + 1)
    BY <1>2
  <1> HIDE DEF n, m, idx, idx2, rc2
  <1>11. ASSUME NEW h \in ExpenseIds, NEW k \in DOMAIN idx2[h]
         PROVE  idx2[h][k] \in DOMAIN rc2 /\ rc2[idx2[h][k]].expense = h
    <2>1. CASE h # e
      <3>1. idx[h][k] \in 1..m /\ receipts[idx[h][k]].expense = h
        BY <1>4, <1>7, <1>11, <2>1
      <3> QED
        BY <1>3, <1>4, <1>10, <2>1, <3>1
    <2>2. CASE h = e /\ k \in 1..n
      <3>1. idx[e][k] \in 1..m /\ receipts[idx[e][k]].expense = e
        BY <1>2, <1>7, <2>2
      <3> QED
        BY <1>3, <1>5, <1>10, <2>2, <3>1
    <2>3. CASE h = e /\ k = n + 1
      BY <1>1, <1>3, <1>5, <1>10, <2>3
    <2> QED
      BY <1>5, <1>8, <1>11, <2>1, <2>2, <2>3
  <1>12. ASSUME NEW i \in DOMAIN rc2
         PROVE  \E k \in DOMAIN idx2[rc2[i].expense] : idx2[rc2[i].expense][k] = i
    <2>1. CASE i \in 1..m
      <3>1. rc2[i].expense = receipts[i].expense /\ receipts[i].expense \in ExpenseIds
        BY <1>3, <1>6, <2>1
      <3>2. PICK k \in DOMAIN idx[receipts[i].expense] : idx[receipts[i].expense][k] = i
        BY <1>2, <2>1 DEF ReceiptIndex, idx
      <3>3. CASE receipts[i].expense = e
        <4>1. k \in 1..n /\ k \in 1..(n + 1)
          BY <1>2, <1>10, <3>2, <3>3
        <4> QED
          BY <1>5, <3>1, <3>2, <3>3, <4>1
      <3>4. CASE receipts[i].expense # e
        BY <1>4, <3>1, <3>2, <3>4
      <3> QED
        BY <3>3, <3>4
    <2>2. CASE i = m + 1
      BY <1>1, <1>3, <1>5, <1>10, <2>2
    <2> QED
      BY <1>3, <1>9, <1>12, <2>1, <2>2
  <1>13. ASSUME NEW h \in ExpenseIds, NEW k \in DOMAIN idx2[h], NEW l \in DOMAIN idx2[h],
                idx2[h][k] = idx2[h][l]
         PROVE  k = l
    <2>1. \A q, p \in DOMAIN idx[h] : idx[h][q] = idx[h][p] => q = p
      BY DEF ReceiptIndex, idx
    <2>2. CASE h # e
      BY <1>4, <1>13, <2>1, <2>2
    <2>3. CASE h = e
      <3>1. \A q \in 1..n : idx[e][q] \in 1..m
        BY <1>2, <1>7
      <3>2. \A q \in 1..n : idx2[e][q] # m + 1
        BY <1>5, <1>10, <3>1
      <3> QED
        BY <1>2, <1>5, <1>8, <1>13, <2>1, <2>3, <3>2
    <2> QED
      BY <2>2, <2>3
  <1> QED
    BY <1>11, <1>12, <1>13 DEF ReceiptIndex, idx2, rc2

\* Every step keeps the index.
LEMMA IndexStep ==
    ASSUME TypeOK, ReceiptIndex, [Next]_vars
    PROVE  ReceiptIndex'
PROOF
  <1>1. ASSUME UNCHANGED <<receipts, expense_receipts>>
        PROVE  ReceiptIndex'
    BY <1>1 DEF ReceiptIndex
  <1>2. ASSUME NEW e \in ExpenseIds, reverse_expense(e)
        PROVE  ReceiptIndex'
    <2> DEFINE reversed == [expenses EXCEPT ![e].state = "REVERSED"]
    <2>1. PublishCorrections(e, "REVERSAL", reversed) /\ expenses[e] # None
      BY <1>2 DEF reverse_expense, InState, Exists
    <2>2. reversed[e].state = "REVERSED"
      BY <2>1, SetStateType DEF TypeOK, ExpenseStates
    <2> HIDE DEF reversed
    <2> QED
      BY <2>1, <2>2, IndexAfterCorrections DEF CORRECTED_EXPENSE_STATES
  <1>3. ASSUME NEW e \in ExpenseIds, NEW r \in ExpenseIds, NEW amt \in Amounts,
               NEW s \in SplitChoices, NEW approver \in Approvers,
               supersede_expense(e, r, amt, s, approver)
        PROVE  ReceiptIndex'
    <2>1. CASE UNCHANGED <<receipts, expense_receipts>>
      BY <1>1, <2>1
    <2>2. CASE r # e /\ \E exps : /\ exps = expenses'
                                  /\ PublishCorrections(e, "SUPERSEDE", exps)
      <3>1. expenses'[e].state = "SUPERSEDED"
        BY <1>3, SupersededState
      <3> QED
        BY <2>2, <3>1, IndexAfterCorrections DEF CORRECTED_EXPENSE_STATES
    <2> QED
      BY <1>3, <2>1, <2>2 DEF supersede_expense
  <1> QED
    BY <1>1, <1>2, <1>3, IndexAfterPublish
       DEF Next, vars, register_donor, import_donation, register_allocation,
           assign_donation_allocation, import_expense, allocate_expense,
           allocate_expense_splits, approve_expense, reconcile_expense,
           attribute_donor_to_expense

-----------------------------------------------------------------------------
\* The ledger is well formed and its index complete, together: the receipts'
\* types need the positions the index holds, and the index the types.
LEMMA TypeAndIndex == Spec => [](TypeOK /\ ReceiptIndex)
PROOF
  <1>1. Init => TypeOK /\ ReceiptIndex
    <2> SUFFICES ASSUME Init PROVE TypeOK /\ ReceiptIndex
      OBVIOUS
    <2>1. IsFiniteSet({})
      BY FS_EmptySet
    <2>2. TypeOK
      BY <2>1 DEF Init, TypeOK
    <2>3. ReceiptIndex
      BY DEF Init, ReceiptIndex
    <2> QED
      BY <2>2, <2>3
  <1>2. TypeOK /\ ReceiptIndex /\ [Next]_vars => (TypeOK /\ ReceiptIndex)'
    BY TypeStep, IndexStep
  <1> QED
    BY <1>1, <1>2, PTL DEF Spec

\* The ledger is always well formed: every id in a record is a known id,
\* amounts are positive cents and every correction is typed, whatever calls
\* are made.
THEOREM TypeCorrect == Spec => []TypeOK
BY TypeAndIndex, PTL

\* The hand-kept index of receipts by expense is complete and without
\* duplicates in every state (ledger.py keeps _expense_receipts beside
\* receipts), so a correction misses no receipt and corrects none twice.
THEOREM IndexCorrect == Spec => []ReceiptIndex
BY TypeAndIndex, PTL

-----------------------------------------------------------------------------
(* The money theorems: donations are not designated beyond their amount,   *)
(* and funds are not overdrawn.                                            *)

\* Adding a record adds at most its amount.
LEMMA SumAddAtMost ==
    ASSUME NEW S, IsFiniteSet(S), \A x \in S : x.amount \in Nat,
           NEW r, r.amount \in Nat
    PROVE  SumAmounts(S \cup {r}) <= SumAmounts(S) + r.amount
PROOF
  <1>1. SumAmounts(S) \in Nat
    BY SumType
  <1>2. CASE r \in S
    <2>1. S \cup {r} = S
      BY <1>2
    <2>2. SumAmounts(S \cup {r}) = SumAmounts(S)
      BY <2>1, Zenon
    <2> QED
      BY <1>1, <2>2
  <1>3. CASE r \notin S
    <2>1. SumAmounts(S \cup {r}) = SumAmounts(S) + r.amount
      BY <1>3, SumAdd
    <2> QED
      BY <1>1, <2>1
  <1> QED
    BY <1>2, <1>3

-----------------------------------------------------------------------------
(* Donations *)

\* Each donation's designations stay within its amount in every step.
LEMMA DesignationStep ==
    ASSUME TypeOK, DonationNotOverAllocated, [Next]_vars
    PROVE  DonationNotOverAllocated'
PROOF
  <1>1. ASSUME UNCHANGED <<donations, donation_allocations>>
        PROVE  DonationNotOverAllocated'
    BY <1>1 DEF DonationNotOverAllocated, DesignationsOf
  <1>2. ASSUME NEW g \in DonationIds, NEW d \in DonorIds, NEW amt \in Amounts,
               NEW cleared \in BOOLEAN, import_donation(g, d, amt, cleared)
        PROVE  DonationNotOverAllocated'
    <2>1. donations[g] = None /\ donation_allocations' = donation_allocations
          /\ \A h \in DonationIds \ {g} : donations'[h] = donations[h]
      BY <1>2 DEF import_donation, TypeOK
    <2>2. DesignationsOf(g) = {}
      BY <2>1 DEF DonationNotOverAllocated
    <2>3. \A h : DesignationsOf(h)' = DesignationsOf(h)
      BY <2>1 DEF DesignationsOf
    <2> QED
      BY <2>1, <2>2, <2>3 DEF DonationNotOverAllocated
  <1>3. ASSUME NEW id \in DaIds, NEW g \in DonationIds, NEW f \in AllocationIds,
               NEW amt \in Amounts, assign_donation_allocation(id, g, f, amt)
        PROVE  DonationNotOverAllocated'
    <2> DEFINE da == [id |-> id, donation |-> g, allocation |-> f, amount |-> amt]
    <2>1. /\ donation_allocations' =
                {x \in donation_allocations : x.id # id} \cup {da}
          /\ donations' = donations
          /\ donations[g] # None /\ donations[g].cleared
          /\ SumAmounts(DesignationsOf(g)) + amt <= donations[g].amount
          /\ amt \in Nat
      BY <1>3, AmountsAssumption DEF assign_donation_allocation
    <2>2. da.amount = amt /\ da.donation = g
      OBVIOUS
    <2> HIDE DEF da
    <2>3. \A h \in DonationIds : /\ IsFiniteSet(DesignationsOf(h))
                                 /\ \A x \in DesignationsOf(h) : x.amount \in Nat
                                 /\ SumAmounts(DesignationsOf(h)) \in Nat
      <3> TAKE h \in DonationIds
      <3>1. DesignationsOf(h) \subseteq donation_allocations
        BY DEF DesignationsOf
      <3>2. IsFiniteSet(DesignationsOf(h))
        BY <3>1, FS_Subset DEF TypeOK
      <3>3. \A x \in DesignationsOf(h) : x.amount \in Nat
        BY <3>1 DEF TypeOK, DonationAllocation, Positive
      <3> QED
        BY <3>2, <3>3, SumType
    <2>4. ASSUME NEW h \in DonationIds, h # g
          PROVE  DesignationsOf(h)' \in SUBSET DesignationsOf(h)
      BY <2>1, <2>2, <2>4 DEF DesignationsOf
    <2>5. DesignationsOf(g)' \in SUBSET (DesignationsOf(g) \cup {da})
      BY <2>1 DEF DesignationsOf
    <2>6. SumAmounts(DesignationsOf(g)') <= donations[g].amount
      <3>1. SumAmounts(DesignationsOf(g) \cup {da}) <= SumAmounts(DesignationsOf(g)) + amt
        BY <2>1, <2>2, <2>3, SumAddAtMost
      <3>2. IsFiniteSet(DesignationsOf(g) \cup {da})
            /\ \A x \in DesignationsOf(g) \cup {da} : x.amount \in Nat
        BY <2>1, <2>2, <2>3, FS_AddElement
      <3>3. SumAmounts(DesignationsOf(g)') <= SumAmounts(DesignationsOf(g) \cup {da})
        BY <2>5, <3>2, SumSubset
      <3>4. SumAmounts(DesignationsOf(g) \cup {da}) \in Nat
        BY <3>2, SumType
      <3>5. SumAmounts(DesignationsOf(g)') \in Nat
        <4>1. IsFiniteSet(DesignationsOf(g)') /\ \A x \in DesignationsOf(g)' : x.amount \in Nat
          BY <2>5, <3>2, FS_Subset
        <4> QED
          BY <4>1, SumType
      <3>6. donations[g].amount \in Nat
        BY <2>1 DEF TypeOK, Donation, Positive
      <3> QED
        BY <2>1, <2>3, <3>1, <3>3, <3>4, <3>5, <3>6
    <2>7. ASSUME NEW h \in DonationIds, h # g, DesignationsOf(h)' # {}
          PROVE  /\ donations[h] # None /\ donations[h].cleared
                 /\ SumAmounts(DesignationsOf(h)') <= donations[h].amount
      <3>1. DesignationsOf(h) # {}
        BY <2>4, <2>7
      <3>2. /\ donations[h] # None /\ donations[h].cleared
            /\ SumAmounts(DesignationsOf(h)) <= donations[h].amount
        BY <3>1 DEF DonationNotOverAllocated
      <3>3. SumAmounts(DesignationsOf(h)') <= SumAmounts(DesignationsOf(h))
        BY <2>3, <2>4, <2>7, SumSubset
      <3>4. SumAmounts(DesignationsOf(h)') \in Nat
        <4>1. IsFiniteSet(DesignationsOf(h)') /\ \A x \in DesignationsOf(h)' : x.amount \in Nat
          BY <2>3, <2>4, <2>7, FS_Subset
        <4> QED
          BY <4>1, SumType
      <3>5. donations[h].amount \in Nat
        BY <3>2 DEF TypeOK, Donation, Positive
      <3> QED
        BY <2>3, <3>2, <3>3, <3>4, <3>5
    <2>8. ASSUME NEW h \in DonationIds, DesignationsOf(h)' # {}
          PROVE  /\ donations'[h] # None /\ donations'[h].cleared
                 /\ SumAmounts(DesignationsOf(h)') <= donations'[h].amount
      <3>1. CASE h = g
        BY <2>1, <2>6, <3>1
      <3>2. CASE h # g
        BY <2>1, <2>7, <2>8, <3>2
      <3> QED
        BY <3>1, <3>2
    <2> QED
      BY <2>8 DEF DonationNotOverAllocated
  <1>4. CASE \E d \in DonorIds : register_donor(d)
    BY <1>1, <1>4 DEF register_donor
  <1>5. CASE \E f \in AllocationIds : register_allocation(f)
    BY <1>1, <1>5 DEF register_allocation
  <1>6. CASE \E e \in ExpenseIds, amt \in Amounts, st \in {"DRAFT", "IMPORTED"} :
                import_expense(e, amt, st)
    BY <1>1, <1>6 DEF import_expense
  <1>7. CASE \E e \in ExpenseIds, f \in AllocationIds, amt \in Amounts : allocate_expense(e, f, amt)
    BY <1>1, <1>7 DEF allocate_expense
  <1>8. CASE \E e \in ExpenseIds, s \in SplitChoices : allocate_expense_splits(e, s)
    BY <1>1, <1>8 DEF allocate_expense_splits
  <1>9. CASE \E e \in ExpenseIds, approver \in Approvers : approve_expense(e, approver)
    BY <1>1, <1>9 DEF approve_expense
  <1>10. CASE \E e \in ExpenseIds : reconcile_expense(e)
    BY <1>1, <1>10 DEF reconcile_expense
  <1>11. CASE \E g \in DonationIds, e \in ExpenseIds, f \in AllocationIds, mth \in Methods :
                attribute_donor_to_expense(g, e, f, mth)
    BY <1>1, <1>11 DEF attribute_donor_to_expense
  <1>12. CASE \E e \in ExpenseIds, g \in DonationIds, f \in AllocationIds :
                publish_use_of_funds_receipt(e, g, f)
    BY <1>1, <1>12 DEF publish_use_of_funds_receipt
  <1>13. CASE \E e \in ExpenseIds : reverse_expense(e)
    BY <1>1, <1>13 DEF reverse_expense
  <1>14. CASE \E e, r \in ExpenseIds, amt \in Amounts, s \in SplitChoices, approver \in Approvers :
                supersede_expense(e, r, amt, s, approver)
    BY <1>1, <1>14 DEF supersede_expense
  <1>15. CASE UNCHANGED vars
    BY <1>1, <1>15 DEF vars
  <1> QED
    BY <1>2, <1>3, <1>4, <1>5, <1>6, <1>7, <1>8, <1>9, <1>10, <1>11, <1>12, <1>13, <1>14, <1>15 DEF Next

\* A donation is never designated to funds beyond its cleared amount, for any
\* number of donations, funds and calls, reused designation ids included.
THEOREM DesignationSafe == Spec => []DonationNotOverAllocated
PROOF
  <1>1. Init => DonationNotOverAllocated
    BY DEF Init, DonationNotOverAllocated, DesignationsOf
  <1>2. TypeOK /\ DonationNotOverAllocated /\ [Next]_vars => DonationNotOverAllocated'
    BY DesignationStep
  <1> QED
    BY <1>1, <1>2, TypeCorrect, PTL DEF Spec

-----------------------------------------------------------------------------
(* Funds *)

\* A set of charges in which an expense is charged to a fund at most once.
OneCharge(eas) ==
    \A x, y \in eas : x.expense = y.expense /\ x.allocation = y.allocation => x = y

\* The verified charges of a fund are finite and add up to a natural number.
LEMMA VerifiedType ==
    ASSUME NEW f, NEW exps, NEW eas \in SUBSET ExpenseAllocation, IsFiniteSet(eas)
    PROVE  /\ IsFiniteSet(VerifiedCharges(f, exps, eas))
           /\ \A x \in VerifiedCharges(f, exps, eas) : x.amount \in Nat
           /\ SumAmounts(VerifiedCharges(f, exps, eas)) \in Nat
PROOF
  <1>1. VerifiedCharges(f, exps, eas) \subseteq eas
    BY DEF VerifiedCharges
  <1>2. IsFiniteSet(VerifiedCharges(f, exps, eas))
    BY <1>1, FS_Subset
  <1>3. \A x \in VerifiedCharges(f, exps, eas) : x.amount \in Nat
    BY <1>1 DEF ExpenseAllocation, Positive
  <1> QED
    BY <1>2, <1>3, SumType

\* With fewer verified charges a fund's balance is no smaller.
LEMMA FewerChargesFit ==
    ASSUME TypeOK, NEW f, NEW exps, NEW eas \in SUBSET ExpenseAllocation, IsFiniteSet(eas),
           NEW exps2, NEW eas2,
           VerifiedCharges(f, exps2, eas2) \in SUBSET VerifiedCharges(f, exps, eas),
           allocation_remaining_balance(f, exps, eas) >= 0
    PROVE  allocation_remaining_balance(f, exps2, eas2) >= 0
PROOF
  <1> DEFINE V1 == VerifiedCharges(f, exps, eas)
             V2 == VerifiedCharges(f, exps2, eas2)
  <1>1. IsFiniteSet(V1) /\ (\A x \in V1 : x.amount \in Nat) /\ SumAmounts(V1) \in Nat
    BY VerifiedType
  <1>2. SumAmounts(V2) <= SumAmounts(V1)
    BY <1>1, SumSubset
  <1>3. IsFiniteSet(V2) /\ (\A x \in V2 : x.amount \in Nat)
    BY <1>1, FS_Subset
  <1>4. SumAmounts(V2) \in Nat /\ SumAmounts(Pool(f)) \in Nat
    BY <1>3, SumType, PoolType
  <1> HIDE DEF V1, V2
  <1> QED
    BY <1>1, <1>2, <1>4 DEF allocation_remaining_balance, V1, V2

\* Approval checks each charge against the balance; when an expense is charged
\* to a fund once, that is enough for the fund.
LEMMA ApprovalFits ==
    ASSUME TypeOK, NEW f, NEW e \in ExpenseIds, NEW approver,
           NEW exps, NEW eas \in SUBSET ExpenseAllocation, IsFiniteSet(eas),
           OneCharge(eas), CanApprove(e, approver, exps, eas),
           NEW exps2, \A h \in ExpenseIds \ {e} : exps2[h] = exps[h],
           allocation_remaining_balance(f, exps, eas) >= 0
    PROVE  allocation_remaining_balance(f, exps2, eas) >= 0
PROOF
  <1> DEFINE V1 == VerifiedCharges(f, exps, eas)
             V2 == VerifiedCharges(f, exps2, eas)
             P  == SumAmounts(Pool(f))
  <1>1. IsFiniteSet(V1) /\ (\A x \in V1 : x.amount \in Nat) /\ SumAmounts(V1) \in Nat
    BY VerifiedType
  <1>2. P \in Nat
    BY PoolType
  <1>3. \A x \in eas : x.expense \in ExpenseIds
    BY DEF ExpenseAllocation
  <1>4. CASE \E c \in ChargesOf(e, eas) : c.allocation = f
    <2>1. PICK c \in ChargesOf(e, eas) : c.allocation = f
      BY <1>4
    <2>2. c \in eas /\ c.expense = e /\ c.amount \in Nat
      BY DEF ChargesOf, ExpenseAllocation, Positive
    <2>3. allocation_remaining_balance(f, exps, eas) >= c.amount
      BY <2>1 DEF CanApprove
    <2>4. V2 \in SUBSET (V1 \cup {c})
      <3> SUFFICES ASSUME NEW x \in V2, x \notin V1 PROVE x = c
        OBVIOUS
      <3>1. x \in eas /\ x.allocation = f /\ x.expense \in ExpenseIds
        BY <1>3 DEF VerifiedCharges
      <3>2. x.expense = e
        BY <3>1 DEF VerifiedCharges
      <3> QED
        BY <2>1, <2>2, <3>1, <3>2 DEF OneCharge
    <2>5. SumAmounts(V1 \cup {c}) <= SumAmounts(V1) + c.amount
      BY <1>1, <2>2, SumAddAtMost
    <2>6. IsFiniteSet(V1 \cup {c}) /\ \A x \in V1 \cup {c} : x.amount \in Nat
      BY <1>1, <2>2, FS_AddElement
    <2>7. SumAmounts(V2) <= SumAmounts(V1 \cup {c}) /\ SumAmounts(V1 \cup {c}) \in Nat
      BY <2>4, <2>6, SumSubset, SumType
    <2>8. SumAmounts(V2) \in Nat
      BY VerifiedType
    <2>9. P - SumAmounts(V1) >= c.amount
      BY <2>3 DEF allocation_remaining_balance
    <2> HIDE DEF V1, V2, P
    <2>10. P - SumAmounts(V2) >= 0
      BY <1>1, <1>2, <2>2, <2>5, <2>7, <2>8, <2>9
    <2> QED
      BY <2>10 DEF allocation_remaining_balance, V2, P
  <1>5. CASE ~ \E c \in ChargesOf(e, eas) : c.allocation = f
    <2>1. V2 \in SUBSET V1
      <3> SUFFICES ASSUME NEW x \in V2 PROVE x \in V1
        OBVIOUS
      <3>1. x \in eas /\ x.allocation = f /\ x.expense \in ExpenseIds
        BY <1>3 DEF VerifiedCharges
      <3>2. x.expense # e
        BY <1>5, <3>1 DEF ChargesOf
      <3> QED
        BY <3>1, <3>2 DEF VerifiedCharges
    <2> QED
      BY <2>1, FewerChargesFit
  <1> QED
    BY <1>4, <1>5

\* Re-classification with a list that names each fund once keeps one charge per fund.
LEMMA RechargedOnce ==
    ASSUME NEW e, NEW s, NEW eas, OneCharge(eas),
           \A i, j \in DOMAIN s : s[i].allocation = s[j].allocation => i = j
    PROVE  OneCharge(Recharged(e, s, eas))
BY DEF OneCharge, Recharged

\* Re-classifying an expense that is not verified leaves the verified charges alone.
LEMMA RechargedVerified ==
    ASSUME NEW f, NEW e, NEW s, NEW eas, NEW exps, NEW exps2,
           exps2[e] # None => exps2[e].state \notin VERIFIED_EXPENSE_STATES,
           \A x \in eas : x.expense # e => exps2[x.expense] = exps[x.expense]
    PROVE  VerifiedCharges(f, exps2, Recharged(e, s, eas)) \in
              SUBSET VerifiedCharges(f, exps, eas)
BY DEF VerifiedCharges, Recharged

\* Classification touches one expense and does not verify it.
LEMMA ClassifiedFrame ==
    ASSUME NEW exps \in [ExpenseIds -> Expense \cup {None}], NEW e \in ExpenseIds,
           exps[e] # None, exps[e].state \notin VERIFIED_EXPENSE_STATES
    PROVE  /\ \A h \in ExpenseIds \ {e} : Classified(e, exps)[h] = exps[h]
           /\ Classified(e, exps)[e].state \notin VERIFIED_EXPENSE_STATES
BY DEF Classified, Expense, VERIFIED_EXPENSE_STATES

FundInv == OneCharge(expense_allocations) /\ FundNonNegative

\* The call that re-classifies an expense, in either form.
LEMMA RechargeFund ==
    ASSUME TypeOK, FundInv, NEW e \in ExpenseIds, NEW s, Rechargeable(e),
           \A i, j \in DOMAIN s : s[i].allocation = s[j].allocation => i = j,
           expense_allocations' = Recharged(e, s, expense_allocations),
           expenses' = Classified(e, expenses),
           donation_allocations' = donation_allocations
    PROVE  FundInv'
PROOF
  <1>1. OneCharge(expense_allocations')
    BY RechargedOnce DEF FundInv
  <1>2. expenses[e] # None /\ expenses[e].state \notin VERIFIED_EXPENSE_STATES
    BY DEF Rechargeable, Exists
  <1>3. /\ \A h \in ExpenseIds \ {e} : expenses'[h] = expenses[h]
        /\ expenses'[e].state \notin VERIFIED_EXPENSE_STATES
    BY <1>2, ClassifiedFrame DEF TypeOK
  <1>4. \A x \in expense_allocations : x.expense # e => expenses'[x.expense] = expenses[x.expense]
    BY <1>3 DEF TypeOK, ExpenseAllocation
  <1>5. ASSUME NEW f \in AllocationIds
        PROVE  allocation_remaining_balance(f, expenses, expense_allocations)' >= 0
    <2>1. VerifiedCharges(f, expenses', Recharged(e, s, expense_allocations)) \in
             SUBSET VerifiedCharges(f, expenses, expense_allocations)
      BY <1>3, <1>4, RechargedVerified
    <2>2. allocation_remaining_balance(f, expenses, expense_allocations) >= 0
      BY DEF FundInv, FundNonNegative
    <2>3. allocation_remaining_balance(f, expenses', Recharged(e, s, expense_allocations)) >= 0
      BY <2>1, <2>2, FewerChargesFit DEF TypeOK
    <2> QED
      BY <2>3 DEF allocation_remaining_balance, Pool
  <1> QED
    BY <1>1, <1>5 DEF FundInv, FundNonNegative, OneCharge

\* Superseding an expense: the old charge is released before the new one is
\* checked, and whatever stage the call ends at the funds are not overdrawn.
LEMMA SupersedeFund ==
    ASSUME TypeOK, FundInv, SplitsNameFundsOnce, NEW e \in ExpenseIds, NEW r \in ExpenseIds,
           NEW amt \in Amounts, NEW s \in SplitChoices, NEW approver,
           supersede_expense(e, r, amt, s, approver)
    PROVE  FundInv'
PROOF
  <1> DEFINE superseded == [expenses EXCEPT ![e].state = "SUPERSEDED"]
             imports    == r # e /\ superseded[r] = None /\ amt > 0
             imported   == [superseded EXCEPT
                              ![r] = [amount |-> amt, state |-> "IMPORTED"]]
             classified == Classified(r, imported)
             charged    == Recharged(r, s, expense_allocations)
             approved   == [classified EXCEPT ![r].state = "APPROVED"]
             eas == expense_allocations
             ES == [ExpenseIds -> Expense \cup {None}]
  <1>1. expenses[e] # None /\ expenses \in ES /\ eas \in SUBSET ExpenseAllocation /\ IsFiniteSet(eas)
        /\ \A x \in eas : x.expense \in ExpenseIds
    BY DEF supersede_expense, InState, Exists, TypeOK, ExpenseAllocation
  <1>2. /\ superseded \in ES
        /\ superseded[e] = [amount |-> expenses[e].amount, state |-> "SUPERSEDED"]
        /\ \A h \in ExpenseIds \ {e} : superseded[h] = expenses[h]
    <2>1. "SUPERSEDED" \in ExpenseStates
      BY DEF ExpenseStates
    <2>2. /\ superseded \in ES
          /\ superseded[e] = [amount |-> expenses[e].amount, state |-> "SUPERSEDED"]
      BY <1>1, <2>1, SetStateType, Zenon
    <2>3. \A h \in ExpenseIds \ {e} : superseded[h] = expenses[h]
      BY <1>1
    <2> QED
      BY <2>2, <2>3, Zenon
  <1>3. ASSUME imports
        PROVE  /\ imported \in ES
               /\ imported[r] = [amount |-> amt, state |-> "IMPORTED"]
               /\ \A h \in ExpenseIds \ {r} : imported[h] = superseded[h]
    BY <1>2, <1>3, AmountsAssumption DEF Expense, Positive, ExpenseStates
  <1>4. \/ expenses' = superseded /\ expense_allocations' = eas
        \/ imports /\ expenses' = imported /\ expense_allocations' = eas
        \/ /\ imports /\ SplitsFit(s, amt)
           /\ expenses' = classified /\ expense_allocations' = charged
        \/ /\ imports /\ SplitsFit(s, amt) /\ CanApprove(r, approver, classified, charged)
           /\ expenses' = approved /\ expense_allocations' = charged
    BY DEF supersede_expense
  <1>5. donation_allocations' = donation_allocations
    BY DEF supersede_expense
  <1> HIDE DEF superseded, imported
  <1>6. ASSUME imports
        PROVE  /\ classified \in ES
               /\ \A h \in ExpenseIds \ {r} : classified[h] = superseded[h]
               /\ classified[r].state \notin VERIFIED_EXPENSE_STATES
    <2>1. imported[r].state = "IMPORTED" /\ imported[r] # None
      <3>1. "IMPORTED" \in ExpenseStates /\ amt \in Positive
        BY <1>6, AmountsAssumption DEF ExpenseStates, Positive
      <3>2. imported[r] \in Expense
        BY <1>3, <1>6, <3>1 DEF Expense
      <3> QED
        BY <1>3, <1>6, <3>2, NoneIsNoRecord
    <2>2. imported[r].state \notin VERIFIED_EXPENSE_STATES
      BY <2>1 DEF VERIFIED_EXPENSE_STATES
    <2>3. classified \in ES
      BY <1>3, <1>6, <2>1, ClassifiedType
    <2>4. /\ \A h \in ExpenseIds \ {r} : classified[h] = imported[h]
          /\ classified[r].state \notin VERIFIED_EXPENSE_STATES
      BY <1>3, <1>6, <2>1, <2>2, ClassifiedFrame
    <2> QED
      BY <1>3, <1>6, <2>3, <2>4
  <1> HIDE DEF classified
  <1>7. \A h \in ExpenseIds \ {r} : approved[h] = classified[h]
    OBVIOUS
  <1> HIDE DEF approved, charged
  <1>8. ASSUME SplitsFit(s, amt)
        PROVE  /\ charged \in SUBSET ExpenseAllocation /\ IsFiniteSet(charged)
               /\ OneCharge(charged)
    <2>1. s \in Seq([allocation: AllocationIds, amount: Nat])
          /\ \A i \in DOMAIN s : s[i].amount > 0
      BY <1>8, SplitsAssumption DEF SplitsFit
    <2>2. \A i, j \in DOMAIN s : s[i].allocation = s[j].allocation => i = j
      BY DEF SplitsNameFundsOnce
    <2> QED
      BY <1>1, <2>1, <2>2, RechargedType, RechargedOnce DEF FundInv, charged
  <1>9. ASSUME NEW f \in AllocationIds
        PROVE  allocation_remaining_balance(f, expenses', expense_allocations') >= 0
    <2>1. allocation_remaining_balance(f, expenses, eas) >= 0
      BY DEF FundInv, FundNonNegative
    <2>2. "SUPERSEDED" \notin VERIFIED_EXPENSE_STATES /\ "IMPORTED" \notin VERIFIED_EXPENSE_STATES
      BY DEF VERIFIED_EXPENSE_STATES
    <2>3. VerifiedCharges(f, superseded, eas) \in SUBSET VerifiedCharges(f, expenses, eas)
      <3>1. superseded[e].state = "SUPERSEDED"
        BY <1>2
      <3> QED
        BY <1>1, <1>2, <2>2, <3>1 DEF VerifiedCharges
    <2>4. allocation_remaining_balance(f, superseded, eas) >= 0
      BY <1>1, <2>1, <2>3, FewerChargesFit
    <2>5. ASSUME imports
          PROVE  allocation_remaining_balance(f, imported, eas) >= 0
      <3>1. imported[r].state = "IMPORTED"
        BY <1>3, <2>5
      <3>2. VerifiedCharges(f, imported, eas) \in SUBSET VerifiedCharges(f, superseded, eas)
        BY <1>1, <1>3, <2>2, <2>5, <3>1 DEF VerifiedCharges
      <3> QED
        BY <1>1, <2>4, <3>2, FewerChargesFit
    <2>6. ASSUME imports, SplitsFit(s, amt)
          PROVE  allocation_remaining_balance(f, classified, charged) >= 0
      <3>1. \A x \in eas : x.expense # r => classified[x.expense] = superseded[x.expense]
        BY <1>1, <1>6, <2>6
      <3>2. VerifiedCharges(f, classified, charged) \in SUBSET VerifiedCharges(f, superseded, eas)
        BY <1>6, <2>6, <3>1, RechargedVerified DEF charged
      <3> QED
        BY <1>1, <2>4, <3>2, FewerChargesFit
    <2>7. ASSUME imports, SplitsFit(s, amt), CanApprove(r, approver, classified, charged)
          PROVE  allocation_remaining_balance(f, approved, charged) >= 0
      BY <1>7, <1>8, <2>6, <2>7, ApprovalFits
    <2> QED
      BY <1>4, <2>4, <2>5, <2>6, <2>7
  <1>10. OneCharge(expense_allocations')
    BY <1>4, <1>8 DEF FundInv
  <1>11. ASSUME NEW f \in AllocationIds
         PROVE  allocation_remaining_balance(f, expenses, expense_allocations)' >= 0
    BY <1>5, <1>9 DEF allocation_remaining_balance, Pool
  <1> QED
    BY <1>10, <1>11 DEF FundInv, FundNonNegative, OneCharge

\* Every step keeps the funds' balances.
LEMMA FundStep ==
    ASSUME SplitsNameFundsOnce, FreshDaIds, TypeOK, FundInv, [Next]_vars
    PROVE  FundInv'
PROOF
  <1>1. ASSUME UNCHANGED <<donation_allocations, expenses, expense_allocations>>
        PROVE  FundInv'
    BY <1>1 DEF FundInv, FundNonNegative, OneCharge, allocation_remaining_balance, Pool
  \* Steps that change the states of expenses only, and verify no new one.
  <1>2. ASSUME UNCHANGED <<donation_allocations, expense_allocations>>,
               \A f \in AllocationIds :
                  VerifiedCharges(f, expenses', expense_allocations) \in
                     SUBSET VerifiedCharges(f, expenses, expense_allocations)
        PROVE  FundInv'
    <2>1. ASSUME NEW f \in AllocationIds
          PROVE  allocation_remaining_balance(f, expenses', expense_allocations) >= 0
      BY <1>2, FewerChargesFit DEF TypeOK, FundInv, FundNonNegative
    <2>2. ASSUME NEW f \in AllocationIds
          PROVE  allocation_remaining_balance(f, expenses, expense_allocations)' >= 0
      BY <1>2, <2>1 DEF allocation_remaining_balance, Pool
    <2> QED
      BY <1>2, <2>2 DEF FundInv, FundNonNegative, OneCharge
  <1>3. ASSUME NEW id \in DaIds, NEW g \in DonationIds, NEW f \in AllocationIds,
               NEW amt \in Amounts, assign_donation_allocation(id, g, f, amt)
        PROVE  FundInv'
    <2>1. /\ donation_allocations \subseteq donation_allocations'
          /\ UNCHANGED <<expenses, expense_allocations>>
      BY <1>3 DEF assign_donation_allocation
    <2>2. TypeOK'
      BY <1>3, AssignType
    <2>3. ASSUME NEW h \in AllocationIds
          PROVE  allocation_remaining_balance(h, expenses, expense_allocations)' >= 0
      <3>1. Pool(h) \in SUBSET Pool(h)'
        BY <2>1 DEF Pool
      <3>2. IsFiniteSet(Pool(h)') /\ \A x \in Pool(h)' : x.amount \in Nat
        <4>1. Pool(h)' \subseteq donation_allocations'
          BY DEF Pool
        <4> QED
          BY <2>2, <4>1, FS_Subset DEF TypeOK, DonationAllocation, Positive
      <3>3. SumAmounts(Pool(h)) <= SumAmounts(Pool(h)') /\ SumAmounts(Pool(h)') \in Nat
            /\ SumAmounts(Pool(h)) \in Nat
        BY <3>1, <3>2, SumSubset, SumType, PoolType
      <3>4. allocation_remaining_balance(h, expenses, expense_allocations) >= 0
        BY DEF FundInv, FundNonNegative
      <3> DEFINE V == SumAmounts(VerifiedCharges(h, expenses, expense_allocations))
      <3>5. V \in Nat
        BY VerifiedType DEF TypeOK
      <3>6. SumAmounts(Pool(h)) - V >= 0
        BY <3>4 DEF allocation_remaining_balance
      <3>7. V' = V
        BY <2>1
      <3>8. SumAmounts(Pool(h)') - V >= 0
        BY <3>3, <3>5, <3>6
      <3> QED
        BY <2>1, <3>8 DEF allocation_remaining_balance
    <2> QED
      BY <2>1, <2>3 DEF FundInv, FundNonNegative, OneCharge
  <1>4. ASSUME NEW e \in ExpenseIds, NEW amt \in Amounts,
               NEW st \in {"DRAFT", "IMPORTED"}, import_expense(e, amt, st)
        PROVE  FundInv'
    <2>1. /\ UNCHANGED <<donation_allocations, expense_allocations>>
          /\ expenses'[e] = [amount |-> amt, state |-> st]
          /\ \A h \in ExpenseIds \ {e} : expenses'[h] = expenses[h]
      BY <1>4 DEF import_expense, TypeOK
    <2>2. expenses'[e].state \notin VERIFIED_EXPENSE_STATES
      BY <2>1 DEF VERIFIED_EXPENSE_STATES
    <2>3. \A x \in expense_allocations : x.expense \in ExpenseIds
      BY DEF TypeOK, ExpenseAllocation
    <2> QED
      BY <1>2, <2>1, <2>2, <2>3 DEF VerifiedCharges
  <1>5. ASSUME NEW e \in ExpenseIds, NEW approver \in Approvers, approve_expense(e, approver)
        PROVE  FundInv'
    <2>1. /\ UNCHANGED <<donation_allocations, expense_allocations>>
          /\ CanApprove(e, approver, expenses, expense_allocations)
          /\ \A h \in ExpenseIds \ {e} : expenses'[h] = expenses[h]
      BY <1>5 DEF approve_expense, TypeOK
    <2>2. ASSUME NEW f \in AllocationIds
          PROVE  allocation_remaining_balance(f, expenses', expense_allocations) >= 0
      BY <2>1, ApprovalFits DEF TypeOK, FundInv, FundNonNegative
    <2>3. ASSUME NEW f \in AllocationIds
          PROVE  allocation_remaining_balance(f, expenses, expense_allocations)' >= 0
      BY <2>1, <2>2 DEF allocation_remaining_balance, Pool
    <2> QED
      BY <2>1, <2>3 DEF FundInv, FundNonNegative, OneCharge
  <1>6. ASSUME NEW e \in ExpenseIds, reconcile_expense(e) \/ reverse_expense(e)
        PROVE  FundInv'
    <2>1. /\ UNCHANGED <<donation_allocations, expense_allocations>>
          /\ expenses[e] # None /\ expenses[e].state \in VERIFIED_EXPENSE_STATES
          /\ \A h \in ExpenseIds \ {e} : expenses'[h] = expenses[h]
      BY <1>6 DEF reconcile_expense, reverse_expense, InState, Exists, TypeOK,
                  VERIFIED_EXPENSE_STATES
    <2>2. \A x \in expense_allocations : x.expense \in ExpenseIds
      BY DEF TypeOK, ExpenseAllocation
    <2> QED
      BY <1>2, <2>1, <2>2 DEF VerifiedCharges
  <1>7. ASSUME NEW e \in ExpenseIds, NEW f \in AllocationIds, NEW amt \in Amounts,
               allocate_expense(e, f, amt)
        PROVE  FundInv'
    <2> DEFINE s == <<[allocation |-> f, amount |-> amt]>>
    <2>1. \A i, j \in DOMAIN s : s[i].allocation = s[j].allocation => i = j
      OBVIOUS
    <2>2. /\ Rechargeable(e)
          /\ expense_allocations' = Recharged(e, s, expense_allocations)
          /\ expenses' = Classified(e, expenses)
          /\ donation_allocations' = donation_allocations
      BY <1>7 DEF allocate_expense
    <2> HIDE DEF s
    <2> QED
      BY <2>1, <2>2, RechargeFund
  <1>20. ASSUME NEW e \in ExpenseIds, NEW s \in SplitChoices, allocate_expense_splits(e, s)
         PROVE  FundInv'
    <2>1. \A i, j \in DOMAIN s : s[i].allocation = s[j].allocation => i = j
      BY DEF SplitsNameFundsOnce
    <2> QED
      BY <1>20, <2>1, RechargeFund DEF allocate_expense_splits
  <1>8. CASE \E d \in DonorIds : register_donor(d)
    BY <1>1, <1>8 DEF register_donor
  <1>9. CASE \E g \in DonationIds, d \in DonorIds, amt \in Amounts, cleared \in BOOLEAN :
                import_donation(g, d, amt, cleared)
    BY <1>1, <1>9 DEF import_donation
  <1>10. CASE \E f \in AllocationIds : register_allocation(f)
    BY <1>1, <1>10 DEF register_allocation
  <1>11. CASE \E g \in DonationIds, e \in ExpenseIds, f \in AllocationIds, mth \in Methods :
                attribute_donor_to_expense(g, e, f, mth)
    BY <1>1, <1>11 DEF attribute_donor_to_expense
  <1>12. CASE \E e \in ExpenseIds, g \in DonationIds, f \in AllocationIds :
                publish_use_of_funds_receipt(e, g, f)
    BY <1>1, <1>12 DEF publish_use_of_funds_receipt
  <1>13. CASE UNCHANGED vars
    BY <1>1, <1>13 DEF vars
  <1> QED
    BY <1>3, <1>4, <1>5, <1>6, <1>7, <1>20, <1>8, <1>9, <1>10, <1>11, <1>12, <1>13, SupersedeFund DEF Next

\* A restricted fund is never overdrawn, for any number of donations, funds and
\* expenses and any order of approvals, reversals and replacements, provided no
\* split list names a fund twice and no designation id is reused: exactly the
\* two things the code leaves to its callers.
THEOREM FundSafe ==
    ASSUME SplitsNameFundsOnce, FreshDaIds
    PROVE  Spec => []FundNonNegative
PROOF
  <1>1. Init => FundInv
    <2> SUFFICES ASSUME Init PROVE FundInv
      OBVIOUS
    <2>1. \A f : Pool(f) = {} /\ VerifiedCharges(f, expenses, expense_allocations) = {}
      BY DEF Init, Pool, VerifiedCharges
    <2>2. \A f : allocation_remaining_balance(f, expenses, expense_allocations) = 0
      BY <2>1, SumEmpty DEF allocation_remaining_balance
    <2> QED
      BY <2>2 DEF Init, FundInv, FundNonNegative, OneCharge
  <1>2. TypeOK /\ FundInv /\ [Next]_vars => FundInv'
    BY FundStep
  <1>3. FundInv => FundNonNegative
    BY DEF FundInv
  <1> QED
    BY <1>1, <1>2, <1>3, TypeCorrect, PTL DEF Spec

=============================================================================
