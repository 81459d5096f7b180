------------------------- MODULE CorrectionsProofs --------------------------
(***************************************************************************)
(* Theorems about the correction and digest workflows, and about impact    *)
(* receipts beside them, for every set of workflows, expenses and signals. *)
(***************************************************************************)
EXTENDS CorrectedImpact, FiniteSetTheorems, SequenceTheorems, TLAPS

-----------------------------------------------------------------------------
(* What each step writes into a row *)

\* What was ordered when the workflow was started; no step changes it.
SameOrder(a, b) ==
    /\ a.type = b.type /\ a.command = b.command /\ a.missing = b.missing
    /\ a.simulation = b.simulation /\ a.require_approval = b.require_approval

\* A missing row is no row.
LEMMA AbsentIsNoRow == Absent \notin WorkflowInstance
PROOF
  <1>1. "command" \notin DOMAIN Absent
    BY DEF Absent
  <1>2. \A x \in WorkflowInstance : "command" \in DOMAIN x
    BY DEF WorkflowInstance
  <1> QED
    BY <1>1, <1>2

\* The idle worker has no job.
LEMMA NoJobIsNoJob == NoJob \notin Job
PROOF
  <1>1. "flow" \notin DOMAIN NoJob
    BY DEF NoJob
  <1>2. \A x \in Job : "flow" \in DOMAIN x
    BY DEF Job
  <1> QED
    BY <1>1, <1>2

\* A row moved to another state keeps its other fields.
LEMMA MovedRow ==
    ASSUME NEW inst \in WorkflowInstance, NEW st \in WorkflowState, NEW rs \in WorkflowRunStatus
    PROVE  LET r == Moved(inst, st, rs) IN
           /\ r \in WorkflowInstance /\ SameOrder(r, inst)
           /\ r.workflow_state = st /\ r.run_status = rs
           /\ r.asked = inst.asked /\ r.expired = inst.expired
           /\ r.attempt_count = inst.attempt_count
BY DEF Moved, WorkflowInstance, SameOrder

\* A new run status changes nothing else.
LEMMA StatusRow ==
    ASSUME NEW inst \in WorkflowInstance, NEW rs \in WorkflowRunStatus
    PROVE  LET r == [inst EXCEPT !.run_status = rs] IN
           /\ r \in WorkflowInstance /\ SameOrder(r, inst)
           /\ r.workflow_state = inst.workflow_state /\ r.run_status = rs
           /\ r.asked = inst.asked /\ r.expired = inst.expired
           /\ r.attempt_count = inst.attempt_count
BY DEF WorkflowInstance, SameOrder

\* A row shown to the operator.
LEMMA AskedRow ==
    ASSUME NEW inst \in WorkflowInstance, NEW st \in WorkflowState
    PROVE  LET r == Asked(inst, st) IN
           /\ r \in WorkflowInstance /\ SameOrder(r, inst)
           /\ r.workflow_state = st /\ r.expired = inst.expired
PROOF
  <1> DEFINE x == Moved(inst, st, "WAITING_SIGNAL")
  <1>1. /\ x \in WorkflowInstance /\ SameOrder(x, inst)
        /\ x.workflow_state = st /\ x.expired = inst.expired
    BY MovedRow DEF WorkflowRunStatus
  <1>2. Asked(inst, st) = [x EXCEPT !.asked = TRUE, !.wait_deadline = TRUE]
    BY DEF Asked
  <1> HIDE DEF x
  <1> QED
    BY <1>1, <1>2 DEF WorkflowInstance, SameOrder

\* A row whose gate timed out.
LEMMA ExpiredRow ==
    ASSUME NEW inst \in WorkflowInstance
    PROVE  LET r == Expired(inst) IN
           /\ r \in WorkflowInstance /\ SameOrder(r, inst)
           /\ r.workflow_state = "NEEDS_INFORMATION"
PROOF
  <1> DEFINE x == Moved(inst, "NEEDS_INFORMATION", "WAITING_SIGNAL")
  <1>1. /\ x \in WorkflowInstance /\ SameOrder(x, inst)
        /\ x.workflow_state = "NEEDS_INFORMATION"
    BY MovedRow DEF WorkflowRunStatus, WorkflowState
  <1>2. Expired(inst) = [x EXCEPT !.wait_deadline = FALSE, !.expired = TRUE]
    BY DEF Expired
  <1> HIDE DEF x
  <1> QED
    BY <1>1, <1>2 DEF WorkflowInstance, SameOrder

\* A row that got past its gate.
LEMMA PassedRow ==
    ASSUME NEW inst \in WorkflowInstance, NEW st \in WorkflowState
    PROVE  LET r == [Moved(inst, st, "PENDING") EXCEPT !.wait_deadline = FALSE] IN
           /\ r \in WorkflowInstance /\ SameOrder(r, inst)
           /\ r.workflow_state = st /\ r.expired = inst.expired /\ r.asked = inst.asked
PROOF
  <1> DEFINE x == Moved(inst, st, "PENDING")
  <1>1. /\ x \in WorkflowInstance /\ SameOrder(x, inst)
        /\ x.workflow_state = st /\ x.expired = inst.expired /\ x.asked = inst.asked
    BY MovedRow DEF WorkflowRunStatus
  <1> HIDE DEF x
  <1>2. LET r == [x EXCEPT !.wait_deadline = FALSE] IN
        /\ r \in WorkflowInstance /\ SameOrder(r, inst)
        /\ r.workflow_state = st /\ r.expired = inst.expired /\ r.asked = inst.asked
    BY <1>1 DEF WorkflowInstance, SameOrder
  <1> QED
    BY <1>2 DEF x

\* A row whose advance raised, with an attempt left.
LEMMA RaisedRow ==
    ASSUME NEW inst \in WorkflowInstance, inst.attempt_count < max_attempts
    PROVE  LET r == AfterRaise(inst) IN
           /\ r \in WorkflowInstance /\ SameOrder(r, inst)
           /\ r.workflow_state = inst.workflow_state
           /\ r.asked = inst.asked /\ r.expired = inst.expired
PROOF
  <1> DEFINE n == inst.attempt_count + 1
             rs == IF n = max_attempts THEN "DEAD_LETTER" ELSE "RETRY_SCHEDULED"
  <1>1. inst.attempt_count \in 0 .. max_attempts
    BY DEF WorkflowInstance
  <1>2. n \in 0 .. max_attempts
    BY <1>1, CorrectionsAssumption
  <1>3. rs \in WorkflowRunStatus
    BY DEF WorkflowRunStatus
  <1>4. AfterRaise(inst) = [inst EXCEPT !.attempt_count = n, !.run_status = rs]
    BY DEF AfterRaise
  <1> HIDE DEF n, rs
  <1> QED
    BY <1>2, <1>3, <1>4 DEF WorkflowInstance, SameOrder

\* A row whose command failed.
LEMMA FailedRow ==
    ASSUME NEW inst \in WorkflowInstance, inst.attempt_count < max_attempts, NEW status
    PROVE  LET r == AfterFailure(inst, status) IN
           /\ r \in WorkflowInstance /\ SameOrder(r, inst)
           /\ r.workflow_state = inst.workflow_state
           /\ r.asked = inst.asked /\ r.expired = inst.expired
PROOF
  <1>1. CASE status = "ALREADY_APPLIED"
    <2> DEFINE x == [inst EXCEPT !.run_status = "FAILED_TERMINAL"]
    <2>1. AfterFailure(inst, status) = x
      BY <1>1 DEF AfterFailure
    <2>2. /\ x \in WorkflowInstance /\ SameOrder(x, inst)
          /\ x.workflow_state = inst.workflow_state
          /\ x.asked = inst.asked /\ x.expired = inst.expired
      BY StatusRow DEF WorkflowRunStatus
    <2> HIDE DEF x
    <2> QED
      BY <2>1, <2>2
  <1>2. CASE status # "ALREADY_APPLIED"
    <2>1. AfterFailure(inst, status) = AfterRaise(inst)
      BY <1>2 DEF AfterFailure
    <2> QED
      BY <2>1, RaisedRow
  <1> QED
    BY <1>1, <1>2

\* A row whose command succeeded.
LEMMA SucceededRow ==
    ASSUME NEW inst \in WorkflowInstance
    PROVE  LET r == AfterSuccess(inst) IN
           /\ r \in WorkflowInstance /\ SameOrder(r, inst)
           /\ r.workflow_state = "LEDGER_COMMITTED"
           /\ r.expired = inst.expired /\ r.asked = inst.asked
BY PassedRow DEF AfterSuccess, WorkflowState

\* The rows two workflows start with.
LEMMA StartedType ==
    /\ Started \in WorkflowInstance
    /\ Started.type = "correction" /\ Started.workflow_state = "RECEIVED"
    /\ ~Started.expired /\ ~Started.asked
PROOF
  <1>1. 0 \in 0 .. max_attempts
    BY CorrectionsAssumption
  <1>2. "RECEIVED" \in WorkflowState /\ "PENDING" \in WorkflowRunStatus
    BY DEF WorkflowState, WorkflowRunStatus
  <1> QED
    BY <1>1, <1>2 DEF Started, WorkflowInstance

-----------------------------------------------------------------------------
(* What a command does to the ledger *)

Final == {"REVERSED", "SUPERSEDED"}

\* The state a command leaves its expense in.
Target(c) == IF c.type = "reverse_expense" THEN "REVERSED" ELSE "SUPERSEDED"

\* l2 is a ledger that keeps every correction l has.
Keeps(l, l2) ==
    /\ l2 \in Ledger
    /\ \A e \in Ids : l.expenses[e] \in Final => l2.expenses[e] = l.expenses[e]

\* Commands name ids of the ledger.
LEMMA CommandIds ==
    ASSUME NEW c \in Commands
    PROVE  /\ c.expense \in Ids
           /\ c.type # "reverse_expense" => c.arg \in Ids
BY DEF Commands, build_reverse_command, build_supersede_command

\* A ledger is put together from its parts.
LEMMA LedgerParts ==
    ASSUME NEW l
    PROVE  l \in Ledger <=>
             /\ l = [expenses |-> l.expenses, corrected |-> l.corrected]
             /\ l.expenses \in [Ids -> ExpenseStates]
             /\ l.corrected \in [Expenses -> {"none", "REVERSAL", "SUPERSEDE"}]
BY DEF Ledger

\* A reversal keeps every correction made before.
LEMMA ReverseOutcome ==
    ASSUME NEW l \in Ledger, NEW c \in Commands, NEW out \in _reverse_expense(l, c)
    PROVE  /\ Keeps(l, out[2])
           /\ out[1] = "ok" => out[2].expenses[c.expense] = "REVERSED"
PROOF
  <1>1. c.expense \in Ids
    BY CommandIds
  <1>2. l.expenses \in [Ids -> ExpenseStates]
        /\ l.corrected \in [Expenses -> {"none", "REVERSAL", "SUPERSEDE"}]
    BY LedgerParts
  <1>3. Keeps(l, l)
    BY DEF Keeps
  <1> DEFINE es == [l.expenses EXCEPT ![c.expense] = "REVERSED"]
             cs == [e \in Expenses |-> IF e = c.expense THEN "REVERSAL" ELSE l.corrected[e]]
             new == [expenses |-> es, corrected |-> cs]
  <1>4. es \in [Ids -> ExpenseStates] /\ es[c.expense] = "REVERSED"
        /\ \A e \in Ids \ {c.expense} : es[e] = l.expenses[e]
    BY <1>1, <1>2 DEF ExpenseStates
  <1>5. cs \in [Expenses -> {"none", "REVERSAL", "SUPERSEDE"}]
    BY <1>2
  <1> HIDE DEF es, cs
  <1>6. new \in Ledger /\ new.expenses = es
    BY <1>4, <1>5 DEF Ledger
  <1>7. l.expenses[c.expense] = "APPROVED" => Keeps(l, new)
    BY <1>1, <1>4, <1>6 DEF Keeps, Final
  <1>8. \/ out = <<"ok", l>> /\ l.expenses[c.expense] = "REVERSED"
        \/ out = <<"ok", new>> /\ l.expenses[c.expense] = "APPROVED"
        \/ out = <<"RETRYABLE", l>>
    BY DEF _reverse_expense, es, cs
  <1> HIDE DEF new
  <1> QED
    BY <1>3, <1>4, <1>6, <1>7, <1>8

\* So does every stage of a supersede, the ones that raise half way included.
LEMMA SupersedeOutcomes ==
    ASSUME NEW l \in Ledger, NEW c \in Commands, c.type # "reverse_expense",
           NEW out \in _supersede_expense(l, c)
    PROVE  /\ Keeps(l, out[2])
           /\ out[1] = "ok" => out[2].expenses[c.expense] = "SUPERSEDED"
PROOF
  <1>1. c.expense \in Ids /\ c.arg \in Ids
    BY CommandIds
  <1>2. l.expenses \in [Ids -> ExpenseStates]
        /\ l.corrected \in [Expenses -> {"none", "REVERSAL", "SUPERSEDE"}]
    BY LedgerParts
  <1>3. Keeps(l, l)
    BY DEF Keeps
  <1> DEFINE old == [l EXCEPT !.expenses[c.expense] = "SUPERSEDED"]
             at(state) == [old EXCEPT !.expenses[c.arg] = state]
             cs == [e \in Expenses |-> IF e = c.expense THEN "SUPERSEDE"
                                       ELSE at("APPROVED").corrected[e]]
             done == [at("APPROVED") EXCEPT !.corrected = cs]
  <1>4. /\ old \in Ledger
        /\ old.expenses[c.expense] = "SUPERSEDED"
        /\ \A e \in Ids \ {c.expense} : old.expenses[e] = l.expenses[e]
    BY <1>1, <1>2 DEF Ledger, ExpenseStates
  <1> HIDE DEF old
  <1>5. ASSUME NEW st \in ExpenseStates
        PROVE  /\ at(st) \in Ledger
               /\ at(st).expenses[c.arg] = st
               /\ \A e \in Ids \ {c.arg} : at(st).expenses[e] = old.expenses[e]
    BY <1>1, <1>4 DEF Ledger, ExpenseStates
  <1>6. {"IMPORTED", "APPROVAL_PENDING", "APPROVED"} \subseteq ExpenseStates
    BY DEF ExpenseStates
  <1> HIDE DEF at
  <1>7. at("APPROVED").corrected \in [Expenses -> {"none", "REVERSAL", "SUPERSEDE"}]
    BY <1>5, <1>6, LedgerParts
  <1>8. cs \in [Expenses -> {"none", "REVERSAL", "SUPERSEDE"}]
    BY <1>7
  <1> HIDE DEF cs
  <1>9. done \in Ledger /\ done.expenses = at("APPROVED").expenses
    <2> DEFINE top == at("APPROVED")
    <2>1. top \in Ledger
      BY <1>5, <1>6
    <2>2. done = [top EXCEPT !.corrected = cs]
      OBVIOUS
    <2> HIDE DEF top, done
    <2>3. done \in Ledger /\ done.expenses = top.expenses
      BY <1>8, <2>1, <2>2 DEF Ledger
    <2> QED
      BY <2>3 DEF top
  <1> HIDE DEF done
  <1>10. \/ out = <<"ok", l>> /\ l.expenses[c.expense] = "SUPERSEDED"
         \/ out = <<"RETRYABLE", l>>
         \/ l.expenses[c.expense] = "APPROVED" /\ out \in Superseding(l, c)
    BY DEF _supersede_expense
  <1>11. ASSUME out \in Superseding(l, c)
         PROVE  \/ out[1] # "ok" /\ out[2] = old
                \/ /\ c.arg # c.expense /\ l.expenses[c.arg] = "ABSENT"
                   /\ \/ out[1] # "ok" /\ out[2] \in {at("IMPORTED"), at("APPROVAL_PENDING")}
                      \/ out = <<"ok", done>>
    <2>1. CASE c.arg = c.expense
      BY <1>11, <2>1 DEF Superseding, old
    <2>2. CASE c.arg # c.expense /\ l.expenses[c.arg] # "ABSENT"
      BY <1>11, <2>2 DEF Superseding, old
    <2>3. CASE c.arg # c.expense /\ l.expenses[c.arg] = "ABSENT"
      <3>1. out \in {<<"RETRYABLE", old>>, <<"RETRYABLE", at("IMPORTED")>>,
                     <<"RETRYABLE", at("APPROVAL_PENDING")>>, <<"ok", done>>}
        BY <1>11, <2>3, Zenon DEF Superseding, old, at, done, cs
      <3> QED
        BY <2>3, <3>1
    <2> QED
      BY <2>1, <2>2, <2>3
  <1>12. ASSUME l.expenses[c.expense] = "APPROVED"
         PROVE  Keeps(l, old)
    BY <1>1, <1>4, <1>12 DEF Keeps, Final
  <1>13. ASSUME l.expenses[c.expense] = "APPROVED", c.arg # c.expense,
                l.expenses[c.arg] = "ABSENT", NEW x \in Ledger, NEW st \in ExpenseStates,
                x.expenses = at(st).expenses
         PROVE  Keeps(l, x) /\ x.expenses[c.expense] = "SUPERSEDED"
    BY <1>1, <1>4, <1>5, <1>13 DEF Keeps, Final
  <1>14. CASE out[1] # "ok" /\ out[2] = old /\ l.expenses[c.expense] = "APPROVED"
    BY <1>12, <1>14
  <1>15. CASE /\ l.expenses[c.expense] = "APPROVED"
              /\ c.arg # c.expense /\ l.expenses[c.arg] = "ABSENT"
              /\ out[1] # "ok" /\ out[2] \in {at("IMPORTED"), at("APPROVAL_PENDING")}
    BY <1>5, <1>6, <1>13, <1>15
  <1>16. CASE /\ l.expenses[c.expense] = "APPROVED"
              /\ c.arg # c.expense /\ l.expenses[c.arg] = "ABSENT"
              /\ out = <<"ok", done>>
    BY <1>6, <1>9, <1>13, <1>16
  <1>17. CASE out \in {<<"ok", l>>, <<"RETRYABLE", l>>}
    BY <1>3, <1>10, <1>14, <1>15, <1>16, <1>11, <1>17
  <1> QED
    BY <1>10, <1>11, <1>14, <1>15, <1>16, <1>17

\* Every command keeps the corrections made before it, and one that succeeds
\* leaves its own.
LEMMA DispatchOutcome ==
    ASSUME NEW l \in Ledger, NEW c \in Commands, NEW out \in _dispatch(l, c)
    PROVE  /\ Keeps(l, out[2])
           /\ out[1] = "ok" => out[2].expenses[c.expense] = Target(c)
PROOF
  <1>1. CASE c.type = "reverse_expense"
    BY <1>1, ReverseOutcome DEF _dispatch, Target
  <1>2. CASE c.type # "reverse_expense"
    BY <1>2, SupersedeOutcomes DEF _dispatch, Target
  <1> QED
    BY <1>1, <1>2

-----------------------------------------------------------------------------
(* The inductive invariant *)

PastStates == {"LEDGER_COMMITTED", "PUBLISHED", "DELIVERED"}

\* The log has the correction that command c orders.
Done(c) == logged.expenses[c.expense] = Target(c)

\* No more signals are consumed than were sent, and no more sent than allowed.
SignalInv ==
    /\ IsFiniteSet(Sent) /\ Cardinality(Sent) <= MaxSignals
    /\ \A f \in Flows : taken[f] <= Len(signals[f])

\* What holds of the row of workflow f when n of its signals are consumed.
RowOK(f, row, n) ==
    /\ row = Absent => n = 0
    /\ row # Absent =>
        /\ row.type = "correction" => row.command \in Commands
        /\ row.expired => row.workflow_state = "NEEDS_INFORMATION"
        /\ row.workflow_state = "RECEIVED" => ~row.asked
        /\ row.type = "scheduled_digest"
           /\ row.workflow_state \in {"RECEIVED", "PUBLICATION_PENDING"} => n = 0
        /\ row.asked /\ row.workflow_state \in PastStates =>
              /\ n > 0 /\ signals[f][n] = "APPROVE"
              /\ row.type = "scheduled_digest" => n = 1
        /\ row.type = "correction" /\ ~row.simulation
           /\ row.workflow_state \in {"LEDGER_COMMITTED", "DELIVERED"} =>
              Done(row.command) \/ Simulated(row.command)

RowsInv == \A f \in Flows : RowOK(f, rows[f], taken[f])

\* While the worker executes a command nothing moves its row out of the gate,
\* and the row it will commit is past the gate only with an APPROVE that is
\* still to be consumed and a correction that is in the log.
JobInv ==
    job # NoJob =>
        /\ rows[job.flow] # Absent
        /\ rows[job.flow].type = "correction"
        /\ rows[job.flow].workflow_state = "REVIEW_PENDING"
        /\ rows[job.flow].run_status \in {"RUNNING", "PENDING"}
        /\ rows[job.flow].attempt_count < max_attempts
        /\ SameOrder(job.inst, rows[job.flow])
        /\ ~job.inst.expired
        /\ job.inst.workflow_state \in {"LEDGER_COMMITTED", "REVIEW_PENDING"}
        /\ job.consume => taken[job.flow] < Len(signals[job.flow])
        /\ job.inst.workflow_state = "LEDGER_COMMITTED" =>
              /\ job.consume
              /\ signals[job.flow][taken[job.flow] + 1] = "APPROVE"
              /\ job.inst.simulation
                 \/ Done(job.inst.command) \/ Simulated(job.inst.command)
        /\ job.at = "put_receipt" =>
              /\ job.inst.workflow_state = "LEDGER_COMMITTED"
              /\ job.status = "SUCCEEDED" => Done(job.inst.command)

\* The running ledger has every correction the log has, and what the log and
\* the receipts answer for is in the log.
LogInv ==
    /\ Keeps(logged, ledger)
    /\ \A c \in log_keys : Done(c)
    /\ \A r \in receipts : r.status = "SUCCEEDED" => Done(r.key)

CInv == TypeOK /\ SignalInv /\ RowsInv /\ JobInv /\ LogInv

-----------------------------------------------------------------------------
(* Rows *)

\* A workflow has at most as many signals as may be sent.
LEMMA SignalsBounded ==
    ASSUME TypeOK, SignalInv, NEW f \in Flows
    PROVE  Len(signals[f]) \in 0 .. MaxSignals
PROOF
  <1>1. Len(signals[f]) \in Nat /\ DOMAIN signals[f] = 1 .. Len(signals[f])
    BY LenProperties DEF TypeOK
  <1> DEFINE S == {f} \X DOMAIN signals[f]
  <1>2. S \in SUBSET Sent
    BY DEF Sent
  <1>3. Cardinality(S) <= Cardinality(Sent)
    BY <1>2, FS_Subset DEF SignalInv
  <1>4. IsFiniteSet({f}) /\ Cardinality({f}) = 1
    BY FS_Singleton
  <1>5. IsFiniteSet(DOMAIN signals[f]) /\ Cardinality(DOMAIN signals[f]) = Len(signals[f])
    BY <1>1, FS_Interval
  <1>6. Cardinality(S) = Cardinality({f}) * Cardinality(DOMAIN signals[f])
    BY <1>4, <1>5, FS_Product
  <1>7. Cardinality(Sent) \in Nat
    BY FS_CardinalityType DEF SignalInv
  <1> QED
    BY <1>1, <1>3, <1>4, <1>5, <1>6, <1>7, CorrectionsAssumption DEF SignalInv

\* A row that keeps its order, its state and its flags keeps what holds of it.
LEMMA RowSame ==
    ASSUME NEW f, NEW row \in WorkflowInstance, NEW r \in WorkflowInstance, NEW n,
           RowOK(f, row, n), SameOrder(r, row),
           r.workflow_state = row.workflow_state,
           r.asked = row.asked, r.expired = row.expired
    PROVE  RowOK(f, r, n)
BY AbsentIsNoRow DEF RowOK, SameOrder

\* A row short of the gate's other side has little to keep.
LEMMA RowQuiet ==
    ASSUME NEW f, NEW row \in WorkflowInstance, NEW r \in WorkflowInstance, NEW m, NEW n,
           RowOK(f, row, m), SameOrder(r, row),
           r.workflow_state \in {"REVIEW_PENDING", "BLOCKED", "REJECTED", "NEEDS_INFORMATION"},
           ~r.expired \/ r.workflow_state = "NEEDS_INFORMATION"
    PROVE  RowOK(f, r, n)
BY AbsentIsNoRow DEF RowOK, SameOrder, PastStates

\* A delivered row was past the gate already.
LEMMA RowDelivered ==
    ASSUME NEW f, NEW row \in WorkflowInstance, NEW r \in WorkflowInstance, NEW n,
           RowOK(f, row, n), SameOrder(r, row),
           \/ row.type = "correction" /\ row.workflow_state = "LEDGER_COMMITTED"
           \/ row.type = "scheduled_digest" /\ row.workflow_state = "PUBLISHED",
           r.workflow_state = "DELIVERED", r.asked = row.asked, r.expired = row.expired
    PROVE  RowOK(f, r, n)
BY AbsentIsNoRow DEF RowOK, SameOrder, PastStates

\* What the oldest signal is.
LEMMA SignalledNext ==
    ASSUME NEW f, Signalled(f) # "none"
    PROVE  taken[f] < Len(signals[f]) /\ signals[f][taken[f] + 1] = Signalled(f)
BY DEF Signalled

\* The worker stores a row in one step.
LEMMA CommitStep ==
    ASSUME CInv, NEW f \in Flows, job = NoJob, NEW inst \in WorkflowInstance,
           NEW n \in {0, 1}, n = 1 => taken[f] < Len(signals[f]),
           RowOK(f, inst, taken[f] + n), Commit(f, inst, n)
    PROVE  CInv'
PROOF
  <1>1. /\ rows' = [rows EXCEPT ![f] = inst]
        /\ taken' = [taken EXCEPT ![f] = taken[f] + n]
        /\ UNCHANGED <<signals, receipts, ledger, logged, log_keys, job, crashes>>
    BY DEF Commit
  <1>2. TypeOK /\ SignalInv /\ RowsInv /\ LogInv
    BY DEF CInv
  <1>3. taken[f] \in Nat /\ Len(signals[f]) \in 0 .. MaxSignals
    BY <1>2, SignalsBounded, CorrectionsAssumption DEF TypeOK
  <1>4. taken[f] + n \in 0 .. MaxSignals /\ taken[f] + n <= Len(signals[f])
    BY <1>2, <1>3, CorrectionsAssumption DEF SignalInv
  <1>5. TypeOK'
    BY <1>1, <1>2, <1>4 DEF TypeOK
  <1>6. SignalInv'
    <2>1. Sent' = Sent
      BY <1>1 DEF Sent
    <2> QED
      BY <1>1, <1>2, <1>4, <2>1 DEF SignalInv, TypeOK
  <1>7. RowsInv'
    <2>1. \A c : Done(c)' = Done(c) /\ Simulated(c)' = Simulated(c)
      BY <1>1 DEF Done, Simulated
    <2>2. ASSUME NEW h \in Flows
          PROVE  RowOK(h, rows'[h], taken'[h])
      BY <1>1, <1>2 DEF RowsInv, TypeOK
    <2> QED
      BY <1>1, <2>1, <2>2 DEF RowsInv, RowOK
  <1>8. JobInv'
    BY <1>1 DEF JobInv
  <1>9. LogInv'
    BY <1>1, <1>2 DEF LogInv, Done
  <1> QED
    BY <1>5, <1>6, <1>7, <1>8, <1>9 DEF CInv

\* What the worker finds when it claims a row.
LEMMA Claimed ==
    ASSUME CInv, NEW f \in Flows, Claimable(f)
    PROVE  /\ job = NoJob /\ rows[f] \in WorkflowInstance
           /\ RowOK(f, rows[f], taken[f]) /\ taken[f] + 0 = taken[f]
           /\ taken[f] \in Nat
BY CorrectionsAssumption DEF CInv, TypeOK, Claimable, Exists, RowsInv

\* A row that waits or is woken, and keeps the rest, may be stored.
LEMMA CommitStatus ==
    ASSUME CInv, NEW f \in Flows, Claimable(f), NEW rs \in WorkflowRunStatus,
           Commit(f, [rows[f] EXCEPT !.run_status = rs], 0)
    PROVE  CInv'
PROOF
  <1>1. /\ job = NoJob /\ rows[f] \in WorkflowInstance
        /\ RowOK(f, rows[f], taken[f]) /\ taken[f] + 0 = taken[f]
    BY Claimed
  <1> DEFINE r == [rows[f] EXCEPT !.run_status = rs]
  <1>2. /\ r \in WorkflowInstance /\ SameOrder(r, rows[f])
        /\ r.workflow_state = rows[f].workflow_state
        /\ r.asked = rows[f].asked /\ r.expired = rows[f].expired
    BY <1>1, StatusRow
  <1> HIDE DEF r
  <1>3. RowOK(f, r, taken[f])
    BY <1>1, <1>2, RowSame
  <1>4. RowOK(f, r, taken[f] + 0)
    BY <1>1, <1>3
  <1>5. Commit(f, r, 0)
    BY DEF r
  <1> QED
    BY <1>1, <1>2, <1>4, <1>5, CommitStep

\* A row moved to a state on this side of the gate may be stored.
LEMMA CommitQuiet ==
    ASSUME CInv, NEW f \in Flows, Claimable(f), NEW r \in WorkflowInstance,
           NEW n \in {0, 1}, n = 1 => taken[f] < Len(signals[f]),
           SameOrder(r, rows[f]),
           r.workflow_state \in {"REVIEW_PENDING", "BLOCKED", "REJECTED", "NEEDS_INFORMATION"},
           ~r.expired \/ r.workflow_state = "NEEDS_INFORMATION",
           Commit(f, r, n)
    PROVE  CInv'
PROOF
  <1>1. /\ job = NoJob /\ rows[f] \in WorkflowInstance /\ RowOK(f, rows[f], taken[f])
    BY Claimed
  <1>2. RowOK(f, r, taken[f] + n)
    BY <1>1, RowQuiet
  <1> QED
    BY <1>1, <1>2, CommitStep

\* The proposal of a correction.
LEMMA ProposeStep ==
    ASSUME CInv, NEW f \in Flows, step_propose_correction(f)
    PROVE  CInv'
PROOF
  <1>1. Claimable(f) /\ rows[f].workflow_state = "RECEIVED"
    BY DEF step_propose_correction, Advancing
  <1>2. rows[f] \in WorkflowInstance /\ RowOK(f, rows[f], taken[f])
    BY <1>1, Claimed
  <1>3. ~rows[f].expired
    BY <1>1, <1>2, AbsentIsNoRow DEF RowOK
  <1> DEFINE ni == Moved(rows[f], "NEEDS_INFORMATION", "WAITING_SIGNAL")
             bl == Moved(rows[f], "BLOCKED", "FAILED_TERMINAL")
             rp == Asked(rows[f], "REVIEW_PENDING")
  <1>4. Commit(f, ni, 0) \/ Commit(f, bl, 0) \/ Commit(f, rp, 0)
    BY DEF step_propose_correction
  <1>5. {"NEEDS_INFORMATION", "BLOCKED", "REVIEW_PENDING"} \subseteq WorkflowState
        /\ {"WAITING_SIGNAL", "FAILED_TERMINAL"} \subseteq WorkflowRunStatus
    BY DEF WorkflowState, WorkflowRunStatus
  <1>6. ni \in WorkflowInstance /\ SameOrder(ni, rows[f])
        /\ ni.workflow_state = "NEEDS_INFORMATION"
    BY <1>2, <1>5, MovedRow
  <1>7. bl \in WorkflowInstance /\ SameOrder(bl, rows[f])
        /\ bl.workflow_state = "BLOCKED" /\ ~bl.expired
    <2>1. /\ bl \in WorkflowInstance /\ SameOrder(bl, rows[f])
          /\ bl.workflow_state = "BLOCKED"
          /\ bl.expired = rows[f].expired /\ bl.asked = rows[f].asked
      BY <1>2, MovedRow DEF WorkflowState, WorkflowRunStatus
    <2> QED
      BY <1>3, <2>1, Zenon
  <1>8. rp \in WorkflowInstance /\ SameOrder(rp, rows[f])
        /\ rp.workflow_state = "REVIEW_PENDING" /\ ~rp.expired
    BY <1>2, <1>3, <1>5, AskedRow
  <1> HIDE DEF ni, bl, rp
  <1> QED
    BY <1>1, <1>4, <1>6, <1>7, <1>8, CommitQuiet

\* The human gate of a correction, short of an APPROVE.
LEMMA GateStep ==
    ASSUME CInv, NEW f \in Flows, _advance_human_gate(f)
    PROVE  CInv'
PROOF
  <1>1. Claimable(f) /\ rows[f].workflow_state = "REVIEW_PENDING"
    BY DEF _advance_human_gate, Advancing
  <1>2. rows[f] \in WorkflowInstance /\ RowOK(f, rows[f], taken[f])
    BY <1>1, Claimed
  <1>3. ~rows[f].expired
    BY <1>1, <1>2, AbsentIsNoRow DEF RowOK
  <1> DEFINE r == Reparked(rows[f])
  <1>4. \/ Commit(f, r, 0)
        \/ Signalled(f) \in Decisions /\ Commit(f, r, 1)
    BY DEF _advance_human_gate
  <1>5. Signalled(f) \in Decisions => taken[f] < Len(signals[f])
    BY DEF Signalled, Decisions
  <1>6. r \in WorkflowInstance /\ SameOrder(r, rows[f])
        /\ r.workflow_state = "REVIEW_PENDING" /\ ~r.expired
    BY <1>1, <1>2, <1>3, StatusRow DEF Reparked, WorkflowRunStatus
  <1> HIDE DEF r
  <1>7. CASE Commit(f, r, 0)
    BY <1>1, <1>6, <1>7, CommitQuiet
  <1>8. CASE Signalled(f) \in Decisions /\ Commit(f, r, 1)
    BY <1>1, <1>5, <1>6, <1>8, CommitQuiet
  <1> QED
    BY <1>4, <1>7, <1>8

\* The last step of either workflow.
LEMMA DeliverStep ==
    ASSUME CInv, NEW f \in Flows, step_after_ledger_correction(f) \/ step_complete_digest(f)
    PROVE  CInv'
PROOF
  <1>1. /\ Claimable(f)
        /\ \/ rows[f].type = "correction" /\ rows[f].workflow_state = "LEDGER_COMMITTED"
           \/ rows[f].type = "scheduled_digest" /\ rows[f].workflow_state = "PUBLISHED"
    BY DEF step_after_ledger_correction, step_complete_digest, Advancing
  <1>2. /\ job = NoJob /\ rows[f] \in WorkflowInstance
        /\ RowOK(f, rows[f], taken[f]) /\ taken[f] + 0 = taken[f]
    BY <1>1, Claimed
  <1> DEFINE r == Moved(rows[f], "DELIVERED", "COMPLETED")
  <1>3. Commit(f, r, 0)
    BY DEF step_after_ledger_correction, step_complete_digest
  <1>4. /\ r \in WorkflowInstance /\ SameOrder(r, rows[f])
        /\ r.workflow_state = "DELIVERED"
        /\ r.asked = rows[f].asked /\ r.expired = rows[f].expired
    BY <1>2, MovedRow DEF WorkflowState, WorkflowRunStatus
  <1> HIDE DEF r
  <1>5. RowOK(f, r, taken[f])
    BY <1>1, <1>2, <1>4, RowDelivered
  <1>6. RowOK(f, r, taken[f] + 0)
    BY <1>2, <1>5
  <1> QED
    BY <1>2, <1>3, <1>4, <1>6, CommitStep

\* The steps that park or wake a row and change nothing else.
LEMMA ParkStep ==
    ASSUME CInv, NEW f \in Flows,
           _dead_letter(f) \/ _advance_correction_other(f) \/ _advance_digest_other(f)
    PROVE  CInv'
PROOF
  <1>1. Claimable(f)
    BY DEF _dead_letter, _advance_correction_other, _advance_digest_other, Advancing
  <1>2. \E rs \in {"DEAD_LETTER", "WAITING_SIGNAL", "PENDING"} :
           Commit(f, [rows[f] EXCEPT !.run_status = rs], 0)
    BY Zenon DEF _dead_letter, _advance_correction_other, _advance_digest_other, Reparked
  <1>3. {"DEAD_LETTER", "WAITING_SIGNAL", "PENDING"} \subseteq WorkflowRunStatus
    BY DEF WorkflowRunStatus
  <1>4. PICK rs \in WorkflowRunStatus : Commit(f, [rows[f] EXCEPT !.run_status = rs], 0)
    BY <1>2, <1>3, Zenon
  <1> QED
    BY <1>1, <1>4, CommitStatus

\* A digest is assembled and scanned.
LEMMA AssembleStep ==
    ASSUME CInv, NEW f \in Flows, step_assemble_and_privacy(f)
    PROVE  CInv'
PROOF
  <1>1. /\ Claimable(f) /\ rows[f].workflow_state = "RECEIVED"
        /\ rows[f].type = "scheduled_digest" /\ rows[f].attempt_count < max_attempts
    BY DEF step_assemble_and_privacy, Advancing
  <1>2. /\ job = NoJob /\ rows[f] \in WorkflowInstance
        /\ RowOK(f, rows[f], taken[f]) /\ taken[f] + 0 = taken[f]
    BY <1>1, Claimed
  <1>3. ~rows[f].expired /\ ~rows[f].asked /\ taken[f] = 0
    BY <1>1, <1>2, AbsentIsNoRow DEF RowOK
  <1> DEFINE ra == AfterRaise(rows[f])
             bl == Moved(rows[f], "BLOCKED", "FAILED_TERMINAL")
             pp == Asked(rows[f], "PUBLICATION_PENDING")
             pu == Moved(rows[f], "PUBLISHED", "PENDING")
  <1>4. Commit(f, ra, 0) \/ Commit(f, bl, 0) \/ Commit(f, pp, 0) \/ Commit(f, pu, 0)
    BY DEF step_assemble_and_privacy, assemble_digests
  <1>5. {"BLOCKED", "PUBLICATION_PENDING", "PUBLISHED"} \subseteq WorkflowState
        /\ {"PENDING", "FAILED_TERMINAL"} \subseteq WorkflowRunStatus
    BY DEF WorkflowState, WorkflowRunStatus
  <1>6. /\ ra \in WorkflowInstance /\ SameOrder(ra, rows[f])
        /\ ra.workflow_state = rows[f].workflow_state
        /\ ra.asked = rows[f].asked /\ ra.expired = rows[f].expired
    BY <1>1, <1>2, RaisedRow
  <1>7. bl \in WorkflowInstance /\ SameOrder(bl, rows[f])
        /\ bl.workflow_state = "BLOCKED" /\ ~bl.expired
    <2>1. /\ bl \in WorkflowInstance /\ SameOrder(bl, rows[f])
          /\ bl.workflow_state = "BLOCKED"
          /\ bl.expired = rows[f].expired /\ bl.asked = rows[f].asked
      BY <1>2, MovedRow DEF WorkflowState, WorkflowRunStatus
    <2> QED
      BY <1>3, <2>1, Zenon
  <1>8. pp \in WorkflowInstance /\ SameOrder(pp, rows[f])
        /\ pp.workflow_state = "PUBLICATION_PENDING" /\ ~pp.expired
    BY <1>2, <1>3, <1>5, AskedRow
  <1>9. pu \in WorkflowInstance /\ SameOrder(pu, rows[f])
        /\ pu.workflow_state = "PUBLISHED" /\ ~pu.expired /\ ~pu.asked
    <2>1. /\ pu \in WorkflowInstance /\ SameOrder(pu, rows[f])
          /\ pu.workflow_state = "PUBLISHED"
          /\ pu.expired = rows[f].expired /\ pu.asked = rows[f].asked
      BY <1>2, MovedRow DEF WorkflowState, WorkflowRunStatus
    <2> QED
      BY <1>3, <2>1, Zenon
  <1> HIDE DEF ra, bl, pp, pu
  <1>10. CASE Commit(f, ra, 0)
    <2>1. RowOK(f, ra, taken[f])
      BY <1>2, <1>6, RowSame
    <2>2. RowOK(f, ra, taken[f] + 0)
      BY <1>2, <2>1
    <2> QED
      BY <1>2, <1>6, <1>10, <2>2, CommitStep
  <1>11. CASE Commit(f, bl, 0)
    BY <1>1, <1>7, <1>11, CommitQuiet
  <1>12. CASE Commit(f, pp, 0)
    <2>1. RowOK(f, pp, 0)
      BY <1>1, <1>8, AbsentIsNoRow DEF RowOK, SameOrder, PastStates
    <2>2. RowOK(f, pp, taken[f] + 0)
      BY <1>2, <1>3, <2>1
    <2> QED
      BY <1>2, <1>8, <1>12, <2>2, CommitStep
  <1>13. CASE Commit(f, pu, 0)
    <2>1. RowOK(f, pu, taken[f] + 0)
      BY <1>1, <1>9, AbsentIsNoRow DEF RowOK, SameOrder, PastStates
    <2> QED
      BY <1>2, <1>9, <1>13, <2>1, CommitStep
  <1> QED
    BY <1>4, <1>10, <1>11, <1>12, <1>13

\* The gate of a digest.
LEMMA DigestGateStep ==
    ASSUME CInv, NEW f \in Flows, _advance_digest_approval(f)
    PROVE  CInv'
PROOF
  <1>1. /\ Claimable(f) /\ rows[f].workflow_state = "PUBLICATION_PENDING"
        /\ rows[f].type = "scheduled_digest"
    BY DEF _advance_digest_approval, Advancing
  <1>2. /\ job = NoJob /\ rows[f] \in WorkflowInstance
        /\ RowOK(f, rows[f], taken[f]) /\ taken[f] + 0 = taken[f]
    BY <1>1, Claimed
  <1>3. ~rows[f].expired /\ taken[f] = 0
    BY <1>1, <1>2, AbsentIsNoRow DEF RowOK
  <1> DEFINE re == Moved(rows[f], "REJECTED", "FAILED_TERMINAL")
             ni == Moved(rows[f], "NEEDS_INFORMATION", "WAITING_SIGNAL")
             pu == [Moved(rows[f], "PUBLISHED", "PENDING") EXCEPT !.wait_deadline = FALSE]
  <1>4. \/ Commit(f, Reparked(rows[f]), 0)
        \/ Signalled(f) # "none" /\ (Commit(f, re, 1) \/ Commit(f, ni, 1))
        \/ Signalled(f) = "APPROVE" /\ Commit(f, pu, 1)
    BY Zenon DEF _advance_digest_approval, AfterDigestDecision
  <1>5. Signalled(f) # "none" =>
           taken[f] < Len(signals[f]) /\ signals[f][taken[f] + 1] = Signalled(f)
    BY SignalledNext
  <1>6. {"REJECTED", "NEEDS_INFORMATION", "PUBLISHED"} \subseteq WorkflowState
        /\ {"PENDING", "FAILED_TERMINAL", "WAITING_SIGNAL"} \subseteq WorkflowRunStatus
    BY DEF WorkflowState, WorkflowRunStatus
  <1>7. re \in WorkflowInstance /\ SameOrder(re, rows[f])
        /\ re.workflow_state = "REJECTED" /\ ~re.expired
    <2>1. /\ re \in WorkflowInstance /\ SameOrder(re, rows[f])
          /\ re.workflow_state = "REJECTED"
          /\ re.expired = rows[f].expired /\ re.asked = rows[f].asked
      BY <1>2, MovedRow DEF WorkflowState, WorkflowRunStatus
    <2> QED
      BY <1>3, <2>1, Zenon
  <1>8. ni \in WorkflowInstance /\ SameOrder(ni, rows[f])
        /\ ni.workflow_state = "NEEDS_INFORMATION"
    BY <1>2, <1>6, MovedRow
  <1>9. pu \in WorkflowInstance /\ SameOrder(pu, rows[f])
        /\ pu.workflow_state = "PUBLISHED" /\ ~pu.expired
    BY <1>2, <1>3, <1>6, PassedRow
  <1> HIDE DEF re, ni, pu
  <1>10. CASE Commit(f, Reparked(rows[f]), 0)
    BY <1>1, <1>6, <1>10, CommitStatus DEF Reparked
  <1>11. CASE Signalled(f) # "none" /\ (Commit(f, re, 1) \/ Commit(f, ni, 1))
    BY <1>1, <1>5, <1>7, <1>8, <1>11, CommitQuiet
  <1>12. CASE Signalled(f) = "APPROVE" /\ Commit(f, pu, 1)
    <2>1. RowOK(f, pu, 1)
      BY <1>1, <1>3, <1>5, <1>9, <1>12, AbsentIsNoRow DEF RowOK, SameOrder, PastStates
    <2>2. RowOK(f, pu, taken[f] + 1)
      BY <1>3, <2>1
    <2> QED
      BY <1>2, <1>5, <1>9, <1>12, <2>2, CommitStep
  <1> QED
    BY <1>4, <1>10, <1>11, <1>12

-----------------------------------------------------------------------------
(* The other steps *)

\* A correction in the log stays there.
LEMMA DoneKept ==
    ASSUME NEW c \in Commands, Done(c), Keeps(logged, logged')
    PROVE  Done(c)'
PROOF
  <1>1. c.expense \in Ids /\ Target(c) \in Final
    BY CommandIds DEF Target, Final
  <1> QED
    BY <1>1 DEF Done, Keeps

\* Keeping corrections is transitive.
LEMMA KeepsTrans ==
    ASSUME NEW l1, NEW l2, NEW l3, Keeps(l1, l2), Keeps(l2, l3)
    PROVE  Keeps(l1, l3)
BY DEF Keeps

\* Rows that are in order stay so as signals arrive, receipts are stored and
\* the log grows.
LEMMA RowsLater ==
    ASSUME \A h \in Flows : RowOK(h, rows'[h], taken'[h]),
           \A h \in Flows : taken'[h] > 0 => signals'[h][taken'[h]] = signals[h][taken'[h]],
           \A c \in Commands : Done(c) => Done(c)',
           \A c : Simulated(c) => Simulated(c)'
    PROVE  RowsInv'
PROOF
  <1> SUFFICES ASSUME NEW h \in Flows
               PROVE  RowOK(h, rows[h], taken[h])'
    BY DEF RowsInv
  <1>1. RowOK(h, rows'[h], taken'[h])
    OBVIOUS
  <1>2. taken'[h] > 0 => signals'[h][taken'[h]] = signals[h][taken'[h]]
    OBVIOUS
  <1>3. ASSUME rows'[h].command \in Commands, Done(rows'[h].command)
        PROVE  Done(rows[h].command)'
    <2>1. \A c : c = rows'[h].command /\ Done(c)' => Done(rows[h].command)'
      BY DEF Done
    <2> QED
      BY <1>3, <2>1
  <1>4. ASSUME Simulated(rows'[h].command)
        PROVE  Simulated(rows[h].command)'
    <2>1. \A c : c = rows'[h].command /\ Simulated(c)' => Simulated(rows[h].command)'
      BY DEF Simulated
    <2> QED
      BY <1>4, <2>1
  <1>5. (rows[h] # Absent)' /\ (rows[h].type = "correction" /\ ~rows[h].simulation
           /\ rows[h].workflow_state \in {"LEDGER_COMMITTED", "DELIVERED"})' =>
              Done(rows[h].command)' \/ Simulated(rows[h].command)'
    BY <1>1, <1>3, <1>4 DEF RowOK
  <1> QED
    BY <1>1, <1>2, <1>5 DEF RowOK

\* A step from outside the worker: it replaces one row, and may add a signal.
\* The row of the worker is at most woken.
LEMMA RowStep ==
    ASSUME CInv, NEW f \in Flows, NEW r \in WorkflowInstance,
           RowOK(f, r, taken[f]),
           job # NoJob /\ job.flow = f =>
              /\ SameOrder(r, rows[f]) /\ r.workflow_state = rows[f].workflow_state
              /\ r.run_status = "PENDING" /\ r.attempt_count = rows[f].attempt_count,
           rows' = [rows EXCEPT ![f] = r],
           \/ UNCHANGED signals
           \/ /\ Cardinality(Sent) < MaxSignals
              /\ \E d \in Decisions : signals' = [signals EXCEPT ![f] = Append(signals[f], d)],
           UNCHANGED <<taken, receipts, ledger, logged, log_keys, job, crashes>>
    PROVE  CInv'
PROOF
  <1>1. TypeOK /\ SignalInv /\ RowsInv /\ JobInv /\ LogInv
    BY DEF CInv
  <1>2. signals \in [Flows -> Seq(Decisions)] /\ taken \in [Flows -> Nat]
    BY <1>1, CorrectionsAssumption DEF TypeOK
  <1>3. /\ signals' \in [Flows -> Seq(Decisions)]
        /\ \A h \in Flows : Len(signals'[h]) >= Len(signals[h])
        /\ \A h \in Flows : \A k \in 1 .. Len(signals[h]) : signals'[h][k] = signals[h][k]
    <2>1. CASE UNCHANGED signals
      BY <1>2, <2>1
    <2>2. ASSUME NEW d \in Decisions, signals' = [signals EXCEPT ![f] = Append(signals[f], d)]
          PROVE  <1>3!:
      BY <1>2, <2>2, AppendProperties
    <2> QED
      BY <2>1, <2>2
  <1>4. TypeOK'
    BY <1>1, <1>3 DEF TypeOK
  <1>5. SignalInv'
    <2>1. \A h \in Flows : taken'[h] <= Len(signals'[h])
      BY <1>1, <1>2, <1>3, LenProperties DEF SignalInv
    <2>2. IsFiniteSet(Sent') /\ Cardinality(Sent') <= MaxSignals
      <3>1. CASE UNCHANGED signals
        BY <1>1, <3>1 DEF SignalInv, Sent
      <3>2. ASSUME NEW d \in Decisions, Cardinality(Sent) < MaxSignals,
                   signals' = [signals EXCEPT ![f] = Append(signals[f], d)]
            PROVE  <2>2!:
        <4> DEFINE p == <<f, Len(signals[f]) + 1>>
        <4>1. DOMAIN signals'[f] = DOMAIN signals[f] \cup {Len(signals[f]) + 1}
          BY <1>2, <3>2, AppendProperties, LenProperties
        <4>2. \A h \in Flows \ {f} : signals'[h] = signals[h]
          BY <1>2, <3>2
        <4>3. Sent' = Sent \cup {p}
          BY <4>1, <4>2 DEF Sent
        <4>4. p \notin Sent
          BY <1>2, LenProperties DEF Sent
        <4>5. IsFiniteSet(Sent \cup {p}) /\ Cardinality(Sent \cup {p}) = Cardinality(Sent) + 1
          BY <1>1, <4>4, FS_AddElement DEF SignalInv
        <4>6. Cardinality(Sent) \in Nat
          BY <1>1, FS_CardinalityType DEF SignalInv
        <4> QED
          BY <3>2, <4>3, <4>5, <4>6, CorrectionsAssumption
      <3> QED
        BY <3>1, <3>2
    <2> QED
      BY <2>1, <2>2 DEF SignalInv
  <1>6. RowsInv'
    <2>1. \A h \in Flows : RowOK(h, rows'[h], taken'[h])
      BY <1>1 DEF RowsInv, TypeOK
    <2>2. \A h \in Flows : taken'[h] > 0 => signals'[h][taken'[h]] = signals[h][taken'[h]]
      BY <1>1, <1>2, <1>3, LenProperties DEF SignalInv
    <2>3. /\ \A c \in Commands : Done(c) => Done(c)'
          /\ \A c : Simulated(c) => Simulated(c)'
      BY DEF Done, Simulated
    <2> QED
      BY <2>1, <2>2, <2>3, RowsLater
  <1>7. JobInv'
    <2> SUFFICES ASSUME job # NoJob
                 PROVE  JobInv'
      BY DEF JobInv
    <2>1. job \in Job /\ job.flow \in Flows /\ job' = job
      BY <1>1 DEF TypeOK, Job
    <2> DEFINE g == job.flow
    <2>2. /\ rows'[g] # Absent
          /\ rows'[g].type = "correction"
          /\ rows'[g].workflow_state = "REVIEW_PENDING"
          /\ rows'[g].run_status \in {"RUNNING", "PENDING"}
          /\ rows'[g].attempt_count < max_attempts
          /\ SameOrder(job.inst, rows'[g])
      <3>1. CASE g = f
        BY <1>1, <2>1, <3>1, AbsentIsNoRow DEF JobInv, SameOrder, TypeOK
      <3>2. CASE g # f
        <4>1. rows'[g] = rows[g]
          BY <1>1, <2>1, <3>2 DEF TypeOK
        <4> QED
          BY <1>1, <4>1 DEF JobInv
      <3> QED
        BY <3>1, <3>2
    <2>3. taken[g] < Len(signals[g]) =>
             /\ taken'[g] < Len(signals'[g])
             /\ signals'[g][taken'[g] + 1] = signals[g][taken[g] + 1]
      <3>1. taken' = taken /\ taken[g] \in Nat
        BY <1>2, <2>1
      <3>2. Len(signals[g]) \in Nat /\ Len(signals'[g]) \in Nat
        BY <1>2, <1>3, <2>1, LenProperties
      <3>3. Len(signals'[g]) >= Len(signals[g])
        BY <1>3, <2>1
      <3>4. taken[g] + 1 \in 1 .. Len(signals[g]) =>
               signals'[g][taken[g] + 1] = signals[g][taken[g] + 1]
        BY <1>3, <2>1
      <3> HIDE DEF g
      <3> QED
        BY <3>1, <3>2, <3>3, <3>4
    <2>4. \A c : Done(c)' = Done(c) /\ Simulated(c)' = Simulated(c)
      BY DEF Done, Simulated
    <2>5. Done(job.inst.command)' = Done(job.inst.command)
          /\ Simulated(job.inst.command)' = Simulated(job.inst.command)
      BY <2>1 DEF Done, Simulated
    <2> QED
      BY <1>1, <2>1, <2>2, <2>3, <2>5 DEF JobInv
  <1>8. LogInv'
    BY <1>1 DEF LogInv, Done
  <1> QED
    BY <1>4, <1>5, <1>6, <1>7, <1>8 DEF CInv

\* A workflow starts.
LEMMA FirstRowStep ==
    ASSUME CInv, NEW f \in Flows, rows[f] = Absent, NEW r \in WorkflowInstance,
           r.type = "correction" => r.command \in Commands,
           r.workflow_state = "RECEIVED", ~r.expired, ~r.asked,
           rows' = [rows EXCEPT ![f] = r],
           UNCHANGED <<signals, taken, receipts, ledger, logged, log_keys, job, crashes>>
    PROVE  CInv'
PROOF
  <1>1. RowOK(f, Absent, taken[f]) /\ JobInv
    BY DEF CInv, RowsInv
  <1>2. job # NoJob => job.flow # f
    BY <1>1 DEF JobInv
  <1>3. taken[f] = 0
    BY <1>1 DEF RowOK
  <1>4. RowOK(f, r, taken[f])
    BY <1>3, AbsentIsNoRow DEF RowOK, PastStates
  <1> QED
    BY <1>2, <1>4, RowStep

\* A correction is started.
LEMMA StartStep ==
    ASSUME CInv, NEW f \in Flows, NEW c \in Commands, NEW sim \in Simulations,
           NEW missing \in {"nothing", "reason", "replacement"},
           start_correction(f, c, missing, sim)
    PROVE  CInv'
PROOF
  <1> DEFINE k == [Started EXCEPT !.command = c, !.missing = missing, !.simulation = sim]
  <1>1. sim \in BOOLEAN
    BY CorrectionsAssumption
  <1>2. /\ k \in WorkflowInstance /\ k.type = "correction" /\ k.command = c
        /\ k.workflow_state = "RECEIVED" /\ ~k.expired /\ ~k.asked
    BY <1>1, StartedType DEF WorkflowInstance
  <1>3. /\ rows[f] = Absent /\ rows' = [rows EXCEPT ![f] = k]
        /\ UNCHANGED <<signals, taken, receipts, ledger, logged, log_keys, job, crashes>>
    BY DEF start_correction
  <1> HIDE DEF k
  <1> QED
    BY <1>2, <1>3, FirstRowStep

\* A digest is started.
LEMMA StartDigestStep ==
    ASSUME CInv, NEW f \in Flows, NEW ra \in BOOLEAN, start_scheduled_digest(f, ra)
    PROVE  CInv'
PROOF
  <1> DEFINE d == [Started EXCEPT !.type = "scheduled_digest", !.require_approval = ra]
  <1>1. /\ d \in WorkflowInstance /\ d.type = "scheduled_digest"
        /\ d.workflow_state = "RECEIVED" /\ ~d.expired /\ ~d.asked
    BY StartedType DEF WorkflowInstance
  <1>2. /\ rows[f] = Absent /\ rows' = [rows EXCEPT ![f] = d]
        /\ UNCHANGED <<signals, taken, receipts, ledger, logged, log_keys, job, crashes>>
    BY DEF start_scheduled_digest
  <1> HIDE DEF d
  <1> QED
    BY <1>1, <1>2, FirstRowStep

\* A signal arrives.
LEMMA SignalStep ==
    ASSUME CInv, NEW f \in Flows, NEW decision \in Decisions,
           signal_approval(f, decision) \/ signal_operator(f)
    PROVE  CInv'
PROOF
  <1> DEFINE r == [rows[f] EXCEPT !.run_status = "PENDING"]
  <1>1. /\ rows[f] # Absent
        /\ UNCHANGED <<taken, receipts, ledger, logged, log_keys, job, crashes>>
    BY DEF signal_approval, signal_operator, Exists
  <1>2. rows[f] \in WorkflowInstance /\ RowOK(f, rows[f], taken[f])
    BY <1>1 DEF CInv, TypeOK, RowsInv
  <1>3. /\ r \in WorkflowInstance /\ SameOrder(r, rows[f])
        /\ r.workflow_state = rows[f].workflow_state /\ r.run_status = "PENDING"
        /\ r.asked = rows[f].asked /\ r.expired = rows[f].expired
        /\ r.attempt_count = rows[f].attempt_count
    BY <1>2, StatusRow DEF WorkflowRunStatus
  <1>4. rows' = [rows EXCEPT ![f] = r]
    BY DEF signal_approval, signal_operator
  <1>5. \/ UNCHANGED signals
        \/ /\ Cardinality(Sent) < MaxSignals
           /\ \E d \in Decisions : signals' = [signals EXCEPT ![f] = Append(signals[f], d)]
    BY DEF signal_approval, signal_operator
  <1> HIDE DEF r
  <1>6. RowOK(f, r, taken[f])
    BY <1>2, <1>3, RowSame
  <1> QED
    BY <1>1, <1>3, <1>4, <1>5, <1>6, RowStep

\* A gate times out.
LEMMA TimeoutStep ==
    ASSUME CInv, NEW f \in Flows, sweep_approval_timeouts(f)
    PROVE  CInv'
PROOF
  <1>1. /\ rows[f] # Absent /\ rows[f].run_status = "WAITING_SIGNAL"
        /\ rows' = [rows EXCEPT ![f] = Expired(rows[f])]
        /\ UNCHANGED <<signals, taken, receipts, ledger, logged, log_keys, job, crashes>>
    BY DEF sweep_approval_timeouts, Exists
  <1>2. rows[f] \in WorkflowInstance /\ RowOK(f, rows[f], taken[f]) /\ JobInv
    BY <1>1 DEF CInv, TypeOK, RowsInv
  <1>3. job # NoJob => job.flow # f
    BY <1>1, <1>2 DEF JobInv
  <1> DEFINE r == Expired(rows[f])
  <1>4. /\ r \in WorkflowInstance /\ SameOrder(r, rows[f])
        /\ r.workflow_state = "NEEDS_INFORMATION"
    BY <1>2, ExpiredRow
  <1>5. rows' = [rows EXCEPT ![f] = r]
    BY <1>1
  <1> HIDE DEF r
  <1>6. RowOK(f, r, taken[f])
    BY <1>2, <1>4, RowQuiet
  <1> QED
    BY <1>1, <1>3, <1>4, <1>5, <1>6, RowStep

\* The worker takes up a command: the row is RUNNING, the job holds what will
\* be committed, and the log may have grown.
LEMMA ExecuteStep ==
    ASSUME CInv, NEW f \in Flows, Executes(f), NEW inst \in WorkflowInstance,
           NEW at \in {"put_receipt", "commit"}, NEW consume \in BOOLEAN,
           NEW status \in {"SUCCEEDED", "SIMULATED"},
           JobAt(at, f, inst, consume, status),
           SameOrder(inst, rows[f]), ~inst.expired,
           inst.workflow_state \in {"LEDGER_COMMITTED", "REVIEW_PENDING"},
           inst.workflow_state = "LEDGER_COMMITTED" =>
              /\ consume
              /\ inst.simulation \/ Done(inst.command)' \/ Simulated(inst.command),
           at = "put_receipt" =>
              /\ inst.workflow_state = "LEDGER_COMMITTED"
              /\ status = "SUCCEEDED" => Done(inst.command)',
           Keeps(logged, logged'), Keeps(logged', ledger'), logged' \in Ledger,
           log_keys' \subseteq Commands, \A c \in log_keys' : Done(c)',
           UNCHANGED <<signals, taken, receipts, crashes>>
    PROVE  CInv'
PROOF
  <1>1. TypeOK /\ SignalInv /\ RowsInv /\ LogInv
    BY DEF CInv
  <1>2. /\ Claimable(f) /\ rows[f].workflow_state = "REVIEW_PENDING"
        /\ rows[f].type = "correction" /\ rows[f].attempt_count < max_attempts
        /\ Signalled(f) = "APPROVE"
    BY DEF Executes, Advancing
  <1>3. rows[f] \in WorkflowInstance /\ RowOK(f, rows[f], taken[f])
    BY <1>2, Claimed
  <1>4. taken[f] < Len(signals[f]) /\ signals[f][taken[f] + 1] = "APPROVE"
    BY <1>2, SignalledNext
  <1> DEFINE r == [rows[f] EXCEPT !.run_status = "RUNNING"]
  <1>5. /\ r \in WorkflowInstance /\ SameOrder(r, rows[f])
        /\ r.workflow_state = rows[f].workflow_state /\ r.run_status = "RUNNING"
        /\ r.asked = rows[f].asked /\ r.expired = rows[f].expired
        /\ r.attempt_count = rows[f].attempt_count
    BY <1>3, StatusRow DEF WorkflowRunStatus
  <1>6. rows' = [rows EXCEPT ![f] = r]
    BY DEF Executes
  <1> HIDE DEF r
  <1>7. RowOK(f, r, taken[f])
    BY <1>3, <1>5, RowSame
  <1>8. /\ job' \in Job /\ job'.at = at /\ job'.flow = f /\ job'.inst = inst
        /\ job'.consume = consume /\ job'.status = status
    BY DEF JobAt, Job
  <1>9. ledger' \in Ledger
    BY DEF Keeps
  <1>10. TypeOK'
    BY <1>1, <1>5, <1>6, <1>8, <1>9 DEF TypeOK
  <1>11. SignalInv'
    BY <1>1 DEF SignalInv, Sent
  <1>12. \A c \in Commands : Done(c) => Done(c)'
    BY DoneKept
  <1>13. RowsInv'
    <2>1. \A h \in Flows : RowOK(h, rows'[h], taken'[h])
      BY <1>1, <1>6, <1>7 DEF RowsInv, TypeOK
    <2>2. \A c : Simulated(c) => Simulated(c)'
      BY DEF Simulated
    <2> QED
      BY <1>12, <2>1, <2>2, RowsLater
  <1>14. JobInv'
    <2>1. rows'[f] = r
      BY <1>1, <1>6 DEF TypeOK
    <2>2. rows'[f] # Absent /\ rows'[f].type = "correction"
          /\ rows'[f].workflow_state = "REVIEW_PENDING"
          /\ rows'[f].run_status = "RUNNING" /\ rows'[f].attempt_count < max_attempts
          /\ SameOrder(inst, rows'[f])
      BY <1>2, <1>5, <2>1, AbsentIsNoRow DEF SameOrder
    <2>3. Done(job.inst.command)' <=> Done(inst.command)'
      BY <1>8 DEF Done
    <2>4. Simulated(job.inst.command)' <=> Simulated(inst.command)
      BY <1>8 DEF Simulated
    <2> QED
      BY <1>4, <1>8, <2>2, <2>3, <2>4 DEF JobInv
  <1>15. LogInv'
    <2>1. \A x \in receipts : x.key \in Commands
      BY <1>1 DEF TypeOK
    <2>2. \A x \in receipts : x.status = "SUCCEEDED" => Done(x.key)
      BY <1>1 DEF LogInv
    <2>3. \A x \in receipts : x.status = "SUCCEEDED" => Done(x.key)'
      BY <1>12, <2>1, <2>2
    <2> QED
      BY <2>3 DEF LogInv
  <1> QED
    BY <1>10, <1>11, <1>13, <1>14, <1>15 DEF CInv

\* The row a job is made from.
LEMMA ExecutedRow ==
    ASSUME CInv, NEW f \in Flows, Executes(f)
    PROVE  /\ rows[f] \in WorkflowInstance /\ rows[f].command \in Commands
           /\ rows[f].workflow_state = "REVIEW_PENDING"
           /\ rows[f].attempt_count < max_attempts
           /\ ~rows[f].expired
PROOF
  <1>1. /\ Claimable(f) /\ rows[f].workflow_state = "REVIEW_PENDING"
        /\ rows[f].type = "correction" /\ rows[f].attempt_count < max_attempts
    BY DEF Executes, Advancing
  <1>2. rows[f] \in WorkflowInstance /\ RowOK(f, rows[f], taken[f])
    BY <1>1, Claimed
  <1> QED
    BY <1>1, <1>2, AbsentIsNoRow DEF RowOK

\* What the job holds when the command succeeded.
LEMMA SuccessRow ==
    ASSUME CInv, NEW f \in Flows, Executes(f)
    PROVE  LET i == AfterSuccess(rows[f]) IN
           /\ i \in WorkflowInstance /\ SameOrder(i, rows[f]) /\ ~i.expired
           /\ i.workflow_state = "LEDGER_COMMITTED" /\ i.command = rows[f].command
           /\ i.simulation = rows[f].simulation
PROOF
  <1> DEFINE i == AfterSuccess(rows[f])
  <1>1. rows[f] \in WorkflowInstance /\ ~rows[f].expired
    BY ExecutedRow
  <1>2. /\ i \in WorkflowInstance /\ SameOrder(i, rows[f])
        /\ i.workflow_state = "LEDGER_COMMITTED" /\ i.expired = rows[f].expired
    BY <1>1, SucceededRow
  <1> HIDE DEF i
  <1>3. ~i.expired
    BY <1>1, <1>2, Zenon
  <1>4. i.command = rows[f].command /\ i.simulation = rows[f].simulation
    BY <1>2 DEF SameOrder
  <1> QED
    BY <1>2, <1>3, <1>4 DEF i

\* What it holds when the command failed.
LEMMA FailureRow ==
    ASSUME CInv, NEW f \in Flows, Executes(f), NEW status
    PROVE  LET i == AfterFailure(rows[f], status) IN
           /\ i \in WorkflowInstance /\ SameOrder(i, rows[f]) /\ ~i.expired
           /\ i.workflow_state = "REVIEW_PENDING"
PROOF
  <1> DEFINE i == AfterFailure(rows[f], status)
  <1>1. /\ rows[f] \in WorkflowInstance /\ ~rows[f].expired
        /\ rows[f].workflow_state = "REVIEW_PENDING" /\ rows[f].attempt_count < max_attempts
    BY ExecutedRow
  <1>2. /\ i \in WorkflowInstance /\ SameOrder(i, rows[f])
        /\ i.workflow_state = rows[f].workflow_state /\ i.expired = rows[f].expired
    BY <1>1, FailedRow
  <1> HIDE DEF i
  <1>3. ~i.expired
    BY <1>1, <1>2, Zenon
  <1> QED
    BY <1>1, <1>2, <1>3 DEF i

\* A log that did not change keeps what it has.
LEMMA LogUnchanged ==
    ASSUME CInv, UNCHANGED <<logged, log_keys>>
    PROVE  /\ Keeps(logged, logged') /\ logged' \in Ledger /\ log_keys' \subseteq Commands
           /\ \A c \in log_keys' : Done(c)'
           /\ \A c : Done(c)' <=> Done(c)
PROOF
  <1>1. logged \in Ledger /\ log_keys \subseteq Commands /\ \A c \in log_keys : Done(c)
    BY DEF CInv, TypeOK, LogInv
  <1>2. \A c : Done(c)' <=> Done(c)
    BY DEF Done
  <1> QED
    BY <1>1, <1>2 DEF Keeps

\* A stored receipt or a simulation answers the command.
LEMMA AnswerStep ==
    ASSUME CInv, NEW f \in Flows, execute_stored(f) \/ execute_simulated(f)
    PROVE  CInv'
PROOF
  <1>1. Executes(f) /\ UNCHANGED <<signals, taken, receipts, ledger, logged, log_keys, crashes>>
    BY DEF execute_stored, execute_simulated
  <1>0. PICK i : i = AfterSuccess(rows[f])
    OBVIOUS
  <1>2. /\ i \in WorkflowInstance /\ SameOrder(i, rows[f]) /\ ~i.expired
        /\ i.workflow_state = "LEDGER_COMMITTED" /\ i.command = rows[f].command
        /\ i.simulation = rows[f].simulation
    BY <1>0, <1>1, SuccessRow
  <1>3. /\ Keeps(logged, logged') /\ logged' \in Ledger /\ log_keys' \subseteq Commands
        /\ \A c \in log_keys' : Done(c)'
        /\ \A c : Done(c)' <=> Done(c)
    BY <1>1, LogUnchanged
  <1>4. Keeps(logged', ledger')
    BY <1>1 DEF CInv, LogInv
  <1>5. CASE execute_stored(f)
    <2>1. PICK x \in receipts : /\ x.key = rows[f].command
                                /\ JobAt("commit", f, i, TRUE, x.status)
      BY <1>0, <1>5 DEF execute_stored
    <2>2. x.status \in {"SUCCEEDED", "SIMULATED"} /\ (x.status = "SUCCEEDED" => Done(x.key))
      BY DEF CInv, TypeOK, LogInv
    <2>3. x = [key |-> x.key, status |-> x.status]
      BY DEF CInv, TypeOK
    <2>4. Done(x.key) \/ Simulated(x.key)
      BY <2>2, <2>3 DEF Simulated
    <2>5. Done(i.command)' \/ Simulated(i.command)
      <3>1. i.command = x.key
        BY <1>2, <2>1
      <3>2. Done(i.command) \/ Simulated(i.command)
        BY <2>4, <3>1
      <3>3. Done(i.command)' <=> Done(i.command)
        BY <1>1 DEF Done
      <3> QED
        BY <3>2, <3>3
    <2> QED
      BY <1>1, <1>2, <1>3, <1>4, <2>1, <2>2, <2>5, ExecuteStep
  <1>6. CASE execute_simulated(f)
    <2>1. rows[f].simulation /\ JobAt("put_receipt", f, i, TRUE, "SIMULATED")
      BY <1>0, <1>6 DEF execute_simulated
    <2>2. i.simulation
      BY <1>2, <2>1, Zenon
    <2> QED
      BY <1>1, <1>2, <1>3, <1>4, <2>1, <2>2, ExecuteStep
  <1> QED
    BY <1>5, <1>6

\* A command is executed on the ledger, and logged if it succeeded.
LEMMA RealStep ==
    ASSUME CInv, NEW f \in Flows, execute(f)
    PROVE  CInv'
PROOF
  <1>1. Executes(f) /\ UNCHANGED <<signals, taken, receipts, crashes>>
    BY DEF execute
  <1>0. PICK c : c = rows[f].command
    OBVIOUS
  <1>2. PICK ok : ok = AfterSuccess(rows[f])
    OBVIOUS
  <1>3. PICK out \in _dispatch(ledger, c) :
         /\ ledger' = out[2]
         /\ \/ /\ out[1] # "ok"
               /\ JobAt("commit", f, AfterFailure(rows[f], out[1]),
                        out[1] = "ALREADY_APPLIED", "SUCCEEDED")
               /\ UNCHANGED <<logged, log_keys>>
            \/ /\ out[1] = "ok"
               /\ \E app \in IF c \in log_keys THEN {<<TRUE, "ok">>} ELSE Appends("ok") :
                    /\ IF app[1] /\ c \notin log_keys
                         THEN logged' = out[2] /\ log_keys' = log_keys \cup {c}
                         ELSE UNCHANGED <<logged, log_keys>>
                    /\ IF app[2] = "ok"
                         THEN JobAt("put_receipt", f, ok, TRUE, "SUCCEEDED")
                         ELSE JobAt("commit", f, AfterFailure(rows[f], app[2]), FALSE,
                                    "SUCCEEDED")
    BY <1>0, <1>2, Zenon DEF execute
  <1>4. c \in Commands
    BY <1>0, <1>1, ExecutedRow
  <1>5. /\ ledger \in Ledger /\ logged \in Ledger /\ Keeps(logged, ledger)
        /\ log_keys \subseteq Commands /\ \A k \in log_keys : Done(k)
    BY DEF CInv, TypeOK, LogInv
  <1>6. Keeps(ledger, out[2]) /\ (out[1] = "ok" => out[2].expenses[c.expense] = Target(c))
    BY <1>3, <1>4, <1>5, DispatchOutcome
  <1>7. Keeps(logged, out[2])
    BY <1>5, <1>6, KeepsTrans
  <1>8. /\ ok \in WorkflowInstance /\ SameOrder(ok, rows[f]) /\ ~ok.expired
        /\ ok.workflow_state = "LEDGER_COMMITTED" /\ ok.command = c
    BY <1>0, <1>1, <1>2, SuccessRow
  \* A failure leaves the log alone.
  <1>9. ASSUME NEW status, NEW consume \in BOOLEAN,
               JobAt("commit", f, AfterFailure(rows[f], status), consume, "SUCCEEDED"),
               UNCHANGED <<logged, log_keys>>
        PROVE  CInv'
    <2>1. PICK i : i = AfterFailure(rows[f], status)
      OBVIOUS
    <2>2. /\ i \in WorkflowInstance /\ SameOrder(i, rows[f]) /\ ~i.expired
          /\ i.workflow_state = "REVIEW_PENDING"
      BY <1>1, <2>1, FailureRow
    <2>3. /\ Keeps(logged, logged') /\ logged' \in Ledger /\ log_keys' \subseteq Commands
          /\ \A k \in log_keys' : Done(k)'
      BY <1>9, LogUnchanged
    <2>4. Keeps(logged', ledger')
      BY <1>3, <1>7, <1>9
    <2>5. JobAt("commit", f, i, consume, "SUCCEEDED")
      BY <1>9, <2>1
    <2> QED
      BY <1>1, <2>2, <2>3, <2>4, <2>5, ExecuteStep
  \* A success is in the log, now or since an earlier run.
  <1>10. ASSUME out[1] = "ok", JobAt("put_receipt", f, ok, TRUE, "SUCCEEDED"),
                \/ c \notin log_keys /\ logged' = out[2] /\ log_keys' = log_keys \cup {c}
                \/ c \in log_keys /\ UNCHANGED <<logged, log_keys>>
         PROVE  CInv'
    <2>1. /\ Keeps(logged, logged') /\ logged' \in Ledger /\ Keeps(logged', ledger')
          /\ log_keys' = log_keys \cup {c}
      BY <1>3, <1>5, <1>7, <1>10 DEF Keeps
    <2>2. \A k \in Commands : Done(k) => Done(k)'
      BY <2>1, DoneKept
    <2>3. Done(c)'
      <3>1. CASE logged' = out[2]
        BY <1>6, <1>10, <3>1 DEF Done
      <3>2. CASE c \in log_keys
        BY <1>4, <1>5, <2>2, <3>2
      <3> QED
        BY <1>10, <3>1, <3>2
    <2>4. log_keys' \subseteq Commands /\ \A k \in log_keys' : Done(k)'
      BY <1>4, <1>5, <2>1, <2>2, <2>3
    <2>5. Done(ok.command)'
      BY <1>8, <2>3
    <2> QED
      BY <1>1, <1>8, <1>10, <2>1, <2>4, <2>5, ExecuteStep
  <1>11. CASE out[1] # "ok"
    BY <1>3, <1>9, <1>11
  <1>12. CASE out[1] = "ok" /\ c \in log_keys
    <2>1. UNCHANGED <<logged, log_keys>> /\ JobAt("put_receipt", f, ok, TRUE, "SUCCEEDED")
      <3>1. PICK app \in {<<TRUE, "ok">>} :
             /\ IF app[1] /\ c \notin log_keys
                  THEN logged' = out[2] /\ log_keys' = log_keys \cup {c}
                  ELSE UNCHANGED <<logged, log_keys>>
             /\ IF app[2] = "ok"
                  THEN JobAt("put_receipt", f, ok, TRUE, "SUCCEEDED")
                  ELSE JobAt("commit", f, AfterFailure(rows[f], app[2]), FALSE, "SUCCEEDED")
        BY <1>3, <1>12, Zenon
      <3>2. app = <<TRUE, "ok">>
        BY Zenon
      <3>3. app[1] = TRUE /\ app[2] = "ok"
        BY <3>2
      <3> QED
        BY <1>12, <3>1, <3>3, Zenon
    <2> QED
      BY <1>10, <1>12, <2>1
  <1>13. CASE out[1] = "ok" /\ c \notin log_keys
    <2>1. \/ /\ logged' = out[2] /\ log_keys' = log_keys \cup {c}
             /\ JobAt("put_receipt", f, ok, TRUE, "SUCCEEDED")
          \/ /\ UNCHANGED <<logged, log_keys>>
             /\ JobAt("commit", f, AfterFailure(rows[f], "RETRYABLE"), FALSE, "SUCCEEDED")
      <3>1. PICK app \in Appends("ok") :
             /\ IF app[1] /\ c \notin log_keys
                  THEN logged' = out[2] /\ log_keys' = log_keys \cup {c}
                  ELSE UNCHANGED <<logged, log_keys>>
             /\ IF app[2] = "ok"
                  THEN JobAt("put_receipt", f, ok, TRUE, "SUCCEEDED")
                  ELSE JobAt("commit", f, AfterFailure(rows[f], app[2]), FALSE, "SUCCEEDED")
        BY <1>3, <1>13, Zenon
      <3>2. CASE app = <<TRUE, "ok">>
        <4>1. app[1] = TRUE /\ app[2] = "ok"
          BY <3>2
        <4> QED
          BY <1>13, <3>1, <4>1, Zenon
      <3>3. CASE app = <<FALSE, "RETRYABLE">>
        <4>1. app[1] = FALSE /\ app[2] = "RETRYABLE" /\ app[2] # "ok"
          BY <3>3
        <4> QED
          BY <3>1, <4>1, Zenon
      <3> QED
        BY <3>1, <3>2, <3>3 DEF Appends
    <2> QED
      BY <1>9, <1>10, <1>13, <2>1
  <1> QED
    BY <1>11, <1>12, <1>13

\* The receipt of the command is stored, or the store fails.
LEMMA StoreReceiptStep ==
    ASSUME CInv, _store_receipt
    PROVE  CInv'
PROOF
  <1>1. TypeOK /\ SignalInv /\ RowsInv /\ JobInv /\ LogInv
    BY DEF CInv
  <1>2. /\ job.at = "put_receipt"
        /\ UNCHANGED <<rows, signals, taken, ledger, logged, log_keys, crashes>>
    BY DEF _store_receipt
  <1>3. job # NoJob
    BY <1>2 DEF NoJob
  <1>4. job \in Job
    BY <1>1, <1>3 DEF TypeOK
  <1>5. PICK j : j = job
    OBVIOUS
  <1>6. /\ j.flow \in Flows /\ j.inst \in WorkflowInstance /\ j.consume \in BOOLEAN
        /\ j.status \in {"SUCCEEDED", "SIMULATED"} /\ j.at = "put_receipt"
    BY <1>2, <1>4, <1>5 DEF Job
  <1>7. /\ rows[j.flow] # Absent
        /\ rows[j.flow].type = "correction"
        /\ rows[j.flow].workflow_state = "REVIEW_PENDING"
        /\ rows[j.flow].run_status \in {"RUNNING", "PENDING"}
        /\ rows[j.flow].attempt_count < max_attempts
        /\ SameOrder(j.inst, rows[j.flow])
        /\ ~j.inst.expired
        /\ j.inst.workflow_state = "LEDGER_COMMITTED"
        /\ j.consume
        /\ taken[j.flow] < Len(signals[j.flow])
        /\ signals[j.flow][taken[j.flow] + 1] = "APPROVE"
        /\ j.inst.simulation \/ Done(j.inst.command) \/ Simulated(j.inst.command)
        /\ j.status = "SUCCEEDED" => Done(j.inst.command)
    BY <1>1, <1>2, <1>3, <1>5 DEF JobInv
  <1>8. rows[j.flow] \in WorkflowInstance /\ RowOK(j.flow, rows[j.flow], taken[j.flow])
    BY <1>1, <1>6, <1>7 DEF TypeOK, RowsInv
  <1>9. j.inst.command \in Commands
    BY <1>7, <1>8 DEF RowOK, SameOrder
  <1>10. \A c : Done(c)' <=> Done(c)
    BY <1>2 DEF Done
  <1>11. SignalInv'
    BY <1>1, <1>2 DEF SignalInv, Sent
  <1>12. CASE /\ receipts' = receipts \cup {[key |-> j.inst.command, status |-> j.status]}
              /\ job' = [j EXCEPT !.at = "commit"]
    <2>1. /\ job' \in Job /\ job'.at = "commit" /\ job'.flow = j.flow /\ job'.inst = j.inst
          /\ job'.consume = j.consume
      BY <1>4, <1>5, <1>12 DEF Job
    <2>2. TypeOK'
      BY <1>1, <1>2, <1>6, <1>9, <1>12, <2>1 DEF TypeOK
    <2>3. \A c : Simulated(c) => Simulated(c)'
      BY <1>12 DEF Simulated
    <2>4. RowsInv'
      <3>1. \A h \in Flows : RowOK(h, rows'[h], taken'[h])
        BY <1>1, <1>2 DEF RowsInv
      <3> QED
        BY <1>2, <1>10, <2>3, <3>1, RowsLater
    <2>5. JobInv'
      <3>1. Done(job.inst.command)' <=> Done(j.inst.command)
        BY <1>2, <2>1 DEF Done
      <3>2. Simulated(j.inst.command) => Simulated(job.inst.command)'
        BY <1>12, <2>1 DEF Simulated
      <3> QED
        BY <1>2, <1>7, <2>1, <3>1, <3>2 DEF JobInv
    <2>6. LogInv'
      <3> DEFINE x == [key |-> j.inst.command, status |-> j.status]
      <3>1. \A r \in receipts : r.status = "SUCCEEDED" => Done(r.key)'
        BY <1>1, <1>10 DEF LogInv
      <3>2. x.status = "SUCCEEDED" => Done(j.inst.command)'
        BY <1>7, <1>10
      <3>3. \A r \in receipts' : r.status = "SUCCEEDED" => Done(r.key)'
        BY <1>12, <3>1, <3>2
      <3> QED
        BY <1>1, <1>2, <1>10, <3>3 DEF LogInv
    <2> QED
      BY <1>11, <2>2, <2>4, <2>5, <2>6 DEF CInv
  <1>13. CASE /\ receipts' = receipts
              /\ job' = [j EXCEPT !.at = "commit", !.consume = FALSE,
                                  !.inst = AfterFailure(rows[j.flow], "RETRYABLE")]
    <2> DEFINE i == AfterFailure(rows[j.flow], "RETRYABLE")
    <2>1. /\ i \in WorkflowInstance /\ SameOrder(i, rows[j.flow])
          /\ i.workflow_state = rows[j.flow].workflow_state
          /\ i.expired = rows[j.flow].expired
      BY <1>7, <1>8, FailedRow
    <2>2. ~rows[j.flow].expired
      BY <1>7, <1>8 DEF RowOK
    <2> HIDE DEF i
    <2>3. ~i.expired
      BY <2>1, <2>2, Zenon
    <2>4. job' = [j EXCEPT !.at = "commit", !.consume = FALSE, !.inst = i]
      BY <1>13 DEF i
    <2>5. /\ job' \in Job /\ job'.at = "commit" /\ job'.flow = j.flow /\ job'.inst = i
          /\ ~job'.consume
      BY <1>4, <1>5, <2>1, <2>4 DEF Job
    <2>6. TypeOK'
      BY <1>1, <1>2, <1>13, <2>5 DEF TypeOK
    <2>7. RowsInv'
      <3>1. \A h \in Flows : RowOK(h, rows'[h], taken'[h])
        BY <1>1, <1>2 DEF RowsInv
      <3>2. \A c : Simulated(c) => Simulated(c)'
        BY <1>13 DEF Simulated
      <3> QED
        BY <1>2, <1>10, <3>1, <3>2, RowsLater
    <2>8. JobInv'
      BY <1>2, <1>7, <2>1, <2>3, <2>5 DEF JobInv
    <2>9. LogInv'
      BY <1>1, <1>2, <1>10, <1>13 DEF LogInv
    <2> QED
      BY <1>11, <2>6, <2>7, <2>8, <2>9 DEF CInv
  <1> QED
    BY <1>5, <1>12, <1>13 DEF _store_receipt

\* The advance is committed: the row is stored and its signal consumed.
LEMMA CommitAdvanceStep ==
    ASSUME CInv, commit_advance
    PROVE  CInv'
PROOF
  <1>1. TypeOK /\ SignalInv /\ RowsInv /\ JobInv /\ LogInv
    BY DEF CInv
  <1>2. PICK j : j = job
    OBVIOUS
  <1>3. PICK n : n = IF j.consume THEN 1 ELSE 0
    OBVIOUS
  <1>4. job # NoJob /\ j.at = "commit"
    BY <1>2 DEF commit_advance, NoJob
  <1>5. j \in Job /\ j.flow \in Flows /\ j.inst \in WorkflowInstance
    BY <1>1, <1>2, <1>4 DEF TypeOK, Job
  <1>6. taken \in [Flows -> Nat] /\ taken[j.flow] \in Nat
    BY <1>1, <1>5, CorrectionsAssumption DEF TypeOK
  <1>7. /\ rows' = [rows EXCEPT ![j.flow] = j.inst]
        /\ taken' = [taken EXCEPT ![j.flow] = taken[j.flow] + n]
        /\ UNCHANGED <<signals, receipts, ledger, logged, log_keys, crashes>>
        /\ job' = NoJob
    <2>1. /\ rows' = [rows EXCEPT ![j.flow] = j.inst]
          /\ taken' = [taken EXCEPT ![j.flow] = IF j.consume THEN taken[j.flow] + 1
                                                ELSE taken[j.flow]]
          /\ UNCHANGED <<signals, receipts, ledger, logged, log_keys, crashes>>
          /\ job' = NoJob
      BY <1>2 DEF commit_advance
    <2>2. taken[j.flow] + n = IF j.consume THEN taken[j.flow] + 1 ELSE taken[j.flow]
      BY <1>3, <1>6
    <2> QED
      BY <2>1, <2>2
  <1>8. /\ rows[j.flow] # Absent
        /\ rows[j.flow].type = "correction"
        /\ SameOrder(j.inst, rows[j.flow])
        /\ ~j.inst.expired
        /\ j.inst.workflow_state \in {"LEDGER_COMMITTED", "REVIEW_PENDING"}
        /\ j.consume => taken[j.flow] < Len(signals[j.flow])
        /\ j.inst.workflow_state = "LEDGER_COMMITTED" =>
              /\ j.consume
              /\ signals[j.flow][taken[j.flow] + 1] = "APPROVE"
              /\ j.inst.simulation
                 \/ Done(j.inst.command) \/ Simulated(j.inst.command)
    BY <1>1, <1>2, <1>4 DEF JobInv
  <1>9. rows[j.flow] \in WorkflowInstance /\ RowOK(j.flow, rows[j.flow], taken[j.flow])
    BY <1>1, <1>5, <1>8 DEF TypeOK, RowsInv
  <1>10. n \in {0, 1} /\ (n = 1 => taken[j.flow] < Len(signals[j.flow]))
         /\ (j.inst.workflow_state = "LEDGER_COMMITTED" => n = 1)
    BY <1>3, <1>8
  <1>11. RowOK(j.flow, j.inst, taken[j.flow] + n)
    <2>1. CASE j.inst.workflow_state = "REVIEW_PENDING"
      BY <1>5, <1>8, <1>9, <2>1, RowQuiet
    <2>2. CASE j.inst.workflow_state = "LEDGER_COMMITTED"
      <3>1. j.inst.type = "correction" /\ j.inst.command \in Commands
        BY <1>8, <1>9 DEF SameOrder, RowOK
      <3>2. n = 1 /\ taken[j.flow] + n > 0
        BY <1>6, <1>10, <2>2
      <3> QED
        BY <1>5, <1>8, <2>2, <3>1, <3>2, AbsentIsNoRow DEF RowOK
    <2> QED
      BY <1>8, <2>1, <2>2
  <1>12. Len(signals[j.flow]) \in 0 .. MaxSignals
    BY <1>1, <1>5, SignalsBounded
  <1>13. taken[j.flow] + n \in 0 .. MaxSignals /\ taken[j.flow] + n <= Len(signals[j.flow])
    <2>1. taken[j.flow] <= Len(signals[j.flow])
      BY <1>1, <1>5 DEF SignalInv
    <2> QED
      BY <1>6, <1>10, <1>12, <2>1, CorrectionsAssumption
  <1>14. TypeOK'
    BY <1>1, <1>5, <1>7, <1>13 DEF TypeOK
  <1>15. SignalInv'
    <2>1. Sent' = Sent
      BY <1>7 DEF Sent
    <2>2. \A h \in Flows : taken'[h] <= Len(signals'[h])
      BY <1>1, <1>6, <1>7, <1>13 DEF SignalInv
    <2> QED
      BY <1>1, <2>1, <2>2 DEF SignalInv
  <1>16. RowsInv'
    <2>1. \A h \in Flows : RowOK(h, rows'[h], taken'[h])
      BY <1>1, <1>6, <1>7, <1>11 DEF RowsInv, TypeOK
    <2>2. /\ \A c : Done(c) => Done(c)'
          /\ \A c : Simulated(c) => Simulated(c)'
      BY <1>7 DEF Done, Simulated
    <2> QED
      BY <1>7, <2>1, <2>2, RowsLater
  <1>17. JobInv'
    BY <1>7 DEF JobInv
  <1>18. LogInv'
    BY <1>1, <1>7 DEF LogInv, Done
  <1> QED
    BY <1>14, <1>15, <1>16, <1>17, <1>18 DEF CInv

\* A restart forgets the job and the running ledger, nothing else.
LEMMA OpenStep ==
    ASSUME CInv, open_workspace
    PROVE  CInv'
PROOF
  <1>1. TypeOK /\ SignalInv /\ RowsInv /\ LogInv
    BY DEF CInv
  <1>2. /\ UNCHANGED <<rows, signals, taken, receipts, logged, log_keys>>
        /\ ledger' = logged /\ job' = NoJob /\ crashes < MaxCrashes /\ crashes' = crashes + 1
    BY DEF open_workspace
  <1>3. TypeOK'
    <2>1. crashes' \in 0 .. MaxCrashes
      BY <1>1, <1>2, CorrectionsAssumption DEF TypeOK
    <2> QED
      BY <1>1, <1>2, <2>1 DEF TypeOK
  <1>4. SignalInv' /\ JobInv'
    BY <1>1, <1>2 DEF SignalInv, Sent, JobInv
  <1>5. RowsInv'
    <2>1. /\ \A h \in Flows : RowOK(h, rows'[h], taken'[h])
          /\ \A c : (Done(c) => Done(c)') /\ (Simulated(c) => Simulated(c)')
      BY <1>1, <1>2 DEF RowsInv, Done, Simulated
    <2> QED
      BY <1>2, <2>1, RowsLater
  <1>6. LogInv'
    BY <1>1, <1>2 DEF LogInv, Done, Keeps, TypeOK
  <1> QED
    BY <1>3, <1>4, <1>5, <1>6 DEF CInv

\* A step that changes nothing here.
LEMMA StutterStep ==
    ASSUME CInv, UNCHANGED vars
    PROVE  CInv'
PROOF
  <1>1. UNCHANGED <<rows, signals, taken, receipts, ledger, logged, log_keys, job, crashes>>
    BY DEF vars
  <1> QED
    BY <1>1 DEF CInv, TypeOK, SignalInv, Sent, RowsInv, RowOK, JobInv, LogInv, Done, Simulated

\* Every step of the running process keeps the invariant.
LEMMA RunningStep ==
    ASSUME CInv, Running
    PROVE  CInv'
PROOF
  <1>1. CASE \E f \in Flows, c \in Commands, sim \in Simulations,
                missing \in {"nothing", "reason", "replacement"} :
                start_correction(f, c, missing, sim)
    BY <1>1, StartStep
  <1>2. CASE \E f \in Flows, ra \in BOOLEAN : start_scheduled_digest(f, ra)
    BY <1>2, StartDigestStep
  <1>3. CASE \E f \in Flows, d \in Decisions : signal_approval(f, d)
    BY <1>3, SignalStep
  <1>4. CASE \E f \in Flows : signal_operator(f)
    BY <1>4, SignalStep DEF Decisions
  <1>5. CASE \E f \in Flows : sweep_approval_timeouts(f)
    BY <1>5, TimeoutStep
  <1>6. CASE \E f \in Flows : tick(f)
    <2>1. PICK f \in Flows : tick(f)
      BY <1>6
    <2>2. CASE _dead_letter(f) \/ _advance_correction_other(f) \/ _advance_digest_other(f)
      BY <2>2, ParkStep
    <2>3. CASE step_propose_correction(f)
      BY <2>3, ProposeStep
    <2>4. CASE _advance_human_gate(f)
      BY <2>4, GateStep
    <2>5. CASE step_after_ledger_correction(f) \/ step_complete_digest(f)
      BY <2>5, DeliverStep
    <2>6. CASE step_assemble_and_privacy(f)
      BY <2>6, AssembleStep
    <2>7. CASE _advance_digest_approval(f)
      BY <2>7, DigestGateStep
    <2>8. CASE execute_stored(f) \/ execute_simulated(f)
      BY <2>8, AnswerStep
    <2>9. CASE execute(f)
      BY <2>9, RealStep
    <2> QED
      BY <2>1, <2>2, <2>3, <2>4, <2>5, <2>6, <2>7, <2>8, <2>9 DEF tick
  <1>7. CASE _store_receipt
    BY <1>7, StoreReceiptStep
  <1>8. CASE commit_advance
    BY <1>8, CommitAdvanceStep
  <1> QED
    BY <1>1, <1>2, <1>3, <1>4, <1>5, <1>6, <1>7, <1>8 DEF Running

-----------------------------------------------------------------------------
(* The theorems about corrections and digests *)

\* The invariant holds of a fresh workspace.
LEMMA CInvInit ==
    ASSUME Init
    PROVE  CInv
PROOF
  <1>1. Fresh \in Ledger
    BY DEF Fresh, Ledger, ExpenseStates
  <1>2. TypeOK
    BY <1>1, CorrectionsAssumption DEF Init, TypeOK
  <1>3. SignalInv
    <2>1. \A f \in Flows : signals[f] = << >> /\ taken[f] = 0
      BY DEF Init
    <2>2. Sent = {}
      BY <2>1 DEF Sent
    <2> QED
      BY <2>1, <2>2, FS_EmptySet, CorrectionsAssumption DEF SignalInv
  <1>4. RowsInv
    BY DEF Init, RowsInv, RowOK
  <1>5. JobInv /\ LogInv
    BY <1>1 DEF Init, JobInv, LogInv, Keeps
  <1> QED
    BY <1>2, <1>3, <1>4, <1>5 DEF CInv

\* The inductive invariant of the correction and digest workflows.
LEMMA CInvAlways == Spec => []CInv
PROOF
  <1>1. Init => CInv
    BY CInvInit
  <1>2. CInv /\ [Next]_vars => CInv'
    BY RunningStep, OpenStep, StutterStep DEF Next
  <1> QED
    BY <1>1, <1>2, PTL DEF Spec

\* Type correctness: what the workers, the operators, the sweep and a restart
\* write into the workflows table, the receipts and the log is of the right type,
\* and no more signals are consumed than were sent.
THEOREM CorrectionsTypeCorrect == Spec => []TypeOK
PROOF
  <1>1. CInv => TypeOK
    BY DEF CInv
  <1> QED
    BY <1>1, CInvAlways, PTL

\* A correction that its workflow reports as delivered is in the command log,
\* and so survives every restart, unless a simulated run of the same command
\* left a receipt that answers it.
THEOREM DeliveredIsLoggedHolds == Spec => []DeliveredIsLogged
PROOF
  <1>1. CInv => DeliveredIsLogged
    <2> SUFFICES ASSUME CInv, NEW f \in Flows, Corrected(f), ~Simulated(rows[f].command)
                 PROVE  Done(rows[f].command)
      BY DEF DeliveredIsLogged, Done, Target
    <2>1. RowOK(f, rows[f], taken[f])
      BY DEF CInv, RowsInv
    <2> QED
      BY <2>1 DEF Corrected, Exists, RowOK
  <1> QED
    BY <1>1, CInvAlways, PTL

\* No workflow passes its human gate but on an APPROVE, the last decision it
\* consumed; a digest passes it on the first.
THEOREM GateHonouredHolds == Spec => []GateHonoured
PROOF
  <1>1. CInv => GateHonoured
    <2> SUFFICES ASSUME CInv, NEW f \in Flows, PastGate(f)
                 PROVE  /\ taken[f] > 0 /\ signals[f][taken[f]] = "APPROVE"
                        /\ rows[f].type = "scheduled_digest" => taken[f] = 1
      BY DEF GateHonoured
    <2>1. RowOK(f, rows[f], taken[f])
      BY DEF CInv, RowsInv
    <2> QED
      BY <2>1 DEF PastGate, Exists, RowOK, PastStates
  <1> QED
    BY <1>1, CInvAlways, PTL

\* What a step of the worker may do to a row that waits for information: park
\* it or wake it.
LEMMA WaitingRowTick ==
    ASSUME CInv, NEW f \in Flows, tick(f), rows[f].workflow_state = "NEEDS_INFORMATION"
    PROVE  rows'[f].workflow_state = "NEEDS_INFORMATION"
PROOF
  <1>1. Claimable(f)
    BY DEF tick, _dead_letter, step_propose_correction, _advance_human_gate,
           step_after_ledger_correction, _advance_correction_other,
           step_assemble_and_privacy, _advance_digest_approval, step_complete_digest,
           _advance_digest_other, execute_stored, execute_simulated, execute, Executes,
           Advancing
  <1>2. rows[f] \in WorkflowInstance /\ rows \in [Flows -> WorkflowInstance \cup {Absent}]
    BY <1>1, Claimed DEF CInv, TypeOK
  <1>3. _dead_letter(f) \/ _advance_correction_other(f) \/ _advance_digest_other(f)
    BY DEF tick, step_propose_correction, _advance_human_gate,
           step_after_ledger_correction, step_assemble_and_privacy,
           _advance_digest_approval, step_complete_digest,
           execute_stored, execute_simulated, execute, Executes, Advancing
  <1>4. \E rs \in {"DEAD_LETTER", "WAITING_SIGNAL", "PENDING"} :
           rows' = [rows EXCEPT ![f] = [rows[f] EXCEPT !.run_status = rs]]
    BY <1>3, Zenon DEF _dead_letter, _advance_correction_other, _advance_digest_other,
                       Reparked, Commit
  <1> QED
    BY <1>2, <1>4 DEF WorkflowInstance

\* The worker stores one row.
LEMMA TickOneRow ==
    ASSUME NEW g, tick(g)
    PROVE  \E r : rows' = [rows EXCEPT ![g] = r]
PROOF
  <1>1. ASSUME NEW r, NEW n, Commit(g, r, n)
        PROVE  \E x : rows' = [rows EXCEPT ![g] = x]
    BY <1>1 DEF Commit
  <1>2. CASE execute_stored(g) \/ execute_simulated(g) \/ execute(g)
    BY <1>2 DEF execute_stored, execute_simulated, execute, Executes
  <1>3. CASE step_assemble_and_privacy(g)
    BY <1>1, <1>3 DEF step_assemble_and_privacy
  <1>4. CASE \/ _dead_letter(g) \/ step_propose_correction(g) \/ _advance_human_gate(g)
             \/ step_after_ledger_correction(g) \/ _advance_correction_other(g)
             \/ _advance_digest_approval(g) \/ step_complete_digest(g)
             \/ _advance_digest_other(g)
    BY <1>1, <1>4 DEF _dead_letter, step_propose_correction, _advance_human_gate,
           step_after_ledger_correction, _advance_correction_other,
           _advance_digest_approval, step_complete_digest, _advance_digest_other
  <1> QED
    BY <1>2, <1>3, <1>4 DEF tick

\* An expired row stays where it is.
LEMMA ExpiredStep ==
    ASSUME CInv, Next, NEW f \in Flows, Exists(f), rows[f].expired
    PROVE  rows'[f].workflow_state = "NEEDS_INFORMATION"
PROOF
  <1>1. /\ rows \in [Flows -> WorkflowInstance \cup {Absent}] /\ rows[f] \in WorkflowInstance
        /\ rows[f].workflow_state = "NEEDS_INFORMATION"
    BY DEF CInv, TypeOK, RowsInv, RowOK, Exists
  <1>2. ASSUME NEW g \in Flows, NEW r, rows' = [rows EXCEPT ![g] = r], g # f
        PROVE  rows'[f].workflow_state = "NEEDS_INFORMATION"
    BY <1>1, <1>2
  <1>3. ASSUME NEW g \in Flows, tick(g)
        PROVE  rows'[f].workflow_state = "NEEDS_INFORMATION"
    BY <1>1, <1>2, <1>3, TickOneRow, WaitingRowTick
  <1>4. ASSUME NEW g \in Flows,
               \/ \E c \in Commands, sim \in Simulations,
                     missing \in {"nothing", "reason", "replacement"} :
                     start_correction(g, c, missing, sim)
               \/ \E ra \in BOOLEAN : start_scheduled_digest(g, ra)
        PROVE  rows'[f].workflow_state = "NEEDS_INFORMATION"
    <2>1. g # f /\ \E r : rows' = [rows EXCEPT ![g] = r]
      BY <1>4 DEF start_correction, start_scheduled_digest, Exists
    <2> QED
      BY <1>2, <2>1
  <1>5. ASSUME NEW g \in Flows, (\E d \in Decisions : signal_approval(g, d)) \/ signal_operator(g)
        PROVE  rows'[f].workflow_state = "NEEDS_INFORMATION"
    <2>1. rows' = [rows EXCEPT ![g] = [rows[g] EXCEPT !.run_status = "PENDING"]]
      BY <1>5 DEF signal_approval, signal_operator
    <2> QED
      BY <1>1, <1>2, <2>1 DEF WorkflowInstance
  <1>6. ASSUME NEW g \in Flows, sweep_approval_timeouts(g)
        PROVE  rows'[f].workflow_state = "NEEDS_INFORMATION"
    <2>1. g # f /\ rows' = [rows EXCEPT ![g] = Expired(rows[g])]
      BY <1>1, <1>6 DEF sweep_approval_timeouts, HUMAN_GATE_STATES
    <2> QED
      BY <1>2, <2>1
  <1>7. CASE commit_advance
    <2>1. job # NoJob /\ rows' = [rows EXCEPT ![job.flow] = job.inst]
      BY <1>7 DEF commit_advance, NoJob
    <2>2. job.flow \in Flows /\ job.flow # f
      BY <1>1, <2>1 DEF CInv, TypeOK, Job, JobInv
    <2> QED
      BY <1>1, <2>1, <2>2
  <1>8. CASE _store_receipt \/ open_workspace
    BY <1>1, <1>8 DEF _store_receipt, open_workspace
  <1> QED
    BY <1>3, <1>4, <1>5, <1>6, <1>7, <1>8 DEF Next, Running

\* A gate that timed out is final: no late APPROVE, no commit of an advance
\* under way and no wake-up moves the workflow again.
THEOREM ExpiredIsFinalHolds == Spec => ExpiredIsFinal
PROOF
  <1> DEFINE P == \A f \in Flows : Exists(f) /\ rows[f].expired =>
                     rows'[f].workflow_state = "NEEDS_INFORMATION"
  <1>1. CInv /\ [Next]_vars => [P]_vars
    BY ExpiredStep
  <1>2. Spec => [][P]_vars
    BY <1>1, CInvAlways, PTL DEF Spec
  <1> QED
    BY <1>2 DEF ExpiredIsFinal

-----------------------------------------------------------------------------
(* Impact receipts beside corrections *)

\* Attributions are made only from the ones there are.
AttributionsOK == attributions \in Seq(Attributions)

ImpactInv == CInv /\ AttributionsOK /\ OneImpactReceipt

\* Attributing a donor to an expense writes the running ledger to the log,
\* failed attempts included; no correction is lost by it.
LEMMA AttributeStep ==
    ASSUME CInv, NEW a, attribute(a)
    PROVE  CInv'
PROOF
  <1>1. TypeOK /\ SignalInv /\ RowsInv /\ LogInv
    BY DEF CInv
  <1>2. /\ job = NoJob /\ logged' = ledger
        /\ UNCHANGED <<rows, signals, taken, receipts, ledger, log_keys, job, crashes>>
    BY DEF attribute
  <1>3. Keeps(logged, logged') /\ Keeps(logged', ledger')
    BY <1>1, <1>2 DEF LogInv, Keeps, TypeOK
  <1>4. \A c \in Commands : Done(c) => Done(c)'
    BY <1>3, DoneKept
  <1>5. TypeOK'
    BY <1>1, <1>2 DEF TypeOK
  <1>6. SignalInv' /\ JobInv'
    BY <1>1, <1>2 DEF SignalInv, Sent, JobInv
  <1>7. RowsInv'
    <2>1. /\ \A h \in Flows : RowOK(h, rows'[h], taken'[h])
          /\ \A c : Simulated(c) => Simulated(c)'
      BY <1>1, <1>2 DEF RowsInv, Simulated
    <2> QED
      BY <1>2, <1>4, <2>1, RowsLater
  <1>8. LogInv'
    <2>1. /\ \A c \in log_keys : Done(c)'
          /\ \A r \in receipts : r.status = "SUCCEEDED" => Done(r.key)'
      BY <1>1, <1>4 DEF LogInv, TypeOK
    <2> QED
      BY <1>2, <1>3, <2>1 DEF LogInv
  <1> QED
    BY <1>5, <1>6, <1>7, <1>8 DEF CInv

\* Every step of the composition keeps the invariant of the corrections.
LEMMA ComposedCInv ==
    ASSUME CInv, [ComposedNext]_allVars
    PROVE  CInv'
PROOF
  <1>1. CASE Running
    BY <1>1, RunningStep
  <1>2. CASE \E a \in Attributions : attribute(a)
    BY <1>2, AttributeStep
  <1>3. CASE UNCHANGED vars
    BY <1>3, StutterStep
  <1>4. CASE restart
    BY <1>4, OpenStep DEF restart
  <1>5. CASE UNCHANGED allVars
    BY <1>3, <1>5 DEF allVars
  <1> QED
    BY <1>1, <1>2, <1>3, <1>4, <1>5 DEF ComposedNext

\* What a step may do to the attributions and the impact receipts.
LEMMA ImpactSteps ==
    ASSUME ComposedNext
    PROVE  \/ UNCHANGED <<attributions, impact_receipts>>
           \/ /\ UNCHANGED impact_receipts
              /\ \E a \in Attributions : attributions' = Append(attributions, a)
           \/ UNCHANGED attributions /\ impact_receipts' = {}
           \/ UNCHANGED attributions /\ \E v \in Events : I!publish_impact_receipts(v)
PROOF
  <1>1. CASE Running /\ UNCHANGED <<attributions, workspace>>
    BY <1>1 DEF workspace
  <1>2. CASE \E a \in Attributions : attribute(a)
    BY <1>2 DEF attribute, workspace
  <1>3. CASE restart
    BY <1>3 DEF restart
  <1>4. CASE I!ImpactNext /\ UNCHANGED <<vars, attributions>>
    BY <1>4 DEF I!ImpactNext, I!register_program, I!register_funded_asset,
                I!deploy_asset, I!submit_impact_event, I!verify_impact_event
  <1> QED
    BY <1>1, <1>2, <1>3, <1>4 DEF ComposedNext

\* The step makes receipts for event v from the attributions at these positions:
\* verified ones, without a receipt so far, one of each donor and allocation.
Adds(v, made) ==
    /\ \A i \in made :
         /\ i \in DOMAIN attributions
         /\ ledger.expenses[attributions[i].expense] \in {"APPROVED", "RECONCILED"}
         /\ \A r \in impact_receipts :
              ~(/\ r.donor = attributions[i].donor /\ r.event = v
                /\ r.allocation = attributions[i].allocation)
    /\ \A i, k \in made :
         /\ attributions[i].donor = attributions[k].donor
         /\ attributions[i].allocation = attributions[k].allocation
         => i = k
    /\ \E m : impact_receipts' = impact_receipts \cup
         {[donor |-> attributions[i].donor, event |-> v,
           allocation |-> attributions[i].allocation, serial |-> m[i]] : i \in made}

\* What publish_impact_receipts adds: one receipt for each attribution reached.
LEMMA PublishedReceipts ==
    ASSUME NEW v, I!publish_impact_receipts(v), AttributionsOK
    PROVE  Adds(v, I!Reached(v, impact_events[v].links))
PROOF
  <1> DEFINE links == impact_events[v].links
             made == I!Reached(v, links)
             n == [i \in made |-> published + I!Cardinality({j \in made : j <= i})]
  <1>1. \A i \in made : i \in DOMAIN attributions /\ I!Eligible(attributions[i], links)
    BY DEF I!Reached, I!Counted
  <1>2. \A i \in made : ledger.expenses[attributions[i].expense] \in {"APPROVED", "RECONCILED"}
    BY <1>1 DEF I!Eligible, I!VERIFIED_EXPENSE_STATES
  <1>3. DOMAIN attributions \subseteq Nat \ {0}
    BY LenProperties DEF AttributionsOK
  <1>4. \A i \in made : \A r \in impact_receipts :
           ~(/\ r.donor = attributions[i].donor /\ r.event = v
             /\ r.allocation = attributions[i].allocation)
    <2> SUFFICES ASSUME NEW i \in made
                 PROVE  I!_find_live_impact(attributions[i].donor, v,
                                            attributions[i].allocation) = {}
      BY DEF I!_find_live_impact
    <2>1. i \in I!Counted(links) /\ i <= i
      BY <1>1, <1>3 DEF I!Reached
    <2> QED
      BY <2>1 DEF I!Reached
  <1>5. ASSUME NEW i \in made, NEW k \in made,
               attributions[i].donor = attributions[k].donor,
               attributions[i].allocation = attributions[k].allocation
        PROVE  i = k
    <2>1. ASSUME NEW x \in made, NEW y \in made, x < y,
                 attributions[x].donor = attributions[y].donor,
                 attributions[x].allocation = attributions[y].allocation
          PROVE  FALSE
      <3>1. x \in 1 .. y - 1
        BY <1>1, <1>3, <2>1
      <3>2. y \in I!Counted(links)
        BY DEF I!Reached
      <3> QED
        BY <1>1, <2>1, <3>1, <3>2 DEF I!Counted
    <2>2. i \in Nat /\ k \in Nat
      BY <1>1, <1>3
    <2>3. ~(i < k) /\ ~(k < i)
      BY <1>5, <2>1
    <2> QED
      BY <2>2, <2>3
  <1>6. impact_receipts' = impact_receipts \cup
           {[donor |-> attributions[i].donor, event |-> v,
             allocation |-> attributions[i].allocation, serial |-> n[i]] : i \in made}
    <2>1. impact_receipts' = impact_receipts \cup
           {[donor |-> attributions[i].donor, event |-> v,
             allocation |-> attributions[i].allocation,
             serial |-> published + I!Cardinality({j \in made : j <= i})] : i \in made}
      BY DEF I!publish_impact_receipts
    <2>2. \A i \in made : n[i] = published + I!Cardinality({j \in made : j <= i})
      OBVIOUS
    <2> HIDE DEF n, made
    <2> QED
      BY <2>1, <2>2
  <1>7. \E m : impact_receipts' = impact_receipts \cup
           {[donor |-> attributions[i].donor, event |-> v,
             allocation |-> attributions[i].allocation, serial |-> m[i]] : i \in made}
    <2> HIDE DEF made, n
    <2> QED
      BY <1>6
  <1>8. \A i \in made :
           /\ i \in DOMAIN attributions
           /\ ledger.expenses[attributions[i].expense] \in {"APPROVED", "RECONCILED"}
           /\ \A r \in impact_receipts :
                ~(/\ r.donor = attributions[i].donor /\ r.event = v
                  /\ r.allocation = attributions[i].allocation)
    BY <1>1, <1>2, <1>4
  <1>9. \A i, k \in made :
           /\ attributions[i].donor = attributions[k].donor
           /\ attributions[i].allocation = attributions[k].allocation
           => i = k
    BY <1>5
  <1> HIDE DEF made
  <1>10. Adds(v, made)
    BY <1>7, <1>8, <1>9 DEF Adds
  <1> QED
    BY <1>10 DEF made

\* A step keeps the receipts of an event apart.
LEMMA OneReceiptStep ==
    ASSUME ImpactInv, ComposedNext
    PROVE  OneImpactReceipt'
PROOF
  <1>1. AttributionsOK /\ OneImpactReceipt
    BY DEF ImpactInv
  <1>2. CASE impact_receipts' \in {impact_receipts, {}}
    BY <1>1, <1>2 DEF OneImpactReceipt
  <1>3. ASSUME NEW v \in Events, I!publish_impact_receipts(v)
        PROVE  OneImpactReceipt'
    <2>1. PICK made : Adds(v, made)
      BY <1>1, <1>3, PublishedReceipts
    <2>2. PICK m : impact_receipts' = impact_receipts \cup
             {[donor |-> attributions[i].donor, event |-> v,
               allocation |-> attributions[i].allocation, serial |-> m[i]] : i \in made}
      BY <2>1 DEF Adds
    <2> DEFINE new(i) == [donor |-> attributions[i].donor, event |-> v,
                          allocation |-> attributions[i].allocation, serial |-> m[i]]
    <2>3. ASSUME NEW r \in impact_receipts', NEW s \in impact_receipts',
                 r.donor = s.donor, r.event = s.event, r.allocation = s.allocation
          PROVE  r = s
      <3>1. r \in impact_receipts \/ \E i \in made : r = new(i)
        BY <2>2
      <3>2. s \in impact_receipts \/ \E i \in made : s = new(i)
        BY <2>2
      <3>3. \A i \in made : /\ new(i).donor = attributions[i].donor /\ new(i).event = v
                            /\ new(i).allocation = attributions[i].allocation
        OBVIOUS
      <3> HIDE DEF new
      <3>4. CASE r \in impact_receipts /\ s \in impact_receipts
        BY <1>1, <2>3, <3>4 DEF OneImpactReceipt
      <3>5. ASSUME NEW i \in made, NEW x \in impact_receipts,
                   x.donor = new(i).donor, x.event = new(i).event,
                   x.allocation = new(i).allocation
            PROVE  FALSE
        BY <2>1, <3>3, <3>5 DEF Adds
      <3>6. ASSUME NEW i \in made, NEW k \in made, r = new(i), s = new(k)
            PROVE  r = s
        <4>1. i = k
          BY <2>1, <2>3, <3>3, <3>6 DEF Adds
        <4> QED
          BY <3>6, <4>1
      <3> QED
        BY <2>3, <3>1, <3>2, <3>4, <3>5, <3>6
    <2> QED
      BY <2>3 DEF OneImpactReceipt
  <1> QED
    BY <1>2, <1>3, ImpactSteps

\* The inductive invariant of the composition.
LEMMA ImpactInvAlways == ComposedSpec => []ImpactInv
PROOF
  <1>1. ComposedInit => ImpactInv
    BY CInvInit DEF ComposedInit, ImpactInv, AttributionsOK, OneImpactReceipt, I!ImpactInit
  <1>2. ImpactInv /\ [ComposedNext]_allVars => ImpactInv'
    <2> SUFFICES ASSUME ImpactInv, [ComposedNext]_allVars
                 PROVE  ImpactInv'
      OBVIOUS
    <2>1. CInv'
      BY ComposedCInv DEF ImpactInv
    <2>2. CASE UNCHANGED allVars
      BY <2>1, <2>2 DEF ImpactInv, AttributionsOK, OneImpactReceipt, allVars, workspace
    <2>3. CASE ComposedNext
      <3>1. AttributionsOK'
        BY <2>3, ImpactSteps, AppendProperties DEF ImpactInv, AttributionsOK
      <3> QED
        BY <2>1, <2>3, <3>1, OneReceiptStep DEF ImpactInv
    <2> QED
      BY <2>2, <2>3
  <1> QED
    BY <1>1, <1>2, PTL DEF ComposedSpec

\* A donor is told once about an event and a fund, whatever corrections, raises
\* half way, resubmissions and restarts come in between.
THEOREM OneImpactReceiptHolds == ComposedSpec => []OneImpactReceipt
PROOF
  <1>1. ImpactInv => OneImpactReceipt
    BY DEF ImpactInv
  <1> QED
    BY <1>1, ImpactInvAlways, PTL

\* No impact receipt is published on money the log shows as taken back.
THEOREM ImpactNotOnCorrectedHolds == ComposedSpec => ImpactNotOnCorrected
PROOF
  <1> DEFINE P == \A r \in impact_receipts' \ impact_receipts :
                    \E i \in DOMAIN attributions :
                       LET a == attributions[i] IN
                       /\ a.donor = r.donor /\ a.allocation = r.allocation
                       /\ logged.expenses[a.expense] \notin {"REVERSED", "SUPERSEDED"}
  <1>1. ASSUME ImpactInv, ComposedNext
        PROVE  P
    <2>1. AttributionsOK /\ Keeps(logged, ledger)
      BY <1>1 DEF ImpactInv, CInv, LogInv
    <2>2. CASE impact_receipts' \in {impact_receipts, {}}
      BY <2>2
    <2>3. ASSUME NEW v \in Events, I!publish_impact_receipts(v),
                 NEW r \in impact_receipts' \ impact_receipts
          PROVE  \E i \in DOMAIN attributions :
                   /\ attributions[i].donor = r.donor
                   /\ attributions[i].allocation = r.allocation
                   /\ logged.expenses[attributions[i].expense]
                        \notin {"REVERSED", "SUPERSEDED"}
      <3>1. PICK made : Adds(v, made)
        BY <2>1, <2>3, PublishedReceipts
      <3>2. PICK i \in made : /\ r.donor = attributions[i].donor
                              /\ r.allocation = attributions[i].allocation
        BY <2>3, <3>1 DEF Adds
      <3>3. /\ i \in DOMAIN attributions
            /\ ledger.expenses[attributions[i].expense] \in {"APPROVED", "RECONCILED"}
        BY <3>1 DEF Adds
      <3>4. attributions[i] \in Attributions
        BY <2>1, <3>3, ElementOfSeq, LenProperties DEF AttributionsOK
      <3>5. attributions[i].expense \in Ids
        BY <3>4, AttributionsAssumption
      <3>6. logged.expenses[attributions[i].expense] \notin {"REVERSED", "SUPERSEDED"}
        BY <2>1, <3>3, <3>5 DEF Keeps, Final
      <3> QED
        BY <3>2, <3>3, <3>6
    <2> QED
      BY <1>1, <2>2, <2>3, ImpactSteps
  <1>2. ImpactInv /\ [ComposedNext]_allVars => [P]_allVars
    <2> HIDE DEF P
    <2> QED
      BY <1>1
  <1>3. ComposedSpec => [][P]_allVars
    BY <1>2, ImpactInvAlways, PTL DEF ComposedSpec
  <1> QED
    BY <1>3 DEF ImpactNotOnCorrected

=============================================================================
