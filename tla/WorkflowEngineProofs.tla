------------------------ MODULE WorkflowEngineProofs ------------------------
(***************************************************************************)
(* Theorems about the expense_to_receipt engine, for any number of         *)
(* workflows, workers, signals, packets, restarts and attempts, for every  *)
(* store, and whether or not a lease covers an advance.                    *)
(***************************************************************************)
EXTENDS WorkflowEngine, SequenceTheorems, TLAPS

-----------------------------------------------------------------------------
(* Typing of the rows and jobs the engine writes *)

\* The keys the code makes are keys.
LEMMA KeyTypes ==
    /\ NoKey \in Key
    /\ \A c \in Commands : KeyOf(c) \in Key
    /\ \A n \in Nat : [cmd |-> "approve", packet |-> n] \in Key
BY DEF NoKey, Key, KeyOf, Commands, L3_COMMAND_TYPES

\* The row before start_expense_to_receipt is a row.
LEMMA AbsentType == Absent \in WorkflowInstance
BY KeyTypes DEF Absent, WorkflowInstance, WorkflowState, WorkflowRunStatus

\* Every rewriting of a row yields a row.
LEMMA RowTypes ==
    ASSUME NEW inst \in WorkflowInstance
    PROVE  /\ Released(inst) \in WorkflowInstance
           /\ DeadLettered(inst) \in WorkflowInstance
           /\ Reparked(inst) \in WorkflowInstance
           /\ Claimed(inst) \in WorkflowInstance
           /\ \A s \in WorkflowRunStatus :
                 [inst EXCEPT !.run_status = s] \in WorkflowInstance
           /\ \A s \in WorkflowState, r \in WorkflowRunStatus :
                 [inst EXCEPT !.workflow_state = s, !.run_status = r] \in WorkflowInstance
           /\ \A n \in Nat : [inst EXCEPT !.event_seq = n] \in WorkflowInstance
           /\ \A n \in Nat : [inst EXCEPT !.attempt_count = n] \in WorkflowInstance
BY DEF Released, DeadLettered, Reparked, Claimed, WorkflowInstance, WorkflowRunStatus

\* A gate is a row.
LEMMA ParkedType ==
    ASSUME NEW inst \in WorkflowInstance, NEW s \in WorkflowState, NEW k \in Key,
           NEW d \in {"none", "set", "past"}
    PROVE  Parked(inst, s, k, d) \in WorkflowInstance
BY DEF Parked, WorkflowInstance, WorkflowRunStatus

\* What follows a gate is a row.
LEMMA AfterApprovalType ==
    ASSUME NEW inst \in WorkflowInstance, NEW cmd
    PROVE  AfterApproval(inst, cmd) \in WorkflowInstance
BY KeyTypes DEF AfterApproval, WorkflowInstance, WorkflowRunStatus, WorkflowState

\* A fresh job is a job.
LEMMA JobOfType ==
    ASSUME NEW wf \in Workflows, NEW inst \in WorkflowInstance
    PROVE  JobOf(wf, inst) \in Job
BY KeyTypes DEF JobOf, Job, SignalConsumeResult

\* So is the job of an idle worker, and that of an advance that raised.
LEMMA NoJobType == NoJob \in Job
PROOF
  <1>1. (CHOOSE wf \in Workflows : TRUE) \in Workflows
    BY WorkflowsAssumption
  <1> QED
    BY <1>1, AbsentType, JobOfType DEF NoJob

LEMMA FailureType ==
    ASSUME NEW wf \in Workflows, NEW b \in BOOLEAN
    PROVE  Failure(wf, b) \in Job
PROOF
  <1>1. JobOf(wf, Absent) \in Job
    BY AbsentType, JobOfType
  <1> QED
    BY <1>1 DEF Failure, Job

\* Consuming a signal touches nothing but its result.
LEMMA ConsumeType ==
    ASSUME NEW s \in Seq(WorkflowSignal), NEW i \in Nat, NEW r \in SignalConsumeResult
    PROVE  /\ Consume(s, i, r) \in Seq(WorkflowSignal)
           /\ DOMAIN Consume(s, i, r) = DOMAIN s
           /\ \A n \in DOMAIN s : /\ Consume(s, i, r)[n].decision = s[n].decision
                                   /\ Consume(s, i, r)[n].key = s[n].key
PROOF
  <1>1. CASE r = "none" \/ i \notin DOMAIN s
    <2>1. Consume(s, i, r) = s
      BY <1>1 DEF Consume
    <2> QED
      BY <2>1
  <1>2. CASE r # "none" /\ i \in DOMAIN s
    <2>1. s[i] \in WorkflowSignal /\ i \in 1 .. Len(s)
      BY <1>2
    <2> DEFINE e == [s[i] EXCEPT !.result = r]
    <2>2. e \in WorkflowSignal /\ e.decision = s[i].decision /\ e.key = s[i].key
      BY <2>1 DEF WorkflowSignal
    <2>3. Consume(s, i, r) = [s EXCEPT ![i] = e]
      BY <1>2 DEF Consume
    <2>4. [s EXCEPT ![i] = e] \in Seq(WorkflowSignal)
      BY <2>1, <2>2, ExceptSeq
    <2> HIDE DEF e
    <2> QED
      BY <2>1, <2>2, <2>3, <2>4
  <1> QED
    BY <1>1, <1>2

\* Whatever the executor returned, the job stays a job.
LEMMA AfterExecuteType ==
    ASSUME NEW j \in Job, NEW status
    PROVE  AfterExecute(j, status) \in Job
PROOF
  <1>1. j.inst \in WorkflowInstance
    BY DEF Job
  <1>2. AfterApproval(j.inst, j.key.cmd) \in WorkflowInstance
    BY <1>1, AfterApprovalType
  <1>3. j.inst.attempt_count + 1 \in Nat
    BY <1>1 DEF WorkflowInstance
  <1>4. [j.inst EXCEPT !.attempt_count = @ + 1, !.run_status = "RETRY_SCHEDULED"]
           \in WorkflowInstance
    BY <1>1, <1>3 DEF WorkflowInstance, WorkflowRunStatus
  <1>5. [j.inst EXCEPT !.run_status = "FAILED_TERMINAL"] \in WorkflowInstance
    BY <1>1, RowTypes DEF WorkflowRunStatus
  <1> QED
    BY <1>2, <1>4, <1>5 DEF AfterExecute, Job, SignalConsumeResult

-----------------------------------------------------------------------------
(* Type correctness *)

\* A step that only moves its worker on keeps the types of all it touches.
LEMMA GotoType ==
    ASSUME TypeOK, NEW w \in Workers, NEW at \in PC, NEW j \in Job, Goto(w, at, j)
    PROVE  /\ pc' \in [Workers -> PC]
           /\ job' \in [Workers -> Job]
           /\ batch' \in [Workers -> [Workflows -> WorkflowInstance]]
           /\ view' \in [Workers -> [Workflows -> SUBSET Knowledge]]
           /\ applied' \in [Workflows -> [Commands -> Nat]]
           /\ case' \in [Workflows -> Key]
           /\ crashes' \in Nat
BY DEF TypeOK, Goto

\* take_unconsumed returns 0 or a signal for the command asked for.
LEMMA TakenType ==
    ASSUME NEW s \in Seq(WorkflowSignal), NEW key
    PROVE  LET i == take_unconsumed(s, key) IN
           i \in Nat /\ (i # 0 => i \in DOMAIN s /\ s[i].key = key)
PROOF
  <1> DEFINE hits == {i \in DOMAIN s : /\ s[i].result = "none"
                                       /\ s[i].decision # "RESUBMIT"
                                       /\ s[i].key = key}
             oldest == {i \in hits : \A k \in hits : i <= k}
             i0 == take_unconsumed(s, key)
  <1>1. i0 = IF oldest = {} THEN 0 ELSE CHOOSE i \in oldest : TRUE
    BY DEF take_unconsumed
  <1>2. oldest \subseteq hits /\ \A i \in hits : i \in DOMAIN s /\ s[i].key = key
    OBVIOUS
  <1>3. DOMAIN s \subseteq Nat
    OBVIOUS
  <1> HIDE DEF hits, oldest, i0
  <1>4. i0 = 0 \/ i0 \in oldest
    BY <1>1
  <1>5. i0 \in Nat /\ (i0 # 0 => i0 \in DOMAIN s /\ s[i0].key = key)
    BY <1>2, <1>3, <1>4
  <1> QED
    BY <1>5 DEF i0

\* The steps of advance_once keep the types.
LEMMA AdvanceType ==
    ASSUME TypeOK, NEW w \in Workers, advance_once(w)
    PROVE  TypeOK'
PROOF
  <1> DEFINE j == job[w]
             inst == job[w].inst
             wf == job[w].wf
  <1>1. /\ j \in Job /\ inst \in WorkflowInstance /\ wf \in Workflows
        /\ signals[wf] \in Seq(WorkflowSignal) /\ packets[wf] \in Nat
    BY DEF TypeOK, Job
  <1>2. "execute" \in PC /\ "commit" \in PC /\ "refresh" \in PC /\ "write" \in PC
    BY DEF PC
  <1>3. SUFFICES ASSUME NEW at \in {"execute", "commit", "refresh", "write"},
                        NEW k \in Job, Goto(w, at, k), UNCHANGED store,
                        packets' \in [Workflows -> Nat]
                 PROVE  TypeOK'
    <2>1. ASSUME _advance_received(w)
          PROVE  \E at \in {"execute", "commit"}, k \in Job :
                    Goto(w, at, k) /\ UNCHANGED <<store, packets>>
      <3>1. \A s \in {"NORMALIZED", "BLOCKED"}, r \in {"PENDING", "WAITING_SIGNAL"} :
               [inst EXCEPT !.workflow_state = s, !.run_status = r] \in WorkflowInstance
        BY <1>1, RowTypes DEF WorkflowState, WorkflowRunStatus
      <3>2. [j EXCEPT !.inst.workflow_state = "NORMALIZED",
                      !.inst.run_status = "PENDING",
                      !.key = KeyOf("import"), !.events = 1] \in Job
        BY <1>1, <3>1, KeyTypes DEF Job, Commands
      <3>3. [j EXCEPT !.inst.workflow_state = "BLOCKED",
                      !.inst.run_status = "WAITING_SIGNAL", !.events = 1] \in Job
        BY <1>1, <3>1 DEF Job
      <3> QED
        BY <2>1, <3>2, <3>3 DEF _advance_received
    <2>2. ASSUME _advance_normalized(w)
          PROVE  \E at \in {"execute", "commit"}, k \in Job :
                    /\ Goto(w, at, k) /\ UNCHANGED store
                    /\ packets' \in [Workflows -> Nat]
      <3>1. ASSUME NEW hold \in {"NEEDS_INFORMATION", "BLOCKED"}
            PROVE  [j EXCEPT !.inst.workflow_state = hold,
                             !.inst.run_status = "WAITING_SIGNAL",
                             !.events = 1] \in Job
        <4>1. [inst EXCEPT !.workflow_state = hold, !.run_status = "WAITING_SIGNAL"]
                 \in WorkflowInstance
          BY <1>1, RowTypes DEF WorkflowState, WorkflowRunStatus
        <4> QED
          BY <1>1, <4>1 DEF Job
      <3> DEFINE key == [cmd |-> "approve", packet |-> packets[wf] + 1]
      <3>2. Released(Parked(inst, "REVIEW_PENDING", key, "set")) \in WorkflowInstance
        <4>1. key \in Key
          BY <1>1, KeyTypes
        <4> QED
          BY <1>1, <4>1, ParkedType, RowTypes DEF WorkflowState
      <3>3. [j EXCEPT !.inst = Released(Parked(@, "REVIEW_PENDING", key, "set")),
                      !.key = KeyOf("allocate"), !.events = 1] \in Job
        BY <1>1, <3>2, KeyTypes DEF Job, Commands
      <3>4. packets \in [Workflows -> Nat]
               /\ [packets EXCEPT ![wf] = @ + 1] \in [Workflows -> Nat]
        BY <1>1 DEF TypeOK
      <3>5. CASE \E hold \in {"NEEDS_INFORMATION", "BLOCKED"} :
                   Goto(w, "commit", [j EXCEPT !.inst.workflow_state = hold,
                                               !.inst.run_status = "WAITING_SIGNAL",
                                               !.events = 1])
                 /\ UNCHANGED packets
        BY <2>2, <3>1, <3>4, <3>5 DEF _advance_normalized
      <3>6. CASE /\ packets' = [packets EXCEPT ![wf] = @ + 1]
                 /\ Goto(w, "execute",
                         [j EXCEPT !.inst = Released(Parked(@, "REVIEW_PENDING", key, "set")),
                                   !.key = KeyOf("allocate"), !.events = 1])
        BY <2>2, <3>3, <3>4, <3>6 DEF _advance_normalized
      <3> QED
        BY <2>2, <3>5, <3>6 DEF _advance_normalized
    <2>3. ASSUME _advance_human_gate(w)
          PROVE  \E at \in {"execute", "commit"}, k \in Job :
                    Goto(w, at, k) /\ UNCHANGED <<store, packets>>
      <3> DEFINE i == take_unconsumed(signals[wf], inst.wait)
      <3>1. i \in Nat
        BY <1>1, TakenType
      <3>2. [j EXCEPT !.inst = Reparked(@)] \in Job
        BY <1>1, RowTypes DEF Job
      <3>3. [j EXCEPT !.sig = i, !.events = 1, !.inst.run_status = "WAITING_SIGNAL",
                      !.consume = "REJECTED_INVALID"] \in Job
        <4>1. [inst EXCEPT !.run_status = "WAITING_SIGNAL"] \in WorkflowInstance
          BY <1>1, RowTypes DEF WorkflowRunStatus
        <4>2. \A x \in WorkflowInstance :
                 [j EXCEPT !.sig = i, !.events = 1, !.inst = x,
                           !.consume = "REJECTED_INVALID"] \in Job
          BY <1>1, <3>1 DEF Job, SignalConsumeResult
        <4>3. [j EXCEPT !.sig = i, !.events = 1, !.inst.run_status = "WAITING_SIGNAL",
                        !.consume = "REJECTED_INVALID"]
                 = [j EXCEPT !.sig = i, !.events = 1,
                             !.inst = [inst EXCEPT !.run_status = "WAITING_SIGNAL"],
                             !.consume = "REJECTED_INVALID"]
          OBVIOUS
        <4> QED
          BY <4>1, <4>2, <4>3
      <3>4. [j EXCEPT !.sig = i, !.key = inst.wait] \in Job
        BY <1>1, <3>1 DEF Job, WorkflowInstance
      <3> QED
        BY <2>3, <3>2, <3>3, <3>4 DEF _advance_human_gate
    <2>4. ASSUME _advance_after_ledger(w)
          PROVE  \E k \in Job : Goto(w, "commit", k) /\ UNCHANGED <<store, packets>>
      <3>1. [j EXCEPT !.inst.run_status = "COMPLETED"] \in Job
        <4>1. [inst EXCEPT !.run_status = "COMPLETED"] \in WorkflowInstance
          BY <1>1, RowTypes DEF WorkflowRunStatus
        <4> QED
          BY <1>1, <4>1 DEF Job
      <3>2. Parked(inst, "PUBLICATION_PENDING", KeyOf("publish"), "set") \in WorkflowInstance
        BY <1>1, ParkedType, KeyTypes DEF WorkflowState, Commands, L3_COMMAND_TYPES
      <3>3. [j EXCEPT !.inst = Parked(@, "PUBLICATION_PENDING", KeyOf("publish"), "set"),
                      !.events = 1] \in Job
        BY <1>1, <3>2 DEF Job
      <3> QED
        BY <2>4, <3>1, <3>3 DEF _advance_after_ledger
    <2>5. ASSUME _advance_published(w)
          PROVE  \E k \in Job : Goto(w, "commit", k) /\ UNCHANGED <<store, packets>>
      <3>1. [j EXCEPT !.inst.run_status = "COMPLETED"] \in Job
        <4>1. [inst EXCEPT !.run_status = "COMPLETED"] \in WorkflowInstance
          BY <1>1, RowTypes DEF WorkflowRunStatus
        <4> QED
          BY <1>1, <4>1 DEF Job
      <3>2. Parked(inst, "NOTIFICATION_PENDING", KeyOf("send"), inst.wait_deadline)
               \in WorkflowInstance
        <4>1. inst.wait_deadline \in {"none", "set", "past"}
          BY <1>1 DEF WorkflowInstance
        <4> QED
          BY <1>1, <4>1, ParkedType, KeyTypes DEF WorkflowState, Commands, L3_COMMAND_TYPES
      <3>3. [j EXCEPT !.inst = Parked(@, "NOTIFICATION_PENDING", KeyOf("send"),
                                      inst.wait_deadline), !.events = 1] \in Job
        BY <1>1, <3>2 DEF Job
      <3> QED
        BY <2>5, <3>1, <3>3 DEF _advance_published
    <2>6. ASSUME advance_once_other(w)
          PROVE  \E at \in {"refresh", "write"}, k \in Job :
                    Goto(w, at, k) /\ UNCHANGED <<store, packets>>
      <3>1. JobOf(wf, Absent) \in Job
        BY <1>1, AbsentType, JobOfType
      <3>2. [j EXCEPT !.inst.run_status = "PENDING"] \in Job
        <4>1. [inst EXCEPT !.run_status = "PENDING"] \in WorkflowInstance
          BY <1>1, RowTypes DEF WorkflowRunStatus
        <4> QED
          BY <1>1, <4>1 DEF Job
      <3> QED
        BY <2>6, <3>1, <3>2 DEF advance_once_other
    <2>7. packets \in [Workflows -> Nat]
      BY DEF TypeOK
    <2> HIDE DEF j, inst, wf
    <2> QED
      BY <1>3, <2>1, <2>2, <2>3, <2>4, <2>5, <2>6, <2>7 DEF advance_once
  <1> QED
    BY <1>2, <1>3, GotoType DEF TypeOK, store

\* The steps of the executor, of the commit and of the error paths keep the
\* types.
LEMMA WorkerType ==
    ASSUME TypeOK, NEW w \in Workers, tick(w)
    PROVE  TypeOK'
PROOF
  <1> DEFINE j == job[w]
             inst == job[w].inst
             wf == job[w].wf
  <1>1. /\ j \in Job /\ inst \in WorkflowInstance /\ wf \in Workflows
        /\ rows[wf] \in WorkflowInstance /\ events[wf] \in Nat
        /\ inst.event_seq \in Nat /\ j.key \in Key /\ j.sig \in Nat
        /\ j.consume \in SignalConsumeResult /\ j.events \in {0, 1}
    BY DEF TypeOK, Job, WorkflowInstance
  <1>2. NextSeq(wf, inst) \in Nat
    BY <1>1 DEF NextSeq
  <1>3. \A n \in Nat : [inst EXCEPT !.event_seq = n] \in WorkflowInstance
    BY <1>1, RowTypes
  <1>4. JobOf(wf, Absent) \in Job /\ NoJob \in Job
    BY <1>1, AbsentType, JobOfType, NoJobType
  <1>5. \A s \in PC : [pc EXCEPT ![w] = s] \in [Workers -> PC]
    BY DEF TypeOK
  <1>6. {"advance", "commit", "put_receipt", "write", "error", "refresh", "idle"}
           \subseteq PC
    BY DEF PC
  <1>7. CASE claim(w)
    <2>1. PICK B \in SUBSET Workflows :
             /\ rows' = [x \in Workflows |->
                           IF x \in B THEN Claimed(rows[x]) ELSE rows[x]]
             /\ batch' = [batch EXCEPT ![w] = [x \in Workflows |->
                           IF x \in B THEN Claimed(rows[x]) ELSE Absent]]
      BY <1>7 DEF claim
    <2>2. \A x \in Workflows : rows[x] \in WorkflowInstance
                                /\ Claimed(rows[x]) \in WorkflowInstance
      BY RowTypes DEF TypeOK
    <2>3. rows' \in [Workflows -> WorkflowInstance]
      BY <2>1, <2>2
    <2>4. [x \in Workflows |-> IF x \in B THEN Claimed(rows[x]) ELSE Absent]
             \in [Workflows -> WorkflowInstance]
      BY <2>2, AbsentType
    <2>5. batch' \in [Workers -> [Workflows -> WorkflowInstance]]
      BY <2>1, <2>4 DEF TypeOK
    <2> QED
      BY <1>7, <2>3, <2>5 DEF claim, TypeOK
  <1>8. CASE \E x \in Workflows : _process_one(w, x)
    <2>1. PICK x \in Workflows : _process_one(w, x)
      BY <1>8
    <2>2. batch[w][x] \in WorkflowInstance /\ rows[x] \in WorkflowInstance
      BY DEF TypeOK
    <2>3. JobOf(x, DeadLettered(batch[w][x])) \in Job /\ JobOf(x, rows[x]) \in Job
      BY <2>2, RowTypes, JobOfType
    <2>4. batch' \in [Workers -> [Workflows -> WorkflowInstance]]
      BY <2>1, AbsentType DEF _process_one, TypeOK
    <2>5. pc' \in [Workers -> PC]
      BY <2>1, <1>5, <1>6 DEF _process_one
    <2>6. job' \in [Workers -> Job]
      BY <2>1, <2>3 DEF _process_one, TypeOK
    <2> QED
      BY <2>1, <2>4, <2>5, <2>6 DEF _process_one, TypeOK, store
  <1>9. CASE advance_once(w)
    BY <1>9, AdvanceType
  <1>10. CASE execute(w)
    <2>1. pc' \in [Workers -> PC]
      BY <1>10, <1>5, <1>6 DEF execute
    <2>2. \A s : AfterExecute(j, s) \in Job
      BY <1>1, AfterExecuteType
    <2>3. job' = job \/ \E s : job' = [job EXCEPT ![w] = AfterExecute(j, s)]
      <3>1. CASE j.key \in receipts[wf]
        BY <1>10, <3>1 DEF execute
      <3>2. CASE j.key \notin receipts[wf]
        <4>1. PICK o \in Outcomes(view[w][wf], j.key.cmd) :
                 IF o \in {"ok", "noop"}
                 THEN /\ pc' = [pc EXCEPT ![w] = "put_receipt"]
                      /\ job' = job
                 ELSE /\ pc' = [pc EXCEPT ![w] = "commit"]
                      /\ job' = [job EXCEPT ![w] = AfterExecute(j, o)]
          BY <1>10, <3>2 DEF execute
        <4> QED
          BY <4>1
      <3> QED
        BY <3>1, <3>2
    <2>4. job' \in [Workers -> Job]
      <3>1. job \in [Workers -> Job]
        BY DEF TypeOK
      <3>2. CASE job' = job
        BY <3>1, <3>2
      <3>3. CASE \E s : job' = [job EXCEPT ![w] = AfterExecute(j, s)]
        <4>1. PICK s : job' = [job EXCEPT ![w] = AfterExecute(j, s)]
          BY <3>3
        <4>2. AfterExecute(j, s) \in Job
          BY <2>2
        <4> QED
          BY <3>1, <4>1, <4>2
      <3> QED
        BY <2>3, <3>2, <3>3
    <2>5. applied' \in [Workflows -> [Commands -> Nat]]
      <3>1. \/ applied' = applied
            \/ applied' = [applied EXCEPT ![wf][j.key.cmd] = @ + 1]
        BY <1>10 DEF execute
      <3>2. [applied[wf] EXCEPT ![j.key.cmd] = @ + 1] \in [Commands -> Nat]
        <4>1. applied[wf] \in [Commands -> Nat]
          BY <1>1 DEF TypeOK
        <4>2. CASE j.key.cmd \in Commands
          BY <4>1, <4>2
        <4>3. CASE j.key.cmd \notin Commands
          BY <4>1, <4>3
        <4> QED
          BY <4>2, <4>3
      <3> QED
        BY <3>1, <3>2, <1>1 DEF TypeOK
    <2>6. view' \in [Workers -> [Workflows -> SUBSET Knowledge]]
      <3>1. CASE j.key \in receipts[wf]
        BY <1>10, <3>1 DEF execute, TypeOK
      <3>2. CASE j.key \notin receipts[wf]
        <4>1. PICK o \in Outcomes(view[w][wf], j.key.cmd) :
                view' = [view EXCEPT ![w][wf] = Learned(@, j.key.cmd, o)]
          BY <1>10, <3>2 DEF execute
        <4>2. view[w][wf] \in SUBSET Knowledge
          BY <1>1 DEF TypeOK
        <4>3. Learned(view[w][wf], j.key.cmd, o) \in SUBSET Knowledge
          BY <1>1, <4>1, <4>2 DEF Learned, Knowledge, Outcomes, Key, Commands,
                                   L3_COMMAND_TYPES
        <4> QED
          BY <4>1, <4>3, <1>1 DEF TypeOK
      <3> QED
        BY <3>1, <3>2
    <2> QED
      BY <1>10, <2>1, <2>4, <2>5, <2>6 DEF execute, TypeOK, store
  <1>11. CASE _store_receipt(w)
    <2>1. AfterExecute(j, "SUCCEEDED") \in Job /\ AfterExecute(j, "RETRYABLE") \in Job
      BY <1>1, AfterExecuteType
    <2>2. receipts' \in [Workflows -> SUBSET Key]
      <3>1. receipts[wf] \cup {j.key} \in SUBSET Key
        BY <1>1 DEF TypeOK
      <3>2. receipts' = receipts
            \/ receipts' = [receipts EXCEPT ![wf] = receipts[wf] \cup {j.key}]
        BY <1>11 DEF _store_receipt
      <3> QED
        BY <3>1, <3>2 DEF TypeOK
    <2>3. \E k \in Job : Goto(w, "commit", k)
      BY <1>11, <2>1 DEF _store_receipt
    <2> QED
      BY <1>6, <1>11, <2>2, <2>3, GotoType DEF _store_receipt, TypeOK
  <1>12. CASE commit_advance(w)
    <2>1. \A b \in BOOLEAN : Failure(wf, b) \in Job
      BY <1>1, FailureType
    <2>2. \E at \in PC, k \in Job : Goto(w, at, k)
      BY <1>12, <1>4, <1>6, <2>1 DEF commit_advance
    <2>3. ASSUME NEW s \in Seq(WorkflowSignal)
          PROVE  Consume(s, j.sig, j.consume) \in Seq(WorkflowSignal)
      BY <1>1, ConsumeType
    <2>4. signals' \in [Workflows -> Seq(WorkflowSignal)]
      <3>1. signals' = signals
            \/ signals' = [signals EXCEPT ![wf] = Consume(signals[wf], j.sig, j.consume)]
        BY <1>12 DEF commit_advance, store
      <3>2. signals[wf] \in Seq(WorkflowSignal)
        BY <1>1 DEF TypeOK
      <3> QED
        BY <3>1, <3>2, <2>3 DEF TypeOK
    <2> DEFINE seq == IF j.events = 1 THEN NextSeq(wf, inst) ELSE inst.event_seq
    <2>5. seq \in Nat /\ [inst EXCEPT !.event_seq = seq] \in WorkflowInstance
      BY <1>1, <1>2, <1>3
    <2>6. /\ rows' = rows \/ rows' = [rows EXCEPT ![wf] = [inst EXCEPT !.event_seq = seq]]
          /\ events' = events \/ events' = [events EXCEPT ![wf] = seq]
          /\ UNCHANGED <<receipts, packets>>
      <3>1. UNCHANGED <<receipts, packets>>
        BY <1>12 DEF commit_advance, store
      <3>2. CASE UNCHANGED store
        BY <3>1, <3>2 DEF store
      <3>3. CASE /\ rows' = [rows EXCEPT ![wf] = [inst EXCEPT !.event_seq = seq]]
                 /\ events' = IF j.events = 1 THEN [events EXCEPT ![wf] = seq] ELSE events
        BY <3>1, <3>3
      <3> HIDE DEF seq
      <3> QED
        BY <1>12, <3>2, <3>3, Zenon DEF commit_advance, seq
    <2> HIDE DEF seq
    <2>7. rows' \in [Workflows -> WorkflowInstance] /\ events' \in [Workflows -> Nat]
      <3> DEFINE new == [inst EXCEPT !.event_seq = seq]
      <3>1. new \in WorkflowInstance /\ seq \in Nat
        BY <2>5
      <3>2. /\ rows' = rows \/ rows' = [rows EXCEPT ![wf] = new]
            /\ events' = events \/ events' = [events EXCEPT ![wf] = seq]
        BY <2>6
      <3>3. /\ rows \in [Workflows -> WorkflowInstance]
            /\ events \in [Workflows -> Nat]
        BY DEF TypeOK
      <3> HIDE DEF new
      <3>4. rows' \in [Workflows -> WorkflowInstance]
        BY <3>1, <3>2, <3>3
      <3> QED
        BY <3>1, <3>2, <3>3, <3>4
    <2> QED
      BY <2>2, <2>4, <2>6, <2>7, GotoType DEF TypeOK
  <1>13. CASE advance_raises(w)
    <2>1. \A b \in BOOLEAN : Failure(wf, b) \in Job
      BY <1>1, FailureType
    <2>2. \E k \in Job : Goto(w, "error", k)
      BY <1>13, <2>1 DEF advance_raises
    <2> QED
      BY <1>6, <1>13, <2>2, GotoType DEF advance_raises, TypeOK, store
  <1>14. CASE _process_one_refresh(w)
    <2>1. JobOf(wf, DeadLettered(rows[wf])) \in Job /\ JobOf(wf, rows[wf]) \in Job
      BY <1>1, RowTypes, JobOfType
    <2>2. \E at \in PC, k \in Job : Goto(w, at, k)
      BY <1>14, <1>4, <1>6, <2>1 DEF _process_one_refresh
    <2> QED
      BY <1>14, <2>2, GotoType DEF _process_one_refresh, TypeOK, store
  <1>15. CASE _handle_process_error(w)
    <2> DEFINE cur == [rows[wf] EXCEPT !.attempt_count = @ + 1]
    <2>1. cur \in WorkflowInstance
      BY <1>1 DEF WorkflowInstance
    <2>2. [cur EXCEPT !.run_status = "RETRY_SCHEDULED", !.lease = "none"]
             \in WorkflowInstance
      BY <2>1 DEF WorkflowInstance, WorkflowRunStatus
    <2>3. JobOf(wf, DeadLettered(cur)) \in Job
          /\ JobOf(wf, [cur EXCEPT !.run_status = "RETRY_SCHEDULED", !.lease = "none"]) \in Job
      BY <1>1, <2>1, <2>2, RowTypes, JobOfType
    <2>4. \E k \in Job : Goto(w, "write", k)
      BY <1>15, <2>3 DEF _handle_process_error
    <2> QED
      BY <1>6, <1>15, <2>4, GotoType DEF _handle_process_error, TypeOK, store
  <1>16. CASE update_instance(w)
    <2> DEFINE logs == inst.run_status = "DEAD_LETTER" /\ ~Collides(wf, inst)
               seq == IF logs THEN NextSeq(wf, inst) ELSE inst.event_seq
    <2>1. seq \in Nat /\ [inst EXCEPT !.event_seq = seq] \in WorkflowInstance
      BY <1>1, <1>2, <1>3
    <2>2. /\ rows' = [rows EXCEPT ![wf] = [inst EXCEPT !.event_seq = seq]]
          /\ events' = events \/ events' = [events EXCEPT ![wf] = seq]
          /\ Goto(w, "idle", NoJob) /\ UNCHANGED <<signals, receipts, packets>>
      BY <1>16 DEF update_instance
    <2> HIDE DEF seq
    <2>3. rows' \in [Workflows -> WorkflowInstance] /\ events' \in [Workflows -> Nat]
      BY <2>1, <2>2, <1>1 DEF TypeOK
    <2> QED
      BY <1>4, <1>6, <2>2, <2>3, GotoType DEF TypeOK
  <1> QED
    BY <1>7, <1>8, <1>9, <1>10, <1>11, <1>12, <1>13, <1>14, <1>15, <1>16 DEF tick

\* Operators, the sweeper, the clock and restarts keep the types.
LEMMA EnvironmentType ==
    ASSUME TypeOK, [Next]_vars, ~\E w \in Workers : tick(w)
    PROVE  TypeOK'
PROOF
  <1>1. \A wf \in Workflows : rows[wf] \in WorkflowInstance /\ events[wf] \in Nat
    BY DEF TypeOK
  <1>2. CASE \E wf \in Workflows, p \in BOOLEAN :
               \E e \in {FALSE, p} : start_expense_to_receipt(wf, p, e)
    <2>1. PICK wf \in Workflows, p \in BOOLEAN, e \in BOOLEAN :
             start_expense_to_receipt(wf, p, e)
      BY <1>2
    <2>2. [Absent EXCEPT !.workflow_state = "RECEIVED", !.run_status = "PENDING",
                         !.publish_spec = p, !.send_email = e, !.event_seq = 1]
             \in WorkflowInstance
      BY AbsentType DEF WorkflowInstance, WorkflowState, WorkflowRunStatus
    <2>3. rows' \in [Workflows -> WorkflowInstance]
      BY <2>1, <2>2 DEF start_expense_to_receipt, TypeOK
    <2>4. events' \in [Workflows -> Nat]
      BY <2>1 DEF start_expense_to_receipt, TypeOK
    <2> QED
      BY <2>1, <2>3, <2>4 DEF start_expense_to_receipt, TypeOK, worker
  <1>3. CASE \E wf \in Workflows : list_operator_cases(wf)
    <2>1. PICK wf \in Workflows : list_operator_cases(wf)
      BY <1>3
    <2>2. rows[wf].wait \in Key
      BY <1>1 DEF WorkflowInstance
    <2>3. case' \in [Workflows -> Key]
      BY <2>1, <2>2 DEF list_operator_cases, TypeOK
    <2> QED
      BY <2>1, <2>3 DEF list_operator_cases, TypeOK, store, worker
  <1>4. ASSUME NEW wf \in Workflows, NEW k \in Key, NEW d \in SignalDecision,
               enqueue_signal_and_wake(wf, k, d)
        PROVE  TypeOK'
    <2>1. [key |-> k, decision |-> d, result |-> "none"] \in WorkflowSignal
      BY DEF WorkflowSignal, SignalConsumeResult
    <2>2. signals' \in [Workflows -> Seq(WorkflowSignal)]
      BY <1>4, <2>1 DEF enqueue_signal_and_wake, TypeOK
    <2>3. [rows[wf] EXCEPT !.run_status = "PENDING", !.lease = "none"] \in WorkflowInstance
      BY <1>1 DEF WorkflowInstance, WorkflowRunStatus
    <2>4. rows' = [rows EXCEPT ![wf] =
                     [rows[wf] EXCEPT !.run_status = "PENDING", !.lease = "none"]]
      BY <1>4 DEF enqueue_signal_and_wake, TypeOK
    <2>5. rows' \in [Workflows -> WorkflowInstance]
      BY <2>3, <2>4 DEF TypeOK
    <2> QED
      BY <1>4, <2>2, <2>5 DEF enqueue_signal_and_wake, TypeOK, worker
  <1>5. CASE \E wf \in Workflows, d \in {"APPROVE", "REJECT"} : signal_approval(wf, d)
    <2>1. \A wf \in Workflows : case[wf] \in Key
      BY DEF TypeOK
    <2> QED
      BY <1>4, <1>5, <2>1 DEF signal_approval, SignalDecision
  <1>6. CASE \E wf \in Workflows : signal_operator(wf)
    BY <1>4, <1>6, KeyTypes DEF signal_operator, SignalDecision
  <1>7. CASE \E wf \in Workflows : sweep_approval_timeouts(wf)
    <2>1. PICK wf \in Workflows : sweep_approval_timeouts(wf)
      BY <1>7
    <2> DEFINE seq == NextSeq(wf, rows[wf])
    <2>2. seq \in Nat
      BY <1>1 DEF NextSeq, WorkflowInstance
    <2> HIDE DEF seq
    <2>3. [rows[wf] EXCEPT !.workflow_state = "NEEDS_INFORMATION", !.wait = NoKey,
                           !.wait_expired = TRUE, !.wait_deadline = "none",
                           !.timeout_applied = TRUE, !.event_seq = seq]
             \in WorkflowInstance
      BY <1>1, <2>2, KeyTypes DEF WorkflowInstance, WorkflowState
    <2>4. rows' \in [Workflows -> WorkflowInstance]
      BY <2>1, <2>3 DEF sweep_approval_timeouts, TypeOK, seq
    <2>5. events' \in [Workflows -> Nat]
      BY <2>1, <2>2 DEF sweep_approval_timeouts, TypeOK, seq
    <2> QED
      BY <2>1, <2>4, <2>5 DEF sweep_approval_timeouts, TypeOK, worker
  <1>8. CASE \E wf \in Workflows : lease_expires(wf)
    <2>1. \A wf \in Workflows : [rows[wf] EXCEPT !.lease = "expired"] \in WorkflowInstance
      BY <1>1 DEF WorkflowInstance
    <2>2. rows' \in [Workflows -> WorkflowInstance]
      BY <1>8, <2>1 DEF lease_expires, TypeOK
    <2> QED
      BY <1>8, <2>2 DEF lease_expires, TypeOK, worker
  <1>9. CASE \E wf \in Workflows : deadline_passes(wf)
    <2>1. \A wf \in Workflows : [rows[wf] EXCEPT !.wait_deadline = "past"] \in WorkflowInstance
      BY <1>1 DEF WorkflowInstance
    <2>2. rows' \in [Workflows -> WorkflowInstance]
      BY <1>9, <2>1 DEF deadline_passes, TypeOK
    <2> QED
      BY <1>9, <2>2 DEF deadline_passes, TypeOK, worker
  <1>10. CASE \E w \in Workers : open_workspace(w)
    <2>1. PICK w \in Workers : open_workspace(w)
      BY <1>10
    <2>2. batch' \in [Workers -> [Workflows -> WorkflowInstance]]
      BY <2>1, AbsentType DEF open_workspace, TypeOK
    <2>3. [wf \in Workflows |-> {c \in LoggedCommands : applied[wf][c] > 0}]
             \in [Workflows -> SUBSET Knowledge]
      BY DEF LoggedCommands, Knowledge
    <2>4. view' \in [Workers -> [Workflows -> SUBSET Knowledge]]
      BY <2>1, <2>3 DEF open_workspace, TypeOK
    <2>5. pc' \in [Workers -> PC] /\ job' \in [Workers -> Job] /\ crashes' \in Nat
      BY <2>1, NoJobType DEF open_workspace, TypeOK, PC
    <2> QED
      BY <2>1, <2>2, <2>4, <2>5 DEF open_workspace, TypeOK, store
  <1>11. CASE UNCHANGED vars
    BY <1>11 DEF vars, store, worker, TypeOK
  <1> QED
    BY <1>2, <1>3, <1>5, <1>6, <1>7, <1>8, <1>9, <1>10, <1>11 DEF Next

\* Initially every row is absent and every worker idle.
LEMMA InitType == Init => TypeOK
PROOF
  <1> SUFFICES ASSUME Init PROVE TypeOK
    OBVIOUS
  <1>1. "idle" \in PC
    BY DEF PC
  <1> QED
    BY <1>1, AbsentType, NoJobType, KeyTypes DEF Init, TypeOK, Knowledge

\* Every state the engine reaches is well typed: every worker's copy of a row
\* is a row of the store's schema, run_status and workflow_state stay inside
\* their enumerations, and counters stay natural numbers, whatever interleaves.
THEOREM EngineTypeCorrect == Spec => []TypeOK
PROOF
  <1>1. Init => TypeOK
    BY InitType
  <1>2. TypeOK /\ [Next]_vars => TypeOK'
    BY WorkerType, EnvironmentType
  <1> QED
    BY <1>1, <1>2, PTL DEF Spec

=============================================================================
