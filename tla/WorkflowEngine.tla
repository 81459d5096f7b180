--------------------------- MODULE WorkflowEngine ---------------------------
(***************************************************************************)
(* The durable expense_to_receipt engine: WorkflowRuntime.advance_once and *)
(* the WorkflowWorker loop over a WorkflowStore.  Every store call that is *)
(* a transaction of its own is a step of its own, so another worker, an    *)
(* operator, the timeout sweeper or a crash may come between any two.      *)
(*                                                                         *)
(* Time is abstracted to what the code compares: a lease is none, held or  *)
(* expired, a deadline none, set or past, and a due time has always come.  *)
(* Each worker is a process with its own in-memory ledger ("view"), which  *)
(* open_workspace rebuilds from the shared command log when it starts.     *)
(* event_seq counts commits that write events: workflow_events has the     *)
(* primary key <workflow, seq>, and only equality with the highest stored  *)
(* seq matters to it.                                                      *)
(***************************************************************************)
EXTENDS Naturals, Sequences, FiniteSets

CONSTANTS
    Workflows,           \* workflow ids
    Workers,             \* worker processes
    Store,               \* which WorkflowStore is in use
    max_attempts,        \* WorkerConfig.max_attempts
    LeaseCoversAdvance,  \* TRUE: no live worker outlasts its lease
    MaxSignals,          \* bound: signals an operator sends to a workflow
    MaxPackets,          \* bound: review packets assembled for a workflow
    MaxCrashes           \* bound: worker restarts

ASSUME WorkflowsAssumption == Workflows # {}
ASSUME StoreAssumption == Store \in {"memory", "sqlite", "postgres"}
ASSUME AttemptsAssumption == max_attempts \in Nat \ {0}
ASSUME BoundsAssumption ==
    /\ MaxSignals \in Nat /\ MaxPackets \in Nat /\ MaxCrashes \in Nat
    /\ LeaseCoversAdvance \in BOOLEAN

VARIABLES
    rows,       \* the workflows table
    events,     \* highest seq in workflow_events, by workflow
    signals,    \* workflow_signals, by workflow in arrival order
    receipts,   \* execution_receipts: the keys that are stored
    applied,    \* how often each command took effect, by workflow
    packets,    \* review packets assembled so far
    case,       \* the key the operator last saw listed
    pc, batch, job, view,   \* per worker: program counter, claimed rows not
                            \* yet processed, the advance under way, ledger
    crashes

store == <<rows, events, signals, receipts>>
worker == <<pc, batch, job, view>>
vars == <<store, applied, packets, case, worker, crashes>>

-----------------------------------------------------------------------------
(* Types *)

WorkflowState == {"ABSENT", "RECEIVED", "NORMALIZED", "REVIEW_PENDING",
                  "LEDGER_COMMITTED", "PUBLICATION_PENDING", "PUBLISHED",
                  "NOTIFICATION_PENDING", "DELIVERED", "BLOCKED",
                  "NEEDS_INFORMATION"}
WorkflowRunStatus == {"ABSENT", "PENDING", "RUNNING", "WAITING_SIGNAL",
                      "RETRY_SCHEDULED", "COMPLETED", "FAILED_TERMINAL",
                      "DEAD_LETTER"}
CLAIMABLE_RUN_STATUSES == {"PENDING", "RETRY_SCHEDULED"}
TERMINAL_RUN_STATUSES == {"COMPLETED", "FAILED_TERMINAL", "DEAD_LETTER"}
HUMAN_GATE_STATES == {"REVIEW_PENDING", "PUBLICATION_PENDING",
                      "NOTIFICATION_PENDING"}

L3_COMMAND_TYPES == {"approve", "publish", "send"}
Commands == {"import", "allocate"} \cup L3_COMMAND_TYPES
\* _wrap_executor_with_log appends these to the command log; send is not one.
LoggedCommands == Commands \ {"send"}
\* What a process knows: "send_failed" is a notification intent left FAILED.
Knowledge == Commands \cup {"send_failed"}

\* An idempotency key.  Only approve keys carry a packet id: the other keys
\* are fixed by the expense, the donation and the receipt.
Key == [cmd: Commands \cup {"none"}, packet: Nat]
NoKey == [cmd |-> "none", packet |-> 0]
KeyOf(cmd) == [cmd |-> cmd, packet |-> 0]

SignalDecision == {"APPROVE", "REJECT", "RESUBMIT"}
SignalConsumeResult == {"none", "ACCEPTED", "REJECTED_INVALID",
                        "FAILED_TERMINAL"}
WorkflowSignal == [key: Key, decision: SignalDecision,
                   result: SignalConsumeResult]

WorkflowInstance ==
    [workflow_state: WorkflowState, run_status: WorkflowRunStatus,
     publish_spec: BOOLEAN, send_email: BOOLEAN,
     wait: Key, wait_expired: BOOLEAN,
     wait_deadline: {"none", "set", "past"}, timeout_applied: BOOLEAN,
     attempt_count: Nat, lease: {"none", "held", "expired"}, event_seq: Nat]

Absent == [workflow_state |-> "ABSENT", run_status |-> "ABSENT",
           publish_spec |-> FALSE, send_email |-> FALSE,
           wait |-> NoKey, wait_expired |-> FALSE,
           wait_deadline |-> "none", timeout_applied |-> FALSE,
           attempt_count |-> 0, lease |-> "none", event_seq |-> 0]

\* The advance under way: the private copy of the row it will write, the
\* command it executes, the signal it took, and what its commit carries.
Job == [wf: Workflows, inst: WorkflowInstance, key: Key, sig: Nat,
        consume: SignalConsumeResult, events: {0, 1}, retryable: BOOLEAN]
JobOf(wf, inst) == [wf |-> wf, inst |-> inst, key |-> NoKey, sig |-> 0,
                    consume |-> "none", events |-> 0, retryable |-> TRUE]
NoJob == JobOf(CHOOSE wf \in Workflows : TRUE, Absent)

PC == {"idle", "advance", "execute", "put_receipt", "commit", "refresh",
       "error", "write"}

TypeOK ==
    /\ rows \in [Workflows -> WorkflowInstance]
    /\ events \in [Workflows -> Nat]
    /\ signals \in [Workflows -> Seq(WorkflowSignal)]
    /\ receipts \in [Workflows -> SUBSET Key]
    /\ applied \in [Workflows -> [Commands -> Nat]]
    /\ packets \in [Workflows -> Nat]
    /\ case \in [Workflows -> Key]
    /\ pc \in [Workers -> PC]
    /\ batch \in [Workers -> [Workflows -> WorkflowInstance]]
    /\ job \in [Workers -> Job]
    /\ view \in [Workers -> [Workflows -> SUBSET Knowledge]]
    /\ crashes \in Nat

Init ==
    /\ rows = [wf \in Workflows |-> Absent]
    /\ events = [wf \in Workflows |-> 0]
    /\ signals = [wf \in Workflows |-> <<>>]
    /\ receipts = [wf \in Workflows |-> {}]
    /\ applied = [wf \in Workflows |-> [c \in Commands |-> 0]]
    /\ packets = [wf \in Workflows |-> 0]
    /\ case = [wf \in Workflows |-> NoKey]
    /\ pc = [w \in Workers |-> "idle"]
    /\ batch = [w \in Workers |-> [wf \in Workflows |-> Absent]]
    /\ job = [w \in Workers |-> NoJob]
    /\ view = [w \in Workers |-> [wf \in Workflows |-> {}]]
    /\ crashes = 0

-----------------------------------------------------------------------------
(* Rows the engine writes *)

Released(inst) == [inst EXCEPT !.lease = "none"]
DeadLettered(inst) == [inst EXCEPT !.run_status = "DEAD_LETTER",
                                   !.lease = "none"]
Reparked(inst) == [inst EXCEPT !.run_status = "WAITING_SIGNAL",
                               !.lease = "none"]
\* Mutant: the frozen command is not stored with the gate.
Parked_NoWait(inst, state, key, deadline) ==
    [inst EXCEPT !.workflow_state = state, !.run_status = "WAITING_SIGNAL",
                 !.wait_deadline = deadline]

\* A human gate with a frozen command; only the review and the publication
\* steps copy a deadline to the row.
Parked(inst, state, key, deadline) ==
    [inst EXCEPT !.workflow_state = state, !.run_status = "WAITING_SIGNAL",
                 !.wait = key, !.wait_deadline = deadline]

\* Mutant: the cursor is set to a state that no row is stored in.
AfterApproval_Unstored(inst, cmd) ==
    [inst EXCEPT !.workflow_state = "APPROVED", !.run_status = "PENDING",
                 !.wait = NoKey, !.wait_deadline = "none", !.lease = "none"]

\* Mutant: a publication completes as if it had been delivered.
AfterApproval_Delivered(inst, cmd) ==
    [inst EXCEPT !.workflow_state = IF cmd = "approve" THEN "LEDGER_COMMITTED"
                                                       ELSE "DELIVERED",
                 !.run_status = IF cmd = "approve" THEN "PENDING" ELSE "COMPLETED",
                 !.wait = NoKey, !.wait_deadline = "none", !.lease = "none"]

\* The transitions of _advance_human_gate when the receipt is a success.
AfterApproval(inst, cmd) ==
    LET moved ==
          CASE cmd = "approve" ->
                 [inst EXCEPT !.workflow_state = "LEDGER_COMMITTED",
                              !.run_status = "PENDING"]
            [] cmd = "publish" ->
                 [inst EXCEPT !.workflow_state = "PUBLISHED",
                              !.run_status = IF inst.send_email
                                             THEN "PENDING" ELSE "COMPLETED"]
            [] OTHER ->
                 [inst EXCEPT !.workflow_state = "DELIVERED",
                              !.run_status = "COMPLETED"]
    IN  [moved EXCEPT !.wait = NoKey, !.wait_deadline = "none", !.lease = "none"]

\* Mutant: the status of the receipt is not looked at.
AfterExecute_Optimistic(j, status) ==
    IF j.key.cmd \notin L3_COMMAND_TYPES THEN j
    ELSE [j EXCEPT !.inst = AfterApproval(j.inst, j.key.cmd),
                   !.consume = "ACCEPTED", !.events = 1]

\* Mutant: a retry is not counted as an attempt.
AfterExecute_Uncounted(j, status) ==
    IF j.key.cmd \notin L3_COMMAND_TYPES THEN j
    ELSE IF status = "SUCCEEDED"
    THEN [j EXCEPT !.inst = AfterApproval(j.inst, j.key.cmd),
                   !.consume = "ACCEPTED", !.events = 1]
    ELSE [j EXCEPT !.inst.run_status = "RETRY_SCHEDULED"]

\* What the advance commits once the executor returned.  The intake and the
\* classification ignore the status of their receipts.  A FAILED receipt is
\* classified by its text alone: an "already ..." message is final, every
\* other message is retried.
AfterExecute(j, status) ==
    IF j.key.cmd \notin L3_COMMAND_TYPES THEN j
    ELSE CASE status = "SUCCEEDED" ->
                [j EXCEPT !.inst = AfterApproval(j.inst, j.key.cmd),
                          !.consume = "ACCEPTED", !.events = 1]
           [] status = "RETRYABLE" ->
                [j EXCEPT !.inst.attempt_count = @ + 1,
                          !.inst.run_status = "RETRY_SCHEDULED"]
           [] OTHER ->
                [j EXCEPT !.inst.run_status = "FAILED_TERMINAL",
                          !.consume = "FAILED_TERMINAL"]

-----------------------------------------------------------------------------
(* LedgerCommandExecutor._dispatch, on the ledger of one process.  "ok": it *)
(* takes effect; "noop": it succeeds without effect; the others fail.  A    *)
(* domain refusal (an empty fund, an unknown designation, a bounced mail)   *)
(* is "RETRYABLE", because a failed receipt carries only its text.          *)

\* Mutant: a command that has its prerequisites is applied, done or not.
Outcomes_Blind(known, cmd) ==
    LET needs == CASE cmd = "import" -> {} [] cmd = "allocate" -> {"import"}
                   [] cmd = "approve" -> {"allocate"}
                   [] cmd = "publish" -> {"approve"} [] OTHER -> {"publish"}
    IN  IF needs \subseteq known THEN {"ok", "RETRYABLE"} ELSE {"RETRYABLE"}

Outcomes(known, cmd) ==
    CASE cmd = "import" ->
           IF "import" \in known THEN {"noop"} ELSE {"ok", "RETRYABLE"}
      [] cmd = "allocate" ->
           IF "import" \in known /\ "approve" \notin known
           THEN {"ok", "RETRYABLE"} ELSE {"RETRYABLE"}
      [] cmd = "approve" ->
           IF "approve" \in known THEN {"ALREADY_APPLIED"}
           ELSE IF "allocate" \in known THEN {"ok", "RETRYABLE"}
           ELSE {"RETRYABLE"}
      [] cmd = "publish" ->
           IF "publish" \in known THEN {"ALREADY_APPLIED"}
           ELSE IF "approve" \in known THEN {"ok", "RETRYABLE"}
           ELSE {"RETRYABLE"}
      [] cmd = "send" ->
           IF "send" \in known THEN {"noop"}
           ELSE IF "publish" \in known /\ "send_failed" \notin known
           THEN {"ok", "RETRYABLE"} ELSE {"RETRYABLE"}
      [] OTHER -> {"RETRYABLE"}

Learned(known, cmd, outcome) ==
    CASE outcome = "ok" -> known \cup {cmd}
      [] outcome = "RETRYABLE" /\ cmd = "send" /\ "publish" \in known ->
           known \cup {"send_failed"}
      [] OTHER -> known

-----------------------------------------------------------------------------
(* Operators *)

\* start_expense_to_receipt: create and append_events(CREATED).
start_expense_to_receipt(wf, publish_spec, send_email) ==
    /\ rows[wf] = Absent
    /\ rows' = [rows EXCEPT ![wf] =
          [Absent EXCEPT !.workflow_state = "RECEIVED", !.run_status = "PENDING",
                         !.publish_spec = publish_spec,
                         !.send_email = send_email, !.event_seq = 1]]
    /\ events' = [events EXCEPT ![wf] = 1]
    /\ UNCHANGED <<signals, receipts, applied, packets, case, worker, crashes>>

\* list_operator_cases: the operator reads the "waiting" bucket and acts on
\* the key it showed, however late.
list_operator_cases(wf) ==
    /\ rows[wf].run_status = "WAITING_SIGNAL"
    /\ rows[wf].workflow_state \notin {"BLOCKED", "NEEDS_INFORMATION"}
    /\ case' = [case EXCEPT ![wf] = rows[wf].wait]
    /\ UNCHANGED <<store, applied, packets, worker, crashes>>

\* Only the memory store refuses a signal by run_status.
AcceptsSignal(inst) ==
    Store = "memory" =>
        inst.run_status \in {"WAITING_SIGNAL", "PENDING", "RETRY_SCHEDULED"}

enqueue_signal_and_wake(wf, key, decision) ==
    /\ rows[wf] # Absent
    /\ Len(signals[wf]) < MaxSignals
    /\ AcceptsSignal(rows[wf])
    /\ signals' = [signals EXCEPT ![wf] =
          Append(@, [key |-> key, decision |-> decision, result |-> "none"])]
    /\ rows' = [rows EXCEPT ![wf].run_status = "PENDING", ![wf].lease = "none"]
    /\ UNCHANGED <<events, receipts, applied, packets, case, worker, crashes>>

signal_approval(wf, decision) ==
    /\ case[wf] # NoKey
    /\ enqueue_signal_and_wake(wf, case[wf], decision)

signal_operator(wf) == enqueue_signal_and_wake(wf, NoKey, "RESUBMIT")

-----------------------------------------------------------------------------
(* The worker loop *)

\* Mutant: rows scheduled for a retry are not picked up.
Claimable_NoRetry(inst) ==
    \/ inst.run_status = "PENDING"
    \/ inst.run_status = "RUNNING" /\ inst.lease = "expired"

Claimable(inst) ==
    \/ inst.run_status \in CLAIMABLE_RUN_STATUSES
    \/ inst.run_status = "RUNNING" /\ inst.lease = "expired"

Claimed(inst) == [inst EXCEPT !.run_status = "RUNNING", !.lease = "held"]

\* Which of the due rows a claim takes depends on next_run_at and the limit.
claim(w) ==
    /\ pc[w] = "idle"
    /\ batch[w] = [wf \in Workflows |-> Absent]
    /\ \E B \in SUBSET {wf \in Workflows : Claimable(rows[wf])} \ {{}} :
          /\ rows' = [wf \in Workflows |->
                        IF wf \in B THEN Claimed(rows[wf]) ELSE rows[wf]]
          /\ batch' = [batch EXCEPT ![w] = [wf \in Workflows |->
                        IF wf \in B THEN Claimed(rows[wf]) ELSE Absent]]
    /\ UNCHANGED <<events, signals, receipts, applied, packets, case, pc, job,
                   view, crashes>>

\* _process_one up to the first read of advance_once.  A row whose attempts
\* are used up is dead-lettered from the copy the claim returned.
_process_one(w, wf) ==
    /\ pc[w] = "idle"
    /\ batch[w][wf] # Absent
    /\ batch' = [batch EXCEPT ![w][wf] = Absent]
    /\ \/ /\ batch[w][wf].attempt_count >= max_attempts
          /\ pc' = [pc EXCEPT ![w] = "write"]
          /\ job' = [job EXCEPT ![w] = JobOf(wf, DeadLettered(batch[w][wf]))]
       \/ /\ batch[w][wf].attempt_count < max_attempts
          /\ pc' = [pc EXCEPT ![w] = "advance"]
          /\ job' = [job EXCEPT ![w] = JobOf(wf, rows[wf])]
    /\ UNCHANGED <<store, applied, packets, case, view, crashes>>

\* The step leaves the worker at `at` with the job j.
Goto(w, at, j) ==
    /\ pc' = [pc EXCEPT ![w] = at]
    /\ job' = [job EXCEPT ![w] = j]
    /\ UNCHANGED <<batch, view, applied, case, crashes>>

Advancing(w, states) ==
    pc[w] = "advance" /\ job[w].inst.workflow_state \in states

\* Intake either blocks the row or executes the import and moves on
\* whatever the import's receipt says.
_advance_received(w) ==
    /\ Advancing(w, {"RECEIVED"})
    /\ \/ Goto(w, "execute",
            [job[w] EXCEPT !.inst.workflow_state = "NORMALIZED",
                           !.inst.run_status = "PENDING",
                           !.key = KeyOf("import"), !.events = 1])
       \/ Goto(w, "commit",
            [job[w] EXCEPT !.inst.workflow_state = "BLOCKED",
                           !.inst.run_status = "WAITING_SIGNAL", !.events = 1])
    /\ UNCHANGED <<store, packets>>

\* Evidence, classification and review in one advance: hold the row, or
\* allocate (whatever the receipt says) and park at the review gate on a
\* command frozen with a new packet id.
_advance_normalized(w) ==
    /\ Advancing(w, {"NORMALIZED"})
    /\ LET wf == job[w].wf IN
       \/ /\ \E hold \in {"NEEDS_INFORMATION", "BLOCKED"} :
                Goto(w, "commit",
                     [job[w] EXCEPT !.inst.workflow_state = hold,
                                    !.inst.run_status = "WAITING_SIGNAL",
                                    !.events = 1])
          /\ UNCHANGED packets
       \/ /\ packets[wf] < MaxPackets
          /\ packets' = [packets EXCEPT ![wf] = @ + 1]
          /\ Goto(w, "execute",
                  [job[w] EXCEPT
                     !.inst = Released(Parked(@, "REVIEW_PENDING",
                         [cmd |-> "approve", packet |-> packets[wf] + 1], "set")),
                     !.key = KeyOf("allocate"), !.events = 1])
    /\ UNCHANGED store

\* The oldest unconsumed approval signal for the frozen command, 0 if none.
take_unconsumed(sigs, key) ==
    LET hits == {i \in DOMAIN sigs : /\ sigs[i].result = "none"
                                     /\ sigs[i].decision # "RESUBMIT"
                                     /\ sigs[i].key = key}
        oldest == {i \in hits : \A k \in hits : i <= k}
    IN  IF oldest = {} THEN 0 ELSE CHOOSE i \in oldest : TRUE

\* Mutant: any decision on the frozen command lets it run.
Authorized_AnyDecision(s) == s.decision # "RESUBMIT"

\* assert_execution_authorized: every other decision raises AuthorityError,
\* so the REJECT and REQUEST_INFORMATION branches behind it are never taken.
Authorized(s) == s.decision = "APPROVE"

_advance_human_gate(w) ==
    /\ Advancing(w, HUMAN_GATE_STATES)
    /\ LET inst == job[w].inst
           sigs == signals[job[w].wf]
           i == take_unconsumed(sigs, inst.wait)
       IN  \/ /\ i = 0
              /\ Goto(w, "commit", [job[w] EXCEPT !.inst = Reparked(@)])
           \/ /\ i # 0 /\ ~Authorized(sigs[i])
              /\ Goto(w, "commit", [job[w] EXCEPT !.sig = i, !.events = 1,
                                     !.inst.run_status = "WAITING_SIGNAL",
                                     !.consume = "REJECTED_INVALID"])
           \/ /\ i # 0 /\ Authorized(sigs[i])
              /\ Goto(w, "execute", [job[w] EXCEPT !.sig = i, !.key = inst.wait])
    /\ UNCHANGED <<store, packets>>

_advance_after_ledger(w) ==
    /\ Advancing(w, {"LEDGER_COMMITTED"})
    /\ \/ /\ ~job[w].inst.publish_spec
          /\ Goto(w, "commit", [job[w] EXCEPT !.inst.run_status = "COMPLETED"])
       \/ /\ job[w].inst.publish_spec
          /\ Goto(w, "commit",
                  [job[w] EXCEPT !.inst = Parked(@, "PUBLICATION_PENDING",
                                                 KeyOf("publish"), "set"),
                                 !.events = 1])
    /\ UNCHANGED <<store, packets>>

\* The mail is composed from the receipt in this process's own ledger; a
\* process that does not know the receipt completes the row without it.
_advance_published(w) ==
    /\ Advancing(w, {"PUBLISHED"})
    /\ LET known == job[w].inst.send_email /\ "publish" \in view[w][job[w].wf]
       IN  \/ /\ ~known
              /\ Goto(w, "commit", [job[w] EXCEPT !.inst.run_status = "COMPLETED"])
           \/ /\ known
              /\ Goto(w, "commit",
                      [job[w] EXCEPT !.inst = Parked(@, "NOTIFICATION_PENDING",
                                       KeyOf("send"), job[w].inst.wait_deadline),
                                     !.events = 1])
    /\ UNCHANGED <<store, packets>>

\* The tail of advance_once: a terminal row is left alone, any other row is
\* written back as PENDING.
advance_once_other(w) ==
    /\ Advancing(w, {"NEEDS_INFORMATION", "BLOCKED", "DELIVERED"})
    /\ \/ /\ job[w].inst.run_status \in TERMINAL_RUN_STATUSES
          /\ Goto(w, "refresh", JobOf(job[w].wf, Absent))
       \/ /\ job[w].inst.run_status \notin TERMINAL_RUN_STATUSES
          /\ Goto(w, "write", [job[w] EXCEPT !.inst.run_status = "PENDING"])
    /\ UNCHANGED <<store, packets>>

-----------------------------------------------------------------------------
(* CommandExecutor.execute: receipt lookup, dispatch with the log append,   *)
(* then the receipt in a transaction of its own.                            *)

execute(w) ==
    /\ pc[w] = "execute"
    /\ LET wf == job[w].wf
           key == job[w].key
       IN  \/ /\ key \in receipts[wf]
              /\ pc' = [pc EXCEPT ![w] = "commit"]
              /\ job' = [job EXCEPT ![w] = AfterExecute(@, "SUCCEEDED")]
              /\ UNCHANGED <<applied, view>>
           \/ /\ key \notin receipts[wf]
              /\ \E o \in Outcomes(view[w][wf], key.cmd) :
                   /\ view' = [view EXCEPT ![w][wf] = Learned(@, key.cmd, o)]
                   /\ applied' = IF o = "ok"
                                 THEN [applied EXCEPT ![wf][key.cmd] = @ + 1]
                                 ELSE applied
                   /\ IF o \in {"ok", "noop"}
                      THEN /\ pc' = [pc EXCEPT ![w] = "put_receipt"]
                           /\ job' = job
                      ELSE /\ pc' = [pc EXCEPT ![w] = "commit"]
                           /\ job' = [job EXCEPT ![w] = AfterExecute(@, o)]
    /\ UNCHANGED <<store, packets, case, batch, crashes>>

\* _store_receipt: it is inside execute's try, so a store error turns the
\* receipt of a command that took effect into a FAILED one.
_store_receipt(w) ==
    /\ pc[w] = "put_receipt"
    /\ \/ /\ receipts' = [receipts EXCEPT ![job[w].wf] = @ \cup {job[w].key}]
          /\ Goto(w, "commit", AfterExecute(job[w], "SUCCEEDED"))
       \/ /\ receipts' = receipts
          /\ Goto(w, "commit", AfterExecute(job[w], "RETRYABLE"))
    /\ UNCHANGED <<rows, events, signals, packets>>

-----------------------------------------------------------------------------
(* Writes back to the store *)

\* The SQL stores number new events from the copy's event_seq; the memory
\* store continues from the last stored event.
Collides(wf, inst) == Store # "memory" /\ inst.event_seq < events[wf]

NextSeq(wf, inst) ==
    IF Store = "memory" /\ events[wf] > inst.event_seq
    THEN events[wf] + 1 ELSE inst.event_seq + 1

Consume(sigs, i, result) ==
    IF result = "none" THEN sigs ELSE [sigs EXCEPT ![i].result = result]

\* What is left of an advance that raised; classify_error calls Postgres's
\* "duplicate key" message ALREADY_APPLIED, which is not retryable.
Failure(wf, retryable) == [JobOf(wf, Absent) EXCEPT !.retryable = retryable]

\* One transaction: the whole row, the events, the consumed signal.  No
\* lease and no version is checked; a duplicate event seq rolls it back.
commit_advance(w) ==
    /\ pc[w] = "commit"
    /\ LET wf == job[w].wf
           inst == job[w].inst
           seq == IF job[w].events = 1 THEN NextSeq(wf, inst) ELSE inst.event_seq
       IN  \/ /\ job[w].events = 1 /\ Collides(wf, inst)
              /\ Goto(w, "error", Failure(wf, Store # "postgres"))
              /\ UNCHANGED store
           \/ /\ job[w].events = 1 => ~Collides(wf, inst)
              /\ rows' = [rows EXCEPT ![wf] = [inst EXCEPT !.event_seq = seq]]
              /\ events' = IF job[w].events = 1
                           THEN [events EXCEPT ![wf] = seq] ELSE events
              /\ signals' = [signals EXCEPT ![wf] =
                               Consume(@, job[w].sig, job[w].consume)]
              /\ Goto(w, "refresh", JobOf(wf, Absent))
              /\ UNCHANGED receipts
    /\ UNCHANGED packets

\* An advance may raise before it commits: a store error, a malformed row.
advance_raises(w) ==
    /\ pc[w] \in {"advance", "commit"}
    /\ \E retryable \in BOOLEAN :
          Goto(w, "error", Failure(job[w].wf, retryable))
    /\ UNCHANGED <<store, packets>>

\* The part of _process_one after advance_once: dead-letter an exhausted
\* retry, set its backoff, or be done.
_process_one_refresh(w) ==
    /\ pc[w] = "refresh"
    /\ LET cur == rows[job[w].wf] IN
       \/ /\ cur.run_status # "RETRY_SCHEDULED"
          /\ Goto(w, "idle", NoJob)
       \/ /\ cur.run_status = "RETRY_SCHEDULED"
          /\ Goto(w, "write",
                  JobOf(job[w].wf, IF cur.attempt_count >= max_attempts
                                   THEN DeadLettered(cur) ELSE cur))
    /\ UNCHANGED <<store, packets>>

_handle_process_error(w) ==
    /\ pc[w] = "error"
    /\ LET cur == [rows[job[w].wf] EXCEPT !.attempt_count = @ + 1] IN
       Goto(w, "write",
            JobOf(job[w].wf,
                  IF ~job[w].retryable \/ cur.attempt_count >= max_attempts
                  THEN DeadLettered(cur)
                  ELSE [cur EXCEPT !.run_status = "RETRY_SCHEDULED",
                                   !.lease = "none"]))
    /\ UNCHANGED <<store, packets>>

\* update_instance with the copy read a step ago, and for a dead letter its
\* event (append_events, whose failure is only logged).
update_instance(w) ==
    /\ pc[w] = "write"
    /\ LET wf == job[w].wf
           inst == job[w].inst
           logs == inst.run_status = "DEAD_LETTER" /\ ~Collides(wf, inst)
           seq == IF logs THEN NextSeq(wf, inst) ELSE inst.event_seq
       IN  /\ rows' = [rows EXCEPT ![wf] = [inst EXCEPT !.event_seq = seq]]
           /\ events' = IF logs THEN [events EXCEPT ![wf] = seq] ELSE events
    /\ Goto(w, "idle", NoJob)
    /\ UNCHANGED <<signals, receipts, packets>>

-----------------------------------------------------------------------------
(* Time, the sweeper and crashes *)

\* Mutant: rows that a worker has been woken for time out as well.
TimesOut_AnyStatus(inst) ==
    /\ inst.workflow_state \in HUMAN_GATE_STATES
    /\ inst.wait_deadline = "past"
    /\ ~inst.timeout_applied

TimesOut(inst) ==
    /\ inst.run_status = "WAITING_SIGNAL"
    /\ inst.workflow_state \in HUMAN_GATE_STATES
    /\ inst.wait_deadline = "past"
    /\ ~inst.timeout_applied

\* A duplicate event seq aborts the sweep.
sweep_approval_timeouts(wf) ==
    /\ TimesOut(rows[wf])
    /\ ~Collides(wf, rows[wf])
    /\ LET seq == NextSeq(wf, rows[wf]) IN
       /\ rows' = [rows EXCEPT ![wf] =
             [@ EXCEPT !.workflow_state = "NEEDS_INFORMATION",
                       !.wait = NoKey, !.wait_expired = TRUE,
                       !.wait_deadline = "none", !.timeout_applied = TRUE,
                       !.event_seq = seq]]
       /\ events' = [events EXCEPT ![wf] = seq]
    /\ UNCHANGED <<signals, receipts, applied, packets, case, worker, crashes>>

Busy(wf) == \E w \in Workers : \/ batch[w][wf] # Absent
                               \/ pc[w] # "idle" /\ job[w].wf = wf

lease_expires(wf) ==
    /\ rows[wf].run_status = "RUNNING" /\ rows[wf].lease = "held"
    /\ LeaseCoversAdvance => ~Busy(wf)
    /\ rows' = [rows EXCEPT ![wf].lease = "expired"]
    /\ UNCHANGED <<events, signals, receipts, applied, packets, case, worker,
                   crashes>>

deadline_passes(wf) ==
    /\ rows[wf].wait_deadline = "set"
    /\ rows' = [rows EXCEPT ![wf].wait_deadline = "past"]
    /\ UNCHANGED <<events, signals, receipts, applied, packets, case, worker,
                   crashes>>

\* A process dies and another opens the workspace: its ledger is what the
\* command log holds.  The memory store does not outlive its process.
open_workspace(w) ==
    /\ Store # "memory"
    /\ crashes < MaxCrashes
    /\ crashes' = crashes + 1
    /\ pc' = [pc EXCEPT ![w] = "idle"]
    /\ job' = [job EXCEPT ![w] = NoJob]
    /\ batch' = [batch EXCEPT ![w] = [wf \in Workflows |-> Absent]]
    /\ view' = [view EXCEPT ![w] = [wf \in Workflows |->
                 {c \in LoggedCommands : applied[wf][c] > 0}]]
    /\ UNCHANGED <<store, applied, packets, case>>

-----------------------------------------------------------------------------
advance_once(w) ==
    \/ _advance_received(w) \/ _advance_normalized(w)
    \/ _advance_human_gate(w) \/ _advance_after_ledger(w)
    \/ _advance_published(w) \/ advance_once_other(w)

tick(w) ==
    \/ claim(w)
    \/ \E wf \in Workflows : _process_one(w, wf)
    \/ advance_once(w)
    \/ execute(w) \/ _store_receipt(w) \/ commit_advance(w)
    \/ advance_raises(w)
    \/ _process_one_refresh(w) \/ _handle_process_error(w) \/ update_instance(w)

Next ==
    \/ \E wf \in Workflows, p \in BOOLEAN :
          \E e \in {FALSE, p} : start_expense_to_receipt(wf, p, e)
    \/ \E wf \in Workflows : list_operator_cases(wf)
    \/ \E wf \in Workflows, d \in {"APPROVE", "REJECT"} : signal_approval(wf, d)
    \/ \E wf \in Workflows : signal_operator(wf)
    \/ \E w \in Workers : tick(w)
    \/ \E wf \in Workflows : sweep_approval_timeouts(wf)
    \/ \E wf \in Workflows : lease_expires(wf)
    \/ \E wf \in Workflows : deadline_passes(wf)
    \/ \E w \in Workers : open_workspace(w)

Spec == Init /\ [][Next]_vars

\* worker.run polls for ever, so a worker that can act does.  Operators owe
\* nothing, and neither deadlines nor crashes need happen.
FairSpec == Spec /\ \A w \in Workers : WF_vars(tick(w))

-----------------------------------------------------------------------------
(* Safety *)

\* A consequential command takes effect only if a human sent APPROVE for a
\* command of that kind (assert_execution_authorized, K5/K16): whatever the
\* workers, retries and crashes do.
HumanApproved ==
    \A wf \in Workflows, c \in L3_COMMAND_TYPES :
        applied[wf][c] > 0 =>
            \E i \in DOMAIN signals[wf] :
                signals[wf][i].decision = "APPROVE" /\ signals[wf][i].key.cmd = c

Backed(done, state) ==
    /\ state \in {"LEDGER_COMMITTED", "PUBLICATION_PENDING", "PUBLISHED",
                  "NOTIFICATION_PENDING", "DELIVERED"} => done["approve"] > 0
    /\ state \in {"PUBLISHED", "NOTIFICATION_PENDING", "DELIVERED"}
          => done["publish"] > 0
    /\ state = "DELIVERED" => done["send"] > 0

\* The business cursor never claims more than the ledgers hold: behind a
\* gate the gate's command has taken effect, and every stored receipt stands
\* for an effect (_advance_human_gate, put_execution_receipt "success only").
CursorBacked ==
    \A wf \in Workflows :
        /\ Backed(applied[wf], rows[wf].workflow_state)
        /\ \A k \in receipts[wf] : applied[wf][k.cmd] > 0

Gated(inst) ==
    /\ inst.workflow_state = "REVIEW_PENDING" => inst.wait.cmd = "approve"
    /\ inst.workflow_state = "PUBLICATION_PENDING" => inst.wait.cmd = "publish"
    /\ inst.workflow_state = "NOTIFICATION_PENDING" => inst.wait.cmd = "send"

\* A row at a human gate always carries the frozen command it waits for, so
\* the wait_expired branch of _advance_human_gate is never entered.
GateHasWait == \A wf \in Workflows : Gated(rows[wf])

\* No money command takes effect twice (execution receipt, or the state of
\* the rehydrated ledger, stops the second one).
MoneyOnce ==
    \A wf \in Workflows, c \in {"import", "approve", "publish"} : applied[wf][c] <= 1

\* The edges of EXPENSE_TO_RECEIPT_TRANSITIONS between states that are
\* stored, with the jumps over EVIDENCE_PENDING and CLASSIFICATION_PENDING
\* that _advance_normalized makes.
EXPENSE_TO_RECEIPT_TRANSITIONS ==
    {<<"ABSENT", "RECEIVED">>,
     <<"RECEIVED", "NORMALIZED">>, <<"RECEIVED", "BLOCKED">>,
     <<"NORMALIZED", "BLOCKED">>, <<"NORMALIZED", "NEEDS_INFORMATION">>,
     <<"NORMALIZED", "REVIEW_PENDING">>,
     <<"REVIEW_PENDING", "LEDGER_COMMITTED">>,
     <<"REVIEW_PENDING", "NEEDS_INFORMATION">>, <<"REVIEW_PENDING", "BLOCKED">>,
     <<"LEDGER_COMMITTED", "PUBLICATION_PENDING">>,
     <<"LEDGER_COMMITTED", "PUBLISHED">>,
     <<"PUBLICATION_PENDING", "PUBLISHED">>,
     <<"PUBLICATION_PENDING", "NEEDS_INFORMATION">>,
     <<"PUBLICATION_PENDING", "BLOCKED">>,
     <<"PUBLISHED", "NOTIFICATION_PENDING">>, <<"PUBLISHED", "DELIVERED">>,
     <<"NOTIFICATION_PENDING", "DELIVERED">>,
     <<"NOTIFICATION_PENDING", "NEEDS_INFORMATION">>,
     <<"NOTIFICATION_PENDING", "BLOCKED">>,
     <<"BLOCKED", "REVIEW_PENDING">>, <<"BLOCKED", "NEEDS_INFORMATION">>,
     <<"NEEDS_INFORMATION", "REVIEW_PENDING">>,
     <<"NEEDS_INFORMATION", "PUBLICATION_PENDING">>,
     <<"NEEDS_INFORMATION", "NOTIFICATION_PENDING">>}

\* The stored business cursor moves only along the transition table.
CursorFollowsMachine ==
    [][\A wf \in Workflows :
          \/ rows'[wf].workflow_state = rows[wf].workflow_state
          \/ <<rows[wf].workflow_state, rows'[wf].workflow_state>>
                \in EXPENSE_TO_RECEIPT_TRANSITIONS]_rows

\* K13: a wait times out once, and a frozen command whose wait expired never
\* takes effect afterwards, however late its APPROVE arrives.
TimeoutFinal ==
    [][\A wf \in Workflows :
          rows[wf].timeout_applied =>
              /\ rows'[wf].timeout_applied
              /\ rows[wf].workflow_state = "NEEDS_INFORMATION" =>
                    \A c \in L3_COMMAND_TYPES : applied'[wf][c] = applied[wf][c]
      ]_vars

-----------------------------------------------------------------------------
(* Liveness, under FairSpec *)

AtRest(wf) == rows[wf].run_status \in {"ABSENT", "WAITING_SIGNAL"} \cup TERMINAL_RUN_STATUSES

\* Every started workflow reaches a human wait, a hold or a terminal state.
StartedReachesRest ==
    \A wf \in Workflows :
        rows[wf].workflow_state = "RECEIVED" ~> AtRest(wf)

\* A workflow woken at a human gate is served: it advances past the gate,
\* goes back to waiting, or ends in the dead letters; it is not retried for
\* ever.
GateServed ==
    \A wf \in Workflows :
        rows[wf].workflow_state \in HUMAN_GATE_STATES
            ~> AtRest(wf) \/ rows[wf].workflow_state \notin HUMAN_GATE_STATES

=============================================================================
