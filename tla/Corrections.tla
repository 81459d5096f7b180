---------------------------- MODULE Corrections ----------------------------
(***************************************************************************)
(* The correction and scheduled_digest workflows (workflows/corrections.py, *)
(* workflows/scheduled_digest.py and their branches of WorkflowRuntime), on *)
(* a durable workspace whose one worker process may die and be restarted.   *)
(*                                                                          *)
(* Of the ledger only what a correction changes is kept: the state of the   *)
(* expenses and the correction of each expense's receipts.  A restart gives *)
(* back the ledger of the last logged command (CommandLog shows that).  The *)
(* steps that do not execute a command read and write the row in one step:  *)
(* WorkflowEngine interleaves them.                                         *)
(***************************************************************************)
EXTENDS Naturals, Sequences, FiniteSets

CONSTANTS
    Flows,         \* workflow ids
    Expenses,      \* expenses that are approved and have receipts
    Replacements,  \* ids a replacement expense may have
    Requests(_),   \* is this command among those operators ask for?
    Simulations,   \* the values of the simulation flag in use
    max_attempts,  \* WorkerConfig.max_attempts
    MaxSignals,    \* bound: approval signals sent
    MaxCrashes     \* bound: restarts of the process

ASSUME CorrectionsAssumption ==
    /\ Expenses \cap Replacements = {}
    /\ Simulations \subseteq BOOLEAN
    /\ max_attempts \in Nat \ {0} /\ MaxSignals \in Nat /\ MaxCrashes \in Nat

VARIABLES
    rows,       \* the workflows table
    signals,    \* the decisions sent to a workflow, in arrival order
    taken,      \* how many of them are consumed
    receipts,   \* stored execution receipts: key and status
    ledger,     \* the ledger of the running process
    logged,     \* the ledger of the last row of the command log
    log_keys,   \* the keys in the command log
    job,        \* the advance the worker is in
    crashes

vars == <<rows, signals, taken, receipts, ledger, logged, log_keys, job, crashes>>

-----------------------------------------------------------------------------
Ids == Expenses \cup Replacements
ExpenseStates == {"ABSENT", "IMPORTED", "APPROVAL_PENDING", "APPROVED",
                  "REVERSED", "SUPERSEDED"}
Ledger == [expenses: [Ids -> ExpenseStates],
           corrected: [Expenses -> {"none", "REVERSAL", "SUPERSEDE"}]]

\* A correction command; its idempotency key names it in full (the reason of a
\* reversal, part of the key, is the same for all).
NoArg == "none"
build_reverse_command(e) == [type |-> "reverse_expense", expense |-> e, arg |-> NoArg]
build_supersede_command(e, r) == [type |-> "supersede_expense", expense |-> e, arg |-> r]
Commands == {build_reverse_command(e) : e \in Ids}
              \cup {build_supersede_command(e, r) : e \in Ids, r \in Ids}
NoCommand == [type |-> "none", expense |-> "none", arg |-> NoArg]

WorkflowState == {"RECEIVED", "REVIEW_PENDING", "PUBLICATION_PENDING", "PUBLISHED",
                  "LEDGER_COMMITTED", "DELIVERED", "BLOCKED", "REJECTED",
                  "NEEDS_INFORMATION"}
WorkflowRunStatus == {"PENDING", "RUNNING", "WAITING_SIGNAL", "RETRY_SCHEDULED",
                      "COMPLETED", "FAILED_TERMINAL", "DEAD_LETTER"}
HUMAN_GATE_STATES == {"REVIEW_PENDING", "PUBLICATION_PENDING"}
Decisions == {"APPROVE", "REJECT", "EDIT"}

\* wait_deadline: there is one, and it passes at some time.  asked: the operator
\* has been shown the gate.  expired: it timed out.
WorkflowInstance ==
    [type: {"correction", "scheduled_digest"}, command: Commands \cup {NoCommand},
     missing: {"nothing", "reason", "replacement"}, simulation: BOOLEAN,
     require_approval: BOOLEAN, workflow_state: WorkflowState,
     run_status: WorkflowRunStatus, asked: BOOLEAN, expired: BOOLEAN,
     wait_deadline: BOOLEAN, attempt_count: 0 .. max_attempts]
Absent == [type |-> "absent"]
Exists(f) == rows[f] # Absent

Started == [type |-> "correction", command |-> NoCommand, missing |-> "nothing",
            simulation |-> FALSE, require_approval |-> FALSE,
            workflow_state |-> "RECEIVED", run_status |-> "PENDING",
            asked |-> FALSE, expired |-> FALSE, wait_deadline |-> FALSE,
            attempt_count |-> 0]

\* The worker: the workflow it executes a command for, the copy of the row it
\* will commit, and whether its commit consumes the signal.
NoJob == [at |-> "idle"]
Job == [at: {"put_receipt", "commit"}, flow: Flows, inst: WorkflowInstance,
        consume: BOOLEAN, status: {"SUCCEEDED", "SIMULATED"}]

TypeOK ==
    /\ rows \in [Flows -> WorkflowInstance \cup {Absent}]
    /\ signals \in [Flows -> Seq(Decisions)]
    /\ taken \in [Flows -> 0 .. MaxSignals]
    /\ receipts \subseteq [key: Commands, status: {"SUCCEEDED", "SIMULATED"}]
    /\ ledger \in Ledger /\ logged \in Ledger
    /\ log_keys \subseteq Commands
    /\ job \in Job \cup {NoJob}
    /\ crashes \in 0 .. MaxCrashes

Fresh == [expenses |-> [e \in Ids |-> IF e \in Expenses THEN "APPROVED" ELSE "ABSENT"],
          corrected |-> [e \in Expenses |-> "none"]]

Init ==
    /\ rows = [f \in Flows |-> Absent]
    /\ signals = [f \in Flows |-> <<>>]
    /\ taken = [f \in Flows |-> 0]
    /\ receipts = {} /\ log_keys = {}
    /\ ledger = Fresh /\ logged = Fresh
    /\ job = NoJob /\ crashes = 0

-----------------------------------------------------------------------------
(* Operators *)

start_correction(f, command, missing, simulation) ==
    /\ rows[f] = Absent
    /\ Requests(command)
    /\ missing = "replacement" => command.type = "supersede_expense"
    /\ rows' = [rows EXCEPT ![f] =
                  [Started EXCEPT !.command = command, !.missing = missing,
                                  !.simulation = simulation]]
    /\ UNCHANGED <<signals, taken, receipts, ledger, logged, log_keys, job, crashes>>

start_scheduled_digest(f, require_approval) ==
    /\ rows[f] = Absent
    /\ rows' = [rows EXCEPT ![f] =
                  [Started EXCEPT !.type = "scheduled_digest",
                                  !.require_approval = require_approval]]
    /\ UNCHANGED <<signals, taken, receipts, ledger, logged, log_keys, job, crashes>>

Sent == UNION {{f} \X DOMAIN signals[f] : f \in Flows}

\* A signal wakes the row whatever state it is in, a finished one too.
signal_approval(f, decision) ==
    /\ Exists(f) /\ rows[f].asked
    /\ Cardinality(Sent) < MaxSignals
    /\ signals' = [signals EXCEPT ![f] = Append(@, decision)]
    /\ rows' = [rows EXCEPT ![f].run_status = "PENDING"]
    /\ UNCHANGED <<taken, receipts, ledger, logged, log_keys, job, crashes>>

\* RESUBMIT is no approval: no branch of these workflows consumes it.
signal_operator(f) ==
    /\ Exists(f)
    /\ rows' = [rows EXCEPT ![f].run_status = "PENDING"]
    /\ UNCHANGED <<signals, taken, receipts, ledger, logged, log_keys, job, crashes>>

-----------------------------------------------------------------------------
(* The worker.  A row left RUNNING by a crash is claimed when its lease ends. *)

Claimable(f) ==
    /\ job = NoJob
    /\ Exists(f)
    /\ rows[f].run_status \in {"PENDING", "RETRY_SCHEDULED", "RUNNING"}

Advancing(f, type, states) ==
    /\ Claimable(f)
    /\ rows[f].attempt_count < max_attempts
    /\ rows[f].type = type
    /\ rows[f].workflow_state \in states

Commit(f, inst, consumed) ==
    /\ rows' = [rows EXCEPT ![f] = inst]
    /\ taken' = [taken EXCEPT ![f] = @ + consumed]
    /\ UNCHANGED <<signals, receipts, ledger, logged, log_keys, job, crashes>>

Moved(inst, state, status) ==
    [inst EXCEPT !.workflow_state = state, !.run_status = status]
Asked(inst, state) ==
    [Moved(inst, state, "WAITING_SIGNAL") EXCEPT !.asked = TRUE, !.wait_deadline = TRUE]
Reparked(inst) == [inst EXCEPT !.run_status = "WAITING_SIGNAL"]

\* _process_one, before it advances: the attempts are used up.
_dead_letter(f) ==
    /\ Claimable(f)
    /\ rows[f].attempt_count = max_attempts
    /\ Commit(f, [rows[f] EXCEPT !.run_status = "DEAD_LETTER"], 0)

step_propose_correction(f) ==
    /\ Advancing(f, "correction", {"RECEIVED"})
    /\ LET inst == rows[f]
           unknown == ~inst.simulation /\ ledger.expenses[inst.command.expense] = "ABSENT"
       IN  \/ /\ inst.missing = "reason"
              /\ Commit(f, Moved(inst, "NEEDS_INFORMATION", "WAITING_SIGNAL"), 0)
           \/ /\ inst.missing # "reason" /\ unknown
              /\ Commit(f, Moved(inst, "BLOCKED", "FAILED_TERMINAL"), 0)
           \/ /\ inst.missing = "replacement" /\ ~unknown
              /\ Commit(f, Moved(inst, "NEEDS_INFORMATION", "WAITING_SIGNAL"), 0)
           \/ /\ inst.missing = "nothing" /\ ~unknown
              /\ Commit(f, Asked(inst, "REVIEW_PENDING"), 0)

\* The oldest signal that is not consumed, "none" if there is none.
Signalled(f) ==
    IF taken[f] < Len(signals[f]) THEN signals[f][taken[f] + 1] ELSE "none"

\* The gate re-parks without a signal, and on any decision but APPROVE, which
\* assert_execution_authorized refuses.
_advance_human_gate(f) ==
    /\ Advancing(f, "correction", {"REVIEW_PENDING"})
    /\ \/ Signalled(f) = "none" /\ Commit(f, Reparked(rows[f]), 0)
       \/ Signalled(f) \in Decisions \ {"APPROVE"} /\ Commit(f, Reparked(rows[f]), 1)

step_after_ledger_correction(f) ==
    /\ Advancing(f, "correction", {"LEDGER_COMMITTED"})
    /\ Commit(f, Moved(rows[f], "DELIVERED", "COMPLETED"), 0)

\* A row that waits for information is re-parked; any other that was woken is
\* left PENDING, and is claimed again at once.
_advance_correction_other(f) ==
    \/ /\ Advancing(f, "correction", {"NEEDS_INFORMATION"})
       /\ Commit(f, Reparked(rows[f]), 0)
    \/ /\ Advancing(f, "correction", {"BLOCKED", "DELIVERED"})
       /\ Commit(f, [rows[f] EXCEPT !.run_status = "PENDING"], 0)

\* The digest document is built from the events and scanned: it is fit for the
\* public, or one of its rows or its contents is refused, or the events file
\* cannot be read, which escapes the step and is retried.
assemble_digests == {"public", "refused", "raises"}

\* A failure of the advance that is retried; a row whose attempts are used up
\* is dead-lettered.
AfterRaise(inst) ==
    [inst EXCEPT !.attempt_count = @ + 1,
                 !.run_status = IF inst.attempt_count + 1 = max_attempts
                                THEN "DEAD_LETTER" ELSE "RETRY_SCHEDULED"]

\* A refused digest ends the workflow.
step_assemble_and_privacy(f) ==
    /\ Advancing(f, "scheduled_digest", {"RECEIVED"})
    /\ \E digest \in assemble_digests :
         Commit(f, IF digest = "raises" THEN AfterRaise(rows[f])
                   ELSE IF digest = "refused"
                          THEN Moved(rows[f], "BLOCKED", "FAILED_TERMINAL")
                   ELSE IF rows[f].require_approval
                          THEN Asked(rows[f], "PUBLICATION_PENDING")
                   ELSE Moved(rows[f], "PUBLISHED", "PENDING"), 0)

\* Mutant: whatever is no REJECT publishes.
AfterDigestDecision_NotRejected(inst, decision) ==
    IF decision = "REJECT" THEN Moved(inst, "REJECTED", "FAILED_TERMINAL")
    ELSE [Moved(inst, "PUBLISHED", "PENDING") EXCEPT !.wait_deadline = FALSE]

AfterDigestDecision(inst, decision) ==
    IF decision = "REJECT" THEN Moved(inst, "REJECTED", "FAILED_TERMINAL")
    ELSE IF decision = "APPROVE"
           THEN [Moved(inst, "PUBLISHED", "PENDING") EXCEPT !.wait_deadline = FALSE]
    ELSE Moved(inst, "NEEDS_INFORMATION", "WAITING_SIGNAL")

_advance_digest_approval(f) ==
    /\ Advancing(f, "scheduled_digest", {"PUBLICATION_PENDING"})
    /\ \/ Signalled(f) = "none" /\ Commit(f, Reparked(rows[f]), 0)
       \/ /\ Signalled(f) # "none"
          /\ Commit(f, AfterDigestDecision(rows[f], Signalled(f)), 1)

step_complete_digest(f) ==
    /\ Advancing(f, "scheduled_digest", {"PUBLISHED"})
    /\ Commit(f, Moved(rows[f], "DELIVERED", "COMPLETED"), 0)

_advance_digest_other(f) ==
    /\ Advancing(f, "scheduled_digest",
                 {"NEEDS_INFORMATION", "BLOCKED", "REJECTED", "DELIVERED"})
    /\ Commit(f, [rows[f] EXCEPT !.run_status = "PENDING"], 0)

-----------------------------------------------------------------------------
(* An approved correction is executed: the ledger, the log, the receipt and  *)
(* the row change in four steps.  Outcomes are pairs of a status and the     *)
(* ledger it leaves; a failed one is final only when its text says "already".*)

_reverse_expense(l, c) ==
    IF l.expenses[c.expense] = "REVERSED" THEN {<<"ok", l>>}
    ELSE IF l.expenses[c.expense] = "APPROVED"
    THEN {<<"ok", [expenses |-> [l.expenses EXCEPT ![c.expense] = "REVERSED"],
                   corrected |-> [e \in Expenses |->
                       IF e = c.expense THEN "REVERSAL" ELSE l.corrected[e]]]>>}
    ELSE {<<"RETRYABLE", l>>}

\* The replacement is imported, charged, approved, and only then the receipts
\* are corrected; each stage may raise, after the old expense was marked.
Superseding(l, c) ==
    LET old == [l EXCEPT !.expenses[c.expense] = "SUPERSEDED"]
        at(state) == [old EXCEPT !.expenses[c.arg] = state]
    IN  IF c.arg = c.expense THEN {<<"RETRYABLE", old>>}
        ELSE IF l.expenses[c.arg] # "ABSENT" THEN {<<"ALREADY_APPLIED", old>>}
        ELSE {<<"RETRYABLE", old>>,
              <<"RETRYABLE", at("IMPORTED")>>,
              <<"RETRYABLE", at("APPROVAL_PENDING")>>,
              <<"ok", [at("APPROVED") EXCEPT !.corrected =
                         [e \in Expenses |->
                            IF e = c.expense THEN "SUPERSEDE" ELSE @[e]]]>>}

\* An expense that is SUPERSEDED already is a success without effect.
_supersede_expense(l, c) ==
    IF l.expenses[c.expense] = "SUPERSEDED" THEN {<<"ok", l>>}
    ELSE IF l.expenses[c.expense] = "APPROVED" THEN Superseding(l, c)
    ELSE {<<"RETRYABLE", l>>}

_dispatch(l, c) ==
    IF c.type = "reverse_expense" THEN _reverse_expense(l, c)
    ELSE _supersede_expense(l, c)

\* Mutant: the cursor is set to the audit-only state.
AfterSuccess_Approved(inst) ==
    [Moved(inst, "APPROVED", "PENDING") EXCEPT !.wait_deadline = FALSE]
AfterSuccess(inst) ==
    [Moved(inst, "LEDGER_COMMITTED", "PENDING") EXCEPT !.wait_deadline = FALSE]

AfterFailure(inst, status) ==
    IF status = "ALREADY_APPLIED" THEN [inst EXCEPT !.run_status = "FAILED_TERMINAL"]
    ELSE AfterRaise(inst)

Executes(f) ==
    /\ Advancing(f, "correction", {"REVIEW_PENDING"})
    /\ Signalled(f) = "APPROVE"
    /\ rows' = [rows EXCEPT ![f].run_status = "RUNNING"]

JobAt(at, f, inst, consume, status) ==
    job' = [at |-> at, flow |-> f, inst |-> inst, consume |-> consume, status |-> status]

\* A stored receipt answers the command, whatever run stored it.
execute_stored(f) ==
    /\ Executes(f)
    /\ \E r \in receipts :
         /\ r.key = rows[f].command
         /\ JobAt("commit", f, AfterSuccess(rows[f]), TRUE, r.status)
    /\ UNCHANGED <<signals, taken, receipts, ledger, logged, log_keys, crashes>>

Unanswered(f) == \A r \in receipts : r.key # rows[f].command

execute_simulated(f) ==
    /\ Executes(f) /\ Unanswered(f)
    /\ rows[f].simulation
    /\ JobAt("put_receipt", f, AfterSuccess(rows[f]), TRUE, "SIMULATED")
    /\ UNCHANGED <<signals, taken, receipts, ledger, logged, log_keys, crashes>>

\* Mutant: a failed append of the log is not reported.
Appends_Swallowed(status) == {TRUE, FALSE} \X {status}
\* The log append of a success may fail, and then the command has failed.
Appends(status) == {<<TRUE, status>>, <<FALSE, "RETRYABLE">>}

execute(f) ==
    /\ Executes(f) /\ Unanswered(f)
    /\ ~rows[f].simulation
    /\ \E outcome \in _dispatch(ledger, rows[f].command) :
         LET c == rows[f].command IN
         /\ ledger' = outcome[2]
         /\ \/ /\ outcome[1] # "ok"
               /\ JobAt("commit", f, AfterFailure(rows[f], outcome[1]),
                        outcome[1] = "ALREADY_APPLIED", "SUCCEEDED")
               /\ UNCHANGED <<logged, log_keys>>
            \/ /\ outcome[1] = "ok"
               /\ \E app \in IF c \in log_keys THEN {<<TRUE, "ok">>} ELSE Appends("ok") :
                    /\ IF app[1] /\ c \notin log_keys
                         THEN logged' = outcome[2] /\ log_keys' = log_keys \cup {c}
                         ELSE UNCHANGED <<logged, log_keys>>
                    /\ IF app[2] = "ok"
                         THEN JobAt("put_receipt", f, AfterSuccess(rows[f]), TRUE, "SUCCEEDED")
                         ELSE JobAt("commit", f, AfterFailure(rows[f], app[2]), FALSE,
                                    "SUCCEEDED")
    /\ UNCHANGED <<signals, taken, receipts, crashes>>

\* A store error while a simulated receipt is written escapes the advance, a
\* real one is reported as a failure: both are retried.
_store_receipt ==
    /\ job.at = "put_receipt"
    /\ \/ /\ receipts' = receipts \cup
                {[key |-> job.inst.command, status |-> job.status]}
          /\ job' = [job EXCEPT !.at = "commit"]
       \/ /\ receipts' = receipts
          /\ job' = [job EXCEPT !.at = "commit", !.consume = FALSE,
                                !.inst = AfterFailure(rows[job.flow], "RETRYABLE")]
    /\ UNCHANGED <<rows, signals, taken, ledger, logged, log_keys, crashes>>

commit_advance ==
    /\ job.at = "commit"
    /\ rows' = [rows EXCEPT ![job.flow] = job.inst]
    /\ taken' = [taken EXCEPT ![job.flow] = IF job.consume THEN @ + 1 ELSE @]
    /\ job' = NoJob
    /\ UNCHANGED <<signals, receipts, ledger, logged, log_keys, crashes>>

-----------------------------------------------------------------------------
(* Time and crashes *)

\* Mutant: the gate is marked as expired and stays open.
Expired_StillOpen(inst) ==
    [inst EXCEPT !.wait_deadline = FALSE, !.expired = TRUE]
Expired(inst) ==
    [Moved(inst, "NEEDS_INFORMATION", "WAITING_SIGNAL")
       EXCEPT !.wait_deadline = FALSE, !.expired = TRUE]

sweep_approval_timeouts(f) ==
    /\ Exists(f)
    /\ rows[f].run_status = "WAITING_SIGNAL"
    /\ rows[f].workflow_state \in HUMAN_GATE_STATES
    /\ rows[f].wait_deadline /\ ~rows[f].expired
    /\ rows' = [rows EXCEPT ![f] = Expired(rows[f])]
    /\ UNCHANGED <<signals, taken, receipts, ledger, logged, log_keys, job, crashes>>

\* The process dies and open_workspace rebuilds the ledger from the log.
open_workspace ==
    /\ crashes < MaxCrashes
    /\ crashes' = crashes + 1
    /\ ledger' = logged
    /\ job' = NoJob
    /\ UNCHANGED <<rows, signals, taken, receipts, logged, log_keys>>

tick(f) ==
    \/ _dead_letter(f)
    \/ step_propose_correction(f) \/ _advance_human_gate(f)
    \/ step_after_ledger_correction(f) \/ _advance_correction_other(f)
    \/ step_assemble_and_privacy(f) \/ _advance_digest_approval(f)
    \/ step_complete_digest(f) \/ _advance_digest_other(f)
    \/ execute_stored(f) \/ execute_simulated(f) \/ execute(f)

\* Every step but a restart.
Running ==
    \/ \E f \in Flows :
         \/ \E c \in Commands, simulation \in Simulations,
               missing \in {"nothing", "reason", "replacement"} :
              start_correction(f, c, missing, simulation)
         \/ \E require_approval \in BOOLEAN : start_scheduled_digest(f, require_approval)
         \/ \E decision \in Decisions : signal_approval(f, decision)
         \/ signal_operator(f)
         \/ tick(f)
         \/ sweep_approval_timeouts(f)
    \/ _store_receipt \/ commit_advance

Next == Running \/ open_workspace

Spec == Init /\ [][Next]_vars

-----------------------------------------------------------------------------
(* Properties *)

Corrected(f) == /\ Exists(f) /\ rows[f].type = "correction" /\ ~rows[f].simulation
                /\ rows[f].workflow_state = "DELIVERED"
Simulated(c) == [key |-> c, status |-> "SIMULATED"] \in receipts

\* A correction that is reported as delivered survives every restart: the log
\* has the expense reversed or superseded.  The one exception is a command that
\* was simulated before: simulated and real executions share the receipt index,
\* so the stored SIMULATED receipt answers the real command.
DeliveredIsLogged ==
    \A f \in Flows :
        LET c == rows[f].command IN
        Corrected(f) /\ ~Simulated(c) =>
            logged.expenses[c.expense] =
                IF c.type = "reverse_expense" THEN "REVERSED" ELSE "SUPERSEDED"

\* No workflow gets past its human gate on anything but an APPROVE: the last
\* decision it consumed is one, and before it none but EDIT or REJECT that the
\* gate turned down; a digest that was rejected or sent back stays unpublished.
PastGate(f) ==
    /\ Exists(f) /\ rows[f].asked
    /\ rows[f].workflow_state \in {"LEDGER_COMMITTED", "PUBLISHED", "DELIVERED"}
GateHonoured ==
    \A f \in Flows : PastGate(f) =>
        /\ taken[f] > 0 /\ signals[f][taken[f]] = "APPROVE"
        /\ rows[f].type = "scheduled_digest" => taken[f] = 1

\* A gate that timed out is final: a late APPROVE, an approval that was under
\* way, or a wake-up by the operator never moves the workflow again.
ExpiredIsFinal ==
    [][\A f \in Flows :
         Exists(f) /\ rows[f].expired =>
             rows'[f].workflow_state = "NEEDS_INFORMATION"]_vars

\* supersede_expense's docstring: "Old expense becomes SUPERSEDED; new expense
\* is imported, allocated, and approved. Correction receipts are published
\* against prior use-of-funds receipts."  So it should be when the workflow
\* says DELIVERED.
DeliveredIsComplete ==
    \A f \in Flows :
        LET c == rows[f].command IN
        Corrected(f) /\ c.type = "supersede_expense" =>
            /\ ledger.expenses[c.arg] # "ABSENT"
            /\ c.expense \in Expenses => ledger.corrected[c.expense] = "SUPERSEDE"
=============================================================================
