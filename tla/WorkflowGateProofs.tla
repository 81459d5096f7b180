------------------------- MODULE WorkflowGateProofs -------------------------
(***************************************************************************)
(* The human gates hold for any number of workers, stale copies, retries,  *)
(* restarts and lost leases.  The three invariants the runs check are not  *)
(* inductive: a worker writes back a row it read long ago, and executes a  *)
(* command for a signal it took long ago.  GateInv says the same of every  *)
(* copy a worker holds.                                                    *)
(*                                                                         *)
(* With one worker at a time, money commands take effect once (the worker  *)
(* knows what took effect, KnowsEffects), and the stored cursor follows    *)
(* the transition table and respects timeouts (the copies the worker holds *)
(* are of the rows as they are, CopiesFresh).                              *)
(***************************************************************************)
EXTENDS WorkflowEngineProofs

Good(wf, inst) == Backed(applied[wf], inst.workflow_state) /\ Gated(inst)

\* The row in the store, the rows a worker claimed and the row its advance
\* will write.
RowsGood == \A wf \in Workflows : Good(wf, rows[wf])
BatchesGood == \A w \in Workers, wf \in Workflows : Good(wf, batch[w][wf])
JobsGood == \A w \in Workers : Good(job[w].wf, job[w].inst)

\* Receipts and ledgers hold only what took effect.
ReceiptsBacked ==
    \A wf \in Workflows : \A k \in receipts[wf] :
        k.cmd \in Commands /\ applied[wf][k.cmd] > 0
ViewsBacked ==
    \A w \in Workers, wf \in Workflows : \A c \in view[w][wf] :
        c \in Commands => applied[wf][c] > 0

Approves(wf, i, k) ==
    /\ i \in DOMAIN signals[wf]
    /\ signals[wf][i].decision = "APPROVE" /\ signals[wf][i].key = k

\* A consequential command under execution is the frozen command of a gate,
\* and the signal taken for it is an APPROVE of that command.
Executing(j) ==
    /\ j.key.cmd \in Commands
    /\ j.key.cmd \in L3_COMMAND_TYPES =>
          /\ j.inst.workflow_state \in HUMAN_GATE_STATES
          /\ j.key = j.inst.wait
          /\ Approves(j.wf, j.sig, j.key)
ExecutesApproved ==
    \A w \in Workers :
        /\ pc[w] \in {"execute", "put_receipt"} => Executing(job[w])
        /\ pc[w] = "put_receipt" => applied[job[w].wf][job[w].key.cmd] > 0

GateInv ==
    /\ RowsGood /\ BatchesGood /\ JobsGood
    /\ ReceiptsBacked /\ ViewsBacked /\ ExecutesApproved
    /\ HumanApproved

-----------------------------------------------------------------------------
(* What the pieces preserve *)

\* Nothing is claimed of a row that does not exist.
LEMMA AbsentGood == \A wf : Good(wf, Absent)
BY DEF Good, Backed, Gated, Absent

LEMMA NoJobGood ==
    /\ Good(NoJob.wf, NoJob.inst)
    /\ \A wf : Good(JobOf(wf, Absent).wf, JobOf(wf, Absent).inst)
    /\ \A wf, b : /\ Failure(wf, b).inst = Absent
                  /\ Good(Failure(wf, b).wf, Failure(wf, b).inst)
BY AbsentGood DEF NoJob, JobOf, Failure

\* Good looks only at the cursor and at the frozen command.
LEMMA GoodRewrite ==
    ASSUME NEW wf, NEW inst \in WorkflowInstance, Good(wf, inst),
           NEW new \in WorkflowInstance,
           new.workflow_state = inst.workflow_state, new.wait = inst.wait
    PROVE  Good(wf, new)
BY DEF Good, Backed, Gated

\* A gate whose command took effect is left to a state that is backed.
LEMMA AfterApprovalGood ==
    ASSUME NEW wf, NEW inst \in WorkflowInstance, Good(wf, inst),
           inst.workflow_state \in HUMAN_GATE_STATES,
           applied[wf][inst.wait.cmd] > 0
    PROVE  Good(wf, AfterApproval(inst, inst.wait.cmd))
PROOF
  <1> DEFINE new == AfterApproval(inst, inst.wait.cmd)
  <1> SUFFICES Good(wf, new)
    OBVIOUS
  <1>1. CASE inst.workflow_state = "REVIEW_PENDING"
    <2>1. inst.wait.cmd = "approve" /\ new.workflow_state = "LEDGER_COMMITTED"
      BY <1>1 DEF Good, Gated, AfterApproval, WorkflowInstance
    <2> HIDE DEF new
    <2> QED
      BY <2>1 DEF Good, Gated, Backed
  <1>2. CASE inst.workflow_state = "PUBLICATION_PENDING"
    <2>1. inst.wait.cmd = "publish" /\ new.workflow_state = "PUBLISHED"
      BY <1>2 DEF Good, Gated, AfterApproval, WorkflowInstance
    <2>2. applied[wf]["approve"] > 0
      BY <1>2 DEF Good, Backed
    <2> HIDE DEF new
    <2> QED
      BY <2>1, <2>2 DEF Good, Gated, Backed
  <1>3. CASE inst.workflow_state = "NOTIFICATION_PENDING"
    <2>1. inst.wait.cmd = "send" /\ new.workflow_state = "DELIVERED"
      BY <1>3 DEF Good, Gated, AfterApproval, WorkflowInstance
    <2>2. applied[wf]["approve"] > 0 /\ applied[wf]["publish"] > 0
      BY <1>3 DEF Good, Backed
    <2> HIDE DEF new
    <2> QED
      BY <2>1, <2>2 DEF Good, Gated, Backed
  <1> QED
    BY <1>1, <1>2, <1>3 DEF HUMAN_GATE_STATES

\* What the executor's answer makes of the job: a success is only reported
\* for a command that took effect.
LEMMA AfterExecuteGood ==
    ASSUME NEW j \in Job, NEW s, Good(j.wf, j.inst), Executing(j),
           s = "SUCCEEDED" => applied[j.wf][j.key.cmd] > 0
    PROVE  /\ AfterExecute(j, s).wf = j.wf
           /\ Good(j.wf, AfterExecute(j, s).inst)
PROOF
  <1>0. j.inst \in WorkflowInstance
    BY DEF Job
  <1>1. CASE j.key.cmd \notin L3_COMMAND_TYPES
    BY <1>1 DEF AfterExecute
  <1>2. CASE j.key.cmd \in L3_COMMAND_TYPES /\ s = "SUCCEEDED"
    <2>1. Good(j.wf, AfterApproval(j.inst, j.key.cmd))
      BY <1>0, <1>2, AfterApprovalGood DEF Executing
    <2>2. AfterExecute(j, s) = [j EXCEPT !.inst = AfterApproval(j.inst, j.key.cmd),
                                         !.consume = "ACCEPTED", !.events = 1]
      BY <1>2 DEF AfterExecute
    <2> QED
      BY <2>1, <2>2 DEF Job
  <1>3. CASE j.key.cmd \in L3_COMMAND_TYPES /\ s # "SUCCEEDED"
    <2>1. AfterExecute(j, s) \in Job /\ AfterExecute(j, s).inst \in WorkflowInstance
      BY AfterExecuteType DEF Job
    <2>2. /\ AfterExecute(j, s).wf = j.wf
          /\ AfterExecute(j, s).inst.workflow_state = j.inst.workflow_state
          /\ AfterExecute(j, s).inst.wait = j.inst.wait
      BY <1>0, <1>3 DEF AfterExecute, Job, WorkflowInstance
    <2> QED
      BY <1>0, <2>1, <2>2, GoodRewrite
  <1> QED
    BY <1>1, <1>2, <1>3

-----------------------------------------------------------------------------
(* Steps that only move a worker *)

\* A worker moves on with a good job; to an execution only with an approved
\* one.
LEMMA GotoGate ==
    ASSUME TypeOK, GateInv, NEW w \in Workers, NEW at \in PC, NEW k \in Job,
           Goto(w, at, k), UNCHANGED <<rows, signals, receipts>>,
           Good(k.wf, k.inst), at # "put_receipt",
           at = "execute" => Executing(k)
    PROVE  GateInv'
PROOF
  <1>1. /\ UNCHANGED <<rows, signals, receipts, applied, batch, view>>
        /\ pc' = [pc EXCEPT ![w] = at] /\ job' = [job EXCEPT ![w] = k]
        /\ pc \in [Workers -> PC] /\ job \in [Workers -> Job]
    BY DEF Goto, TypeOK
  <1>2. RowsGood' /\ BatchesGood' /\ ReceiptsBacked' /\ ViewsBacked' /\ HumanApproved'
    BY <1>1 DEF GateInv, RowsGood, BatchesGood, ReceiptsBacked, ViewsBacked,
                HumanApproved, Good
  <1>3. JobsGood'
    <2> SUFFICES ASSUME NEW v \in Workers PROVE Good(job[v].wf, job[v].inst)'
      BY DEF JobsGood
    <2>1. \A wf, inst : Good(wf, inst) => Backed(applied'[wf], inst.workflow_state) /\ Gated(inst)
      BY <1>1 DEF Good
    <2>2. Good(job'[v].wf, job'[v].inst)
      <3>1. CASE v = w
        BY <1>1, <3>1
      <3>2. CASE v # w
        BY <1>1, <3>2 DEF GateInv, JobsGood
      <3> QED
        BY <3>1, <3>2
    <2> QED
      BY <2>1, <2>2 DEF Good
  <1>4. ExecutesApproved'
    <2> SUFFICES ASSUME NEW v \in Workers
                 PROVE  /\ pc'[v] \in {"execute", "put_receipt"} => Executing(job[v])'
                        /\ pc'[v] = "put_receipt" => applied'[job'[v].wf][job'[v].key.cmd] > 0
      BY DEF ExecutesApproved
    <2>1. Executing(job[v])' <=> Executing(job'[v])
      BY <1>1 DEF Executing, Approves
    <2>2. CASE v = w
      BY <1>1, <2>1, <2>2
    <2>3. CASE v # w
      BY <1>1, <2>1, <2>3 DEF GateInv, ExecutesApproved
    <2> QED
      BY <2>2, <2>3
  <1> QED
    BY <1>2, <1>3, <1>4 DEF GateInv

\* Every branch of advance_once leaves with a good job, and only the gate
\* executes a consequential command, for an APPROVE of what it froze.
LEMMA AdvanceGate ==
    ASSUME TypeOK, GateInv, NEW w \in Workers, advance_once(w)
    PROVE  GateInv'
PROOF
  <1> DEFINE j == job[w]
             inst == job[w].inst
             wf == job[w].wf
  <1>1. /\ j \in Job /\ inst \in WorkflowInstance /\ wf \in Workflows
        /\ signals[wf] \in Seq(WorkflowSignal) /\ packets[wf] \in Nat
        /\ Good(wf, inst)
    BY DEF TypeOK, Job, GateInv, JobsGood
  <1>2. "execute" \in PC /\ "commit" \in PC /\ "refresh" \in PC /\ "write" \in PC
    BY DEF PC
  <1>3. UNCHANGED <<rows, signals, receipts>>
    BY DEF advance_once, _advance_received, _advance_normalized, _advance_human_gate,
           _advance_after_ledger, _advance_published, advance_once_other, store
  <1>4. CASE _advance_received(w)
    <2> DEFINE a == [j EXCEPT !.inst.workflow_state = "NORMALIZED",
                              !.inst.run_status = "PENDING",
                              !.key = KeyOf("import"), !.events = 1]
               b == [j EXCEPT !.inst.workflow_state = "BLOCKED",
                              !.inst.run_status = "WAITING_SIGNAL", !.events = 1]
    <2>1. /\ a \in Job /\ a.wf = wf /\ a.inst.workflow_state = "NORMALIZED"
          /\ a.key = KeyOf("import")
      BY <1>1, KeyTypes DEF Job, WorkflowInstance, WorkflowState, WorkflowRunStatus, Commands
    <2>2. b \in Job /\ b.wf = wf /\ b.inst.workflow_state = "BLOCKED"
      BY <1>1 DEF Job, WorkflowInstance, WorkflowState, WorkflowRunStatus
    <2>3. Goto(w, "execute", a) \/ Goto(w, "commit", b)
      BY <1>4 DEF _advance_received
    <2> HIDE DEF a, b
    <2>4. Good(a.wf, a.inst) /\ Good(b.wf, b.inst) /\ Executing(a)
      BY <2>1, <2>2 DEF Good, Backed, Gated, Executing, KeyOf, Commands, L3_COMMAND_TYPES
    <2> QED
      BY <1>2, <1>3, <2>1, <2>2, <2>3, <2>4, GotoGate
  <1>5. CASE _advance_normalized(w)
    <2> DEFINE key == [cmd |-> "approve", packet |-> packets[wf] + 1]
               gate == Released(Parked(inst, "REVIEW_PENDING", key, "set"))
               a == [j EXCEPT !.inst = Released(Parked(@, "REVIEW_PENDING", key, "set")),
                              !.key = KeyOf("allocate"), !.events = 1]
               b(hold) == [j EXCEPT !.inst.workflow_state = hold,
                                    !.inst.run_status = "WAITING_SIGNAL", !.events = 1]
    <2>1. /\ gate \in WorkflowInstance /\ gate.workflow_state = "REVIEW_PENDING"
          /\ gate.wait.cmd = "approve"
      <3>1. key \in Key /\ key.cmd = "approve"
        BY <1>1, KeyTypes
      <3> HIDE DEF key
      <3>2. Parked(inst, "REVIEW_PENDING", key, "set") \in WorkflowInstance
        BY <1>1, <3>1, ParkedType DEF WorkflowState
      <3>3. gate \in WorkflowInstance
        BY <3>2, RowTypes
      <3>4. gate.workflow_state = "REVIEW_PENDING" /\ gate.wait = key
        BY <1>1, <3>2 DEF Released, Parked, WorkflowInstance
      <3> QED
        BY <3>1, <3>3, <3>4
    <2>2. a \in Job /\ a.wf = wf /\ a.inst = gate /\ a.key = KeyOf("allocate")
      BY <1>1, <2>1, KeyTypes DEF Job, Commands
    <2>3. ASSUME NEW hold \in {"NEEDS_INFORMATION", "BLOCKED"}
          PROVE  b(hold) \in Job /\ b(hold).wf = wf /\ b(hold).inst.workflow_state = hold
      BY <1>1 DEF Job, WorkflowInstance, WorkflowState, WorkflowRunStatus
    <2>4. Goto(w, "execute", a)
          \/ \E hold \in {"NEEDS_INFORMATION", "BLOCKED"} : Goto(w, "commit", b(hold))
      BY <1>5 DEF _advance_normalized
    <2> HIDE DEF a, b, gate
    <2>5. Good(a.wf, a.inst) /\ Executing(a)
      BY <2>1, <2>2 DEF Good, Backed, Gated, Executing, KeyOf, Commands, L3_COMMAND_TYPES
    <2>6. \A hold \in {"NEEDS_INFORMATION", "BLOCKED"} : Good(b(hold).wf, b(hold).inst)
      BY <2>3 DEF Good, Backed, Gated
    <2>7. CASE Goto(w, "execute", a)
      BY <1>2, <1>3, <2>2, <2>5, <2>7, GotoGate
    <2>8. CASE \E hold \in {"NEEDS_INFORMATION", "BLOCKED"} : Goto(w, "commit", b(hold))
      <3>1. PICK hold \in {"NEEDS_INFORMATION", "BLOCKED"} : Goto(w, "commit", b(hold))
        BY <2>8
      <3> QED
        BY <1>2, <1>3, <2>3, <2>6, <3>1, GotoGate
    <2> QED
      BY <2>4, <2>7, <2>8
  <1>6. CASE _advance_human_gate(w)
    <2> DEFINE sigs == signals[wf]
               i == take_unconsumed(sigs, inst.wait)
               a == [j EXCEPT !.inst = Reparked(@)]
               b == [j EXCEPT !.sig = i, !.events = 1,
                              !.inst.run_status = "WAITING_SIGNAL",
                              !.consume = "REJECTED_INVALID"]
               c == [j EXCEPT !.sig = i, !.key = inst.wait]
    <2>1. i \in Nat /\ (i # 0 => i \in DOMAIN sigs /\ sigs[i].key = inst.wait)
      BY <1>1, TakenType
    <2>2. inst.wait \in Key
      BY <1>1 DEF WorkflowInstance
    <2>3. /\ \/ Goto(w, "commit", a)
             \/ Goto(w, "commit", b)
             \/ i # 0 /\ Authorized(sigs[i]) /\ Goto(w, "execute", c)
          /\ inst.workflow_state \in HUMAN_GATE_STATES
      <3>1. inst.workflow_state \in HUMAN_GATE_STATES
        BY <1>6 DEF _advance_human_gate, Advancing
      <3>2. CASE i = 0
        BY <1>6, <3>1, <3>2 DEF _advance_human_gate
      <3>3. CASE i # 0 /\ ~Authorized(sigs[i])
        BY <1>6, <3>1, <3>3 DEF _advance_human_gate
      <3>4. CASE i # 0 /\ Authorized(sigs[i])
        BY <1>6, <3>1, <3>4 DEF _advance_human_gate
      <3> QED
        BY <3>2, <3>3, <3>4
    <2> HIDE DEF i
    <2>4. /\ a \in Job /\ a.wf = wf /\ a.inst \in WorkflowInstance
          /\ a.inst.workflow_state = inst.workflow_state /\ a.inst.wait = inst.wait
      BY <1>1 DEF Job, Reparked, WorkflowInstance, WorkflowRunStatus
    <2>5. /\ b \in Job /\ b.wf = wf /\ b.inst \in WorkflowInstance
          /\ b.inst.workflow_state = inst.workflow_state /\ b.inst.wait = inst.wait
      BY <1>1, <2>1 DEF Job, WorkflowInstance, WorkflowRunStatus, SignalConsumeResult
    <2>6. /\ c \in Job /\ c.wf = wf /\ c.inst = inst /\ c.sig = i /\ c.key = inst.wait
      BY <1>1, <2>1, <2>2 DEF Job
    <2> HIDE DEF a, b, c
    <2>7. Good(a.wf, a.inst) /\ Good(b.wf, b.inst) /\ Good(c.wf, c.inst)
      BY <1>1, <2>4, <2>5, <2>6, GoodRewrite
    <2>8. ASSUME i # 0, Authorized(sigs[i])
          PROVE  Executing(c)
      <3>1. inst.wait.cmd \in Commands
        BY <1>1, <2>3 DEF Good, Gated, HUMAN_GATE_STATES, Commands, L3_COMMAND_TYPES
      <3>2. Approves(wf, i, inst.wait)
        BY <2>1, <2>8 DEF Approves, Authorized
      <3> QED
        BY <2>3, <2>6, <3>1, <3>2 DEF Executing
    <2> QED
      BY <1>2, <1>3, <2>3, <2>4, <2>5, <2>6, <2>7, <2>8, GotoGate
  <1>7. CASE _advance_after_ledger(w)
    <2> DEFINE gate == Parked(inst, "PUBLICATION_PENDING", KeyOf("publish"), "set")
               a == [j EXCEPT !.inst.run_status = "COMPLETED"]
               b == [j EXCEPT !.inst = Parked(@, "PUBLICATION_PENDING",
                                              KeyOf("publish"), "set"), !.events = 1]
    <2>1. /\ a \in Job /\ a.wf = wf /\ a.inst \in WorkflowInstance
          /\ a.inst.workflow_state = inst.workflow_state /\ a.inst.wait = inst.wait
      BY <1>1 DEF Job, WorkflowInstance, WorkflowRunStatus
    <2>2. gate \in WorkflowInstance
      BY <1>1, ParkedType, KeyTypes DEF WorkflowState, Commands, L3_COMMAND_TYPES
    <2>3. gate.workflow_state = "PUBLICATION_PENDING" /\ gate.wait.cmd = "publish"
      BY <1>1 DEF Parked, KeyOf, WorkflowInstance
    <2>4. b \in Job /\ b.wf = wf /\ b.inst = gate
      BY <1>1, <2>2 DEF Job
    <2>5. /\ Goto(w, "commit", a) \/ Goto(w, "commit", b)
          /\ inst.workflow_state = "LEDGER_COMMITTED"
      BY <1>7 DEF _advance_after_ledger, Advancing
    <2> HIDE DEF a, b, gate
    <2>6. Good(a.wf, a.inst)
      BY <1>1, <2>1, GoodRewrite
    <2>7. Good(b.wf, b.inst)
      BY <1>1, <2>3, <2>4, <2>5 DEF Good, Backed, Gated
    <2> QED
      BY <1>2, <1>3, <2>1, <2>4, <2>5, <2>6, <2>7, GotoGate
  <1>8. CASE _advance_published(w)
    <2> DEFINE gate == Parked(inst, "NOTIFICATION_PENDING", KeyOf("send"),
                              inst.wait_deadline)
               a == [j EXCEPT !.inst.run_status = "COMPLETED"]
               b == [j EXCEPT !.inst = Parked(@, "NOTIFICATION_PENDING", KeyOf("send"),
                                              inst.wait_deadline), !.events = 1]
    <2>1. /\ a \in Job /\ a.wf = wf /\ a.inst \in WorkflowInstance
          /\ a.inst.workflow_state = inst.workflow_state /\ a.inst.wait = inst.wait
      BY <1>1 DEF Job, WorkflowInstance, WorkflowRunStatus
    <2>2. gate \in WorkflowInstance
      <3>1. inst.wait_deadline \in {"none", "set", "past"}
        BY <1>1 DEF WorkflowInstance
      <3> QED
        BY <1>1, <3>1, ParkedType, KeyTypes DEF WorkflowState, Commands, L3_COMMAND_TYPES
    <2>3. gate.workflow_state = "NOTIFICATION_PENDING" /\ gate.wait.cmd = "send"
      BY <1>1 DEF Parked, KeyOf, WorkflowInstance
    <2>4. b \in Job /\ b.wf = wf /\ b.inst = gate
      BY <1>1, <2>2 DEF Job
    <2>5. /\ Goto(w, "commit", a) \/ Goto(w, "commit", b)
          /\ inst.workflow_state = "PUBLISHED"
      BY <1>8 DEF _advance_published, Advancing
    <2> HIDE DEF a, b, gate
    <2>6. Good(a.wf, a.inst)
      BY <1>1, <2>1, GoodRewrite
    <2>7. Good(b.wf, b.inst)
      BY <1>1, <2>3, <2>4, <2>5 DEF Good, Backed, Gated
    <2> QED
      BY <1>2, <1>3, <2>1, <2>4, <2>5, <2>6, <2>7, GotoGate
  <1>9. CASE advance_once_other(w)
    <2> DEFINE a == [j EXCEPT !.inst.run_status = "PENDING"]
    <2>1. /\ a \in Job /\ a.wf = wf /\ a.inst \in WorkflowInstance
          /\ a.inst.workflow_state = inst.workflow_state /\ a.inst.wait = inst.wait
      BY <1>1 DEF Job, WorkflowInstance, WorkflowRunStatus
    <2>2. JobOf(wf, Absent) \in Job
      BY <1>1, AbsentType, JobOfType
    <2>3. Goto(w, "refresh", JobOf(wf, Absent)) \/ Goto(w, "write", a)
      BY <1>9 DEF advance_once_other
    <2> HIDE DEF a
    <2>4. Good(a.wf, a.inst)
      BY <1>1, <2>1, GoodRewrite
    <2> QED
      BY <1>2, <1>3, <2>1, <2>2, <2>3, <2>4, NoJobGood, GotoGate
  <1> QED
    BY <1>4, <1>5, <1>6, <1>7, <1>8, <1>9 DEF advance_once

\* Signals are only appended and marked consumed.
SignalsKept ==
    \A wf \in Workflows : \A n \in DOMAIN signals[wf] :
        /\ n \in DOMAIN signals'[wf]
        /\ signals'[wf][n].decision = signals[wf][n].decision
        /\ signals'[wf][n].key = signals[wf][n].key

LEMMA Untouched ==
    /\ UNCHANGED signals => SignalsKept
    /\ GateInv /\ UNCHANGED <<applied, receipts>> => ReceiptsBacked'
    /\ GateInv /\ UNCHANGED <<applied, view>> => ViewsBacked'
BY DEF SignalsKept, GateInv, ReceiptsBacked, ViewsBacked

\* A step without effect on a ledger that keeps the signals, writes good rows
\* and good copies, and starts no execution.
LEMMA RowStepGate ==
    ASSUME TypeOK, GateInv, UNCHANGED applied, SignalsKept,
           ReceiptsBacked', ViewsBacked',
           \A wf \in Workflows : Good(wf, rows'[wf]),
           \A w \in Workers, wf \in Workflows : Good(wf, batch'[w][wf]),
           \A w \in Workers : \/ pc'[w] = pc[w] /\ job'[w] = job[w]
                              \/ /\ pc'[w] \notin {"execute", "put_receipt"}
                                 /\ Good(job'[w].wf, job'[w].inst)
    PROVE  GateInv'
PROOF
  <1>1. \A wf, inst : Good(wf, inst) => Backed(applied'[wf], inst.workflow_state) /\ Gated(inst)
    BY DEF Good
  <1>2. RowsGood' /\ BatchesGood'
    BY <1>1 DEF RowsGood, BatchesGood, Good
  <1>3. JobsGood'
    <2>1. \A w \in Workers : Good(job'[w].wf, job'[w].inst)
      BY DEF GateInv, JobsGood
    <2> QED
      BY <1>1, <2>1 DEF JobsGood, Good
  <1>4. HumanApproved'
    <2> SUFFICES ASSUME NEW wf \in Workflows, NEW c \in L3_COMMAND_TYPES, applied[wf][c] > 0
                 PROVE  \E i \in DOMAIN signals'[wf] :
                           /\ signals'[wf][i].decision = "APPROVE"
                           /\ signals'[wf][i].key.cmd = c
      BY DEF HumanApproved
    <2>1. PICK i \in DOMAIN signals[wf] :
             signals[wf][i].decision = "APPROVE" /\ signals[wf][i].key.cmd = c
      BY DEF GateInv, HumanApproved
    <2> QED
      BY <2>1 DEF SignalsKept
  <1>5. ExecutesApproved'
    <2> SUFFICES ASSUME NEW w \in Workers
                 PROVE  /\ pc'[w] \in {"execute", "put_receipt"} => Executing(job[w])'
                        /\ pc'[w] = "put_receipt" => applied[job'[w].wf][job'[w].key.cmd] > 0
      BY DEF ExecutesApproved
    <2>1. CASE pc'[w] = pc[w] /\ job'[w] = job[w]
      <3>1. job[w].wf \in Workflows
        BY DEF TypeOK, Job
      <3>2. ASSUME Executing(job[w]) PROVE Executing(job[w])'
        BY <2>1, <3>1, <3>2 DEF Executing, Approves, SignalsKept
      <3> QED
        BY <2>1, <3>2 DEF GateInv, ExecutesApproved
    <2>2. CASE pc'[w] \notin {"execute", "put_receipt"}
      BY <2>2
    <2> QED
      BY <2>1, <2>2
  <1> QED
    BY <1>2, <1>3, <1>4, <1>5 DEF GateInv

-----------------------------------------------------------------------------
(* The executor: the one place where a command takes effect *)

\* execute runs a consequential command only for the APPROVE it holds.
LEMMA ExecuteGate ==
    ASSUME TypeOK, GateInv, NEW w \in Workers, execute(w)
    PROVE  GateInv'
PROOF
  <1> DEFINE j == job[w]
             wf == job[w].wf
             cmd == job[w].key.cmd
  <1>1. /\ j \in Job /\ wf \in Workflows /\ Good(wf, j.inst) /\ Executing(j)
        /\ cmd \in Commands /\ pc[w] = "execute"
    BY DEF TypeOK, Job, GateInv, JobsGood, ExecutesApproved, execute, Executing
  <1>2. UNCHANGED <<rows, signals, receipts, batch>>
    BY DEF execute, store
  <1>3. \/ /\ pc' = [pc EXCEPT ![w] = "commit"]
           /\ job' = [job EXCEPT ![w] = AfterExecute(j, "SUCCEEDED")]
           /\ j.key \in receipts[wf]
           /\ UNCHANGED <<applied, view>>
        \/ \E o \in Outcomes(view[w][wf], cmd) :
              /\ view' = [view EXCEPT ![w][wf] = Learned(@, cmd, o)]
              /\ applied' = IF o = "ok" THEN [applied EXCEPT ![wf][cmd] = @ + 1]
                            ELSE applied
              /\ IF o \in {"ok", "noop"}
                 THEN pc' = [pc EXCEPT ![w] = "put_receipt"] /\ job' = job
                 ELSE /\ pc' = [pc EXCEPT ![w] = "commit"]
                      /\ job' = [job EXCEPT ![w] = AfterExecute(j, o)]
    <2>1. CASE j.key \in receipts[wf]
      BY <2>1 DEF execute
    <2>2. CASE j.key \notin receipts[wf]
      BY <2>2 DEF execute
    <2> QED
      BY <2>1, <2>2
  <1>4. CASE /\ pc' = [pc EXCEPT ![w] = "commit"]
             /\ job' = [job EXCEPT ![w] = AfterExecute(j, "SUCCEEDED")]
             /\ j.key \in receipts[wf]
             /\ UNCHANGED <<applied, view>>
    <2>1. applied[wf][cmd] > 0
      BY <1>1, <1>4 DEF GateInv, ReceiptsBacked
    <2>2. /\ AfterExecute(j, "SUCCEEDED") \in Job /\ AfterExecute(j, "SUCCEEDED").wf = wf
          /\ Good(wf, AfterExecute(j, "SUCCEEDED").inst)
      BY <1>1, <2>1, AfterExecuteType, AfterExecuteGood
    <2>3. Goto(w, "commit", AfterExecute(j, "SUCCEEDED"))
      BY <1>2, <1>4 DEF Goto, execute
    <2>4. "commit" \in PC
      BY DEF PC
    <2> QED
      BY <1>2, <2>2, <2>3, <2>4, GotoGate
  <1>5. ASSUME NEW o \in Outcomes(view[w][wf], cmd),
               view' = [view EXCEPT ![w][wf] = Learned(@, cmd, o)],
               applied' = IF o = "ok" THEN [applied EXCEPT ![wf][cmd] = @ + 1]
                          ELSE applied,
               IF o \in {"ok", "noop"}
               THEN pc' = [pc EXCEPT ![w] = "put_receipt"] /\ job' = job
               ELSE /\ pc' = [pc EXCEPT ![w] = "commit"]
                    /\ job' = [job EXCEPT ![w] = AfterExecute(j, o)]
        PROVE  GateInv'
    <2>1. /\ applied \in [Workflows -> [Commands -> Nat]]
          /\ view \in [Workers -> [Workflows -> SUBSET Knowledge]]
          /\ job \in [Workers -> Job] /\ pc \in [Workers -> PC]
      BY DEF TypeOK
    <2>2. \A x \in Workflows, c \in Commands :
             /\ applied[x][c] \in Nat /\ applied'[x][c] \in Nat
             /\ applied'[x][c] >= applied[x][c]
             /\ applied'[x][c] # applied[x][c] => x = wf /\ c = cmd
      BY <1>1, <1>5, <2>1
    <2>3. o = "ok" => applied'[wf][cmd] > 0
      BY <1>1, <1>5, <2>1
    <2>4. o = "noop" => cmd \in view[w][wf]
      BY <1>5 DEF Outcomes
    <2>5. o \in {"ok", "noop"} => applied'[wf][cmd] > 0
      <3>1. o = "noop" => applied[wf][cmd] > 0
        BY <1>1, <2>4 DEF GateInv, ViewsBacked
      <3> QED
        BY <1>1, <2>2, <2>3, <3>1
    <2>6. ASSUME NEW x \in Workflows, NEW inst, Good(x, inst)
          PROVE  Backed(applied'[x], inst.workflow_state) /\ Gated(inst)
      <3>1. \A c \in Commands : applied[x][c] > 0 => applied'[x][c] > 0
        BY <2>2
      <3>2. {"approve", "publish", "send"} \subseteq Commands
        BY DEF Commands, L3_COMMAND_TYPES
      <3> QED
        BY <2>6, <3>1, <3>2 DEF Good, Backed
    <2>7. RowsGood' /\ BatchesGood'
      BY <1>2, <2>6 DEF GateInv, RowsGood, BatchesGood, Good
    <2>8. ReceiptsBacked'
      BY <1>2, <2>2 DEF GateInv, ReceiptsBacked
    <2>9. ViewsBacked'
      <3> SUFFICES ASSUME NEW v \in Workers, NEW x \in Workflows, NEW c \in view'[v][x],
                          c \in Commands
                   PROVE  applied'[x][c] > 0
        BY DEF ViewsBacked
      <3>1. CASE c \in view[v][x]
        BY <2>2, <3>1 DEF GateInv, ViewsBacked
      <3>2. CASE c \notin view[v][x]
        <4>1. v = w /\ x = wf /\ c \in Learned(view[w][wf], cmd, o)
          BY <1>1, <1>5, <2>1, <3>2
        <4>2. c = cmd /\ o = "ok"
          BY <3>2, <4>1 DEF Learned, Commands, L3_COMMAND_TYPES
        <4> QED
          BY <2>3, <4>1, <4>2
      <3> QED
        BY <3>1, <3>2
    <2>10. HumanApproved'
      <3> SUFFICES ASSUME NEW x \in Workflows, NEW c \in L3_COMMAND_TYPES,
                          applied'[x][c] > 0
                   PROVE  \E i \in DOMAIN signals[x] :
                             signals[x][i].decision = "APPROVE" /\ signals[x][i].key.cmd = c
        BY <1>2 DEF HumanApproved
      <3>1. c \in Commands
        BY DEF Commands
      <3>2. CASE applied[x][c] > 0
        BY <3>2 DEF GateInv, HumanApproved
      <3>3. CASE ~(applied[x][c] > 0)
        <4>1. x = wf /\ c = cmd
          BY <2>2, <3>1, <3>3
        <4>2. Approves(wf, j.sig, j.key)
          BY <1>1, <4>1 DEF Executing
        <4> QED
          BY <4>1, <4>2 DEF Approves
      <3> QED
        BY <3>2, <3>3
    <2>11. ASSUME o \notin {"ok", "noop"}
           PROVE  /\ AfterExecute(j, o).wf = wf
                  /\ Good(wf, AfterExecute(j, o).inst)
      <3>1. o # "SUCCEEDED"
        BY <1>5 DEF Outcomes
      <3> QED
        BY <1>1, <3>1, AfterExecuteGood
    <2>12. JobsGood'
      <3> SUFFICES ASSUME NEW v \in Workers
                   PROVE  Good(job'[v].wf, job'[v].inst) /\ job'[v].wf \in Workflows
        BY <2>6 DEF JobsGood, Good
      <3>1. CASE v = w /\ o \notin {"ok", "noop"}
        BY <1>1, <1>5, <2>1, <2>11, <3>1
      <3>2. CASE ~(v = w /\ o \notin {"ok", "noop"})
        <4>1. job'[v] = job[v]
          BY <1>5, <2>1, <3>2
        <4> QED
          BY <4>1, <2>1 DEF GateInv, JobsGood, Job
      <3> QED
        BY <3>1, <3>2
    <2>13. ExecutesApproved'
      <3> SUFFICES ASSUME NEW v \in Workers
                   PROVE  /\ pc'[v] \in {"execute", "put_receipt"} => Executing(job'[v])
                          /\ pc'[v] = "put_receipt" =>
                                applied'[job'[v].wf][job'[v].key.cmd] > 0
        BY <1>2 DEF ExecutesApproved, Executing, Approves
      <3>1. CASE v = w /\ o \in {"ok", "noop"}
        BY <1>1, <1>5, <2>1, <2>5, <3>1
      <3>2. CASE v = w /\ o \notin {"ok", "noop"}
        BY <1>5, <2>1, <3>2
      <3>3. CASE v # w
        <4>1. pc'[v] = pc[v] /\ job'[v] = job[v] /\ job[v].wf \in Workflows
          BY <1>5, <2>1, <3>3 DEF Job
        <4>2. pc[v] = "put_receipt" => job[v].key.cmd \in Commands
          BY DEF GateInv, ExecutesApproved, Executing
        <4> QED
          BY <2>2, <4>1, <4>2 DEF GateInv, ExecutesApproved
      <3> QED
        BY <3>1, <3>2, <3>3
    <2> QED
      BY <2>7, <2>8, <2>9, <2>10, <2>12, <2>13 DEF GateInv
  <1> QED
    BY <1>3, <1>4, <1>5

-----------------------------------------------------------------------------
(* Every step *)

\* The steps of a worker keep the gates.
LEMMA WorkerGate ==
    ASSUME TypeOK, GateInv, NEW w \in Workers, tick(w)
    PROVE  GateInv'
PROOF
  <1> DEFINE j == job[w]
             inst == job[w].inst
             wf == job[w].wf
  <1>1. /\ j \in Job /\ inst \in WorkflowInstance /\ wf \in Workflows
        /\ Good(wf, inst) /\ Good(wf, rows[wf]) /\ rows[wf] \in WorkflowInstance
        /\ inst.event_seq \in Nat /\ events[wf] \in Nat
        /\ j.sig \in Nat /\ j.consume \in SignalConsumeResult
    BY DEF TypeOK, Job, WorkflowInstance, GateInv, JobsGood, RowsGood
  <1>2. /\ \A x \in Workflows : Good(x, rows[x]) /\ rows[x] \in WorkflowInstance
        /\ \A v \in Workers, x \in Workflows :
              Good(x, batch[v][x]) /\ batch[v][x] \in WorkflowInstance
        /\ pc \in [Workers -> PC] /\ job \in [Workers -> Job]
        /\ rows \in [Workflows -> WorkflowInstance]
        /\ batch \in [Workers -> [Workflows -> WorkflowInstance]]
    BY DEF TypeOK, GateInv, RowsGood, BatchesGood
  <1>3. ASSUME NEW n \in Nat
        PROVE  [inst EXCEPT !.event_seq = n] \in WorkflowInstance
               /\ Good(wf, [inst EXCEPT !.event_seq = n])
    <2>1. [inst EXCEPT !.event_seq = n] \in WorkflowInstance
      BY <1>1, RowTypes
    <2>2. /\ [inst EXCEPT !.event_seq = n].workflow_state = inst.workflow_state
          /\ [inst EXCEPT !.event_seq = n].wait = inst.wait
      BY <1>1 DEF WorkflowInstance
    <2> QED
      BY <1>1, <2>1, <2>2, GoodRewrite
  <1>4. NextSeq(wf, inst) \in Nat
    BY <1>1 DEF NextSeq
  <1>5. ASSUME NEW x \in Workflows, NEW r \in WorkflowInstance, Good(x, r)
        PROVE  /\ Good(x, Claimed(r))
               /\ JobOf(x, r).wf = x /\ JobOf(x, r).inst = r
               /\ JobOf(x, DeadLettered(r)).wf = x
               /\ Good(x, JobOf(x, DeadLettered(r)).inst)
               /\ JobOf(x, r) \in Job /\ JobOf(x, DeadLettered(r)) \in Job
    <2>1. Claimed(r) \in WorkflowInstance /\ DeadLettered(r) \in WorkflowInstance
      BY RowTypes
    <2>2. /\ Claimed(r).workflow_state = r.workflow_state /\ Claimed(r).wait = r.wait
          /\ DeadLettered(r).workflow_state = r.workflow_state
          /\ DeadLettered(r).wait = r.wait
      BY DEF Claimed, DeadLettered, WorkflowInstance
    <2>3. Good(x, Claimed(r)) /\ Good(x, DeadLettered(r))
      BY <1>5, <2>1, <2>2, GoodRewrite
    <2>4. JobOf(x, r) \in Job /\ JobOf(x, DeadLettered(r)) \in Job
      BY <2>1, JobOfType
    <2> QED
      BY <2>3, <2>4 DEF JobOf
  <1>6. CASE claim(w)
    <2>1. PICK B \in SUBSET Workflows :
             /\ rows' = [x \in Workflows |->
                           IF x \in B THEN Claimed(rows[x]) ELSE rows[x]]
             /\ batch' = [batch EXCEPT ![w] = [x \in Workflows |->
                           IF x \in B THEN Claimed(rows[x]) ELSE Absent]]
      BY <1>6 DEF claim
    <2>2. UNCHANGED <<signals, receipts, applied, pc, job, view>>
      BY <1>6 DEF claim
    <2>3. \A x \in Workflows : Good(x, Claimed(rows[x]))
      BY <1>2, <1>5
    <2>4. \A x \in Workflows : Good(x, rows'[x])
      BY <1>2, <2>1, <2>3
    <2>5. \A v \in Workers, x \in Workflows : Good(x, batch'[v][x])
      BY <1>2, <2>1, <2>3, AbsentGood
    <2>6. \A v \in Workers : pc'[v] = pc[v] /\ job'[v] = job[v]
      BY <2>2
    <2>7. SignalsKept /\ ReceiptsBacked' /\ ViewsBacked'
      BY <2>2, Untouched
    <2> QED
      BY <2>2, <2>4, <2>5, <2>6, <2>7, RowStepGate
  <1>7. CASE \E x \in Workflows : _process_one(w, x)
    <2>1. PICK x \in Workflows : _process_one(w, x)
      BY <1>7
    <2>2. UNCHANGED <<rows, signals, receipts, applied, view>>
      BY <2>1 DEF _process_one, store
    <2>3. \A v \in Workers, y \in Workflows : Good(y, batch'[v][y])
      BY <1>2, <2>1, AbsentGood DEF _process_one
    <2>4. \E at \in {"write", "advance"} :
             \E k \in {JobOf(x, DeadLettered(batch[w][x])), JobOf(x, rows[x])} :
                pc' = [pc EXCEPT ![w] = at] /\ job' = [job EXCEPT ![w] = k]
      BY <2>1 DEF _process_one
    <2>5. \A k \in {JobOf(x, DeadLettered(batch[w][x])), JobOf(x, rows[x])} :
             Good(k.wf, k.inst)
      BY <1>2, <1>5
    <2>6. \A v \in Workers : \/ pc'[v] = pc[v] /\ job'[v] = job[v]
                             \/ /\ pc'[v] \notin {"execute", "put_receipt"}
                                /\ Good(job'[v].wf, job'[v].inst)
      BY <1>2, <2>4, <2>5
    <2>7. SignalsKept /\ ReceiptsBacked' /\ ViewsBacked'
      BY <2>2, Untouched
    <2>8. \A y \in Workflows : Good(y, rows'[y])
      BY <1>2, <2>2
    <2> QED
      BY <2>2, <2>3, <2>6, <2>7, <2>8, RowStepGate
  <1>8. CASE advance_once(w)
    BY <1>8, AdvanceGate
  <1>9. CASE execute(w)
    BY <1>9, ExecuteGate
  <1>10. CASE _store_receipt(w)
    <2>1. Executing(j) /\ applied[wf][j.key.cmd] > 0
      BY <1>10 DEF _store_receipt, GateInv, ExecutesApproved
    <2>2. \A s : AfterExecute(j, s).wf = wf /\ Good(wf, AfterExecute(j, s).inst)
      BY <1>1, <2>1, AfterExecuteGood
    <2>3. \E s \in {"SUCCEEDED", "RETRYABLE"} : Goto(w, "commit", AfterExecute(j, s))
      BY <1>10 DEF _store_receipt
    <2>4. UNCHANGED <<rows, signals, applied, view, batch>>
      BY <1>10, <2>3 DEF _store_receipt, Goto
    <2>5. ReceiptsBacked'
      <3>1. \/ receipts' = receipts
            \/ receipts' = [receipts EXCEPT ![wf] = receipts[wf] \cup {j.key}]
        BY <1>10 DEF _store_receipt
      <3>2. j.key.cmd \in Commands /\ receipts \in [Workflows -> SUBSET Key]
        BY <2>1 DEF Executing, TypeOK
      <3>3. \A x \in Workflows : \A k \in receipts'[x] :
               k \in receipts[x] \/ (x = wf /\ k = j.key)
        BY <3>1, <3>2
      <3> QED
        BY <2>1, <2>4, <3>2, <3>3 DEF GateInv, ReceiptsBacked
    <2>6. SignalsKept /\ ViewsBacked'
      BY <2>4, Untouched
    <2>7. \A v \in Workers : \/ pc'[v] = pc[v] /\ job'[v] = job[v]
                             \/ /\ pc'[v] \notin {"execute", "put_receipt"}
                                /\ Good(job'[v].wf, job'[v].inst)
      BY <1>2, <2>2, <2>3 DEF Goto
    <2>8. /\ \A x \in Workflows : Good(x, rows'[x])
          /\ \A v \in Workers, x \in Workflows : Good(x, batch'[v][x])
      BY <1>2, <2>4
    <2> QED
      BY <2>4, <2>5, <2>6, <2>7, <2>8, RowStepGate
  <1>11. CASE commit_advance(w)
    <2> DEFINE seq == IF j.events = 1 THEN NextSeq(wf, inst) ELSE inst.event_seq
    <2>1. seq \in Nat
      BY <1>1, <1>4
    <2>2. /\ rows' = rows \/ rows' = [rows EXCEPT ![wf] = [inst EXCEPT !.event_seq = seq]]
          /\ \/ signals' = signals
             \/ signals' = [signals EXCEPT ![wf] = Consume(signals[wf], j.sig, j.consume)]
          /\ \/ Goto(w, "error", Failure(wf, Store # "postgres"))
             \/ Goto(w, "refresh", JobOf(wf, Absent))
          /\ UNCHANGED receipts
      BY <1>11 DEF commit_advance, store
    <2> HIDE DEF seq
    <2>3. \A x \in Workflows : Good(x, rows'[x])
      BY <1>2, <1>3, <2>1, <2>2
    <2>4. UNCHANGED <<applied, view, batch>>
      BY <2>2 DEF Goto
    <2>5. SignalsKept
      <3>1. signals \in [Workflows -> Seq(WorkflowSignal)] /\ signals[wf] \in Seq(WorkflowSignal)
        BY <1>1 DEF TypeOK
      <3>2. LET c == Consume(signals[wf], j.sig, j.consume) IN
            /\ DOMAIN c = DOMAIN signals[wf]
            /\ \A n \in DOMAIN signals[wf] : /\ c[n].decision = signals[wf][n].decision
                                             /\ c[n].key = signals[wf][n].key
        BY <1>1, <3>1, ConsumeType
      <3> QED
        BY <2>2, <3>1, <3>2 DEF SignalsKept
    <2>6. ReceiptsBacked' /\ ViewsBacked'
      BY <2>2, <2>4, Untouched
    <2>7. \A v \in Workers : \/ pc'[v] = pc[v] /\ job'[v] = job[v]
                             \/ /\ pc'[v] \notin {"execute", "put_receipt"}
                                /\ Good(job'[v].wf, job'[v].inst)
      BY <1>2, <2>2, NoJobGood DEF Goto
    <2>8. \A v \in Workers, x \in Workflows : Good(x, batch'[v][x])
      BY <1>2, <2>4
    <2> QED
      BY <2>3, <2>4, <2>5, <2>6, <2>7, <2>8, RowStepGate
  <1>12. CASE advance_raises(w)
    <2>1. PICK b \in BOOLEAN : Goto(w, "error", Failure(wf, b))
      BY <1>12 DEF advance_raises
    <2>2. Failure(wf, b) \in Job /\ "error" \in PC
      BY <1>1, FailureType DEF PC
    <2>3. UNCHANGED <<rows, signals, receipts>>
      BY <1>12 DEF advance_raises, store
    <2> QED
      BY <2>1, <2>2, <2>3, NoJobGood, GotoGate
  <1>13. CASE _process_one_refresh(w)
    <2>1. \/ Goto(w, "idle", NoJob)
          \/ Goto(w, "write", JobOf(wf, DeadLettered(rows[wf])))
          \/ Goto(w, "write", JobOf(wf, rows[wf]))
      BY <1>13 DEF _process_one_refresh
    <2>2. UNCHANGED <<rows, signals, receipts>>
      BY <1>13 DEF _process_one_refresh, store
    <2>3. "idle" \in PC /\ "write" \in PC
      BY DEF PC
    <2>4. /\ JobOf(wf, DeadLettered(rows[wf])) \in Job /\ JobOf(wf, rows[wf]) \in Job
          /\ JobOf(wf, DeadLettered(rows[wf])).wf = wf
          /\ Good(wf, JobOf(wf, DeadLettered(rows[wf])).inst)
          /\ JobOf(wf, rows[wf]).wf = wf /\ JobOf(wf, rows[wf]).inst = rows[wf]
      BY <1>1, <1>5
    <2> QED
      BY <1>1, <2>1, <2>2, <2>3, <2>4, NoJobType, NoJobGood, GotoGate
  <1>14. CASE _handle_process_error(w)
    <2> DEFINE cur == [rows[wf] EXCEPT !.attempt_count = @ + 1]
               retry == [cur EXCEPT !.run_status = "RETRY_SCHEDULED", !.lease = "none"]
    <2>1. Goto(w, "write", JobOf(wf, DeadLettered(cur))) \/ Goto(w, "write", JobOf(wf, retry))
      BY <1>14 DEF _handle_process_error
    <2>2. UNCHANGED <<rows, signals, receipts>>
      BY <1>14 DEF _handle_process_error, store
    <2>3. /\ cur \in WorkflowInstance
          /\ cur.workflow_state = rows[wf].workflow_state /\ cur.wait = rows[wf].wait
      BY <1>1 DEF WorkflowInstance
    <2> HIDE DEF cur
    <2>7. /\ retry \in WorkflowInstance
          /\ retry.workflow_state = rows[wf].workflow_state /\ retry.wait = rows[wf].wait
      BY <2>3 DEF WorkflowInstance, WorkflowRunStatus
    <2> HIDE DEF retry
    <2>4. Good(wf, cur) /\ Good(wf, retry)
      BY <1>1, <2>3, <2>7, GoodRewrite
    <2>5. /\ JobOf(wf, DeadLettered(cur)) \in Job /\ JobOf(wf, retry) \in Job
          /\ JobOf(wf, DeadLettered(cur)).wf = wf
          /\ Good(wf, JobOf(wf, DeadLettered(cur)).inst)
          /\ JobOf(wf, retry).wf = wf /\ JobOf(wf, retry).inst = retry
      BY <1>1, <1>5, <2>3, <2>4, <2>7
    <2>6. "write" \in PC
      BY DEF PC
    <2> QED
      BY <2>1, <2>2, <2>4, <2>5, <2>6, GotoGate
  <1>15. CASE update_instance(w)
    <2> DEFINE logs == inst.run_status = "DEAD_LETTER" /\ ~Collides(wf, inst)
               seq == IF logs THEN NextSeq(wf, inst) ELSE inst.event_seq
    <2>1. seq \in Nat
      BY <1>1, <1>4
    <2>2. /\ rows' = [rows EXCEPT ![wf] = [inst EXCEPT !.event_seq = seq]]
          /\ Goto(w, "idle", NoJob) /\ UNCHANGED <<signals, receipts>>
      BY <1>15 DEF update_instance
    <2> HIDE DEF seq
    <2>3. \A x \in Workflows : Good(x, rows'[x])
      BY <1>2, <1>3, <2>1, <2>2
    <2>4. UNCHANGED <<applied, view, batch>>
      BY <2>2 DEF Goto
    <2>5. SignalsKept /\ ReceiptsBacked' /\ ViewsBacked'
      BY <2>2, <2>4, Untouched
    <2>6. \A v \in Workers : \/ pc'[v] = pc[v] /\ job'[v] = job[v]
                             \/ /\ pc'[v] \notin {"execute", "put_receipt"}
                                /\ Good(job'[v].wf, job'[v].inst)
      BY <1>2, <2>2, NoJobGood DEF Goto
    <2>7. \A v \in Workers, x \in Workflows : Good(x, batch'[v][x])
      BY <1>2, <2>4
    <2> QED
      BY <2>3, <2>4, <2>5, <2>6, <2>7, RowStepGate
  <1> QED
    BY <1>6, <1>7, <1>8, <1>9, <1>10, <1>11, <1>12, <1>13, <1>14, <1>15 DEF tick

\* Operators, the sweeper, the clock and restarts keep the gates: a restart
\* rebuilds a ledger from logged commands, all of which took effect.
LEMMA EnvironmentGate ==
    ASSUME TypeOK, GateInv, [Next]_vars, ~\E w \in Workers : tick(w)
    PROVE  GateInv'
PROOF
  <1>1. /\ \A x \in Workflows : Good(x, rows[x]) /\ rows[x] \in WorkflowInstance
        /\ rows \in [Workflows -> WorkflowInstance]
        /\ \A v \in Workers, x \in Workflows : Good(x, batch[v][x])
    BY DEF TypeOK, GateInv, RowsGood, BatchesGood
  <1>2. ASSUME UNCHANGED <<applied, receipts, view, pc, job, batch>>, SignalsKept,
               \A x \in Workflows : Good(x, rows'[x])
        PROVE  GateInv'
    <2>1. ReceiptsBacked' /\ ViewsBacked'
      BY <1>2, Untouched
    <2>2. \A v \in Workers : pc'[v] = pc[v] /\ job'[v] = job[v]
      BY <1>2
    <2>3. \A v \in Workers, x \in Workflows : Good(x, batch'[v][x])
      BY <1>1, <1>2
    <2> QED
      BY <1>2, <2>1, <2>2, <2>3, RowStepGate
  <1>3. ASSUME UNCHANGED <<applied, receipts, view, pc, job, batch>>, SignalsKept,
               NEW wf \in Workflows, NEW r \in WorkflowInstance,
               rows' = [rows EXCEPT ![wf] = r],
               \/ r.workflow_state \in {"RECEIVED", "NEEDS_INFORMATION"}
               \/ r.workflow_state = rows[wf].workflow_state /\ r.wait = rows[wf].wait
        PROVE  GateInv'
    <2>1. CASE r.workflow_state \in {"RECEIVED", "NEEDS_INFORMATION"}
      <3>1. Good(wf, r)
        BY <2>1 DEF Good, Backed, Gated
      <3> QED
        BY <1>1, <1>2, <1>3, <3>1
    <2>2. CASE r.workflow_state = rows[wf].workflow_state /\ r.wait = rows[wf].wait
      <3>1. Good(wf, r)
        BY <1>1, <2>2, GoodRewrite
      <3> QED
        BY <1>1, <1>2, <1>3, <3>1
    <2> QED
      BY <1>3, <2>1, <2>2
  <1>4. CASE \E wf \in Workflows, p \in BOOLEAN :
               \E e \in {FALSE, p} : start_expense_to_receipt(wf, p, e)
    <2>1. PICK wf \in Workflows, p \in BOOLEAN, e \in BOOLEAN :
             start_expense_to_receipt(wf, p, e)
      BY <1>4
    <2> DEFINE r == [Absent EXCEPT !.workflow_state = "RECEIVED", !.run_status = "PENDING",
                         !.publish_spec = p, !.send_email = e, !.event_seq = 1]
    <2>2. r \in WorkflowInstance /\ r.workflow_state = "RECEIVED"
      BY AbsentType DEF WorkflowInstance, WorkflowState, WorkflowRunStatus
    <2>3. /\ UNCHANGED <<signals, applied, receipts, view, pc, job, batch>>
          /\ rows' = [rows EXCEPT ![wf] = r]
      BY <2>1 DEF start_expense_to_receipt, worker
    <2> HIDE DEF r
    <2> QED
      BY <1>3, <2>2, <2>3, Untouched
  <1>5. CASE \E wf \in Workflows : list_operator_cases(wf)
    <2>1. UNCHANGED <<rows, signals, applied, receipts, view, pc, job, batch>>
      BY <1>5 DEF list_operator_cases, store, worker
    <2> QED
      BY <1>1, <1>2, <2>1, Untouched
  <1>6. ASSUME NEW wf \in Workflows, NEW k \in Key, NEW d \in SignalDecision,
               enqueue_signal_and_wake(wf, k, d)
        PROVE  GateInv'
    <2> DEFINE s == [key |-> k, decision |-> d, result |-> "none"]
               r == [rows[wf] EXCEPT !.run_status = "PENDING", !.lease = "none"]
    <2>1. r \in WorkflowInstance /\ r.workflow_state = rows[wf].workflow_state
                                 /\ r.wait = rows[wf].wait
      BY <1>1 DEF WorkflowInstance, WorkflowRunStatus
    <2>2. /\ UNCHANGED <<applied, receipts, view, pc, job, batch>>
          /\ rows' = [rows EXCEPT ![wf] = r]
          /\ signals' = [signals EXCEPT ![wf] = Append(signals[wf], s)]
      BY <1>1, <1>6 DEF enqueue_signal_and_wake, worker
    <2>3. SignalsKept
      <3>1. /\ signals \in [Workflows -> Seq(WorkflowSignal)]
            /\ signals[wf] \in Seq(WorkflowSignal)
        BY DEF TypeOK
      <3>2. s \in WorkflowSignal
        BY DEF WorkflowSignal, SignalConsumeResult
      <3> HIDE DEF s
      <3>3. \A n \in DOMAIN signals[wf] : /\ n \in DOMAIN Append(signals[wf], s)
                                          /\ Append(signals[wf], s)[n] = signals[wf][n]
        BY <3>1, <3>2, AppendProperties
      <3> QED
        BY <2>2, <3>1, <3>3 DEF SignalsKept
    <2> HIDE DEF r
    <2> QED
      BY <1>3, <2>1, <2>2, <2>3
  <1>7. CASE \E wf \in Workflows, d \in {"APPROVE", "REJECT"} : signal_approval(wf, d)
    <2>1. \A wf \in Workflows : case[wf] \in Key
      BY DEF TypeOK
    <2> QED
      BY <1>6, <1>7, <2>1 DEF signal_approval, SignalDecision
  <1>8. CASE \E wf \in Workflows : signal_operator(wf)
    BY <1>6, <1>8, KeyTypes DEF signal_operator, SignalDecision
  <1>9. CASE \E wf \in Workflows : sweep_approval_timeouts(wf)
    <2>1. PICK wf \in Workflows : sweep_approval_timeouts(wf)
      BY <1>9
    <2> DEFINE seq == NextSeq(wf, rows[wf])
               r == [rows[wf] EXCEPT !.workflow_state = "NEEDS_INFORMATION",
                       !.wait = NoKey, !.wait_expired = TRUE,
                       !.wait_deadline = "none", !.timeout_applied = TRUE,
                       !.event_seq = seq]
    <2>2. /\ UNCHANGED <<signals, applied, receipts, view, pc, job, batch>>
          /\ rows' = [rows EXCEPT ![wf] = r]
      BY <2>1 DEF sweep_approval_timeouts, worker
    <2>3. seq \in Nat
      BY <1>1 DEF NextSeq, TypeOK, WorkflowInstance
    <2> HIDE DEF seq
    <2>4. r \in WorkflowInstance /\ r.workflow_state = "NEEDS_INFORMATION"
      BY <1>1, <2>3, KeyTypes DEF WorkflowInstance, WorkflowState
    <2> HIDE DEF r
    <2> QED
      BY <1>3, <2>2, <2>4, Untouched
  <1>10. CASE \E wf \in Workflows : lease_expires(wf)
    <2>1. PICK wf \in Workflows : lease_expires(wf)
      BY <1>10
    <2> DEFINE r == [rows[wf] EXCEPT !.lease = "expired"]
    <2>2. r \in WorkflowInstance /\ r.workflow_state = rows[wf].workflow_state
                                 /\ r.wait = rows[wf].wait
      BY <1>1 DEF WorkflowInstance
    <2>3. /\ UNCHANGED <<signals, applied, receipts, view, pc, job, batch>>
          /\ rows' = [rows EXCEPT ![wf] = r]
      BY <2>1 DEF lease_expires, worker
    <2> HIDE DEF r
    <2> QED
      BY <1>3, <2>2, <2>3, Untouched
  <1>11. CASE \E wf \in Workflows : deadline_passes(wf)
    <2>1. PICK wf \in Workflows : deadline_passes(wf)
      BY <1>11
    <2> DEFINE r == [rows[wf] EXCEPT !.wait_deadline = "past"]
    <2>2. r \in WorkflowInstance /\ r.workflow_state = rows[wf].workflow_state
                                 /\ r.wait = rows[wf].wait
      BY <1>1 DEF WorkflowInstance
    <2>3. /\ UNCHANGED <<signals, applied, receipts, view, pc, job, batch>>
          /\ rows' = [rows EXCEPT ![wf] = r]
      BY <2>1 DEF deadline_passes, worker
    <2> HIDE DEF r
    <2> QED
      BY <1>3, <2>2, <2>3, Untouched
  <1>12. CASE \E w \in Workers : open_workspace(w)
    <2>1. PICK w \in Workers : open_workspace(w)
      BY <1>12
    <2>2. UNCHANGED <<rows, signals, receipts, applied>>
      BY <2>1 DEF open_workspace, store
    <2>3. SignalsKept /\ ReceiptsBacked'
      BY <2>2, Untouched
    <2>4. ViewsBacked'
      <3>1. view \in [Workers -> [Workflows -> SUBSET Knowledge]]
        BY DEF TypeOK
      <3>2. view' = [view EXCEPT ![w] = [wf \in Workflows |->
                        {c \in LoggedCommands : applied[wf][c] > 0}]]
        BY <2>1 DEF open_workspace
      <3>3. \A v \in Workers, x \in Workflows : \A c \in view'[v][x] :
               c \in view[v][x] \/ applied[x][c] > 0
        BY <3>1, <3>2
      <3> QED
        BY <2>2, <3>3 DEF GateInv, ViewsBacked
    <2>5. \A v \in Workers : \/ pc'[v] = pc[v] /\ job'[v] = job[v]
                             \/ /\ pc'[v] \notin {"execute", "put_receipt"}
                                /\ Good(job'[v].wf, job'[v].inst)
      <3>1. pc \in [Workers -> PC] /\ job \in [Workers -> Job]
        BY DEF TypeOK
      <3>2. pc' = [pc EXCEPT ![w] = "idle"] /\ job' = [job EXCEPT ![w] = NoJob]
        BY <2>1 DEF open_workspace
      <3> QED
        BY <3>1, <3>2, NoJobGood
    <2>6. \A v \in Workers, x \in Workflows : Good(x, batch'[v][x])
      <3>1. batch \in [Workers -> [Workflows -> WorkflowInstance]]
        BY DEF TypeOK
      <3>2. batch' = [batch EXCEPT ![w] = [wf \in Workflows |-> Absent]]
        BY <2>1 DEF open_workspace
      <3> QED
        BY <1>1, <3>1, <3>2, AbsentGood
    <2>7. \A x \in Workflows : Good(x, rows'[x])
      BY <1>1, <2>2
    <2> QED
      BY <2>2, <2>3, <2>4, <2>5, <2>6, <2>7, RowStepGate
  <1>13. CASE UNCHANGED vars
    <2>1. UNCHANGED <<rows, signals, applied, receipts, view, pc, job, batch>>
      BY <1>13 DEF vars, store, worker
    <2> QED
      BY <1>1, <1>2, <2>1, Untouched
  <1> QED
    BY <1>4, <1>5, <1>7, <1>8, <1>9, <1>10, <1>11, <1>12, <1>13 DEF Next

\* Nothing has happened yet.
LEMMA InitGate == Init => GateInv
PROOF
  <1> SUFFICES ASSUME Init PROVE GateInv
    OBVIOUS
  <1>1. RowsGood /\ BatchesGood /\ JobsGood
    BY AbsentGood, NoJobGood DEF Init, RowsGood, BatchesGood, JobsGood
  <1>2. ReceiptsBacked /\ ViewsBacked /\ ExecutesApproved
    BY DEF Init, ReceiptsBacked, ViewsBacked, ExecutesApproved
  <1>3. HumanApproved
    BY DEF Init, HumanApproved, Commands
  <1> QED
    BY <1>1, <1>2, <1>3 DEF GateInv

\* GateInv is an invariant of the engine.
THEOREM GatesHold == Spec => []GateInv
PROOF
  <1>1. Init => TypeOK /\ GateInv
    BY InitType, InitGate
  <1>2. TypeOK /\ GateInv /\ [Next]_vars => GateInv'
    BY WorkerGate, EnvironmentGate
  <1> QED
    BY <1>1, <1>2, EngineTypeCorrect, PTL DEF Spec

\* K5/K16: no approval, publication or e-mail takes effect unless a human sent
\* APPROVE for a command of that kind, whatever workers, retries, stale
\* copies, lost leases and restarts interleave.
THEOREM HumanApprovedHolds == Spec => []HumanApproved
PROOF
  <1>1. GateInv => HumanApproved
    BY DEF GateInv
  <1> QED
    BY <1>1, GatesHold, PTL

\* The stored cursor never claims an effect that did not happen, and neither
\* does a stored execution receipt.
THEOREM CursorBackedHolds == Spec => []CursorBacked
PROOF
  <1>1. GateInv => CursorBacked
    BY DEF GateInv, CursorBacked, RowsGood, ReceiptsBacked, Good
  <1> QED
    BY <1>1, GatesHold, PTL

\* A stored row at a human gate always carries the command it waits for.
THEOREM GateHasWaitHolds == Spec => []GateHasWait
PROOF
  <1>1. GateInv => GateHasWait
    BY DEF GateInv, GateHasWait, RowsGood, Good
  <1> QED
    BY <1>1, GatesHold, PTL

-----------------------------------------------------------------------------
(* One process at a time *)

\* The workspace is opened by one worker process at a time.
OneWorker == \A v, w \in Workers : v = w

Money == {"import", "approve", "publish"}

\* The process knows of every money command that took effect: it executed it,
\* or rebuilt its ledger from the log that holds it.
KnowsEffects ==
    \A w \in Workers, wf \in Workflows, c \in Money :
        applied[wf][c] > 0 => c \in view[w][wf]

\* Only execute makes a command take effect, and only execute and a restart
\* change what a process knows.
LEMMA EffectsFrame ==
    ASSUME [Next]_vars
    PROVE  \/ UNCHANGED <<applied, view>>
           \/ \E w \in Workers : execute(w) \/ open_workspace(w)
<1>1. ASSUME NEW w \in Workers, tick(w)
      PROVE  UNCHANGED <<applied, view>> \/ execute(w)
  <2>1. advance_once(w) => UNCHANGED <<applied, view>>
    BY DEF advance_once, _advance_received, _advance_normalized, _advance_human_gate,
           _advance_after_ledger, _advance_published, advance_once_other, Goto
  <2>2. claim(w) \/ (\E wf \in Workflows : _process_one(w, wf)) => UNCHANGED <<applied, view>>
    BY DEF claim, _process_one
  <2>3. _store_receipt(w) \/ commit_advance(w) \/ advance_raises(w)
        \/ _process_one_refresh(w) \/ _handle_process_error(w) \/ update_instance(w)
           => UNCHANGED <<applied, view>>
    BY DEF _store_receipt, commit_advance, advance_raises, _process_one_refresh,
           _handle_process_error, update_instance, Goto
  <2> QED
    BY <1>1, <2>1, <2>2, <2>3 DEF tick
<1>2. (\E wf \in Workflows, p \in BOOLEAN :
          \E e \in {FALSE, p} : start_expense_to_receipt(wf, p, e))
         => UNCHANGED <<applied, view>>
  BY DEF start_expense_to_receipt, worker
<1>3. (\E wf \in Workflows : list_operator_cases(wf)) => UNCHANGED <<applied, view>>
  BY DEF list_operator_cases, worker
<1>4. (\E wf \in Workflows, d \in {"APPROVE", "REJECT"} : signal_approval(wf, d))
         \/ (\E wf \in Workflows : signal_operator(wf)) => UNCHANGED <<applied, view>>
  BY DEF signal_approval, signal_operator, enqueue_signal_and_wake, worker
<1>5. (\E wf \in Workflows : \/ sweep_approval_timeouts(wf) \/ lease_expires(wf)
                             \/ deadline_passes(wf)) => UNCHANGED <<applied, view>>
  BY DEF sweep_approval_timeouts, lease_expires, deadline_passes, worker
<1>6. UNCHANGED vars => UNCHANGED <<applied, view>>
  BY DEF vars, worker
<1> QED
  BY <1>1, <1>2, <1>3, <1>4, <1>5, <1>6 DEF Next

\* A money command the process knows of is not executed again, and one that
\* takes effect becomes known.
LEMMA ExecuteOnce ==
    ASSUME OneWorker, TypeOK, MoneyOnce, KnowsEffects, ExecutesApproved,
           NEW w \in Workers, execute(w)
    PROVE  MoneyOnce' /\ KnowsEffects'
<1>1. PICK wf \in Workflows : wf = job[w].wf
  BY DEF TypeOK, Job
<1>2. PICK c \in Commands : c = job[w].key.cmd
  BY DEF execute, ExecutesApproved, Executing
<1>3. CASE UNCHANGED <<applied, view>>
  BY <1>3 DEF MoneyOnce, KnowsEffects
<1>4. CASE \E o \in Outcomes(view[w][wf], c) :
              /\ view' = [view EXCEPT ![w][wf] = Learned(view[w][wf], c, o)]
              /\ applied' = IF o = "ok" THEN [applied EXCEPT ![wf][c] = @ + 1] ELSE applied
  <2>1. PICK o \in Outcomes(view[w][wf], c) :
              /\ view' = [view EXCEPT ![w][wf] = Learned(view[w][wf], c, o)]
              /\ applied' = IF o = "ok" THEN [applied EXCEPT ![wf][c] = @ + 1] ELSE applied
    BY <1>4
  <2>2. view[w][wf] \subseteq Learned(view[w][wf], c, o)
        /\ (o = "ok" => c \in Learned(view[w][wf], c, o))
    BY DEF Learned
  <2>3. o = "ok" /\ c \in Money => c \notin view[w][wf]
    BY DEF Outcomes, Money
  <2>4. o = "ok" /\ c \in Money => applied[wf][c] = 0
    BY <2>3 DEF KnowsEffects, TypeOK, Money, Commands
  <2>5. \A x \in Workflows, d \in Commands :
          \/ applied'[x][d] = applied[x][d]
          \/ x = wf /\ d = c /\ o = "ok" /\ applied'[x][d] = applied[x][d] + 1
    BY <2>1 DEF TypeOK
  <2>6. \A x \in Workflows : view[w][x] \subseteq view'[w][x]
        /\ (x = wf /\ o = "ok" => c \in view'[w][x])
    BY <2>1, <2>2 DEF TypeOK
  <2>7. \A x \in Workflows, d \in Money : d \in Commands /\ applied[x][d] \in Nat
    BY DEF TypeOK, Money, Commands, L3_COMMAND_TYPES
  <2>8. MoneyOnce'
    BY <2>4, <2>5, <2>7 DEF MoneyOnce, Money
  <2>9. KnowsEffects'
    BY <2>5, <2>6, <2>7 DEF KnowsEffects, OneWorker
  <2> QED
    BY <2>8, <2>9
<1> QED
  BY <1>1, <1>2, <1>3, <1>4 DEF execute

\* While one process has the workspace open, however often it dies and is
\* started again, no money command takes effect twice: the execution receipt or
\* the rebuilt ledger stops the second one.
THEOREM MoneyOnceHolds ==
    ASSUME OneWorker
    PROVE  Spec => []MoneyOnce
<1>1. Init => MoneyOnce /\ KnowsEffects
  BY DEF Init, MoneyOnce, KnowsEffects, Money, Commands, L3_COMMAND_TYPES
<1>2. TypeOK /\ GateInv /\ MoneyOnce /\ KnowsEffects /\ [Next]_vars
         => MoneyOnce' /\ KnowsEffects'
  <2> SUFFICES ASSUME TypeOK, GateInv, MoneyOnce, KnowsEffects, [Next]_vars
               PROVE  MoneyOnce' /\ KnowsEffects'
    OBVIOUS
  <2>1. CASE UNCHANGED <<applied, view>>
    BY <2>1 DEF MoneyOnce, KnowsEffects
  <2>2. ASSUME NEW w \in Workers, open_workspace(w) PROVE MoneyOnce' /\ KnowsEffects'
    <3>1. /\ applied' = applied
          /\ view'[w] = [wf \in Workflows |-> {c \in LoggedCommands : applied[wf][c] > 0}]
      BY <2>2 DEF open_workspace, TypeOK
    <3>2. Money \subseteq LoggedCommands
      BY DEF Money, LoggedCommands, Commands, L3_COMMAND_TYPES
    <3> QED
      BY <3>1, <3>2 DEF MoneyOnce, KnowsEffects, OneWorker
  <2>3. ASSUME NEW w \in Workers, execute(w) PROVE MoneyOnce' /\ KnowsEffects'
    BY <2>3, ExecuteOnce DEF GateInv
  <2> QED
    BY <2>1, <2>2, <2>3, EffectsFrame
<1> QED
  BY <1>1, <1>2, EngineTypeCorrect, GatesHold, PTL DEF Spec

-----------------------------------------------------------------------------
(* The cursor and the timeouts, while one process works at a time *)

\* A row that has been started and that a sweep passes over.
Awake(row) == row.run_status \notin {"WAITING_SIGNAL", "ABSENT"}

\* The same cursor and the same timeout mark; the same or the next cursor.
Same(row, inst) ==
    /\ inst.workflow_state = row.workflow_state
    /\ inst.timeout_applied = row.timeout_applied
Edge(row, inst) ==
    \/ inst.workflow_state = row.workflow_state
    \/ <<row.workflow_state, inst.workflow_state>> \in EXPENSE_TO_RECEIPT_TRANSITIONS
Follows(row, inst) == inst.timeout_applied = row.timeout_applied /\ Edge(row, inst)

\* The row of an advance under way is not swept, and what the advance will
\* write is at most one transition away from it.
JobFresh(at, j, row) ==
    /\ at \notin {"idle", "refresh"} => Awake(row)
    /\ at \in {"advance", "write"} => Same(row, j.inst)
    /\ at \in {"execute", "put_receipt"} /\ j.key.cmd \in L3_COMMAND_TYPES =>
          Same(row, j.inst)
    /\ at \in {"execute", "put_receipt", "commit"} => Follows(row, j.inst)

\* The copies a worker holds are of the rows as they are.
CopiesFresh ==
    \A w \in Workers :
        /\ \A wf \in Workflows : batch[w][wf] # Absent =>
              Awake(rows[wf]) /\ Same(rows[wf], batch[w][wf])
        /\ pc[w] # "idle" => batch[w][job[w].wf] = Absent
        /\ JobFresh(pc[w], job[w], rows[job[w].wf])

\* What a step may do to a row: move its cursor along the transition table, and
\* set its timeout mark.
RowMoves(row, new) ==
    /\ Edge(row, new)
    /\ row.timeout_applied => new.timeout_applied

\* Where the branches of advance_once and the sweep lead is in the table.
LEMMA Edges ==
    /\ \A s \in {"NORMALIZED", "BLOCKED"} :
          <<"RECEIVED", s>> \in EXPENSE_TO_RECEIPT_TRANSITIONS
    /\ \A s \in {"NEEDS_INFORMATION", "BLOCKED", "REVIEW_PENDING"} :
          <<"NORMALIZED", s>> \in EXPENSE_TO_RECEIPT_TRANSITIONS
    /\ \A s \in HUMAN_GATE_STATES :
          <<s, "NEEDS_INFORMATION">> \in EXPENSE_TO_RECEIPT_TRANSITIONS
    /\ <<"REVIEW_PENDING", "LEDGER_COMMITTED">> \in EXPENSE_TO_RECEIPT_TRANSITIONS
    /\ <<"PUBLICATION_PENDING", "PUBLISHED">> \in EXPENSE_TO_RECEIPT_TRANSITIONS
    /\ <<"NOTIFICATION_PENDING", "DELIVERED">> \in EXPENSE_TO_RECEIPT_TRANSITIONS
    /\ <<"LEDGER_COMMITTED", "PUBLICATION_PENDING">> \in EXPENSE_TO_RECEIPT_TRANSITIONS
    /\ <<"PUBLISHED", "NOTIFICATION_PENDING">> \in EXPENSE_TO_RECEIPT_TRANSITIONS
    /\ <<"ABSENT", "RECEIVED">> \in EXPENSE_TO_RECEIPT_TRANSITIONS
  BY DEF EXPENSE_TO_RECEIPT_TRANSITIONS, HUMAN_GATE_STATES

\* A gate's command leads to the state behind its gate.
LEMMA ApprovalEdge ==
    ASSUME NEW inst \in WorkflowInstance, inst.workflow_state \in HUMAN_GATE_STATES,
           Gated(inst)
    PROVE  LET new == AfterApproval(inst, inst.wait.cmd) IN
           /\ new.timeout_applied = inst.timeout_applied
           /\ <<inst.workflow_state, new.workflow_state>> \in EXPENSE_TO_RECEIPT_TRANSITIONS
<1> DEFINE new == AfterApproval(inst, inst.wait.cmd)
<1>1. new.timeout_applied = inst.timeout_applied
  BY DEF AfterApproval, WorkflowInstance
<1>2. CASE inst.workflow_state = "REVIEW_PENDING"
  <2>1. new.workflow_state = "LEDGER_COMMITTED"
    BY <1>2 DEF AfterApproval, WorkflowInstance, Gated
  <2> QED
    BY <1>1, <1>2, <2>1, Edges
<1>3. CASE inst.workflow_state = "PUBLICATION_PENDING"
  <2>1. new.workflow_state = "PUBLISHED"
    BY <1>3 DEF AfterApproval, WorkflowInstance, Gated
  <2> QED
    BY <1>1, <1>3, <2>1, Edges
<1>4. CASE inst.workflow_state = "NOTIFICATION_PENDING"
  <2>1. new.workflow_state = "DELIVERED"
    BY <1>4 DEF AfterApproval, WorkflowInstance, Gated
  <2> QED
    BY <1>1, <1>4, <2>1, Edges
<1> QED
  BY <1>2, <1>3, <1>4 DEF HUMAN_GATE_STATES

\* Whatever the executor returned, the advance commits a row one transition away.
LEMMA AfterExecuteFresh ==
    ASSUME NEW j \in Job, NEW row, NEW s, Executing(j), Gated(j.inst),
           NEW at \in {"execute", "put_receipt"}, JobFresh(at, j, row)
    PROVE  AfterExecute(j, s).wf = j.wf /\ JobFresh("commit", AfterExecute(j, s), row)
<1> DEFINE k == AfterExecute(j, s)
<1>0. j.inst \in WorkflowInstance
  BY DEF Job
<1>1. CASE j.key.cmd \notin L3_COMMAND_TYPES
  <2>1. k = j
    BY <1>1 DEF AfterExecute
  <2> QED
    BY <2>1 DEF JobFresh
<1>2. CASE j.key.cmd \in L3_COMMAND_TYPES
  <2>1. Same(row, j.inst) /\ Awake(row)
    BY <1>2 DEF JobFresh
  <2>2. /\ j.inst.workflow_state \in HUMAN_GATE_STATES /\ j.key = j.inst.wait
    BY <1>2 DEF Executing
  <2>3. /\ k.wf = j.wf
        /\ \/ k.inst = AfterApproval(j.inst, j.inst.wait.cmd)
           \/ /\ k.inst.workflow_state = j.inst.workflow_state
              /\ k.inst.timeout_applied = j.inst.timeout_applied
    BY <1>0, <1>2, <2>2 DEF AfterExecute, Job, WorkflowInstance
  <2>4. Follows(row, k.inst)
    BY <1>0, <2>1, <2>2, <2>3, ApprovalEdge DEF Follows, Edge, Same
  <2> QED
    BY <2>1, <2>3, <2>4 DEF JobFresh
<1> QED
  BY <1>1, <1>2

\* A step of the only worker that leaves the rows alone.
LEMMA GotoFresh ==
    ASSUME OneWorker, TypeOK, CopiesFresh, NEW w \in Workers, NEW at \in PC, NEW k \in Job,
           Goto(w, at, k), rows' = rows, pc[w] # "idle",
           at = "idle" \/ k.wf = job[w].wf, JobFresh(at, k, rows[k.wf])
    PROVE  CopiesFresh'
<1>1. pc'[w] = at /\ job'[w] = k /\ batch' = batch
  BY DEF Goto, TypeOK
<1>2. ASSUME NEW v \in Workers
      PROVE  /\ \A wf \in Workflows : batch'[v][wf] # Absent =>
                   Awake(rows'[wf]) /\ Same(rows'[wf], batch'[v][wf])
             /\ pc'[v] # "idle" => batch'[v][job'[v].wf] = Absent
             /\ JobFresh(pc'[v], job'[v], rows'[job'[v].wf])
  <2>1. v = w
    BY DEF OneWorker
  <2> QED
    BY <1>1, <2>1 DEF CopiesFresh
<1> QED
  BY <1>2 DEF CopiesFresh

\* The engine beside the worker touches the cursor only of rows that sleep.
LEMMA RowsFresh ==
    ASSUME TypeOK, CopiesFresh, UNCHANGED <<pc, job, batch>>,
           \A wf \in Workflows : Awake(rows[wf]) => Awake(rows'[wf]) /\ Same(rows[wf], rows'[wf])
    PROVE  CopiesFresh'
<1>1. ASSUME NEW v \in Workers
      PROVE  /\ \A wf \in Workflows : batch'[v][wf] # Absent =>
                   Awake(rows'[wf]) /\ Same(rows'[wf], batch'[v][wf])
             /\ pc'[v] # "idle" => batch'[v][job'[v].wf] = Absent
             /\ JobFresh(pc'[v], job'[v], rows'[job'[v].wf])
  <2>1. job[v].wf \in Workflows
    BY DEF TypeOK, Job
  <2>2. JobFresh(pc[v], job[v], rows'[job[v].wf])
    BY <2>1 DEF CopiesFresh, JobFresh, Same, Follows, Edge
  <2> QED
    BY <2>2 DEF CopiesFresh, Same
<1> QED
  BY <1>1 DEF CopiesFresh

\* Every branch of advance_once prepares a row one transition away.
LEMMA AdvanceFresh ==
    ASSUME OneWorker, TypeOK, GateInv, CopiesFresh, NEW w \in Workers, advance_once(w)
    PROVE  CopiesFresh'
<1> DEFINE j == job[w]
           inst == job[w].inst
           wf == job[w].wf
           row == rows[wf]
<1>1. /\ j \in Job /\ inst \in WorkflowInstance /\ wf \in Workflows
      /\ signals[wf] \in Seq(WorkflowSignal) /\ packets[wf] \in Nat
  BY DEF TypeOK, Job
<1>2. "execute" \in PC /\ "commit" \in PC /\ "refresh" \in PC /\ "write" \in PC
  BY DEF PC
<1>3. rows' = rows
  BY DEF advance_once, _advance_received, _advance_normalized, _advance_human_gate,
         _advance_after_ledger, _advance_published, advance_once_other, store
<1>4. pc[w] = "advance" /\ Awake(row) /\ Same(row, inst)
  <2>1. pc[w] = "advance"
    BY DEF advance_once, _advance_received, _advance_normalized, _advance_human_gate,
           _advance_after_ledger, _advance_published, advance_once_other, Advancing
  <2> QED
    BY <2>1 DEF CopiesFresh, JobFresh
<1>go. ASSUME NEW at \in {"execute", "commit"}, NEW k \in Job, Goto(w, at, k), k.wf = wf,
              k.inst.timeout_applied = inst.timeout_applied,
              \/ k.inst.workflow_state = inst.workflow_state
              \/ /\ <<inst.workflow_state, k.inst.workflow_state>>
                       \in EXPENSE_TO_RECEIPT_TRANSITIONS
                 /\ at = "commit" \/ k.key.cmd \notin L3_COMMAND_TYPES
       PROVE  CopiesFresh'
  <2>1. JobFresh(at, k, row)
    BY <1>4, <1>go DEF JobFresh, Same, Follows, Edge
  <2> QED
    BY <1>2, <1>3, <1>4, <1>go, <2>1, GotoFresh
<1>5. CASE _advance_received(w)
  <2> DEFINE a == [j EXCEPT !.inst.workflow_state = "NORMALIZED",
                            !.inst.run_status = "PENDING",
                            !.key = KeyOf("import"), !.events = 1]
             b == [j EXCEPT !.inst.workflow_state = "BLOCKED",
                            !.inst.run_status = "WAITING_SIGNAL", !.events = 1]
  <2>1. /\ a \in Job /\ a.wf = wf /\ a.inst.workflow_state = "NORMALIZED"
        /\ a.inst.timeout_applied = inst.timeout_applied /\ a.key = KeyOf("import")
    BY <1>1, KeyTypes DEF Job, WorkflowInstance, WorkflowState, WorkflowRunStatus, Commands
  <2>2. /\ b \in Job /\ b.wf = wf /\ b.inst.workflow_state = "BLOCKED"
        /\ b.inst.timeout_applied = inst.timeout_applied
    BY <1>1 DEF Job, WorkflowInstance, WorkflowState, WorkflowRunStatus
  <2>3. /\ Goto(w, "execute", a) \/ Goto(w, "commit", b)
        /\ inst.workflow_state = "RECEIVED"
    BY <1>5 DEF _advance_received, Advancing
  <2>4. KeyOf("import").cmd \notin L3_COMMAND_TYPES
    BY DEF KeyOf, L3_COMMAND_TYPES
  <2> HIDE DEF a, b
  <2> QED
    BY <2>1, <2>2, <2>3, <2>4, <1>go, Edges
<1>6. CASE _advance_normalized(w)
  <2> DEFINE key == [cmd |-> "approve", packet |-> packets[wf] + 1]
             gate == Released(Parked(inst, "REVIEW_PENDING", key, "set"))
             a == [j EXCEPT !.inst = Released(Parked(@, "REVIEW_PENDING", key, "set")),
                            !.key = KeyOf("allocate"), !.events = 1]
             b(hold) == [j EXCEPT !.inst.workflow_state = hold,
                                  !.inst.run_status = "WAITING_SIGNAL", !.events = 1]
  <2>1. /\ gate \in WorkflowInstance /\ gate.workflow_state = "REVIEW_PENDING"
        /\ gate.timeout_applied = inst.timeout_applied
    <3>1. key \in Key
      BY <1>1, KeyTypes
    <3> HIDE DEF key
    <3>2. Parked(inst, "REVIEW_PENDING", key, "set") \in WorkflowInstance
      BY <1>1, <3>1, ParkedType DEF WorkflowState
    <3>3. gate \in WorkflowInstance
      BY <3>2, RowTypes
    <3>4. gate.workflow_state = "REVIEW_PENDING" /\ gate.timeout_applied = inst.timeout_applied
      BY <1>1, <3>2 DEF Released, Parked, WorkflowInstance
    <3> QED
      BY <3>3, <3>4
  <2>2. a \in Job /\ a.wf = wf /\ a.inst = gate /\ a.key = KeyOf("allocate")
    BY <1>1, <2>1, KeyTypes DEF Job, Commands
  <2>3. ASSUME NEW hold \in {"NEEDS_INFORMATION", "BLOCKED"}
        PROVE  /\ b(hold) \in Job /\ b(hold).wf = wf /\ b(hold).inst.workflow_state = hold
               /\ b(hold).inst.timeout_applied = inst.timeout_applied
    BY <1>1 DEF Job, WorkflowInstance, WorkflowState, WorkflowRunStatus
  <2>4. /\ Goto(w, "execute", a)
           \/ \E hold \in {"NEEDS_INFORMATION", "BLOCKED"} : Goto(w, "commit", b(hold))
        /\ inst.workflow_state = "NORMALIZED"
    BY <1>6 DEF _advance_normalized, Advancing
  <2>5. KeyOf("allocate").cmd \notin L3_COMMAND_TYPES
    BY DEF KeyOf, L3_COMMAND_TYPES
  <2> HIDE DEF a, b, gate
  <2>6. CASE Goto(w, "execute", a)
    BY <2>1, <2>2, <2>4, <2>5, <2>6, <1>go, Edges
  <2>7. CASE \E hold \in {"NEEDS_INFORMATION", "BLOCKED"} : Goto(w, "commit", b(hold))
    <3>1. PICK hold \in {"NEEDS_INFORMATION", "BLOCKED"} : Goto(w, "commit", b(hold))
      BY <2>7
    <3> QED
      BY <2>3, <2>4, <3>1, <1>go, Edges
  <2> QED
    BY <2>4, <2>6, <2>7
<1>7. CASE _advance_human_gate(w)
  <2> DEFINE i == take_unconsumed(signals[wf], inst.wait)
             a == [j EXCEPT !.inst = Reparked(@)]
             b == [j EXCEPT !.sig = i, !.events = 1,
                            !.inst.run_status = "WAITING_SIGNAL",
                            !.consume = "REJECTED_INVALID"]
             c == [j EXCEPT !.sig = i, !.key = inst.wait]
  <2>1. i \in Nat /\ inst.wait \in Key
    BY <1>1, TakenType DEF WorkflowInstance
  <2>2. Goto(w, "commit", a) \/ Goto(w, "commit", b) \/ Goto(w, "execute", c)
    BY <1>7, Zenon DEF _advance_human_gate
  <2> HIDE DEF i
  <2>3. /\ a \in Job /\ a.wf = wf /\ a.inst.workflow_state = inst.workflow_state
        /\ a.inst.timeout_applied = inst.timeout_applied
    BY <1>1 DEF Job, Reparked, WorkflowInstance, WorkflowRunStatus
  <2>4. /\ b \in Job /\ b.wf = wf /\ b.inst.workflow_state = inst.workflow_state
        /\ b.inst.timeout_applied = inst.timeout_applied
    BY <1>1, <2>1 DEF Job, WorkflowInstance, WorkflowRunStatus, SignalConsumeResult
  <2>5. c \in Job /\ c.wf = wf /\ c.inst = inst
    BY <1>1, <2>1 DEF Job
  <2> HIDE DEF a, b, c
  <2> QED
    BY <2>2, <2>3, <2>4, <2>5, <1>go
<1>8. CASE _advance_after_ledger(w)
  <2> DEFINE gate == Parked(inst, "PUBLICATION_PENDING", KeyOf("publish"), "set")
             a == [j EXCEPT !.inst.run_status = "COMPLETED"]
             b == [j EXCEPT !.inst = Parked(@, "PUBLICATION_PENDING",
                                            KeyOf("publish"), "set"), !.events = 1]
  <2>1. /\ a \in Job /\ a.wf = wf /\ a.inst.workflow_state = inst.workflow_state
        /\ a.inst.timeout_applied = inst.timeout_applied
    BY <1>1 DEF Job, WorkflowInstance, WorkflowRunStatus
  <2>2. gate \in WorkflowInstance
    BY <1>1, ParkedType, KeyTypes DEF WorkflowState, Commands, L3_COMMAND_TYPES
  <2>3. gate.workflow_state = "PUBLICATION_PENDING"
        /\ gate.timeout_applied = inst.timeout_applied
    BY <1>1 DEF Parked, WorkflowInstance
  <2>4. b \in Job /\ b.wf = wf /\ b.inst = gate
    BY <1>1, <2>2 DEF Job
  <2>5. /\ Goto(w, "commit", a) \/ Goto(w, "commit", b)
        /\ inst.workflow_state = "LEDGER_COMMITTED"
    BY <1>8 DEF _advance_after_ledger, Advancing
  <2> HIDE DEF a, b, gate
  <2> QED
    BY <2>1, <2>3, <2>4, <2>5, <1>go, Edges
<1>9. CASE _advance_published(w)
  <2> DEFINE gate == Parked(inst, "NOTIFICATION_PENDING", KeyOf("send"),
                            inst.wait_deadline)
             a == [j EXCEPT !.inst.run_status = "COMPLETED"]
             b == [j EXCEPT !.inst = Parked(@, "NOTIFICATION_PENDING", KeyOf("send"),
                                            inst.wait_deadline), !.events = 1]
  <2>1. /\ a \in Job /\ a.wf = wf /\ a.inst.workflow_state = inst.workflow_state
        /\ a.inst.timeout_applied = inst.timeout_applied
    BY <1>1 DEF Job, WorkflowInstance, WorkflowRunStatus
  <2>2. gate \in WorkflowInstance
    <3>1. inst.wait_deadline \in {"none", "set", "past"}
      BY <1>1 DEF WorkflowInstance
    <3> QED
      BY <1>1, <3>1, ParkedType, KeyTypes DEF WorkflowState, Commands, L3_COMMAND_TYPES
  <2>3. gate.workflow_state = "NOTIFICATION_PENDING"
        /\ gate.timeout_applied = inst.timeout_applied
    BY <1>1 DEF Parked, WorkflowInstance
  <2>4. b \in Job /\ b.wf = wf /\ b.inst = gate
    BY <1>1, <2>2 DEF Job
  <2>5. /\ Goto(w, "commit", a) \/ Goto(w, "commit", b)
        /\ inst.workflow_state = "PUBLISHED"
    BY <1>9 DEF _advance_published, Advancing
  <2> HIDE DEF a, b, gate
  <2> QED
    BY <2>1, <2>3, <2>4, <2>5, <1>go, Edges
<1>10. CASE advance_once_other(w)
  <2> DEFINE a == [j EXCEPT !.inst.run_status = "PENDING"]
  <2>1. /\ a \in Job /\ a.wf = wf /\ a.inst.workflow_state = inst.workflow_state
        /\ a.inst.timeout_applied = inst.timeout_applied
    BY <1>1 DEF Job, WorkflowInstance, WorkflowRunStatus
  <2>2. JobOf(wf, Absent) \in Job /\ JobOf(wf, Absent).wf = wf
    BY <1>1, AbsentType, JobOfType DEF JobOf
  <2>3. Goto(w, "refresh", JobOf(wf, Absent)) \/ Goto(w, "write", a)
    BY <1>10 DEF advance_once_other
  <2> HIDE DEF a
  <2>4. JobFresh("write", a, row) /\ JobFresh("refresh", JobOf(wf, Absent), row)
    BY <1>4, <2>1 DEF JobFresh, Same
  <2> QED
    BY <1>2, <1>3, <1>4, <2>1, <2>2, <2>3, <2>4, GotoFresh
<1> QED
  BY <1>5, <1>6, <1>7, <1>8, <1>9, <1>10 DEF advance_once

\* A rewriting of a row that leaves its cursor and its mark alone.
LEMMA SameRewrites ==
    ASSUME NEW r \in WorkflowInstance
    PROVE  /\ Same(r, Claimed(r)) /\ Same(r, DeadLettered(r)) /\ Same(r, r)
           /\ Awake(Claimed(r))
           /\ \A n \in Nat : Same(r, [r EXCEPT !.event_seq = n])
  BY DEF Same, Awake, Claimed, DeadLettered, WorkflowInstance

\* A row may keep its cursor and its mark, and nothing else but a move along the
\* table or a new mark.
LEMMA SameMoves ==
    ASSUME NEW row, NEW new, Follows(row, new) \/ Same(row, new)
    PROVE  RowMoves(row, new)
<1>1. new.timeout_applied = row.timeout_applied /\ Edge(row, new)
  BY DEF Follows, Same, Edge
<1>2. row.timeout_applied => new.timeout_applied
  BY <1>1, Zenon
<1> QED
  BY <1>1, <1>2 DEF RowMoves

\* The only worker writes back the row of its job.
LEMMA WriteFresh ==
    ASSUME OneWorker, TypeOK, CopiesFresh, NEW w \in Workers, NEW n \in Nat,
           pc[w] \in {"commit", "write"},
           rows' = [rows EXCEPT ![job[w].wf] = [job[w].inst EXCEPT !.event_seq = n]],
           NEW at \in {"refresh", "idle"}, NEW k \in Job, Goto(w, at, k),
           at = "idle" \/ k.wf = job[w].wf
    PROVE  CopiesFresh' /\ \A x \in Workflows : RowMoves(rows[x], rows'[x])
<1>1. PICK wf \in Workflows : wf = job[w].wf
  BY DEF TypeOK, Job
<1>2. PICK inst \in WorkflowInstance : inst = job[w].inst
  BY DEF TypeOK, Job
<1>3. pc'[w] = at /\ job'[w] = k /\ batch' = batch
  BY DEF Goto, TypeOK
<1>4. /\ rows'[wf] = [inst EXCEPT !.event_seq = n]
      /\ \A x \in Workflows : x # wf => rows'[x] = rows[x]
      /\ \A x \in Workflows : rows[x] \in WorkflowInstance
  BY <1>1, <1>2 DEF TypeOK
<1>5. Follows(rows[wf], inst)
  <2>1. CASE pc[w] = "commit"
    BY <1>1, <1>2, <2>1 DEF CopiesFresh, JobFresh
  <2>2. CASE pc[w] = "write"
    BY <1>1, <1>2, <2>2 DEF CopiesFresh, JobFresh, Same, Follows, Edge
  <2> QED
    BY <2>1, <2>2
<1>6. Follows(rows[wf], rows'[wf])
  <2>1. Same(inst, rows'[wf])
    BY <1>4, SameRewrites, Zenon
  <2>2. rows'[wf].timeout_applied = rows[wf].timeout_applied
    BY <1>5, <2>1, Zenon DEF Same, Follows
  <2>3. Edge(rows[wf], rows'[wf])
    BY <1>5, <2>1 DEF Same, Follows, Edge
  <2> QED
    BY <2>2, <2>3 DEF Follows
<1>7. \A x \in Workflows : RowMoves(rows[x], rows'[x])
  BY <1>4, <1>6, SameMoves, SameRewrites
<1>8. ASSUME NEW v \in Workers
      PROVE  /\ \A x \in Workflows : batch'[v][x] # Absent =>
                   Awake(rows'[x]) /\ Same(rows'[x], batch'[v][x])
             /\ pc'[v] # "idle" => batch'[v][job'[v].wf] = Absent
             /\ JobFresh(pc'[v], job'[v], rows'[job'[v].wf])
  <2>1. v = w /\ batch[w][wf] = Absent
    BY <1>1 DEF OneWorker, CopiesFresh
  <2>2. \A x \in Workflows : batch'[v][x] # Absent =>
           Awake(rows'[x]) /\ Same(rows'[x], batch'[v][x])
    BY <1>3, <1>4, <2>1 DEF CopiesFresh
  <2>3. JobFresh(pc'[v], job'[v], rows'[job'[v].wf])
    BY <1>3, <2>1 DEF JobFresh
  <2> QED
    BY <1>1, <1>3, <2>1, <2>2, <2>3
<1> QED
  BY <1>7, <1>8 DEF CopiesFresh

\* The steps of the only worker keep its copies fresh and move the rows along
\* the table.
LEMMA WorkerFresh ==
    ASSUME OneWorker, TypeOK, GateInv, CopiesFresh, NEW w \in Workers, tick(w)
    PROVE  CopiesFresh' /\ \A x \in Workflows : RowMoves(rows[x], rows'[x])
<1> DEFINE j == job[w]
           inst == job[w].inst
           wf == job[w].wf
<1>1. /\ j \in Job /\ inst \in WorkflowInstance /\ wf \in Workflows
      /\ inst.event_seq \in Nat /\ events[wf] \in Nat /\ rows[wf] \in WorkflowInstance
  BY DEF TypeOK, Job, WorkflowInstance
<1>2. \A x \in Workflows : rows[x] \in WorkflowInstance /\ RowMoves(rows[x], rows[x])
  BY SameMoves, SameRewrites DEF TypeOK
<1>3. rows' = rows => \A x \in Workflows : RowMoves(rows[x], rows'[x])
  BY <1>2
<1>4. CASE claim(w)
  <2>1. PICK B \in SUBSET {x \in Workflows : Claimable(rows[x])} :
           /\ rows' = [x \in Workflows |->
                         IF x \in B THEN Claimed(rows[x]) ELSE rows[x]]
           /\ batch' = [batch EXCEPT ![w] = [x \in Workflows |->
                         IF x \in B THEN Claimed(rows[x]) ELSE Absent]]
    BY <1>4 DEF claim
  <2>2. pc[w] = "idle" /\ pc' = pc /\ job' = job
    BY <1>4 DEF claim
  <2>3. batch'[w] = [x \in Workflows |-> IF x \in B THEN Claimed(rows[x]) ELSE Absent]
    BY <2>1 DEF TypeOK
  <2>4. \A x \in Workflows : batch'[w][x] # Absent =>
           Awake(rows'[x]) /\ Same(rows'[x], batch'[w][x])
    <3> SUFFICES ASSUME NEW x \in Workflows, x \in B
                 PROVE  Awake(rows'[x]) /\ Same(rows'[x], batch'[w][x])
      BY <2>3
    <3>1. rows'[x] = Claimed(rows[x]) /\ batch'[w][x] = Claimed(rows[x])
      BY <2>1, <2>3
    <3> QED
      BY <1>2, <3>1, SameRewrites DEF Same
  <2>5. JobFresh("idle", job[w], rows'[job[w].wf])
    BY DEF JobFresh
  <2>6. CopiesFresh'
    <3> SUFFICES ASSUME NEW v \in Workers
                 PROVE  /\ \A x \in Workflows : batch'[v][x] # Absent =>
                             Awake(rows'[x]) /\ Same(rows'[x], batch'[v][x])
                        /\ pc'[v] # "idle" => batch'[v][job'[v].wf] = Absent
                        /\ JobFresh(pc'[v], job'[v], rows'[job'[v].wf])
      BY DEF CopiesFresh
    <3>1. v = w
      BY DEF OneWorker
    <3> QED
      BY <2>2, <2>4, <2>5, <3>1
  <2>7. \A x \in Workflows : RowMoves(rows[x], rows'[x])
    <3> SUFFICES ASSUME NEW x \in Workflows PROVE RowMoves(rows[x], rows'[x])
      OBVIOUS
    <3>1. rows'[x] \in {Claimed(rows[x]), rows[x]}
      BY <2>1
    <3> QED
      BY <1>2, <3>1, SameRewrites, SameMoves
  <2> QED
    BY <2>6, <2>7
<1>5. CASE \E x \in Workflows : _process_one(w, x)
  <2>1. PICK x \in Workflows : _process_one(w, x)
    BY <1>5
  <2>2. PICK b \in WorkflowInstance : b = batch[w][x]
    BY DEF TypeOK
  <2>3. rows' = rows /\ batch[w][x] # Absent
    BY <2>1 DEF _process_one, store
  <2>4. Awake(rows[x]) /\ Same(rows[x], b)
    BY <2>2, <2>3 DEF CopiesFresh
  <2>5. /\ batch'[w][x] = Absent
        /\ \A y \in Workflows : y # x => batch'[w][y] = batch[w][y]
    BY <2>1 DEF _process_one, TypeOK
  <2>6. \/ pc'[w] = "write" /\ job'[w] = JobOf(x, DeadLettered(b))
        \/ pc'[w] = "advance" /\ job'[w] = JobOf(x, rows[x])
    BY <2>1, <2>2 DEF _process_one, TypeOK
  <2>7. job'[w].wf = x /\ JobFresh(pc'[w], job'[w], rows[x])
    <3>1. CASE pc'[w] = "write" /\ job'[w] = JobOf(x, DeadLettered(b))
      <4>1. job'[w].wf = x /\ job'[w].inst = DeadLettered(b)
        BY <3>1 DEF JobOf
      <4>2. Same(rows[x], DeadLettered(b))
        BY <2>4, SameRewrites DEF Same
      <4> QED
        BY <2>4, <3>1, <4>1, <4>2 DEF JobFresh
    <3>2. CASE pc'[w] = "advance" /\ job'[w] = JobOf(x, rows[x])
      <4>1. job'[w].wf = x /\ job'[w].inst = rows[x]
        BY <3>2 DEF JobOf
      <4> QED
        BY <2>4, <3>2, <4>1 DEF JobFresh, Same
    <3> QED
      BY <2>6, <3>1, <3>2
  <2>8. CopiesFresh'
    <3> SUFFICES ASSUME NEW v \in Workers
                 PROVE  /\ \A y \in Workflows : batch'[v][y] # Absent =>
                             Awake(rows'[y]) /\ Same(rows'[y], batch'[v][y])
                        /\ pc'[v] # "idle" => batch'[v][job'[v].wf] = Absent
                        /\ JobFresh(pc'[v], job'[v], rows'[job'[v].wf])
      BY DEF CopiesFresh
    <3>1. v = w
      BY DEF OneWorker
    <3> QED
      BY <2>3, <2>5, <2>7, <3>1 DEF CopiesFresh
  <2> QED
    BY <1>3, <2>3, <2>8
<1>6. CASE advance_once(w)
  <2>1. rows' = rows
    BY <1>6 DEF advance_once, _advance_received, _advance_normalized, _advance_human_gate,
         _advance_after_ledger, _advance_published, advance_once_other, store
  <2> QED
    BY <1>3, <1>6, <2>1, AdvanceFresh
<1>7. ASSUME pc[w] \in {"execute", "put_receipt"}
      PROVE  /\ Executing(j) /\ Gated(inst)
             /\ \A s : /\ AfterExecute(j, s) \in Job /\ AfterExecute(j, s).wf = wf
                       /\ JobFresh("commit", AfterExecute(j, s), rows[wf])
  <2>1. Executing(j) /\ Gated(inst)
    BY <1>7 DEF GateInv, ExecutesApproved, JobsGood, Good
  <2>2. JobFresh(pc[w], j, rows[wf])
    BY DEF CopiesFresh
  <2> QED
    BY <1>1, <1>7, <2>1, <2>2, AfterExecuteType, AfterExecuteFresh
<1>8. CASE execute(w)
  <2>1. rows' = rows /\ batch' = batch /\ pc[w] = "execute"
    BY <1>8 DEF execute, store
  <2>2. \/ \E s : pc'[w] = "commit" /\ job'[w] = AfterExecute(j, s)
        \/ pc'[w] = "put_receipt" /\ job'[w] = j
    BY <1>8 DEF execute, TypeOK
  <2>3. JobFresh("execute", j, rows[wf]) /\ batch[w][wf] = Absent
    BY <2>1 DEF CopiesFresh
  <2>4. JobFresh("put_receipt", j, rows[wf])
    BY <2>3 DEF JobFresh
  <2>5. job'[w].wf = wf /\ JobFresh(pc'[w], job'[w], rows[wf])
    BY <1>7, <2>1, <2>2, <2>4
  <2>6. CopiesFresh'
    <3> SUFFICES ASSUME NEW v \in Workers
                 PROVE  /\ \A y \in Workflows : batch'[v][y] # Absent =>
                             Awake(rows'[y]) /\ Same(rows'[y], batch'[v][y])
                        /\ pc'[v] # "idle" => batch'[v][job'[v].wf] = Absent
                        /\ JobFresh(pc'[v], job'[v], rows'[job'[v].wf])
      BY DEF CopiesFresh
    <3>1. v = w
      BY DEF OneWorker
    <3> QED
      BY <2>1, <2>3, <2>5, <3>1 DEF CopiesFresh
  <2> QED
    BY <1>3, <2>1, <2>6
<1>9. CASE _store_receipt(w)
  <2>1. \E s \in {"SUCCEEDED", "RETRYABLE"} : Goto(w, "commit", AfterExecute(j, s))
    BY <1>9 DEF _store_receipt
  <2>2. rows' = rows /\ pc[w] = "put_receipt" /\ "commit" \in PC
    BY <1>9 DEF _store_receipt, PC
  <2>3. \A s : /\ AfterExecute(j, s) \in Job /\ AfterExecute(j, s).wf = wf
               /\ JobFresh("commit", AfterExecute(j, s), rows[wf])
    BY <1>7, <2>2
  <2> QED
    BY <1>3, <2>1, <2>2, <2>3, GotoFresh
<1>10. CASE commit_advance(w)
  <2> DEFINE seq == IF j.events = 1 THEN NextSeq(wf, inst) ELSE inst.event_seq
  <2>1. seq \in Nat
    BY <1>1 DEF NextSeq
  <2>2. \/ /\ Goto(w, "error", Failure(wf, Store # "postgres")) /\ rows' = rows
        \/ /\ Goto(w, "refresh", JobOf(wf, Absent))
           /\ rows' = [rows EXCEPT ![wf] = [inst EXCEPT !.event_seq = seq]]
    BY <1>10 DEF commit_advance, store
  <2>3. pc[w] = "commit" /\ JobFresh("commit", j, rows[wf])
    BY <1>10 DEF commit_advance, CopiesFresh
  <2> HIDE DEF seq
  <2>4. CASE Goto(w, "error", Failure(wf, Store # "postgres")) /\ rows' = rows
    <3>1. /\ Failure(wf, Store # "postgres") \in Job /\ "error" \in PC
          /\ Failure(wf, Store # "postgres").wf = wf
      BY <1>1, FailureType DEF PC, Failure, JobOf
    <3>2. JobFresh("error", Failure(wf, Store # "postgres"), rows[wf])
      BY <2>3 DEF JobFresh
    <3> QED
      BY <1>3, <2>3, <2>4, <3>1, <3>2, GotoFresh
  <2>5. CASE /\ Goto(w, "refresh", JobOf(wf, Absent))
             /\ rows' = [rows EXCEPT ![wf] = [inst EXCEPT !.event_seq = seq]]
    <3>1. JobOf(wf, Absent) \in Job /\ JobOf(wf, Absent).wf = wf
      BY <1>1, AbsentType, JobOfType DEF JobOf
    <3> QED
      BY <2>1, <2>3, <2>5, <3>1, WriteFresh
  <2> QED
    BY <2>2, <2>4, <2>5
<1>11. CASE advance_raises(w)
  <2>1. PICK b \in BOOLEAN : Goto(w, "error", Failure(wf, b))
    BY <1>11 DEF advance_raises
  <2>2. Failure(wf, b) \in Job /\ "error" \in PC /\ Failure(wf, b).wf = wf
    BY <1>1, FailureType DEF PC, Failure, JobOf
  <2>3. rows' = rows /\ pc[w] \in {"advance", "commit"}
    BY <1>11 DEF advance_raises, store
  <2>4. JobFresh("error", Failure(wf, b), rows[wf])
    BY <2>3 DEF JobFresh, CopiesFresh
  <2> QED
    BY <1>3, <2>1, <2>2, <2>3, <2>4, GotoFresh
<1>12. CASE _process_one_refresh(w)
  <2>1. \/ Goto(w, "idle", NoJob)
        \/ /\ rows[wf].run_status = "RETRY_SCHEDULED"
           /\ \/ Goto(w, "write", JobOf(wf, DeadLettered(rows[wf])))
              \/ Goto(w, "write", JobOf(wf, rows[wf]))
    BY <1>12 DEF _process_one_refresh
  <2>2. rows' = rows /\ pc[w] = "refresh" /\ "idle" \in PC /\ "write" \in PC
    BY <1>12 DEF _process_one_refresh, store, PC
  <2>3. JobFresh("idle", NoJob, rows[NoJob.wf])
    BY DEF JobFresh
  <2>4. ASSUME rows[wf].run_status = "RETRY_SCHEDULED",
               NEW r \in {DeadLettered(rows[wf]), rows[wf]}
        PROVE  JobOf(wf, r) \in Job /\ JobOf(wf, r).wf = wf /\ JobFresh("write", JobOf(wf, r), rows[wf])
    <3>1. r \in WorkflowInstance /\ Same(rows[wf], r) /\ Awake(rows[wf])
      BY <1>1, <2>4, SameRewrites, RowTypes DEF Awake
    <3>2. JobOf(wf, r) \in Job /\ JobOf(wf, r).wf = wf /\ JobOf(wf, r).inst = r
      BY <1>1, <3>1, JobOfType DEF JobOf
    <3> QED
      BY <3>1, <3>2 DEF JobFresh
  <2> QED
    BY <1>3, <2>1, <2>2, <2>3, <2>4, NoJobType, GotoFresh
<1>13. CASE _handle_process_error(w)
  <2> DEFINE cur == [rows[wf] EXCEPT !.attempt_count = @ + 1]
             retry == [cur EXCEPT !.run_status = "RETRY_SCHEDULED", !.lease = "none"]
  <2>1. Goto(w, "write", JobOf(wf, DeadLettered(cur))) \/ Goto(w, "write", JobOf(wf, retry))
    BY <1>13 DEF _handle_process_error
  <2>2. rows' = rows /\ pc[w] = "error" /\ "write" \in PC
    BY <1>13 DEF _handle_process_error, store, PC
  <2>3. cur \in WorkflowInstance /\ Same(rows[wf], cur)
    BY <1>1 DEF WorkflowInstance, Same
  <2> HIDE DEF cur
  <2>4. retry \in WorkflowInstance /\ Same(rows[wf], retry)
    BY <2>3 DEF WorkflowInstance, WorkflowRunStatus, Same
  <2>5. DeadLettered(cur) \in WorkflowInstance /\ Same(rows[wf], DeadLettered(cur))
    BY <2>3, RowTypes, SameRewrites DEF Same
  <2> HIDE DEF retry
  <2>6. Awake(rows[wf])
    BY <2>2 DEF CopiesFresh, JobFresh
  <2>7. \A r \in WorkflowInstance : Same(rows[wf], r) =>
           JobOf(wf, r) \in Job /\ JobOf(wf, r).wf = wf /\ JobFresh("write", JobOf(wf, r), rows[wf])
    <3> SUFFICES ASSUME NEW r \in WorkflowInstance, Same(rows[wf], r)
                 PROVE  JobOf(wf, r) \in Job /\ JobOf(wf, r).wf = wf
                        /\ JobFresh("write", JobOf(wf, r), rows[wf])
      OBVIOUS
    <3>1. JobOf(wf, r) \in Job /\ JobOf(wf, r).wf = wf /\ JobOf(wf, r).inst = r
      BY <1>1, JobOfType DEF JobOf
    <3> QED
      BY <2>6, <3>1 DEF JobFresh
  <2> QED
    BY <1>3, <2>1, <2>2, <2>4, <2>5, <2>7, GotoFresh
<1>14. CASE update_instance(w)
  <2> DEFINE logs == inst.run_status = "DEAD_LETTER" /\ ~Collides(wf, inst)
             seq == IF logs THEN NextSeq(wf, inst) ELSE inst.event_seq
  <2>1. seq \in Nat
    BY <1>1 DEF NextSeq
  <2>2. /\ rows' = [rows EXCEPT ![wf] = [inst EXCEPT !.event_seq = seq]]
        /\ Goto(w, "idle", NoJob) /\ pc[w] = "write"
    BY <1>14 DEF update_instance
  <2> HIDE DEF seq
  <2> QED
    BY <2>1, <2>2, NoJobType, WriteFresh
<1> QED
  BY <1>4, <1>5, <1>6, <1>8, <1>9, <1>10, <1>11, <1>12, <1>13, <1>14 DEF tick

\* A step beside the worker that changes one row, and leaves its cursor and its
\* mark alone when it is awake.
LEMMA OneRowFresh ==
    ASSUME TypeOK, CopiesFresh, UNCHANGED <<pc, job, batch>>,
           NEW wf \in Workflows, NEW new, rows' = [rows EXCEPT ![wf] = new],
           Awake(rows[wf]) => Awake(new) /\ Same(rows[wf], new),
           RowMoves(rows[wf], new)
    PROVE  CopiesFresh' /\ \A x \in Workflows : RowMoves(rows[x], rows'[x])
<1>1. /\ rows'[wf] = new /\ \A x \in Workflows : x # wf => rows'[x] = rows[x]
      /\ \A x \in Workflows : rows[x] \in WorkflowInstance
  BY DEF TypeOK
<1>2. \A x \in Workflows : Awake(rows[x]) => Awake(rows'[x]) /\ Same(rows[x], rows'[x])
  BY <1>1, SameRewrites
<1>3. \A x \in Workflows : RowMoves(rows[x], rows'[x])
  BY <1>1, SameRewrites, SameMoves
<1> QED
  BY <1>2, <1>3, RowsFresh

\* Operators, the sweeper, the clock and restarts keep the copies fresh and move
\* the rows along the table.
LEMMA EnvironmentFresh ==
    ASSUME OneWorker, TypeOK, CopiesFresh, [Next]_vars, ~\E w \in Workers : tick(w)
    PROVE  CopiesFresh' /\ \A x \in Workflows : RowMoves(rows[x], rows'[x])
<1>1. \A x \in Workflows : rows[x] \in WorkflowInstance
  BY DEF TypeOK
<1>2. rows' = rows /\ UNCHANGED <<pc, job, batch>> =>
         CopiesFresh' /\ \A x \in Workflows : RowMoves(rows[x], rows'[x])
  BY <1>1, SameRewrites, SameMoves, RowsFresh
<1>3. ASSUME NEW wf \in Workflows, NEW p \in BOOLEAN, NEW e \in BOOLEAN,
             start_expense_to_receipt(wf, p, e)
      PROVE  CopiesFresh' /\ \A x \in Workflows : RowMoves(rows[x], rows'[x])
  <2> DEFINE new == [Absent EXCEPT !.workflow_state = "RECEIVED", !.run_status = "PENDING",
                         !.publish_spec = p, !.send_email = e, !.event_seq = 1]
  <2>1. rows[wf] = Absent /\ rows' = [rows EXCEPT ![wf] = new] /\ UNCHANGED <<pc, job, batch>>
    BY <1>3 DEF start_expense_to_receipt, worker
  <2>2. /\ ~Awake(Absent) /\ Absent.workflow_state = "ABSENT" /\ Absent.timeout_applied = FALSE
        /\ new.workflow_state = "RECEIVED"
    BY DEF Absent, Awake
  <2> HIDE DEF new
  <2>3. RowMoves(rows[wf], new)
    BY <2>1, <2>2, Edges DEF RowMoves, Edge
  <2> QED
    BY <2>1, <2>2, <2>3, OneRowFresh
<1>4. ASSUME NEW wf \in Workflows, list_operator_cases(wf)
      PROVE  CopiesFresh' /\ \A x \in Workflows : RowMoves(rows[x], rows'[x])
  BY <1>2, <1>4 DEF list_operator_cases, store, worker
<1>5. ASSUME NEW wf \in Workflows, NEW k, NEW d, enqueue_signal_and_wake(wf, k, d)
      PROVE  CopiesFresh' /\ \A x \in Workflows : RowMoves(rows[x], rows'[x])
  <2> DEFINE new == [rows[wf] EXCEPT !.run_status = "PENDING", !.lease = "none"]
  <2>1. rows' = [rows EXCEPT ![wf] = new] /\ UNCHANGED <<pc, job, batch>>
    BY <1>5 DEF enqueue_signal_and_wake, worker
  <2>2. Awake(new) /\ Same(rows[wf], new)
    BY <1>1 DEF Awake, Same, WorkflowInstance
  <2> HIDE DEF new
  <2> QED
    BY <2>1, <2>2, SameMoves, OneRowFresh
<1>6. ASSUME NEW wf \in Workflows, sweep_approval_timeouts(wf)
      PROVE  CopiesFresh' /\ \A x \in Workflows : RowMoves(rows[x], rows'[x])
  <2> DEFINE new == [rows[wf] EXCEPT !.workflow_state = "NEEDS_INFORMATION",
                       !.wait = NoKey, !.wait_expired = TRUE,
                       !.wait_deadline = "none", !.timeout_applied = TRUE,
                       !.event_seq = NextSeq(wf, rows[wf])]
  <2>1. /\ rows' = [rows EXCEPT ![wf] = new] /\ UNCHANGED <<pc, job, batch>>
        /\ TimesOut(rows[wf])
    BY <1>6 DEF sweep_approval_timeouts, worker
  <2>2. new.workflow_state = "NEEDS_INFORMATION" /\ new.timeout_applied = TRUE
    BY <1>1 DEF WorkflowInstance
  <2>3. ~Awake(rows[wf]) /\ rows[wf].workflow_state \in HUMAN_GATE_STATES
    BY <2>1 DEF TimesOut, Awake
  <2> HIDE DEF new
  <2>4. RowMoves(rows[wf], new)
    BY <2>2, <2>3, Edges DEF RowMoves, Edge
  <2> QED
    BY <2>1, <2>3, <2>4, OneRowFresh
<1>7. ASSUME NEW wf \in Workflows, lease_expires(wf)
      PROVE  CopiesFresh' /\ \A x \in Workflows : RowMoves(rows[x], rows'[x])
  <2> DEFINE new == [rows[wf] EXCEPT !.lease = "expired"]
  <2>1. rows' = [rows EXCEPT ![wf] = new] /\ UNCHANGED <<pc, job, batch>>
    BY <1>7 DEF lease_expires, worker
  <2>2. (Awake(rows[wf]) => Awake(new)) /\ Same(rows[wf], new)
    BY <1>1 DEF Awake, Same, WorkflowInstance
  <2> HIDE DEF new
  <2> QED
    BY <2>1, <2>2, SameMoves, OneRowFresh
<1>8. ASSUME NEW wf \in Workflows, deadline_passes(wf)
      PROVE  CopiesFresh' /\ \A x \in Workflows : RowMoves(rows[x], rows'[x])
  <2> DEFINE new == [rows[wf] EXCEPT !.wait_deadline = "past"]
  <2>1. rows' = [rows EXCEPT ![wf] = new] /\ UNCHANGED <<pc, job, batch>>
    BY <1>8 DEF deadline_passes, worker
  <2>2. (Awake(rows[wf]) => Awake(new)) /\ Same(rows[wf], new)
    BY <1>1 DEF Awake, Same, WorkflowInstance
  <2> HIDE DEF new
  <2> QED
    BY <2>1, <2>2, SameMoves, OneRowFresh
<1>9. ASSUME NEW w \in Workers, open_workspace(w)
      PROVE  CopiesFresh' /\ \A x \in Workflows : RowMoves(rows[x], rows'[x])
  <2>1. /\ rows' = rows /\ pc'[w] = "idle"
        /\ batch'[w] = [x \in Workflows |-> Absent]
    BY <1>9 DEF open_workspace, store, TypeOK
  <2>2. CopiesFresh'
    <3> SUFFICES ASSUME NEW v \in Workers
                 PROVE  /\ \A y \in Workflows : batch'[v][y] # Absent =>
                             Awake(rows'[y]) /\ Same(rows'[y], batch'[v][y])
                        /\ pc'[v] # "idle" => batch'[v][job'[v].wf] = Absent
                        /\ JobFresh(pc'[v], job'[v], rows'[job'[v].wf])
      BY DEF CopiesFresh
    <3>1. v = w
      BY DEF OneWorker
    <3> QED
      BY <2>1, <3>1 DEF JobFresh
  <2> QED
    BY <1>1, <2>1, <2>2, SameRewrites, SameMoves
<1>10. CASE UNCHANGED vars
  BY <1>2, <1>10 DEF vars, store, worker
<1>11. \A p \in BOOLEAN : \A e \in {FALSE, p} : e \in BOOLEAN
  OBVIOUS
<1> QED
  BY <1>3, <1>4, <1>5, <1>6, <1>7, <1>8, <1>9, <1>10, <1>11
     DEF Next, signal_approval, signal_operator

\* With one worker at a time its copies are always fresh.
LEMMA FreshHolds == ASSUME OneWorker PROVE Spec => []CopiesFresh
<1>1. Init => CopiesFresh
  BY DEF Init, CopiesFresh, JobFresh
<1>2. TypeOK /\ GateInv /\ CopiesFresh /\ [Next]_vars => CopiesFresh'
  BY WorkerFresh, EnvironmentFresh
<1> QED
  BY <1>1, <1>2, EngineTypeCorrect, GatesHold, PTL DEF Spec

\* While one process works at a time the stored business cursor moves only along
\* EXPENSE_TO_RECEIPT_TRANSITIONS, although every write of a worker is the whole
\* row from a copy, no version of it is checked, and operators, the sweeper and
\* restarts come between the read and the write.
THEOREM CursorFollowsMachineHolds ==
    ASSUME OneWorker
    PROVE  Spec => CursorFollowsMachine
<1> DEFINE Step == \A wf \in Workflows :
              \/ rows'[wf].workflow_state = rows[wf].workflow_state
              \/ <<rows[wf].workflow_state, rows'[wf].workflow_state>>
                    \in EXPENSE_TO_RECEIPT_TRANSITIONS
<1>1. TypeOK /\ GateInv /\ CopiesFresh /\ [Next]_vars => [Step]_rows
  <2>1. ASSUME TypeOK, GateInv, CopiesFresh, [Next]_vars
        PROVE  \A x \in Workflows : RowMoves(rows[x], rows'[x])
    BY <2>1, WorkerFresh, EnvironmentFresh
  <2> QED
    BY <2>1 DEF RowMoves, Edge
<1> QED
  BY <1>1, EngineTypeCorrect, GatesHold, FreshHolds, PTL DEF Spec, CursorFollowsMachine

\* K13: while one process works at a time a wait that has timed out stays so, and
\* no consequential command takes effect for a row it has sent to
\* NEEDS_INFORMATION, however late the APPROVE and whatever the worker had
\* already read.
THEOREM TimeoutFinalHolds ==
    ASSUME OneWorker
    PROVE  Spec => TimeoutFinal
<1> DEFINE Step == \A wf \in Workflows :
          rows[wf].timeout_applied =>
              /\ rows'[wf].timeout_applied
              /\ rows[wf].workflow_state = "NEEDS_INFORMATION" =>
                    \A c \in L3_COMMAND_TYPES : applied'[wf][c] = applied[wf][c]
<1>1. TypeOK /\ GateInv /\ CopiesFresh /\ [Next]_vars => Step
  <2> SUFFICES ASSUME TypeOK, GateInv, CopiesFresh, [Next]_vars, NEW wf \in Workflows,
                      rows[wf].timeout_applied
               PROVE  /\ rows'[wf].timeout_applied
                      /\ rows[wf].workflow_state = "NEEDS_INFORMATION" =>
                            \A c \in L3_COMMAND_TYPES : applied'[wf][c] = applied[wf][c]
    OBVIOUS
  <2>1. rows'[wf].timeout_applied
    BY WorkerFresh, EnvironmentFresh DEF RowMoves
  <2>2. ASSUME NEW w \in Workers, execute(w), rows[wf].workflow_state = "NEEDS_INFORMATION",
               NEW c \in L3_COMMAND_TYPES
        PROVE  applied'[wf][c] = applied[wf][c]
    <3>1. /\ pc[w] = "execute" /\ Executing(job[w]) /\ job[w].wf \in Workflows
          /\ JobFresh("execute", job[w], rows[job[w].wf])
      BY <2>2 DEF execute, GateInv, ExecutesApproved, CopiesFresh, TypeOK, Job
    <3>2. CASE job[w].wf = wf /\ job[w].key.cmd = c
      <4>1. Same(rows[wf], job[w].inst) /\ job[w].inst.workflow_state \in HUMAN_GATE_STATES
        BY <3>1, <3>2 DEF JobFresh, Executing
      <4> QED
        BY <2>2, <4>1 DEF Same, HUMAN_GATE_STATES
    <3>3. CASE job[w].wf # wf \/ job[w].key.cmd # c
      <4>1. \/ applied' = applied
            \/ applied' = [applied EXCEPT ![job[w].wf][job[w].key.cmd] = @ + 1]
        <5>1. CASE UNCHANGED <<applied, view>>
          BY <5>1
        <5>2. CASE \E o : applied' = IF o = "ok"
                          THEN [applied EXCEPT ![job[w].wf][job[w].key.cmd] = @ + 1]
                          ELSE applied
          BY <5>2
        <5> QED
          BY <2>2, <5>1, <5>2 DEF execute
      <4>2. PICK x \in Workflows, d \in Commands : x = job[w].wf /\ d = job[w].key.cmd
        BY <3>1 DEF Executing
      <4>3. c \in Commands /\ applied \in [Workflows -> [Commands -> Nat]]
        BY DEF Commands, TypeOK
      <4>4. (x # wf \/ d # c) /\ (applied' = applied \/ applied' = [applied EXCEPT ![x][d] = @ + 1])
        BY <3>3, <4>1, <4>2
      <4> QED
        BY <4>3, <4>4
    <3> QED
      BY <3>2, <3>3
  <2>3. ASSUME NEW w \in Workers, open_workspace(w) PROVE applied' = applied
    BY <2>3 DEF open_workspace
  <2> QED
    BY <2>1, <2>2, <2>3, EffectsFrame
<1>2. TypeOK /\ GateInv /\ CopiesFresh /\ [Next]_vars => [Step]_vars
  BY <1>1
<1> QED
  BY <1>2, EngineTypeCorrect, GatesHold, FreshHolds, PTL DEF Spec, TimeoutFinal

=============================================================================
