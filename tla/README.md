# Impact Relay in TLA+

A verification project for Impact Relay (`src/src/impact_relay`): a ledger of
restricted donations, agents that propose what to do with an expense, and a
durable workflow engine that lets nothing consequential happen without a human.
The modules model the ledger, the engine, the command log, the correction and
digest workflows, impact receipts, notifications with their providers, and the
SQL and object storage. TLC checks them on small instances, and TLAPS proves every
safety invariant and every action property of the passing runs for all
instances.

## 1. The system

### Components, their state and operations

| Component | Source | State | Operations |
|---|---|---|---|
| Domain ledger | `domain/ledger.py` | donors, donations, allocations (restricted funds), donation allocations (designations), expenses, expense allocations (charges), attributions, receipts, receipt index by expense | register, import, designate, allocate, approve, reconcile, attribute, publish, reverse, supersede |
| Workflow runtime | `workflows/runtime.py` | the row an advance has read and will write | `start_expense_to_receipt`, `advance_once` and a step function for each workflow state, signals |
| Workflow worker | `workflows/worker.py` | claimed rows not yet processed | `tick`: sweep, claim, process; backoff, dead letter |
| Workflow stores | `workflows/store_*.py` | workflows, events, signals, execution receipts | claim, commit_advance, enqueue_signal_and_wake, update_instance, sweep_approval_timeouts |
| Command executor | `agents/base.py`, `agents/executor.py`, `agents/authority.py` | receipts by idempotency key | authorize, look up, dispatch, store the receipt |
| Command log | `domain/ledger_log.py`, `workflows/durable.py` | JSONL rows, each with a full snapshot of a ledger; entity snapshot (`storage/ledger_repo.py`) | append, rehydrate (fold), open_workspace, persist_ledger_snapshot |
| Operator console | `workflows/ops.py`, `host/console.py` | what an operator has on the screen | list cases, approve, reject, resubmit |
| Agents | `agents/expense_workflow.py`, `notification_composer.py`, `privacy.py` | none | propose, hold or block |
| Notifications | `domain/notifications.py`, `privacy_ops.py`, `agents/executor.py` | consents, preferences, intents by dedup key, deliveries, all in memory | record consent, set preference, evaluate, deliver, send, erase a donor |
| Providers | `notifications/adapters.py` | none | open an adapter, one attempt of SMTP, Postmark, Resend, APNs, FCM or a fixture |
| Corrections, digests | `workflows/corrections.py`, `workflows/scheduled_digest.py`, `workflows/runtime.py` | workflow rows | reverse and supersede gates, digest assembly and acknowledgement |
| Impact registry | `domain/impact.py` | programs, funded assets, impact events, impact receipts, all in memory | register, deploy, submit, verify, publish |
| SQL storage | `storage/` | tenants, command log, entities and metadata, outbox, workspace scaffolds | append, create, verify, upsert, save, delete |
| Object storage | `storage/objects.py` | data and metadata with a retention policy | put, delete, purge |
| Projections, imports, auth, CLI, site | `donor/`, `public_*`, `pilot.py`, `auth/`, `cli.py` ... | none of their own | reading, formatting, checking |

`PROJECT.json` lists all of them with what is modelled and why the rest is not.

### How they interact

A worker claims due rows from the store, and for each calls `advance_once`,
which reads the row again, asks an agent, and either commits a new row, parks
the row at a human gate with a *frozen command*, or executes the frozen command
of the gate if an APPROVE signal for its key is queued. Executing goes through
the executor: receipt lookup, dispatch on the process's in-memory ledger, an
append to the command log, the execution receipt. Each store call is its own
transaction. Operators write signals, which also wake the row and clear its
lease. The sweeper takes a row whose wait has expired to NEEDS_INFORMATION. A
process that starts rebuilds its ledger by folding the command log.

### What is hard

- `commit_advance` writes the whole row from a copy, with no lease or version
  check; a signal clears the lease of a row that a worker is advancing.
- A command's effect, its log row and its receipt are three separate writes.
- Signals, timeouts and retries race with the advance that should serve them.
- The ledger keeps several sums consistent by hand, and `supersede_expense`
  has stages that can raise after it has changed state.
- The log holds snapshots, so a stale process overwrites what it did not know.
- A provider may take a message and its answer be lost; consent, intents and
  deliveries are in memory and are gone after a crash.
- A supersede has four stages and its retry looks only at the first.
- Storage clients race for a row, find one another's uncommitted rows only as a
  wait, and may lose the answer to a commit; a local object is two files.

The hazards, each at its line and with the properties that would catch it, are
in `PROJECT.json`.

### What makes each component correct

- Ledger: no donation designated and no fund charged beyond what came in; an
  approved expense is charged exactly once and never changes; one receipt per
  donation, expense and fund, corrected exactly once when the expense is.
- Engine: nothing consequential without a human APPROVE; the cursor never ahead
  of the ledger; a gate always has its command; money commands take effect
  once; a timeout is final; work comes to rest.
- Command log: what is acknowledged is logged; nothing logged is undone; a
  restart is invisible; the entity snapshot is not ahead of the log.
- Notifications: nothing reaches a provider against the donor's last word, or
  twice in one life of its intent; a stored send receipt means a provider took
  the message; deliveries and intents agree.
- Corrections and digests: what is reported as delivered is in the log; a gate
  opens on APPROVE only; a gate that timed out stays shut.
- Impact: one receipt per donor, event and fund, none on corrected money.
- Storage: the first request for a slot wins for ever and everybody is told so
  (`FirstWins`); no scaffold on a tenant in use; no purge of a protected object.

## 2. Modules

| Module | Models | Lines of code it stands for |
|---|---|---|
| `Money` | cents, sums, pro-rata rounding | `domain/types.py` `money`, the sums of `domain/ledger.py` |
| `Ledger` | the domain ledger | `domain/ledger.py` |
| `WorkflowEngine` | runtime, worker, stores, executor, operator | `workflows/`, `agents/` |
| `CommandLog` | file log, fold, logging executor, entity snapshot | `domain/ledger_log.py`, `workflows/durable.py`, `agents/executor.py` |
| `Providers` | what a configuration must have; an adapter's verdict on what it sees | `notifications/adapters.py` |
| `Notifications` | consent, preferences, intents, delivery, the send command, erasure | `domain/notifications.py`, `agents/executor.py`, `agents/base.py`, `privacy_ops.py` |
| `Corrections` | correction and digest workflows, executed on a durable workspace | `workflows/corrections.py`, `workflows/scheduled_digest.py`, `workflows/runtime.py`, `agents/executor.py`, `digest.py` |
| `Impact` | the impact registry over a ledger it only reads | `domain/impact.py` |
| `CorrectedImpact` | `Impact` composed with `Corrections` in one process | |
| `FirstWins` | the abstract specification of an idempotent store | |
| `SqlStore` | SQL command log, scaffold and the other writers, as transactions | `storage/command_log.py`, `storage/workspace.py`, `storage/portable.py`, `storage/sql.py` |
| `Objects` | object storage on files and on S3 | `storage/objects.py` |
| `Storage` | `SqlStore` and `Objects` side by side | |
| `MC...` | instances and symmetry for TLC | |
| `LedgerProofs`, `LedgerHistoryProofs` | proofs about `Money` and `Ledger`: types and balances; then frozen facts, receipts and attributions | |
| `WorkflowEngineProofs`, `WorkflowGateProofs` | proofs about `WorkflowEngine` | |
| `CommandLogProofs` | proofs about `CommandLog` | |
| `NotificationsProofs` | proofs about `Notifications` | |
| `CorrectionsProofs` | proofs about `Corrections` and `CorrectedImpact` | |
| `StorageProofs` | proofs about `SqlStore` and `Objects` side by side: the refinement, `NoAdoption`, `ProtectedKept` | |

**Ledger.** Each variable is the dict of that name. Each public method is an
action whose guard is the conjunction of the code's checks; a call that raises
changes nothing and is not an action, except `supersede_expense`, which stores
the old expense as SUPERSEDED and may then stop before importing, allocating or
approving the replacement. Amounts are cents. `money()` is the identity on
cents; where it rounds (the pro-rata share) `ProRata` gives the nearest cent,
and either neighbour on an exact half, since the code rounds an already rounded
28-digit quotient. Random ids are positions. A donation allocation id may be
chosen by the caller, so it is an input, and `FreshDaIds` says whether callers
reuse one. A sum over records is the cardinality of its set of cents, which
TLC can count and TLAPS can reason about without recursion.

**WorkflowEngine.** One step per store transaction. A worker's `pc` is where it
is between two transactions; `job` is the copy of the row it will write; `batch`
is what it claimed. `view` is what its own ledger knows. `applied` counts
effects and is read only by the properties and by a restart. Leases are none,
held or expired; deadlines none, set or past; due times have always come, so
every schedule of retries is covered. The three stores differ as in the code:
only the memory store refuses signals by status; the SQL stores number events
from the copy, so a stale commit collides and rolls back; PostgreSQL's text of
that error is classified as already applied. A domain refusal is a choice in
`Outcomes`. `LeaseCoversAdvance` is TRUE in the runs: no live worker outlasts
its lease; the theorems hold for both values.

**CommandLog.** Dispatch, append and receipt are three steps of a process; it
may die after each, an append may raise, a write may be cut off in the middle
(`torn`). Commands are their idempotency keys. The ledger is cut down to what a
restart can lose: expense states, charges, receipts and their lineage; each
allocate charges the whole expense, so "charged its amount" is "has one
charge". `dirty` records that an append raised after the ledger had changed.
`WorkflowEngine` and `CommandLog` meet at `open_workspace`: the engine assumes
that logged commands survive a restart, which `LoggedApprovalKept` and
`RestartInvisible` establish for one process.

**Providers and Notifications.** A configuration is the set of its fields that
fail validation; an adapter is opened when there is none. An attempt is one of
the replies the adapter can see, `MayHaveTaken` says whether the provider may
then have the message, and `Verdict` what the adapter makes of it; an exception
of `http.client` is caught by none of the HTTP adapters and passes through.
The process is single threaded, so evaluation up to the network is one step and
the answer another; between them it can only die. A dedup key is a receipt and
a channel, because the donor, the class and the source type follow from the
receipt and the template version is fixed. `mailbox`, `era` and `refused` are
history: what providers have taken, how often a donor's intents were forgotten,
and where the donor's last word was no. A restart forgets consents too, and a
donor has to be asked again.

**Corrections.** The steps without a command are one transaction each; they are
interleaved with other workers in `WorkflowEngine`. An execution is four: the
ledger, the log, the receipt, the row. The ledger is cut down to expense states
and whether an expense's receipts have been corrected; `Superseding` lists the
ledgers a supersede can leave, one for each stage that may raise. The restart
takes back everything since the last logged command, which is what
`CommandLog` shows. A command is its idempotency key, so two workflows that ask
for the same correction share the receipt, and a simulated one answers a real
one. Signals reach a row once it has asked. `signal_approval` refuses agents as
approvers, so all decisions are human; EDIT stands for REQUEST_INFORMATION too.

**Impact and CorrectedImpact.** `Impact` has no ledger: `CorrectedImpact`
instantiates it with the ledger of `Corrections`, adds the step that attributes
a donor, and a restart that keeps the log and forgets all impact records. The
loop of `publish_impact_receipts` is the set of positions it reaches before the
first existing receipt makes it raise.

**SqlStore.** A call is a transaction of several statements at READ COMMITTED.
`holds` is an uncommitted row, which makes another insert of the same key wait;
after a conflict the read-back sees the committed row. A database error, a lock
timeout or a dead process is `rollback`, before the commit or after it, when
only the answer is lost. `kept` is the committed row of a slot: a slot is a
command key or the scaffold, a body the command's type and payload or the
scaffold's key and policy, compared as a whole as the code does. `found` is
history: the tables occupied when the scaffold was inserted and ever since.

**Objects.** Data and metadata are written and removed one after the other on
the file system and as one in S3. `write_text` empties the file first (`torn`).
A purge lists the metadata files, then looks at one object after another.
Callers are assumed not to put or delete the same key at the same time, which
the object store leaves to them: it takes no lock.

## 3. Runs

| Run | Result | What it shows |
|---|---|---|
| `ledger` | passes, 52,547 states | balances, frozen facts, attributions and receipt lineage over every sequence of calls |
| `ledger_repeated_splits` | violated | a split list that names a fund twice overdraws it |
| `engine_single` | passes, 2,436,709 states | one worker, a crash anywhere, timeouts, repeated and late signals |
| `engine_workers` | passes, 761,990 states | two workers with stale copies of one row |
| `engine_live` | passes, 88,818 states | started work comes to rest, a gate is served |
| `command_log` | passes, 990,228 states | one process, crashes, torn lines, failing appends |
| `log_stale_process` | violated | a stale process's snapshot undoes a logged approval |
| `notifications` | passes, 2,543,704 states | every backend and answer, consent changes, erasures, a crash anywhere |
| `corrections` | passes, 626,751 states | two workflows that may compete for an expense, failures, a restart, simulation, timeouts |
| `correction_half_done` | violated | the retry of a half-done supersede is a success without effect |
| `impact` | passes, 125,274 states | impact receipts beside a correction and a restart |
| `storage` | passes, 393,290 states | two database and two object clients, failures at any statement |

Each property of a passing run has a mutant: a plausible mistake in a definition
that models code, which TLC must then find. Mutants stand before the definition
they replace and are marked "Mutant".

### Bounds

- Ledger: one donor and donation, two funds, two designations, two expenses and
  amounts 1 and 2. Two expenses are what it takes to overdraw a fund together,
  to attribute one donation twice and to supersede one by the other; the two
  amounts make partial splits, rounding and refusals for lack of balance happen.
- Engine: one workflow, since workflows share only the command log; two workers
  where copies go stale; two or three signals (REJECT then APPROVE, or a repeat,
  or one that comes late); two packets, so that the approval of an older packet
  can arrive at the gate of a newer one; one crash, which may come after any
  step; `max_attempts` of 1 or 2 reaches retry and dead letter.
- Command log: six dispatches cover import, allocate, approve, publish, reverse
  with one of them run again; two crashes allow a crash in the recovery from
  one. The stale-process run needs a second process and a second expense.

- Notifications: one donor, a use-of-funds and an impact receipt, e-mail and
  push, two intents and one crash or erasure: enough to send, forget and send
  again, and to refuse on one channel what was allowed on another. Two hours and
  a window round midnight reach both sides of quiet hours; `QuietHoursWrap`
  compares the window with arithmetic modulo the day for all windows.
- Corrections: two workflows, two signals, two attempts and one restart: a
  decision turned down and one accepted, a retry and a dead letter. The commands
  are a reversal, a supersede, one whose replacement has the id of an existing
  expense, and the reversal of the replacement.
- Impact: two donors on one expense and one of them on its replacement, so that
  a publication can stop in the middle and be repeated after a correction.
- Storage: four calls in all, over one key, the scaffold, two bodies and one
  object: two competing requests for a slot with one lost answer and its retry,
  or a scaffold beside two other writers, or a put, a second put and a purge.

Deadlock is checked in `corrections` and `impact`, where an operator can always
wake a row. In the others an instance may come to rest when its bounds are used
up, and a system whose workflows are all waiting or done is not stuck.

### Fairness

`FairSpec` assumes weak fairness of each worker's `tick`, because `worker.run`
polls for ever and a worker with something to do does it. Operators, deadlines
and crashes owe nothing. Signals are bounded, so an operator cannot keep a gate
busy for ever. A claim that may always raise is still served, because attempts
are counted.

## 4. Proofs

All are machine-checked for every value of the constants. Every invariant and
every action property of a passing run is the statement of a theorem, and so is
the refinement; what is proved by induction was first checked by TLC as an
invariant of the run.

### Hypotheses

The constants are subject only to the named assumptions of the modules, which
TLC evaluates in the runs: bounds are naturals, ids of expenses and of
replacements differ (`CorrectionsAssumption`), attributions name
ids of the ledger (`AttributionsAssumption`), there is
something to tell a donor about (`NotificationsAssumption`), and the like. Some
theorems have a hypothesis of their own, and each is needed:

| Hypothesis | Theorems | Without it |
|---|---|---|
| `SplitsNameFundsOnce` | `FundSafe` | `ledger_repeated_splits` overdraws a fund |
| `FreshDaIds` | `FundSafe`, `AttributionSafe` | a designation that charges or attributions rest on is replaced by a smaller one under the same id |
| `OneWorker` | `MoneyOnceHolds`, `CursorFollowsMachineHolds`, `TimeoutFinalHolds` | with two workers a signal clears the lease of a row under way, both advance it, and TLC finds each of the three violated |
| `SingleProcess` | the theorems of `CommandLogProofs` on the fold | `log_stale_process` undoes a logged approval |

`OneWorker` and `SingleProcess` say that the set has at most one element, which
is the pilot's deployment: one process on a workspace, which may die and start
again. All else holds for any number of workers, processes and clients.

### Ledger

- Lemmas about `Money`: a sum is the cardinality of a set of cents, so sums are
  finite, monotone and additive by the library's facts about finite sets.
- `TypeCorrect`, `IndexCorrect`: the ledger is well formed. Corrections are
  looked up through `_expense_receipts`, which the code maintains beside
  `receipts`; so the induction carries `ReceiptIndex`: the index lists exactly
  the receipts of each expense.
- `DesignationSafe`: no donation is designated beyond its amount. It is
  inductive with `TypeOK`, even when ids are reused.
- `FundSafe`: no fund is overdrawn. The induction adds that an expense has one
  charge per fund, so that comparing each charge with the balance compares
  their sum.
- `ApprovedFactsFrozenHolds`, `FullyCharged`: one lemma (`ExpenseStep`) says of
  every action what it may do to one expense: keep its amount, keep the charges
  of a settled one, move along the lines of a reconciliation or a correction,
  and settle only with charges that add up. The half-done stages of
  `supersede_expense` are its hard case. Both theorems follow from it.
- `ReceiptsAppendOnlyHolds`, `OneLiveReceiptHolds`, `CorrectionLineageHolds`:
  receipts change in three ways only (not at all, one published, the corrections
  of one expense). `LineageInv` is the inductive form of the lineage: receipts
  belong to expenses that were approved; one that still counts has only
  published ones; corrections name originals; and a reversed expense's receipts
  are corrected once. It needs `ReceiptIndex`, since the code corrects what the
  index lists.
- `AttributionSafe`: with the invariant that attributed expenses exist, no step
  brings an attribution back to life, and only `attribute_donor_to_expense`
  adds one, after comparing the sum.

### Engine

- `EngineTypeCorrect`: the tables and all private copies.
- `HumanApprovedHolds`, `CursorBackedHolds` and `GateHasWaitHolds`, for any
  number of workers and crashes and any lease timing. None is inductive,
  because a worker writes back a row it read long ago. `GateInv` therefore says
  of *every copy* (stored, claimed, under way) what the invariants say of the
  stored row, adds that receipts and views hold only what took effect, and that
  a consequential command under execution has an APPROVE for its own key. It
  survives stale writes because effects and signals are never taken back.
- `MoneyOnceHolds` (one worker): `KnowsEffects` says that the process knows of
  every money command that took effect, because it executed it or rebuilt its
  ledger from the log; the ledger then refuses the second one.
- `CursorFollowsMachineHolds`, `TimeoutFinalHolds` (one worker, any lease
  timing): `CopiesFresh` says that the rows a worker has claimed or is
  advancing have the cursor and the timeout mark of the stored ones and that the
  sweep passes over them, and that what the advance will write is one
  transition away. An operator's signal may wake the row meanwhile, but moves
  neither.

### Command log

- `LogTypeCorrect` and `ReceiptLoggedHolds`, for any number of processes: a
  stored receipt stands for a log row, since a process stores it after the
  append and what it has seen is logged (`SeenLogged`).
- `KeyOnceHolds`, `LoggedApprovalKeptHolds` and `SnapshotNotAheadHolds`:
  `LogInv` relates the log and the running ledger both ways: rows never lose an
  approval that an earlier row has (`RowsKeepFinal`), a running process has
  what is logged (`LedgerHasLog`), and has nothing beyond it but the approval
  under way (`LogHasLedger`). `FoldFinal` then says that the fold, which takes
  the newest row that mentions an expense, finds every logged approval. That a
  newest row exists is `NewestOf`, from the library's theorem that `<` is
  well-founded on the naturals.
- `RestartInvisibleHolds` and `LoggedReceiptsSoundHolds`: rows *extend* each
  other (`RowsExtend`), as no command takes anything back but a charge
  (`EffectExtends`); so the entry-by-entry fold has the books of the last row
  (`FoldLast`). `CleanCovered` is the inductive form of `RestartInvisible`: it
  holds in the middle of a command too, if that command is logged already. For
  that every row shows the command it is keyed by (`RowsDone`), and a command
  that shows in the ledger is refused, or changes no books, when it runs again
  (`EffectRepeats`). A charge that such an allocate puts back is among the
  rows' charges, which the fold never deletes. `Sound` strengthens the property
  on receipts by the lineage index and by "only reversed expenses have
  corrections", and every command preserves it (`EffectSound`).

### Notifications

- `NotificationsTypeCorrect`, `RepeatNeedsNewEraHolds`, `SavedMeansTakenHolds`,
  `DeliveriesMatchIntentsHolds`, `NoIsNoHolds`, from one invariant `NInv`. What
  a step does to the mailbox depends on the call it belongs to, so `NInv` says
  what a message on the wire implies (the donor's consent, an intent that
  nothing has come of, `CallInv`), that every message of the present era has an
  intent for `evaluate_intent` to find (`MailInv`), that whatever answers a send
  command without sending is of a message that was taken (`SeenInv`), and that
  a consent which the send command makes up after a refusal is one for an
  adapter that hands nothing to a provider (`ConsentInv`).

### Corrections, digests and impact

- `CorrectionsTypeCorrect`, `DeliveredIsLoggedHolds`, `GateHonouredHolds`,
  `ExpiredIsFinalHolds`, from `CInv`. A gate is passed in the transaction that
  commits an advance, two steps after the signal was read and the command was
  executed. `JobInv` bridges them: while a job is under way nothing moves its
  row out of the gate, and the row it will commit is past the gate only with an
  APPROVE that is still first in the queue and a correction that is in the log.
  `LogInv` adds that the running ledger has every correction of the log, and
  that a stored success receipt has its correction there; so a retry that is
  answered by a receipt delivers only what is logged.
- `OneImpactReceiptHolds`, `ImpactNotOnCorrectedHolds`, of the composition:
  `ImpactInv` adds to `CInv` that attributions are well formed. The second needs
  the relation of `LogInv` between ledger and log, because the registry reads
  the running ledger and the property speaks of the log.

### Storage

All of `StorageSpec`, that is with both stores in use.

- `StoreImplementsFirstWins`: for any number of clients, keys and bodies, every
  step is a step of `FirstWins` or a stutter; the mapping is the identity on
  `kept`, `told` and `refused`. A commit must find the slot empty, an answer
  must find the caller's own body, a conflict another one. None follows from
  the state of one transaction, so `StoreInv` adds to the types that a
  transaction at work holds its row or sees one that is committed (`Readable`),
  that at most one holds a slot (`Exclusive`), and what each stage implies,
  among it that a held slot has no committed row (`Working`).
- `NoAdoptionHolds`: the scaffold's checks leave no table behind that was
  occupied at the insert and stayed so. `AdoptInv` says it of the tables checked
  so far (`Checked`), and that `found` holds only tables that are occupied now,
  so that a table the check sees empty is not in it.
- `StorageTypeCorrect`, `ProtectedKeptHolds`: a purge decides by metadata it
  reads while others write. `ObjInv` says that a key is changed by one client
  at a time, whose change ends what purges under way promised of it
  (`OneChange`), and that what is promised to be kept has metadata that does
  not call for its removal (`PolicyKept`).

### Only model-checked

The liveness properties `StartedReachesRest` and `GateServed`: fairness and
ENABLED are beyond the prover. The three violated properties are refuted, so
there is nothing to prove.

## 5. Findings

Three runs are refuted by TLC, with the line that says otherwise quoted in
`PROJECT.json`:

- `ledger_repeated_splits`: a split list that names a fund twice overdraws it.
- `log_stale_process`: the snapshot of a process that opened the workspace
  earlier undoes an approval that another one has logged.
- `correction_half_done`: a supersede that raised after it marked the old
  expense is retried, succeeds without effect, and ends DELIVERED with no
  approved replacement and no correction receipts.

Behaviour that the modules have, that a reader of the documents may not expect,
and that no property forbids:

- A human REJECT at a gate of the engine is consumed as an invalid signal
  (`assert_execution_authorized` raises first), and an APPROVE queued behind it
  waits for another wake-up; a digest's gate does honour REJECT.
- After a crash between an approval's log row and its receipt the command is
  refused as already approved and the workflow ends FAILED_TERMINAL.
- A receipt may be published from an attribution older than the expense's
  present charges.
- An allocate that runs again after a crash leaves two charges in the log,
  because the fold only adds entries.
- A stored SIMULATED receipt answers the real command (DURABLE-WORKFLOWS.md:103),
  the one exception in `DeliveredIsLogged`.
- A digest, or a finished or blocked correction, that is woken by a signal is
  set PENDING again and again.
- After a crash a mail may be sent again (RUNBOOKS.md:14): `RepeatNeedsNewEra`
  shows that it takes a crash or an erasure. SMTP's QUIT failing after the
  message was accepted is reported as a failure.
- An intent that is DEFERRED_QUIET_HOURS, FAILED or CREATED keeps its dedup key
  and is never delivered later.
- `publish_impact_receipts` raises at the first donor who has a receipt, so a
  donor attributed since is told only if the ledger lists that donor before.

## 6. Not modelled

Within the modelled components: the start with a pre-imported expense (facade
only), the CANCELLED status, evidence and audit records, receipt hashes,
`load_ledger`, the deletion of an existing workspace by `durable_seed`, the
outbox claim and mark, grants of object URLs, the codecs of policies, sessions
and scaffolds, and all queries. A written log line is taken as durable. Message
texts, headers and the host's address lookup are left out of the providers.

Whole components: authentication and roles (token parsing and role tables), the
host session, console server and CLI (glue over modelled operations), imports
and reconciliation (readers with no state between calls), donor views, public
export and the site (read-only projections).

## 7. Plan

1. Done: the ledger, the engine, the command log, notifications, corrections,
   impact and storage, with a refinement, and proofs of all their safety
   properties.
2. An abstract specification of the money path (approved, published, told; each
   once, each after a human's word) and the engine with one worker shown to
   implement it: `GateInv`, `KnowsEffects` and `CopiesFresh` are the facts its
   proof needs.
3. What holds of two workers: `MoneyOnce` fails because each has its own ledger;
   that every effect beyond the first is of a command with an APPROVE is proved,
   that there is at most one per worker and life of its process is not.
4. The outbox claim and mark, which has no lease, and `load_ledger`, which reads
   metadata and entities in two statements.
