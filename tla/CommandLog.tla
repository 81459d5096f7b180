----------------------------- MODULE CommandLog -----------------------------
(***************************************************************************)
(* The durable workspace's money truth: FileLedgerCommandLog, the fold     *)
(* that rebuilds a ledger from it (K17), and the entity snapshot kept for  *)
(* host applications.                                                      *)
(*                                                                         *)
(* A process opens the workspace, executes commands on its own ledger and  *)
(* appends to a shared file one row per successful command, holding a full *)
(* snapshot of that ledger.  The dispatch, the append and the execution    *)
(* receipt are separate steps: the process may die between them, and other *)
(* processes may step in.                                                  *)
(*                                                                         *)
(* Every allocate command charges the whole expense to one fund, as the    *)
(* classification agent proposes it, so an expense is charged exactly its  *)
(* amount when it has exactly one charge; funds hold enough for all.  Ids  *)
(* drawn at random are serial numbers of the dispatch that draws them.     *)
(* Left out: the fixture entities that every open registers again under    *)
(* the same ids, reject_expense, which changes nothing, and                *)
(* supersede_expense.                                                      *)
(***************************************************************************)
EXTENDS Naturals, Sequences, FiniteSets

CONSTANTS
    Processes,   \* processes that open the workspace
    Expenses,    \* expense ids
    Funds,       \* allocation ids
    Packets,     \* review packet ids: each approve command carries one
    Donations,   \* donation ids
    MaxIds,      \* bound: commands dispatched
    MaxCrashes   \* bound: processes that die

ASSUME BoundsAssumption == MaxIds \in Nat /\ MaxCrashes \in Nat

VARIABLES
    log,            \* the rows of ledger_commands.jsonl
    torn,           \* the file ends in, or contains, a broken line
    exec_receipts,  \* keys of the stored execution receipts
    saved,          \* the entity snapshot of LedgerEntityRepository
    pc, cmd,        \* per process: where it is, the command under way
    ledger,         \* per process: its in-memory ledger
    seen,           \* per process: keys its FileLedgerCommandLog knows of
    dirty,          \* per process: an effect was applied and not logged
    ids, crashes

process == <<pc, cmd, ledger, seen, dirty>>
vars == <<log, torn, exec_receipts, saved, process, ids, crashes>>

-----------------------------------------------------------------------------
(* Types *)

ExpenseStates == {"ABSENT", "IMPORTED", "APPROVAL_PENDING", "APPROVED", "REVERSED"}
ExpenseAllocation == [id: Nat, expense: Expenses, fund: Funds]
\* A correction names the receipt it corrects; corrects is 0 otherwise.
Receipt == [id: Nat, expense: Expenses, donation: Donations, corrects: Nat]

\* What snapshot_ledger_entities writes and apply_result_json reads.
Entities == [expenses: [Expenses -> ExpenseStates],
             expense_allocations: SUBSET ExpenseAllocation,
             receipts: SUBSET Receipt,
             expense_receipts: [Expenses -> SUBSET Nat]]

EmptyLedger == [expenses |-> [e \in Expenses |-> "ABSENT"],
                expense_allocations |-> {}, receipts |-> {},
                expense_receipts |-> [e \in Expenses |-> {}]]

\* A command, which its idempotency key names in full.
NoArg == "none"
Commands ==
    [type: {"import_normalized_expense", "reverse_expense"},
     expense: Expenses, arg: {NoArg}]
    \cup [type: {"allocate_expense"}, expense: Expenses, arg: Funds]
    \cup [type: {"approve_expense"}, expense: Expenses, arg: Packets]
    \cup [type: {"publish_use_of_funds_receipt"}, expense: Expenses, arg: Donations]
NoCommand == [type |-> "none", expense |-> "none", arg |-> NoArg]

Row == [key: Commands, entities: Entities]

TypeOK ==
    /\ log \in Seq(Row)
    /\ torn \in BOOLEAN
    /\ exec_receipts \subseteq Commands
    /\ saved \in [entities: Entities, clean: BOOLEAN]
    /\ pc \in [Processes -> {"down", "idle", "append", "put_receipt"}]
    /\ cmd \in [Processes -> Commands \cup {NoCommand}]
    /\ ledger \in [Processes -> Entities]
    /\ seen \in [Processes -> SUBSET Commands]
    /\ dirty \in [Processes -> BOOLEAN]
    /\ ids \in Nat
    /\ crashes \in Nat

Init ==
    /\ log = << >>
    /\ torn = FALSE
    /\ exec_receipts = {}
    /\ saved = [entities |-> EmptyLedger, clean |-> TRUE]
    /\ pc = [p \in Processes |-> "down"]
    /\ cmd = [p \in Processes |-> NoCommand]
    /\ ledger = [p \in Processes |-> EmptyLedger]
    /\ seen = [p \in Processes |-> {}]
    /\ dirty = [p \in Processes |-> FALSE]
    /\ ids = 0
    /\ crashes = 0

-----------------------------------------------------------------------------
(* The fold *)

LoggedKeys == {log[i].key : i \in DOMAIN log}

\* Mutant: the first row that mentions an entity wins.
Newest_First(I) == CHOOSE i \in I : \A j \in I : i <= j

Newest(I) == CHOOSE i \in I : \A j \in I : j <= i

\* Rows whose snapshot has an entry for e.
Mentions(e) == {i \in DOMAIN log : log[i].entities.expenses[e] # "ABSENT"}
Lineages(e) == {i \in DOMAIN log : log[i].entities.expense_receipts[e] # {}}

\* rehydrate: apply_result_json for every row in file order.  Entries are
\* replaced by id and never deleted; charges and receipts do not change
\* once they have an id.
rehydrate ==
    [expenses |-> [e \in Expenses |->
        IF Mentions(e) = {} THEN "ABSENT"
        ELSE log[Newest(Mentions(e))].entities.expenses[e]],
     expense_allocations |->
        UNION {log[i].entities.expense_allocations : i \in DOMAIN log},
     receipts |-> UNION {log[i].entities.receipts : i \in DOMAIN log},
     expense_receipts |-> [e \in Expenses |->
        IF Lineages(e) = {} THEN {}
        ELSE log[Newest(Lineages(e))].entities.expense_receipts[e]]]

-----------------------------------------------------------------------------
(* LedgerCommandExecutor._dispatch: one operator per command, with the      *)
(* guards of the ledger operation it calls; n is the fresh id               *)

ChargesOf(l, e) == {ea \in l.expense_allocations : ea.expense = e}

\* An expense that is known is not imported again.
_import_normalized(p, c) ==
    /\ c.type = "import_normalized_expense"
    /\ ledger' = [ledger EXCEPT ![p].expenses[c.expense] =
                     IF @ = "ABSENT" THEN "IMPORTED" ELSE @]

\* The new charge replaces the ones the expense had.
Charged(l, e, fund, n) ==
    [l EXCEPT !.expenses[e] = "APPROVAL_PENDING",
              !.expense_allocations =
                  (@ \ ChargesOf(l, e)) \cup {[id |-> n, expense |-> e, fund |-> fund]}]

_allocate(p, c, n) ==
    /\ c.type = "allocate_expense"
    /\ ledger[p].expenses[c.expense] \in {"IMPORTED", "APPROVAL_PENDING"}
    /\ ledger' = [ledger EXCEPT ![p] = Charged(ledger[p], c.expense, c.arg, n)]

_approve(p, c) ==
    /\ c.type = "approve_expense"
    /\ ledger[p].expenses[c.expense] \in {"IMPORTED", "APPROVAL_PENDING"}
    /\ Cardinality(ChargesOf(ledger[p], c.expense)) = 1
    /\ ledger' = [ledger EXCEPT ![p].expenses[c.expense] = "APPROVED"]

\* Receipts rs, which draw the id n, are published for expense e.
Published(l, e, rs, n) ==
    [l EXCEPT !.receipts = @ \cup rs,
              !.expense_receipts[e] = IF rs = {} THEN @ ELSE @ \cup {n}]

_publish_receipt(p, c, n) ==
    /\ c.type = "publish_use_of_funds_receipt"
    /\ ledger[p].expenses[c.expense] = "APPROVED"
    /\ \A r \in ledger[p].receipts : r.expense = c.expense => r.donation # c.arg
    /\ LET receipt == [id |-> n, expense |-> c.expense,
                       donation |-> c.arg, corrects |-> 0] IN
       ledger' = [ledger EXCEPT ![p] = Published(ledger[p], c.expense, {receipt}, n)]

\* Mutant: a reversal corrects no receipt.
Corrections_None(l, e, n) == {}

Corrections(l, e, n) ==
    {[id |-> n, expense |-> e, donation |-> r.donation, corrects |-> r.id] :
        r \in {r \in l.receipts : r.id \in l.expense_receipts[e]}}

Reversed(l, e, n) ==
    Published([l EXCEPT !.expenses[e] = "REVERSED"], e, Corrections(l, e, n), n)

\* Reversing a reversed expense succeeds without effect.
_reverse_expense(p, c, n) ==
    /\ c.type = "reverse_expense"
    /\ \/ /\ ledger[p].expenses[c.expense] = "REVERSED"
          /\ UNCHANGED ledger
       \/ /\ ledger[p].expenses[c.expense] = "APPROVED"
          /\ ledger' = [ledger EXCEPT ![p] = Reversed(ledger[p], c.expense, n)]

_dispatch(p, c, n) ==
    \/ _import_normalized(p, c)
    \/ _allocate(p, c, n)
    \/ _approve(p, c)
    \/ _publish_receipt(p, c, n)
    \/ _reverse_expense(p, c, n)

-----------------------------------------------------------------------------
(* Processes *)

\* Mutant: _load_seen is not called.
open_workspace_Unseen(p) ==
    /\ pc[p] = "down"
    /\ ~torn
    /\ pc' = [pc EXCEPT ![p] = "idle"]
    /\ ledger' = [ledger EXCEPT ![p] = rehydrate]
    /\ seen' = [seen EXCEPT ![p] = {}]
    /\ dirty' = [dirty EXCEPT ![p] = FALSE]
    /\ UNCHANGED <<log, torn, exec_receipts, saved, cmd, ids, crashes>>

\* A corrupt line makes iter_rows raise, and the workspace does not open.
open_workspace(p) ==
    /\ pc[p] = "down"
    /\ ~torn
    /\ pc' = [pc EXCEPT ![p] = "idle"]
    /\ ledger' = [ledger EXCEPT ![p] = rehydrate]
    /\ seen' = [seen EXCEPT ![p] = LoggedKeys]
    /\ dirty' = [dirty EXCEPT ![p] = FALSE]
    /\ UNCHANGED <<log, torn, exec_receipts, saved, cmd, ids, crashes>>

\* CommandExecutor.execute up to the end of _dispatch.  A stored receipt
\* answers the command without it, and a refused one changes nothing.
execute(p, c) ==
    /\ pc[p] = "idle"
    /\ ids < MaxIds
    /\ c \notin exec_receipts
    /\ _dispatch(p, c, ids + 1)
    /\ ids' = ids + 1
    /\ cmd' = [cmd EXCEPT ![p] = c]
    /\ pc' = [pc EXCEPT ![p] = "append"]
    /\ UNCHANGED <<log, torn, exec_receipts, saved, seen, dirty, crashes>>

\* Mutant: only the part of the ledger the command is about is captured.
build_result_json_Partial(c, l) ==
    [key |-> c, entities |-> [l EXCEPT !.receipts = {}]]

\* Mutant: the row is keyed by the command without its expense.
build_result_json_Keyless(c, l) ==
    [key |-> [c EXCEPT !.expense = "none"], entities |-> l]

build_result_json(c, l) == [key |-> c, entities |-> l]

\* A key this process has seen is not appended again, whatever the command
\* has just done.  Nothing after a broken line is read again.
append(p) ==
    /\ pc[p] = "append"
    /\ pc' = [pc EXCEPT ![p] = "put_receipt"]
    /\ \/ /\ cmd[p] \in seen[p]
          /\ UNCHANGED <<log, seen, dirty>>
       \/ /\ cmd[p] \notin seen[p]
          /\ log' = IF torn THEN log
                    ELSE Append(log, build_result_json(cmd[p], ledger[p]))
          /\ seen' = [seen EXCEPT ![p] = @ \cup {cmd[p]}]
          /\ dirty' = [dirty EXCEPT ![p] = FALSE]
    /\ UNCHANGED <<torn, exec_receipts, saved, cmd, ledger, ids, crashes>>

\* Mutant: the receipt is stored although the append raised.
append_raises_Receipted(p) ==
    /\ pc[p] = "append"
    /\ cmd[p] \notin seen[p]
    /\ pc' = [pc EXCEPT ![p] = "put_receipt"]
    /\ dirty' = [dirty EXCEPT ![p] = TRUE]
    /\ UNCHANGED <<log, torn, exec_receipts, saved, cmd, ledger, seen, ids, crashes>>

\* The write raises: execute reports FAILED, the ledger stays changed.
append_raises(p) ==
    /\ pc[p] = "append"
    /\ cmd[p] \notin seen[p]
    /\ pc' = [pc EXCEPT ![p] = "idle"]
    /\ cmd' = [cmd EXCEPT ![p] = NoCommand]
    /\ dirty' = [dirty EXCEPT ![p] = TRUE]
    /\ UNCHANGED <<log, torn, exec_receipts, saved, ledger, seen, ids, crashes>>

\* The receipt goes to the workflow store, which may refuse it.
_store_receipt(p) ==
    /\ pc[p] = "put_receipt"
    /\ pc' = [pc EXCEPT ![p] = "idle"]
    /\ cmd' = [cmd EXCEPT ![p] = NoCommand]
    /\ \/ exec_receipts' = exec_receipts \cup {cmd[p]}
       \/ exec_receipts' = exec_receipts
    /\ UNCHANGED <<log, torn, saved, ledger, seen, dirty, ids, crashes>>

\* Mutant: the snapshot is saved from inside a command.
persist_ledger_snapshot_Early(p) ==
    /\ pc[p] \in {"idle", "append"}
    /\ saved' = [entities |-> ledger[p], clean |-> ~dirty[p]]
    /\ UNCHANGED <<log, torn, exec_receipts, process, ids, crashes>>

\* persist_ledger_snapshot: save_ledger replaces every stored entity, once
\* the commands of a durable_* call are done.
persist_ledger_snapshot(p) ==
    /\ pc[p] = "idle"
    /\ saved' = [entities |-> ledger[p], clean |-> ~dirty[p]]
    /\ UNCHANGED <<log, torn, exec_receipts, process, ids, crashes>>

\* A process dies.  In the middle of a write it may leave half a line.
crash(p) ==
    /\ pc[p] # "down"
    /\ crashes < MaxCrashes
    /\ crashes' = crashes + 1
    /\ pc' = [pc EXCEPT ![p] = "down"]
    /\ \/ torn' = torn
       \/ pc[p] = "append" /\ cmd[p] \notin seen[p] /\ torn' = TRUE
    /\ cmd' = [cmd EXCEPT ![p] = NoCommand]
    /\ ledger' = [ledger EXCEPT ![p] = EmptyLedger]
    /\ seen' = [seen EXCEPT ![p] = {}]
    /\ dirty' = [dirty EXCEPT ![p] = FALSE]
    /\ UNCHANGED <<log, exec_receipts, saved, ids>>

Next ==
    \E p \in Processes :
        \/ open_workspace(p)
        \/ \E c \in Commands : execute(p, c)
        \/ append(p) \/ append_raises(p) \/ _store_receipt(p)
        \/ persist_ledger_snapshot(p)
        \/ crash(p)

Spec == Init /\ [][Next]_vars

-----------------------------------------------------------------------------
(* Properties *)

\* A stored execution receipt stands for a row of the log, so a command that
\* execute answers from its receipt is one that a restart folds back (the
\* append comes before _store_receipt).  Until a line is torn.
ReceiptLogged == ~torn => exec_receipts \subseteq LoggedKeys

\* Each command is logged once, however often it is dispatched (append).
KeyOnce ==
    \A i, j \in DOMAIN log : log[i].key = log[j].key => i = j

Approvals(e) == {i \in DOMAIN log : log[i].key.type = "approve_expense"
                                    /\ log[i].key.expense = e}

\* An approval that is logged is never undone: a ledger rebuilt at any later
\* time has the expense approved, or reversed since (K17; the command log is
\* "the authoritative append-only path for mutations", STORAGE.md:51).
LoggedApprovalKept ==
    \A e \in Expenses :
        Approvals(e) # {} => rehydrate.expenses[e] \in {"APPROVED", "REVERSED"}

\* A restart between two commands is invisible: the ledger folded from the
\* log has the expenses, the receipts and the receipt lineage of the running
\* one, and every expense is still charged to its fund.
RestartInvisible ==
    \A p \in Processes :
        pc[p] = "idle" /\ ~dirty[p] =>
            /\ rehydrate.expenses = ledger[p].expenses
            /\ rehydrate.receipts = ledger[p].receipts
            /\ rehydrate.expense_receipts = ledger[p].expense_receipts
            /\ \A ea \in ledger[p].expense_allocations :
                  \E fa \in ChargesOf(rehydrate, ea.expense) : fa.fund = ea.fund

\* One use-of-funds receipt survives in the log for an expense and a
\* donation, although a crash may make publish_use_of_funds_receipt run
\* twice, and each has one correction once the expense is reversed.
LoggedReceiptsSound ==
    \A r \in rehydrate.receipts :
        /\ \A q \in rehydrate.receipts :
              q.expense = r.expense /\ q.donation = r.donation
                  /\ q.corrects = r.corrects => q = r
        /\ r.corrects = 0 /\ rehydrate.expenses[r.expense] = "REVERSED" =>
              \E q \in rehydrate.receipts : q.corrects = r.id

\* The entity snapshot is never ahead of the log: host applications do not
\* list as approved an expense that a restart would take back
\* (persist_ledger_snapshot runs between commands).
SnapshotNotAhead ==
    saved.clean =>
        \A e \in Expenses :
            saved.entities.expenses[e] \in {"APPROVED", "REVERSED"} =>
                rehydrate.expenses[e] \in {"APPROVED", "REVERSED"}

=============================================================================
