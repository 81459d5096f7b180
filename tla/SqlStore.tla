------------------------------ MODULE SqlStore ------------------------------
(***************************************************************************)
(* The SQL storage of one tenant as several processes use it: the command   *)
(* log (SqlLedgerCommandLog), the workspace scaffold                        *)
(* (SqlWorkspaceRepository), and the tables the older writers fill without  *)
(* regard to it.  The database runs at READ COMMITTED: a statement sees     *)
(* what is committed when it starts, and its own transaction; an insert     *)
(* waits while another transaction has inserted the same key.               *)
(***************************************************************************)
EXTENDS Naturals, Sequences

CONSTANTS
    Clients,    \* processes, each with a connection of its own
    Keys,       \* idempotency keys of ledger commands
    Bodies,     \* a command's type and payload; a scaffold's key and policy
    Nothing,    \* no row
    MaxCalls    \* bound: calls made

Scaffold == "scaffold"
Slots == Keys \cup {Scaffold}
EMPTY_TABLES ==
    <<"tenants", "ledger_command_log", "ledger_entity", "ledger_meta", "outbox_events">>
Tables == {EMPTY_TABLES[i] : i \in DOMAIN EMPTY_TABLES}

ASSUME SqlStoreAssumption ==
    /\ Scaffold \notin Keys
    /\ Nothing \notin Bodies
    /\ MaxCalls \in Nat

VARIABLES
    kept,       \* the committed row of each slot
    tables,     \* the other tables that have committed rows of the tenant
    call,       \* the call each client is in
    told, refused,  \* the answers given (history)
    calls       \* calls made

sqlVars == <<kept, tables, call, told, refused>>
vars == <<sqlVars, calls>>

\* holds: the transaction has an uncommitted row in the slot.  next: the table
\* create checks next.  found: the tables that had rows when the scaffold was
\* inserted and have had some ever since (history).
Txn(at, s, b, holds, found) ==
    [at |-> at, slot |-> s, body |-> b, holds |-> holds, next |-> 1, found |-> found]
Idle == Txn("idle", Scaffold, Nothing, FALSE, {})
Call == [at: {"idle", "insert", "check", "read", "commit", "answer"}, slot: Slots,
         body: Bodies \cup {Nothing}, holds: BOOLEAN, next: 1 .. 5, found: SUBSET Tables]

TypeOK ==
    /\ kept \in [Slots -> Bodies \cup {Nothing}]
    /\ tables \subseteq Tables \ {"ledger_command_log"}
    /\ call \in [Clients -> Call]
    /\ told \subseteq Slots \X Bodies /\ refused \subseteq Slots \X Bodies
    /\ calls \in 0 .. MaxCalls

Init ==
    /\ kept = [s \in Slots |-> Nothing]
    /\ tables = {}
    /\ call = [c \in Clients |-> Idle]
    /\ told = {} /\ refused = {}
    /\ calls = 0

\* The tables with rows of the tenant.
Occupied ==
    tables \cup IF \E k \in Keys : kept[k] # Nothing THEN {"ledger_command_log"} ELSE {}

Calls(c) ==
    /\ call[c] = Idle
    /\ calls < MaxCalls
    /\ calls' = calls + 1

-----------------------------------------------------------------------------
(* append and create: insert, look at the other tables, read back, commit.   *)

Request(c, s, b) ==
    /\ Calls(c)
    /\ call' = [call EXCEPT ![c] = Txn("insert", s, b, FALSE, {})]
    /\ UNCHANGED <<kept, tables, told, refused>>

append(c, k, b) == k \in Keys /\ Request(c, k, b)
create(c, b) == Request(c, Scaffold, b)

Held(s) == \E c \in Clients : call[c].holds /\ call[c].slot = s

\* Mutant: the row is written over when there is one.
Inserts_OrUpdates(s) == TRUE
\* ON CONFLICT DO NOTHING: the row is inserted if there is none.
Inserts(s) == kept[s] = Nothing

insert(c) ==
    LET s == call[c].slot
        fresh == s = Scaffold /\ Inserts(s)
    IN  /\ call[c].at = "insert"
        /\ ~Held(s)
        /\ call' = [call EXCEPT ![c] =
              Txn(IF fresh THEN "check" ELSE "read", s, call[c].body, Inserts(s),
                  IF fresh THEN Occupied ELSE {})]
        /\ UNCHANGED <<kept, tables, told, refused, calls>>

\* Mutant: the metadata table is not among those looked at.
Free_NotMeta(t) == t \notin Occupied \/ t = "ledger_meta"
Free(t) == t \notin Occupied

\* Mutant: one table too many is asked for.
MoreTables_OffByOne(i) == i <= Len(EMPTY_TABLES)
MoreTables(i) == i < Len(EMPTY_TABLES)

\* One table after the other; a row in any of them rolls the scaffold back.
check_table(c) ==
    LET t == EMPTY_TABLES[call[c].next] IN
    /\ call[c].at = "check"
    /\ \/ ~Free(t) /\ call' = [call EXCEPT ![c] = Idle]
       \/ /\ Free(t) /\ MoreTables(call[c].next)
          /\ call' = [call EXCEPT ![c].next = @ + 1]
       \/ /\ Free(t) /\ ~MoreTables(call[c].next)
          /\ call' = [call EXCEPT ![c].at = "read"]
    /\ UNCHANGED <<kept, tables, told, refused, calls>>

\* The row the transaction sees in its slot.
Seen(c) == IF call[c].holds THEN call[c].body ELSE kept[call[c].slot]

\* A row that is not the request raises, and the transaction is rolled back.
read_back(c) ==
    /\ call[c].at = "read"
    /\ \/ /\ Seen(c) = call[c].body
          /\ call' = [call EXCEPT ![c].at = "commit"]
          /\ UNCHANGED refused
       \/ /\ Seen(c) # call[c].body
          /\ call' = [call EXCEPT ![c] = Idle]
          /\ refused' = refused \cup {<<call[c].slot, call[c].body>>}
    /\ UNCHANGED <<kept, tables, told, calls>>

commit(c) ==
    /\ call[c].at = "commit"
    /\ kept' = IF call[c].holds THEN [kept EXCEPT ![call[c].slot] = call[c].body] ELSE kept
    /\ call' = [call EXCEPT ![c] = Txn("answer", call[c].slot, call[c].body, FALSE, {})]
    /\ UNCHANGED <<tables, told, refused, calls>>

answer(c) ==
    /\ call[c].at = "answer"
    /\ told' = told \cup {<<call[c].slot, call[c].body>>}
    /\ call' = [call EXCEPT ![c] = Idle]
    /\ UNCHANGED <<kept, tables, refused, calls>>

\* An error of the database, a lock not obtained in time, or the death of the
\* process: what is not committed is rolled back; after the commit only the
\* answer is lost.
rollback(c) ==
    /\ call[c] # Idle
    /\ call' = [call EXCEPT ![c] = Idle]
    /\ UNCHANGED <<kept, tables, told, refused, calls>>

\* verify_initialized_workspace reads one snapshot, so it is one step: the
\* scaffold must be the expected one, and the other tables empty.
verify_initialized_workspace(c, b) ==
    /\ Calls(c)
    /\ \/ /\ kept[Scaffold] = b /\ Occupied = {}
          /\ told' = told \cup {<<Scaffold, b>>}
          /\ UNCHANGED refused
       \/ /\ kept[Scaffold] \notin {Nothing, b}
          /\ refused' = refused \cup {<<Scaffold, b>>}
          /\ UNCHANGED told
    /\ UNCHANGED <<kept, tables, call>>

-----------------------------------------------------------------------------
(* The writers that know nothing of the scaffold, a transaction each.        *)

Writes(c, after) ==
    /\ Calls(c)
    /\ tables' = after
    /\ call' = [d \in Clients |->
          [call[d] EXCEPT !.found = @ \cap (after \cup {"ledger_command_log"})]]
    /\ UNCHANGED <<kept, told, refused>>

upsert(c) == Writes(c, tables \cup {"tenants"})
outbox_append(c) == Writes(c, tables \cup {"outbox_events"})
\* A ledger without entities leaves a row in ledger_meta only.
save_ledger(c, entities) ==
    Writes(c, (tables \ {"ledger_entity"}) \cup {"ledger_meta"} \cup entities)
delete_tenant_ledger(c) == Writes(c, tables \ {"ledger_entity", "ledger_meta"})

Next ==
    \E c \in Clients :
        \/ \E b \in Bodies : \/ \E k \in Keys : append(c, k, b)
                             \/ create(c, b)
                             \/ verify_initialized_workspace(c, b)
        \/ insert(c) \/ check_table(c) \/ read_back(c) \/ commit(c) \/ answer(c)
        \/ rollback(c)
        \/ upsert(c) \/ outbox_append(c) \/ delete_tenant_ledger(c)
        \/ \E entities \in {{}, {"ledger_entity"}} : save_ledger(c, entities)

Spec == Init /\ [][Next]_vars

-----------------------------------------------------------------------------
FW == INSTANCE FirstWins

\* The log and the scaffold are first-wins stores, whatever the interleaving of
\* the transactions and whichever die before or after their commit: a caller
\* that is told its request succeeded is told of the row that stays, a retry
\* after a lost answer is told so again, and a conflict is reported only when
\* a different request was committed.
ImplementsFirstWins == FW!Spec

\* A scaffold is not put on top of a tenant in use: a transaction that gets to
\* the end of its checks found no table with rows at its insert that kept them.
NoAdoption ==
    \A c \in Clients :
        call[c].holds /\ call[c].slot = Scaffold /\ call[c].at \in {"read", "commit"} =>
            call[c].found = {}
=============================================================================
