--------------------------- MODULE StorageProofs ----------------------------
(***************************************************************************)
(* The SQL stores implement FirstWins, a scaffold adopts no tenant in use,  *)
(* and a purge keeps what is protected, for every number of clients, keys,  *)
(* bodies and objects, the two stores being used side by side.              *)
(*                                                                          *)
(* The inductive invariant of the SQL stores says what a transaction knows  *)
(* at each of its steps: an uncommitted row is alone in a slot without a    *)
(* committed one; a transaction that inserted nothing has a committed row   *)
(* to read; and one past its read-back that inserted nothing asked for that *)
(* very row.  That of the object store (ObjInv, below) says that a key is   *)
(* changed by one client at a time, whose change ends what the purges       *)
(* promised of it, and that what is promised has metadata that does not     *)
(* call for its removal.                                                    *)
(***************************************************************************)
EXTENDS Storage, TLAPS

\* A transaction with an uncommitted row is at work on its request.
Working ==
    \A c \in Clients :
        /\ call[c].at # "idle" => call[c].body \in Bodies
        /\ call[c].at = "check" => call[c].holds /\ call[c].slot = Scaffold
        /\ call[c].holds => /\ call[c].at \in {"check", "read", "commit"}
                            /\ kept[call[c].slot] = Nothing

\* The unique constraint: two uncommitted rows are never in the same slot.
Exclusive ==
    \A c, d \in Clients :
        call[c].holds /\ call[d].holds /\ call[c].slot = call[d].slot => c = d

\* Without a row of its own a transaction reads a committed one.
Readable ==
    \A c \in Clients :
        /\ call[c].at \in {"read", "commit"} /\ ~call[c].holds =>
              kept[call[c].slot] # Nothing
        /\ call[c].at = "commit" /\ ~call[c].holds => kept[call[c].slot] = call[c].body
        /\ call[c].at = "answer" => kept[call[c].slot] = call[c].body

StoreInv == TypeOK /\ Working /\ Exclusive /\ Readable

\* What the checks of create have established so far.
Checked ==
    \A c \in Clients :
        /\ call[c].found \subseteq Occupied
        /\ call[c].at = "check" =>
              \A i \in 1 .. 5 : i < call[c].next => EMPTY_TABLES[i] \notin call[c].found

-----------------------------------------------------------------------------
\* The initial states satisfy the invariants.
LEMMA StoreInit == Init => StoreInv /\ Checked /\ NoAdoption
<1> SUFFICES ASSUME Init PROVE StoreInv /\ Checked /\ NoAdoption
  OBVIOUS
<1>1. Idle \in Call
  BY DEF Idle, Txn, Call, Slots
<1>2. TypeOK
  BY <1>1, SqlStoreAssumption DEF Init, TypeOK
<1>3. Working /\ Exclusive /\ Readable
  BY DEF Init, Idle, Txn, Working, Exclusive, Readable
<1>4. Checked /\ NoAdoption
  BY DEF Init, Idle, Txn, Checked, NoAdoption
<1> QED
  BY <1>2, <1>3, <1>4 DEF StoreInv

\* A call that is idle again knows nothing and holds nothing.
LEMMA IdleFacts ==
    /\ Idle \in Call /\ Idle.at = "idle" /\ Idle.holds = FALSE /\ Idle.found = {}
  BY DEF Idle, Txn, Call, Slots

\* A client that starts a request or gives up changes no row.
LEMMA RequestStep ==
    ASSUME StoreInv, NEW c \in Clients, NEW s \in Slots, NEW b \in Bodies, Request(c, s, b)
    PROVE  StoreInv'
<1> DEFINE new == Txn("insert", s, b, FALSE, {})
<1>1. new \in Call /\ new.at = "insert" /\ new.slot = s /\ new.body = b /\ new.holds = FALSE
  BY DEF Txn, Call
<1>2. call' = [call EXCEPT ![c] = new] /\ kept' = kept /\ tables' = tables
      /\ told' = told /\ refused' = refused /\ calls' = calls + 1 /\ calls < MaxCalls
  BY DEF Request, Calls
<1> HIDE DEF new
<1>3. TypeOK'
  BY <1>1, <1>2, SqlStoreAssumption DEF StoreInv, TypeOK
<1>4. Working' /\ Exclusive' /\ Readable'
  BY <1>1, <1>2 DEF StoreInv, TypeOK, Working, Exclusive, Readable
<1> QED
  BY <1>3, <1>4 DEF StoreInv

\* The insert finds its slot without an uncommitted row.
LEMMA InsertStep ==
    ASSUME StoreInv, NEW c \in Clients, insert(c)
    PROVE  StoreInv'
<1> DEFINE s == call[c].slot
           fresh == s = Scaffold /\ Inserts(s)
           new == Txn(IF fresh THEN "check" ELSE "read", s, call[c].body, Inserts(s),
                      IF fresh THEN Occupied ELSE {})
<1>0. call[c] \in Call
  BY DEF StoreInv, TypeOK
<1>1. /\ call' = [call EXCEPT ![c] = new] /\ kept' = kept /\ tables' = tables
      /\ told' = told /\ refused' = refused /\ calls' = calls
      /\ call[c].at = "insert" /\ ~Held(s)
  BY DEF insert
<1>a. Inserts(s) \in BOOLEAN
  BY DEF Inserts
<1>b. Occupied \in SUBSET Tables
  BY DEF StoreInv, TypeOK, Occupied, Tables, EMPTY_TABLES
<1>2. /\ new \in Call /\ new.slot = s /\ new.body = call[c].body
      /\ new.holds = Inserts(s)
      /\ new.at = IF fresh THEN "check" ELSE "read"
  BY <1>0, <1>a, <1>b DEF Txn, Call
<1>3. TypeOK'
  BY <1>1, <1>2 DEF StoreInv, TypeOK
<1>4. Inserts(s) <=> kept[s] = Nothing
  BY DEF Inserts
<1>5. \A d \in Clients : call[d].holds => call[d].slot # s
  BY <1>1 DEF Held
<1>6. call[c].body \in Bodies
  BY <1>1 DEF StoreInv, Working
<1> HIDE DEF new, s
<1>7. Working'
  BY <1>1, <1>2, <1>4, <1>6 DEF StoreInv, TypeOK, Working
<1>8. Exclusive'
  BY <1>1, <1>2, <1>5 DEF StoreInv, TypeOK, Exclusive
<1>9. Readable'
  BY <1>1, <1>2, <1>4 DEF StoreInv, TypeOK, Readable
<1> QED
  BY <1>3, <1>7, <1>8, <1>9 DEF StoreInv

\* A client goes back to idle, and the rows stay.
LEMMA BackToIdle ==
    ASSUME StoreInv, NEW c \in Clients,
           call' = [call EXCEPT ![c] = Idle], kept' = kept
    PROVE  call' \in [Clients -> Call] /\ Working' /\ Exclusive' /\ Readable'
<1>1. call' \in [Clients -> Call]
  BY IdleFacts DEF StoreInv, TypeOK
<1>2. Working' /\ Exclusive' /\ Readable'
  BY IdleFacts DEF StoreInv, TypeOK, Working, Exclusive, Readable
<1> QED
  BY <1>1, <1>2

\* A table is looked at: the transaction goes on, or is rolled back.
LEMMA CheckStep ==
    ASSUME StoreInv, NEW c \in Clients, check_table(c)
    PROVE  StoreInv'
<1>0. call[c] \in Call /\ call[c].at = "check"
  BY DEF StoreInv, TypeOK, check_table
<1>1. kept' = kept /\ tables' = tables /\ told' = told /\ refused' = refused /\ calls' = calls
  BY DEF check_table
<1>2. CASE call' = [call EXCEPT ![c] = Idle]
  BY <1>1, <1>2, BackToIdle DEF StoreInv, TypeOK
<1>3. CASE MoreTables(call[c].next) /\ call' = [call EXCEPT ![c].next = @ + 1]
  <2> DEFINE new == [call[c] EXCEPT !.next = call[c].next + 1]
  <2>1. call[c].next < 5
    BY <1>3 DEF MoreTables, EMPTY_TABLES
  <2>2. /\ new \in Call /\ new.at = "check" /\ new.slot = call[c].slot
        /\ new.body = call[c].body /\ new.holds = call[c].holds
    BY <1>0, <2>1 DEF Call
  <2>3. call' = [call EXCEPT ![c] = new]
    BY <1>3
  <2> HIDE DEF new
  <2>4. TypeOK'
    BY <1>1, <2>2, <2>3 DEF StoreInv, TypeOK
  <2>5. Working' /\ Exclusive' /\ Readable'
    BY <1>0, <1>1, <2>2, <2>3 DEF StoreInv, TypeOK, Working, Exclusive, Readable
  <2> QED
    BY <2>4, <2>5 DEF StoreInv
<1>4. CASE call' = [call EXCEPT ![c].at = "read"]
  <2> DEFINE new == [call[c] EXCEPT !.at = "read"]
  <2>2. /\ new \in Call /\ new.at = "read" /\ new.slot = call[c].slot
        /\ new.body = call[c].body /\ new.holds = call[c].holds
    BY <1>0 DEF Call
  <2>3. call' = [call EXCEPT ![c] = new]
    BY <1>4
  <2>a. call[c].holds
    BY <1>0 DEF StoreInv, Working
  <2> HIDE DEF new
  <2>4. TypeOK'
    BY <1>1, <2>2, <2>3 DEF StoreInv, TypeOK
  <2>5. Working'
    BY <1>0, <1>1, <2>2, <2>3 DEF StoreInv, TypeOK, Working
  <2>6. Exclusive'
    BY <1>0, <1>1, <2>2, <2>3 DEF StoreInv, TypeOK, Exclusive
  <2>7. Readable'
    BY <1>0, <1>1, <2>2, <2>3, <2>a DEF StoreInv, TypeOK, Readable
  <2> QED
    BY <2>4, <2>5, <2>6, <2>7 DEF StoreInv
<1> QED
  BY <1>2, <1>3, <1>4 DEF check_table

\* The row that is read back is the request, or the transaction is rolled back.
LEMMA ReadBackStep ==
    ASSUME StoreInv, NEW c \in Clients, read_back(c)
    PROVE  StoreInv'
<1>0. call[c] \in Call /\ call[c].at = "read" /\ call[c].body \in Bodies
  BY DEF StoreInv, TypeOK, Working, read_back
<1>1. kept' = kept /\ tables' = tables /\ told' = told /\ calls' = calls
  BY DEF read_back
<1>2. CASE Seen(c) = call[c].body /\ refused' = refused
           /\ call' = [call EXCEPT ![c].at = "commit"]
  <2> DEFINE new == [call[c] EXCEPT !.at = "commit"]
  <2>2. /\ new \in Call /\ new.at = "commit" /\ new.slot = call[c].slot
        /\ new.body = call[c].body /\ new.holds = call[c].holds
    BY <1>0 DEF Call
  <2>3. call' = [call EXCEPT ![c] = new]
    BY <1>2
  <2>a. ~call[c].holds => kept[call[c].slot] = call[c].body
    BY <1>2 DEF Seen
  <2> HIDE DEF new
  <2>4. TypeOK'
    BY <1>1, <1>2, <2>2, <2>3 DEF StoreInv, TypeOK
  <2>5. Working' /\ Exclusive' /\ Readable'
    BY <1>0, <1>1, <2>2, <2>3, <2>a DEF StoreInv, TypeOK, Working, Exclusive, Readable
  <2> QED
    BY <2>4, <2>5 DEF StoreInv
<1>3. CASE call' = [call EXCEPT ![c] = Idle]
           /\ refused' = refused \cup {<<call[c].slot, call[c].body>>}
  <2>1. <<call[c].slot, call[c].body>> \in Slots \X Bodies
    BY <1>0 DEF Call
  <2> QED
    BY <1>1, <1>3, <2>1, BackToIdle DEF StoreInv, TypeOK
<1> QED
  BY <1>2, <1>3 DEF read_back

\* A commit fills the slot its transaction held.
LEMMA CommitStep ==
    ASSUME StoreInv, NEW c \in Clients, commit(c)
    PROVE  StoreInv'
<1> DEFINE s == call[c].slot
           new == Txn("answer", s, call[c].body, FALSE, {})
<1>0. call[c] \in Call /\ call[c].at = "commit" /\ call[c].body \in Bodies
  BY DEF StoreInv, TypeOK, Working, commit
<1>1. tables' = tables /\ told' = told /\ refused' = refused /\ calls' = calls
  BY DEF commit
<1>2. /\ new \in Call /\ new.at = "answer" /\ new.slot = s
      /\ new.body = call[c].body /\ new.holds = FALSE
  BY <1>0 DEF Txn, Call
<1>3. call' = [call EXCEPT ![c] = new]
  BY DEF commit
<1>4. s \in Slots
  BY <1>0 DEF Call
<1> HIDE DEF new
<1>5. CASE call[c].holds /\ kept' = [kept EXCEPT ![s] = call[c].body]
  <2>1. kept[s] = Nothing /\ kept \in [Slots -> Bodies \cup {Nothing}]
    BY <1>5 DEF StoreInv, Working, TypeOK
  <2>a. /\ kept' \in [Slots -> Bodies \cup {Nothing}] /\ kept'[s] = call[c].body
        /\ \A r \in Slots : kept[r] # Nothing => kept'[r] = kept[r]
        /\ \A r \in Slots : r # s => kept'[r] = kept[r]
    BY <1>0, <1>4, <1>5, <2>1
  <2>2. TypeOK'
    BY <1>1, <1>2, <1>3, <2>a DEF StoreInv, TypeOK
  <2>b. \A d \in Clients : d # c => call'[d] = call[d] /\ call[d] \in Call
    BY <1>3 DEF StoreInv, TypeOK
  <2>c. call'[c] = new
    BY <1>3 DEF StoreInv, TypeOK
  <2>d. \A d \in Clients : d # c /\ call[d].holds => call[d].slot # s
    BY <1>5 DEF StoreInv, Exclusive
  <2>s. \A d \in Clients : call[d].slot \in Slots
    BY DEF StoreInv, TypeOK, Call
  <2>3. Working'
    BY <1>0, <1>2, <2>a, <2>b, <2>c, <2>d, <2>s DEF StoreInv, Working
  <2>4. Exclusive'
    BY <1>2, <2>b, <2>c DEF StoreInv, Exclusive
  <2>5. Readable'
    <3> SUFFICES ASSUME NEW d \in Clients
                 PROVE  /\ call'[d].at \in {"read", "commit"} /\ ~call'[d].holds =>
                              kept'[call'[d].slot] # Nothing
                        /\ call'[d].at = "commit" /\ ~call'[d].holds =>
                              kept'[call'[d].slot] = call'[d].body
                        /\ call'[d].at = "answer" => kept'[call'[d].slot] = call'[d].body
      BY DEF Readable
    <3>1. CASE d = c
      BY <3>1, <1>2, <2>a, <2>c
    <3>2. CASE d # c
      <4>1. call'[d] = call[d] /\ call[d].slot \in Slots
        BY <3>2, <2>b, <2>s
      <4>2. call[d].at = "answer" => call[d].body # Nothing
        BY SqlStoreAssumption DEF StoreInv, Working
      <4>3. call[d].at = "commit" => call[d].body # Nothing
        BY SqlStoreAssumption DEF StoreInv, Working
      <4> QED
        BY <4>1, <4>2, <4>3, <2>a DEF StoreInv, Readable
    <3> QED
      BY <3>1, <3>2
  <2> QED
    BY <2>2, <2>3, <2>4, <2>5 DEF StoreInv
<1>6. CASE ~call[c].holds /\ kept' = kept
  <2>1. kept[s] = call[c].body
    BY <1>0, <1>6 DEF StoreInv, Readable
  <2>2. TypeOK'
    BY <1>1, <1>2, <1>3, <1>6 DEF StoreInv, TypeOK
  <2> HIDE DEF s
  <2>3. Working' /\ Exclusive' /\ Readable'
    BY <1>0, <1>2, <1>3, <1>6, <2>1 DEF StoreInv, TypeOK, Working, Exclusive, Readable
  <2> QED
    BY <2>2, <2>3 DEF StoreInv
<1> QED
  BY <1>5, <1>6 DEF commit

\* The answer, a failure and a verification change no row.
LEMMA AnswerStep ==
    ASSUME StoreInv, NEW c \in Clients, answer(c) \/ rollback(c)
    PROVE  StoreInv'
<1>0. call[c] \in Call
  BY DEF StoreInv, TypeOK
<1>1. CASE answer(c)
  <2>1. <<call[c].slot, call[c].body>> \in Slots \X Bodies
    BY <1>0, <1>1 DEF Call, answer, StoreInv, Working
  <2> QED
    BY <1>1, <2>1, BackToIdle DEF StoreInv, TypeOK, answer
<1>2. CASE rollback(c)
  BY <1>2, BackToIdle DEF StoreInv, TypeOK, rollback
<1> QED
  BY <1>1, <1>2

LEMMA VerifyStep ==
    ASSUME StoreInv, NEW c \in Clients, NEW b \in Bodies, verify_initialized_workspace(c, b)
    PROVE  StoreInv'
<1>1. <<Scaffold, b>> \in Slots \X Bodies
  BY DEF Slots
<1>2. TypeOK'
  BY <1>1, SqlStoreAssumption DEF StoreInv, TypeOK, verify_initialized_workspace, Calls
<1>3. Working' /\ Exclusive' /\ Readable'
  BY DEF StoreInv, Working, Exclusive, Readable, verify_initialized_workspace
<1> QED
  BY <1>2, <1>3 DEF StoreInv

\* A writer that knows nothing of the scaffold changes no row of the stores.
LEMMA WritesStep ==
    ASSUME StoreInv, NEW c \in Clients,
           NEW after \in SUBSET (Tables \ {"ledger_command_log"}), Writes(c, after)
    PROVE  StoreInv'
<1> DEFINE new(d) == [call[d] EXCEPT !.found = @ \cap (after \cup {"ledger_command_log"})]
<1>1. /\ call' = [d \in Clients |-> new(d)] /\ tables' = after /\ kept' = kept
      /\ told' = told /\ refused' = refused /\ calls' = calls + 1 /\ calls < MaxCalls
  BY DEF Writes, Calls
<1>2. \A d \in Clients : /\ new(d) \in Call /\ new(d).at = call[d].at
                         /\ new(d).slot = call[d].slot /\ new(d).body = call[d].body
                         /\ new(d).holds = call[d].holds
  BY DEF StoreInv, TypeOK, Call
<1> HIDE DEF new
<1>3. TypeOK'
  BY <1>1, <1>2, SqlStoreAssumption DEF StoreInv, TypeOK
<1>4. Working' /\ Exclusive' /\ Readable'
  BY <1>1, <1>2 DEF StoreInv, Working, Exclusive, Readable
<1> QED
  BY <1>3, <1>4 DEF StoreInv

\* The tables the older writers may leave occupied.
LEMMA WritersTables ==
    ASSUME StoreInv, NEW c \in Clients,
           \/ upsert(c) \/ outbox_append(c) \/ delete_tenant_ledger(c)
           \/ \E entities \in {{}, {"ledger_entity"}} : save_ledger(c, entities)
    PROVE  \E after \in SUBSET (Tables \ {"ledger_command_log"}) : Writes(c, after)
<1>1. /\ tables \in SUBSET (Tables \ {"ledger_command_log"})
      /\ {"tenants", "ledger_entity", "ledger_meta", "outbox_events"}
           \subseteq Tables \ {"ledger_command_log"}
  BY DEF StoreInv, TypeOK, Tables, EMPTY_TABLES
<1>2. CASE upsert(c)
  BY <1>1, <1>2 DEF upsert
<1>3. CASE outbox_append(c)
  BY <1>1, <1>3 DEF outbox_append
<1>4. CASE delete_tenant_ledger(c)
  BY <1>1, <1>4 DEF delete_tenant_ledger
<1>5. CASE \E entities \in {{}, {"ledger_entity"}} : save_ledger(c, entities)
  <2>1. PICK entities \in {{}, {"ledger_entity"}} : save_ledger(c, entities)
    BY <1>5
  <2>2. ((tables \ {"ledger_entity"}) \cup {"ledger_meta"} \cup entities)
          \in SUBSET (Tables \ {"ledger_command_log"})
    BY <1>1
  <2> QED
    BY <2>1, <2>2 DEF save_ledger
<1> QED
  BY <1>2, <1>3, <1>4, <1>5

\* The steps of the specification, the older writers as one.
LEMMA Steps ==
    ASSUME StoreInv, Next
    PROVE  \E c \in Clients :
             \/ \E s \in Slots, b \in Bodies : Request(c, s, b)
             \/ \E b \in Bodies : verify_initialized_workspace(c, b)
             \/ insert(c) \/ check_table(c) \/ read_back(c) \/ commit(c)
             \/ answer(c) \/ rollback(c)
             \/ \E after \in SUBSET (Tables \ {"ledger_command_log"}) : Writes(c, after)
<1>1. Scaffold \in Slots /\ \A k \in Keys : k \in Slots
  BY DEF Slots
<1>2. \A c \in Clients, k \in Keys, b \in Bodies :
         append(c, k, b) => \E s \in Slots, d \in Bodies : Request(c, s, d)
  BY <1>1 DEF append
<1>3. \A c \in Clients, b \in Bodies :
         create(c, b) => \E s \in Slots, d \in Bodies : Request(c, s, d)
  BY <1>1 DEF create
<1> QED
  BY <1>2, <1>3, WritersTables DEF Next

\* Every step preserves the invariant.
LEMMA StoreStep == StoreInv /\ [Next]_vars => StoreInv'
<1> SUFFICES ASSUME StoreInv, [Next]_vars PROVE StoreInv'
  OBVIOUS
<1>1. CASE UNCHANGED vars
  BY <1>1 DEF vars, sqlVars, StoreInv, TypeOK, Working, Exclusive, Readable
<1>2. CASE Next
  BY <1>2, Steps, RequestStep, VerifyStep, InsertStep, CheckStep, ReadBackStep,
     CommitStep, AnswerStep, WritesStep
<1> QED
  BY <1>1, <1>2

-----------------------------------------------------------------------------
\* A step of the stores is a step of FirstWins, or none.
LEMMA RefinesStep == StoreInv /\ [Next]_vars => [FW!Next]_(FW!vars)
<1> SUFFICES ASSUME StoreInv, [Next]_vars PROVE FW!Next \/ UNCHANGED <<kept, told, refused>>
  BY DEF FW!vars
<1>1. CASE UNCHANGED vars
  BY <1>1 DEF vars, sqlVars
<1>2. CASE Next
  <2>1. PICK c \in Clients :
             \/ \E s \in Slots, b \in Bodies : Request(c, s, b)
             \/ \E b \in Bodies : verify_initialized_workspace(c, b)
             \/ insert(c) \/ check_table(c) \/ read_back(c) \/ commit(c)
             \/ answer(c) \/ rollback(c)
             \/ \E after \in SUBSET (Tables \ {"ledger_command_log"}) : Writes(c, after)
    BY <1>2, Steps
  <2> DEFINE s == call[c].slot
             b == call[c].body
  <2>2. call[c] \in Call /\ s \in Slots /\ (call[c].at # "idle" => b \in Bodies)
    BY DEF StoreInv, TypeOK, Call, Working
  <2>3. CASE \E r \in Slots, d \in Bodies : Request(c, r, d)
    BY <2>3 DEF Request
  <2>4. CASE \E d \in Bodies : verify_initialized_workspace(c, d)
    <3>1. PICK d \in Bodies : verify_initialized_workspace(c, d)
      BY <2>4
    <3>2. Scaffold \in Slots
      BY DEF Slots
    <3>3. FW!Tell(Scaffold, d) \/ FW!Refuse(Scaffold, d)
      BY <3>1 DEF verify_initialized_workspace, FW!Tell, FW!Refuse
    <3> QED
      BY <3>2, <3>3 DEF FW!Next
  <2>5. CASE insert(c) \/ check_table(c) \/ rollback(c)
    BY <2>5 DEF insert, check_table, rollback
  <2>6. CASE read_back(c)
    <3>1. CASE UNCHANGED refused
      BY <2>6, <3>1 DEF read_back
    <3>2. CASE /\ Seen(c) # b
               /\ refused' = refused \cup {<<s, b>>}
      <4>1. call[c].at = "read"
        BY <2>6 DEF read_back
      <4>2. ~call[c].holds /\ kept[s] # b
        BY <3>2 DEF Seen
      <4>3. kept[s] # Nothing
        BY <4>1, <4>2 DEF StoreInv, Readable
      <4>4. FW!Refuse(s, b)
        BY <2>6, <3>2, <4>2, <4>3 DEF read_back, FW!Refuse
      <4> QED
        BY <2>2, <4>1, <4>4 DEF FW!Next
    <3> QED
      BY <2>6, <3>1, <3>2 DEF read_back
  <2>7. CASE commit(c)
    <3>1. CASE call[c].holds
      <4>1. FW!Keep(s, b)
        BY <2>7, <3>1 DEF commit, FW!Keep, StoreInv, Working
      <4>2. b \in Bodies
        BY <2>2, <2>7 DEF commit
      <4> QED
        BY <2>2, <4>1, <4>2 DEF FW!Next
    <3>2. CASE ~call[c].holds
      BY <2>7, <3>2 DEF commit
    <3> QED
      BY <3>1, <3>2
  <2>8. CASE answer(c)
    <3>1. FW!Tell(s, b)
      BY <2>8 DEF answer, FW!Tell, StoreInv, Readable
    <3>2. b \in Bodies
      BY <2>2, <2>8 DEF answer
    <3> QED
      BY <2>2, <3>1, <3>2 DEF FW!Next
  <2>9. CASE \E after \in SUBSET (Tables \ {"ledger_command_log"}) : Writes(c, after)
    BY <2>9 DEF Writes
  <2> QED
    BY <2>1, <2>3, <2>4, <2>5, <2>6, <2>7, <2>8, <2>9
<1> QED
  BY <1>1, <1>2

-----------------------------------------------------------------------------
\* What create has established of the tables, and the property.
AdoptInv == Checked /\ NoAdoption

\* A step that empties no table and leaves a client's transaction alone, or
\* forgets what it found, preserves what the checks established.
LEMMA ForgetStep ==
    ASSUME StoreInv, AdoptInv, NEW c \in Clients, NEW new,
           call' = [call EXCEPT ![c] = new], Occupied \subseteq Occupied',
           new.at # "check", new.found = {}
    PROVE  AdoptInv'
<1>1. call \in [Clients -> Call]
  BY DEF StoreInv, TypeOK
<1>2. Checked'
  BY <1>1 DEF AdoptInv, Checked
<1>3. NoAdoption'
  BY <1>1 DEF AdoptInv, NoAdoption
<1> QED
  BY <1>2, <1>3 DEF AdoptInv

\* Every step preserves what the checks established.
LEMMA AdoptStep == StoreInv /\ AdoptInv /\ [Next]_vars => AdoptInv'
<1> SUFFICES ASSUME StoreInv, AdoptInv, [Next]_vars PROVE AdoptInv'
  OBVIOUS
<1>1. CASE UNCHANGED vars
  <2>1. kept' = kept /\ tables' = tables /\ call' = call
    BY <1>1 DEF vars, sqlVars
  <2> QED
    BY <2>1 DEF AdoptInv, Checked, NoAdoption, Occupied
<1>2. CASE Next
  <2>1. PICK c \in Clients :
             \/ \E s \in Slots, b \in Bodies : Request(c, s, b)
             \/ \E b \in Bodies : verify_initialized_workspace(c, b)
             \/ insert(c) \/ check_table(c) \/ read_back(c) \/ commit(c)
             \/ answer(c) \/ rollback(c)
             \/ \E after \in SUBSET (Tables \ {"ledger_command_log"}) : Writes(c, after)
    BY <1>2, Steps
  <2>2. call \in [Clients -> Call] /\ call[c] \in Call
    BY DEF StoreInv, TypeOK
  <2>same. kept' = kept /\ tables' = tables => Occupied' = Occupied
    BY DEF Occupied
  <2>3. CASE \E s \in Slots, b \in Bodies : Request(c, s, b)
    <3>1. PICK s \in Slots, b \in Bodies : Request(c, s, b)
      BY <2>3
    <3>2. /\ call' = [call EXCEPT ![c] = Txn("insert", s, b, FALSE, {})]
          /\ kept' = kept /\ tables' = tables
      BY <3>1 DEF Request
    <3>3. Txn("insert", s, b, FALSE, {}).at # "check" /\ Txn("insert", s, b, FALSE, {}).found = {}
      BY DEF Txn
    <3> QED
      BY <2>same, <3>2, <3>3, ForgetStep
  <2>4. CASE \E b \in Bodies : verify_initialized_workspace(c, b)
    <3>1. kept' = kept /\ tables' = tables /\ call' = call
      BY <2>4 DEF verify_initialized_workspace
    <3> QED
      BY <2>same, <3>1 DEF AdoptInv, Checked, NoAdoption
  <2>5. CASE insert(c)
    <3> DEFINE s == call[c].slot
               fresh == s = Scaffold /\ Inserts(s)
               new == Txn(IF fresh THEN "check" ELSE "read", s, call[c].body, Inserts(s),
                          IF fresh THEN Occupied ELSE {})
    <3>1. call' = [call EXCEPT ![c] = new] /\ kept' = kept /\ tables' = tables
      BY <2>5 DEF insert
    <3>2. CASE fresh
      <4>1. /\ new.at = "check" /\ new.found = Occupied /\ new.next = 1
        BY <3>2 DEF Txn
      <4> HIDE DEF new, fresh, s
      <4>2. Checked'
        BY <2>2, <2>same, <3>1, <4>1 DEF AdoptInv, Checked
      <4>3. NoAdoption'
        BY <2>2, <3>1, <4>1 DEF AdoptInv, NoAdoption
      <4> QED
        BY <4>2, <4>3 DEF AdoptInv
    <3>3. CASE ~fresh
      <4>1. new.at # "check" /\ new.found = {}
        BY <3>3 DEF Txn
      <4> HIDE DEF new, fresh, s
      <4> QED
        BY <2>same, <3>1, <4>1, ForgetStep
    <3> QED
      BY <3>2, <3>3
  <2>idle. call' = [call EXCEPT ![c] = Idle] /\ kept' = kept /\ tables' = tables => AdoptInv'
    BY <2>same, IdleFacts, ForgetStep
  <2>6. CASE check_table(c)
    <3>1. kept' = kept /\ tables' = tables /\ call[c].at = "check"
      BY <2>6 DEF check_table
    <3>2. CASE call' = [call EXCEPT ![c] = Idle]
      BY <3>1, <3>2, <2>idle
    <3>f. \A i \in 1 .. 5 : i < call[c].next => EMPTY_TABLES[i] \notin call[c].found
      BY <3>1 DEF AdoptInv, Checked
    <3>o. call[c].found \subseteq Occupied /\ call[c].next \in 1 .. 5
      BY <2>2 DEF AdoptInv, Checked, Call
    <3>3. CASE /\ Free(EMPTY_TABLES[call[c].next])
               /\ call' = [call EXCEPT ![c].next = @ + 1]
      <4>1. EMPTY_TABLES[call[c].next] \notin call[c].found
        BY <3>3, <3>o DEF Free
      <4>2. /\ call'[c].found = call[c].found /\ call'[c].at = "check"
            /\ call'[c].next = call[c].next + 1
            /\ \A d \in Clients : d # c => call'[d] = call[d]
        BY <2>2, <3>1, <3>3 DEF Call
      <4>3. \A i \in 1 .. 5 : i < call'[c].next => EMPTY_TABLES[i] \notin call'[c].found
        <5>1. \A i \in 1 .. 5 : i < call[c].next + 1 => i < call[c].next \/ i = call[c].next
          BY <3>o
        <5> QED
          BY <5>1, <3>f, <4>1, <4>2
      <4>4. Checked'
        BY <2>same, <3>1, <3>o, <4>2, <4>3 DEF AdoptInv, Checked
      <4>5. NoAdoption'
        BY <4>2 DEF AdoptInv, NoAdoption
      <4> QED
        BY <4>4, <4>5 DEF AdoptInv
    <3>4. CASE /\ Free(EMPTY_TABLES[call[c].next]) /\ ~MoreTables(call[c].next)
               /\ call' = [call EXCEPT ![c].at = "read"]
      <4>1. EMPTY_TABLES[call[c].next] \notin call[c].found
        BY <3>4, <3>o DEF Free
      <4>2. call[c].next = 5
        BY <3>4, <3>o DEF MoreTables, EMPTY_TABLES
      <4>3. \A i \in 1 .. 5 : EMPTY_TABLES[i] \notin call[c].found
        <5>1. \A i \in 1 .. 5 : i < 5 \/ i = 5
          OBVIOUS
        <5> QED
          BY <5>1, <3>f, <4>1, <4>2
      <4>4. Tables = {EMPTY_TABLES[i] : i \in 1 .. 5}
        BY DEF Tables, EMPTY_TABLES
      <4>5. call[c].found = {}
        BY <2>2, <4>3, <4>4 DEF Call
      <4>6. call'[c].found = {} /\ call'[c].at = "read"
            /\ \A d \in Clients : d # c => call'[d] = call[d]
        BY <2>2, <3>4, <4>5 DEF Call
      <4>7. Checked'
        BY <2>same, <3>1, <4>6 DEF AdoptInv, Checked
      <4>8. NoAdoption'
        BY <4>6 DEF AdoptInv, NoAdoption
      <4> QED
        BY <4>7, <4>8 DEF AdoptInv
    <3> QED
      BY <2>6, <3>2, <3>3, <3>4 DEF check_table
  <2>7. CASE read_back(c)
    <3>1. kept' = kept /\ tables' = tables /\ call[c].at = "read"
      BY <2>7 DEF read_back
    <3>2. CASE call' = [call EXCEPT ![c] = Idle]
      BY <3>1, <3>2, <2>idle
    <3>3. CASE call' = [call EXCEPT ![c].at = "commit"]
      <4>1. /\ call'[c].found = call[c].found /\ call'[c].at = "commit"
            /\ call'[c].holds = call[c].holds /\ call'[c].slot = call[c].slot
            /\ \A d \in Clients : d # c => call'[d] = call[d]
        BY <2>2, <3>3 DEF Call
      <4>2. Checked'
        BY <2>same, <3>1, <4>1 DEF AdoptInv, Checked
      <4>3. NoAdoption'
        BY <3>1, <4>1 DEF AdoptInv, NoAdoption
      <4> QED
        BY <4>2, <4>3 DEF AdoptInv
    <3> QED
      BY <2>7, <3>2, <3>3 DEF read_back
  <2>8. CASE commit(c)
    <3> DEFINE new == Txn("answer", call[c].slot, call[c].body, FALSE, {})
    <3>1. call' = [call EXCEPT ![c] = new] /\ tables' = tables
      BY <2>8 DEF commit
    <3>2. new.at # "check" /\ new.found = {}
      BY DEF Txn
    <3>3. \A r \in Slots : kept[r] # Nothing => kept'[r] # Nothing
      <4>1. call[c].body # Nothing
        BY <2>8, SqlStoreAssumption DEF commit, StoreInv, Working
      <4> QED
        BY <2>8, <4>1 DEF commit, StoreInv, TypeOK
    <3>4. Occupied \subseteq Occupied'
      BY <3>1, <3>3 DEF Occupied, Slots
    <3> HIDE DEF new
    <3> QED
      BY <3>1, <3>2, <3>4, ForgetStep
  <2>9. CASE answer(c) \/ rollback(c)
    BY <2>9, <2>idle DEF answer, rollback
  <2>10. CASE \E after \in SUBSET (Tables \ {"ledger_command_log"}) : Writes(c, after)
    <3>1. PICK after \in SUBSET (Tables \ {"ledger_command_log"}) : Writes(c, after)
      BY <2>10
    <3>2. /\ \A d \in Clients :
                /\ call'[d].found = call[d].found \cap (after \cup {"ledger_command_log"})
                /\ call'[d].at = call[d].at /\ call'[d].next = call[d].next
                /\ call'[d].holds = call[d].holds /\ call'[d].slot = call[d].slot
          /\ tables' = after /\ kept' = kept
      BY <2>2, <3>1 DEF Writes, Call
    <3>3. Occupied \cap (after \cup {"ledger_command_log"}) \subseteq Occupied'
      BY <3>2 DEF Occupied, StoreInv, TypeOK
    <3>4. Checked'
      BY <3>2, <3>3 DEF AdoptInv, Checked
    <3>5. NoAdoption'
      BY <3>2 DEF AdoptInv, NoAdoption
    <3> QED
      BY <3>4, <3>5 DEF AdoptInv
  <2> QED
    BY <2>1, <2>3, <2>4, <2>5, <2>6, <2>7, <2>8, <2>9, <2>10
<1> QED
  BY <1>1, <1>2

-----------------------------------------------------------------------------
(* The object store, and the two stores side by side.                        *)

\* The client is putting or deleting its key.
Changing(c) == ocall[c].op \in {"put", "delete"}

\* Each step of a call belongs to its operation, and has its key.
CallShape ==
    \A c \in ObjClients :
       /\ ocall[c].at \in {"data", "truncate", "meta", "return"} => ocall[c].op = "put"
       /\ ocall[c].at = "scan" => ocall[c].op = "purge"
       /\ ocall[c].at \in {"unlink", "unlink_meta"} =>
             ocall[c].op \in {"delete", "purge"} /\ ocall[c].key \in ObjectKeys
       /\ Changing(c) => ocall[c].key \in ObjectKeys

\* Callers do not change the same key side by side, and a key being changed is
\* neither promised to be kept nor known to have a policy.
OneChange ==
    \A c \in ObjClients : Changing(c) =>
       /\ done[ocall[c].key] = "unknown"
       /\ \A d \in ObjClients :
             /\ ocall[c].key \notin ocall[d].shield
             /\ Changing(d) /\ ocall[d].key = ocall[c].key => c = d

\* A put that is about to return has written its policy, which a purge under
\* way may have removed again; what is promised to be kept has not run out.
PolicyKept ==
    /\ \A c \in ObjClients :
         /\ ocall[c].at = "return" => meta[ocall[c].key] \in {ocall[c].policy, "absent"}
         /\ \A k \in ocall[c].shield : meta[k] # "expired"
    /\ \A k \in ObjectKeys : done[k] \in {"retained", "held"} => meta[k] # "expired"

ObjInv == O!ObjTypeOK /\ CallShape /\ OneChange /\ PolicyKept /\ ProtectedKept

\* A resting client has no operation and promises nothing.
LEMMA RestingFacts ==
    /\ O!Resting \in O!ObjCall /\ O!Resting.op = "none" /\ O!Resting.at = "idle"
    /\ O!Resting.shield = {}
  BY DEF O!Resting, O!ObjCall, O!Retention

\* The initial states satisfy the invariant.
LEMMA ObjInitOK == O!ObjInit => ObjInv
<1> SUFFICES ASSUME O!ObjInit PROVE ObjInv
  OBVIOUS
<1>1. O!ObjTypeOK
  BY RestingFacts DEF O!ObjInit, O!ObjTypeOK, O!Retention
<1>2. CallShape /\ OneChange /\ PolicyKept /\ ProtectedKept
  BY RestingFacts DEF O!ObjInit, CallShape, OneChange, PolicyKept, ProtectedKept, Changing
<1> QED
  BY <1>1, <1>2 DEF ObjInv

\* A put or a delete begins where no other client changes the key: the promises
\* of the purges under way to keep it end.
LEMMA ChangeBegins ==
    ASSUME ObjInv, NEW c \in ObjClients, NEW k \in ObjectKeys, NEW e \in O!ObjCall,
           O!Changes(c, k, e), e.op \in {"put", "delete"}, e.key = k, e.shield = {},
           \/ e.op = "put" /\ e.at = "data"
           \/ e.op = "delete" /\ e.at = "unlink"
    PROVE  ObjInv'
<1> DEFINE new(d) == [ocall[d] EXCEPT !.shield = ocall[d].shield \ {k}]
<1>0. /\ ocall \in [ObjClients -> O!ObjCall] /\ done \in [ObjectKeys -> O!Retention \cup {"unknown"}]
  BY DEF ObjInv, O!ObjTypeOK
<1>1. /\ backend' = backend /\ data' = data /\ meta' = meta
      /\ done' = [done EXCEPT ![k] = "unknown"]
      /\ \A d \in ObjClients : ocall[d].op \in {"put", "delete"} => ocall[d].key # k
      /\ ocall' = [d \in ObjClients |-> IF d = c THEN e ELSE new(d)]
  BY DEF O!Changes
<1>2. \A d \in ObjClients : /\ new(d) \in O!ObjCall /\ new(d).op = ocall[d].op
                            /\ new(d).at = ocall[d].at /\ new(d).key = ocall[d].key
                            /\ new(d).policy = ocall[d].policy
                            /\ new(d).shield = ocall[d].shield \ {k}
  BY <1>0 DEF O!ObjCall
<1> HIDE DEF new
<1>3. ocall'[c] = e /\ \A d \in ObjClients : d # c => ocall'[d] = new(d)
  BY <1>1
<1>4. O!ObjTypeOK'
  BY <1>1, <1>2 DEF ObjInv, O!ObjTypeOK
<1>5. CallShape'
  BY <1>2, <1>3 DEF ObjInv, CallShape, Changing
<1>d. done'[k] = "unknown" /\ \A j \in ObjectKeys : j # k => done'[j] = done[j]
  BY <1>0, <1>1
<1>s. \A d \in ObjClients : k \notin ocall'[d].shield /\ ocall'[d].shield \subseteq ocall[d].shield
  BY <1>2, <1>3
<1>6. OneChange'
  <2> SUFFICES ASSUME NEW d \in ObjClients, Changing(d)'
               PROVE  /\ done'[ocall'[d].key] = "unknown"
                      /\ \A x \in ObjClients :
                           /\ ocall'[d].key \notin ocall'[x].shield
                           /\ Changing(x)' /\ ocall'[x].key = ocall'[d].key => d = x
    BY DEF OneChange
  <2>1. CASE d = c
    BY <2>1, <1>1, <1>2, <1>3, <1>d, <1>s DEF Changing
  <2>2. CASE d # c
    <3>1. Changing(d) /\ ocall'[d].key = ocall[d].key /\ ocall[d].key # k
      BY <2>2, <1>1, <1>2, <1>3 DEF Changing
    <3>2. ocall[d].key \in ObjectKeys
      BY <3>1 DEF ObjInv, CallShape
    <3>3. done'[ocall'[d].key] = "unknown"
      BY <3>1, <3>2, <1>d DEF ObjInv, OneChange
    <3> QED
      BY <3>1, <3>3, <1>2, <1>3, <1>s DEF ObjInv, OneChange, Changing
  <2> QED
    BY <2>1, <2>2
<1>7. PolicyKept'
  <2>1. \A x \in ObjClients : ocall'[x].at = "return" =>
            meta'[ocall'[x].key] \in {ocall'[x].policy, "absent"}
    BY <1>1, <1>2, <1>3 DEF ObjInv, PolicyKept
  <2>2. \A x \in ObjClients : \A j \in ocall'[x].shield : meta'[j] # "expired"
    BY <1>1, <1>s DEF ObjInv, PolicyKept
  <2>3. \A j \in ObjectKeys : done'[j] \in {"retained", "held"} => meta'[j] # "expired"
    BY <1>1, <1>d DEF ObjInv, PolicyKept
  <2> QED
    BY <2>1, <2>2, <2>3 DEF PolicyKept
<1>8. ProtectedKept'
  BY <1>2, <1>3, <1>s DEF ObjInv, ProtectedKept
<1> QED
  BY <1>4, <1>5, <1>6, <1>7, <1>8 DEF ObjInv

\* A client that starts to put or to delete preserves the invariant.
LEMMA PutDeleteStep ==
    ASSUME ObjInv, NEW c \in ObjClients, NEW k \in ObjectKeys,
           (\E policy \in O!Retention : O!put(c, k, policy)) \/ O!delete(c, k)
    PROVE  ObjInv'
<1>1. CASE \E policy \in O!Retention : O!put(c, k, policy)
  <2>1. PICK policy \in O!Retention : O!put(c, k, policy)
    BY <1>1
  <2> DEFINE e == [O!Resting EXCEPT !.op = "put", !.at = "data", !.key = k, !.policy = policy]
  <2>2. e \in O!ObjCall /\ e.op = "put" /\ e.at = "data" /\ e.key = k /\ e.shield = {}
    BY DEF O!Resting, O!ObjCall
  <2>3. O!Changes(c, k, e)
    BY <2>1 DEF O!put
  <2> HIDE DEF e
  <2> QED
    BY <2>2, <2>3, ChangeBegins
<1>2. CASE O!delete(c, k)
  <2> DEFINE e == [O!Resting EXCEPT !.op = "delete", !.at = "unlink", !.key = k]
  <2>2. e \in O!ObjCall /\ e.op = "delete" /\ e.at = "unlink" /\ e.key = k /\ e.shield = {}
    BY DEF O!Resting, O!ObjCall, O!Retention
  <2>3. O!Changes(c, k, e)
    BY <1>2 DEF O!delete
  <2> HIDE DEF e
  <2> QED
    BY <2>2, <2>3, ChangeBegins
<1> QED
  BY <1>1, <1>2

\* A step of one client that leaves its operation, key, policy and promises
\* alone, or ends the call, and changes no other key's metadata, preserves the
\* invariant when what it writes is its own policy, no policy, or nothing at all.
LEMMA CallMoves ==
    ASSUME ObjInv, NEW c \in ObjClients, NEW e \in O!ObjCall, NEW k \in ObjectKeys,
           ocall' = [ocall EXCEPT ![c] = e], backend' = backend, done' = done,
           data' \in [ObjectKeys -> BOOLEAN],
           meta' \in [ObjectKeys -> O!Retention \cup {"absent", "torn"}],
           \A j \in ObjectKeys : j # k => meta'[j] = meta[j],
           \/ meta'[k] = meta[k] \/ meta'[k] = "absent"
           \/ ocall[c].op = "put" /\ ocall[c].key = k /\ ocall[c].at # "return",
           e.op = "none" \/ e.op = ocall[c].op,
           e.op \in {"put", "delete"} => e.key = ocall[c].key,
           e.at \in {"idle"} \/ e.op # "none",
           e.at \in {"data", "truncate", "meta", "return"} => e.op = "put",
           e.at = "scan" => e.op = "purge",
           e.at \in {"unlink", "unlink_meta"} =>
              e.op \in {"delete", "purge"} /\ e.key \in ObjectKeys,
           e.at = "return" => e.key = k /\ meta'[k] = e.policy,
           e.shield \subseteq ocall[c].shield,
           e.op = "purge" /\ e.at = "unlink" => e.key \notin e.shield
    PROVE  ObjInv'
<1>0. ocall \in [ObjClients -> O!ObjCall]
  BY DEF ObjInv, O!ObjTypeOK
<1>1. ocall'[c] = e /\ \A d \in ObjClients : d # c => ocall'[d] = ocall[d]
  BY <1>0
<1>2. O!ObjTypeOK'
  BY DEF ObjInv, O!ObjTypeOK
<1>3. CallShape'
  BY <1>1 DEF ObjInv, CallShape, Changing
<1>4. OneChange'
  <2>1. \A d \in ObjClients : /\ Changing(d)' => Changing(d) /\ ocall'[d].key = ocall[d].key
                              /\ ocall'[d].shield \subseteq ocall[d].shield
    BY <1>1 DEF Changing
  <2> QED
    BY <2>1 DEF ObjInv, OneChange
<1>5. PolicyKept'
  <2>1. \A d \in ObjClients : ocall'[d].at = "return" =>
            meta'[ocall'[d].key] \in {ocall'[d].policy, "absent"}
    <3> SUFFICES ASSUME NEW d \in ObjClients, ocall'[d].at = "return", d # c
                 PROVE  meta'[ocall[d].key] \in {ocall[d].policy, "absent"}
      BY <1>1
    <3>1. /\ ocall[d].at = "return" /\ Changing(d) /\ ocall[d].key \in ObjectKeys
          /\ meta[ocall[d].key] \in {ocall[d].policy, "absent"}
      BY <1>1 DEF ObjInv, CallShape, PolicyKept, Changing
    <3>2. ocall[c].op = "put" => ocall[c].key # ocall[d].key
      BY <3>1 DEF ObjInv, OneChange, Changing
    <3> QED
      BY <3>1, <3>2
  <2>2. \A d \in ObjClients : \A j \in ocall[d].shield : j \in ObjectKeys /\ meta[j] # "expired"
    BY <1>0 DEF ObjInv, PolicyKept, O!ObjCall
  <2>3. ocall[c].op = "put" /\ ocall[c].key = k =>
           done[k] = "unknown" /\ \A d \in ObjClients : k \notin ocall[d].shield
    BY DEF ObjInv, OneChange, Changing
  <2>4. \A d \in ObjClients : \A j \in ocall'[d].shield : meta'[j] # "expired"
    BY <1>1, <2>2, <2>3
  <2>5. \A j \in ObjectKeys : done'[j] \in {"retained", "held"} => meta'[j] # "expired"
    BY <2>3 DEF ObjInv, PolicyKept
  <2> QED
    BY <2>1, <2>4, <2>5 DEF PolicyKept
<1>6. ProtectedKept'
  BY <1>1 DEF ObjInv, ProtectedKept
<1> QED
  BY <1>2, <1>3, <1>4, <1>5, <1>6 DEF ObjInv

\* A call under way has a key, of an object, unless it is a purge between two.
LEMMA CallKeys ==
    ASSUME ObjInv, NEW c \in ObjClients
    PROVE  /\ ocall[c] \in O!ObjCall /\ ocall \in [ObjClients -> O!ObjCall]
           /\ ocall[c].at \in {"data", "truncate", "meta", "return"} =>
                ocall[c].op = "put" /\ ocall[c].key \in ObjectKeys
           /\ ocall[c].at \in {"unlink", "unlink_meta"} =>
                ocall[c].op \in {"delete", "purge"} /\ ocall[c].key \in ObjectKeys
           /\ data \in [ObjectKeys -> BOOLEAN]
           /\ meta \in [ObjectKeys -> O!Retention \cup {"absent", "torn"}]
           /\ ocall[c].policy \in O!Retention
  BY DEF ObjInv, O!ObjTypeOK, CallShape, Changing, O!ObjCall

\* A call that goes on to its next step keeps the rest of its state.
LEMMA AtFacts ==
    ASSUME ObjInv, NEW c \in ObjClients,
           NEW at \in {"data", "truncate", "meta", "return", "scan", "unlink", "unlink_meta"},
           O!At(c, at)
    PROVE  \E e \in O!ObjCall :
             /\ ocall' = [ocall EXCEPT ![c] = e] /\ e.op = ocall[c].op /\ e.at = at
             /\ e.key = ocall[c].key /\ e.policy = ocall[c].policy
             /\ e.shield = ocall[c].shield
<1> DEFINE e == [ocall[c] EXCEPT !.at = at]
<1>1. /\ e \in O!ObjCall /\ e.op = ocall[c].op /\ e.at = at /\ e.key = ocall[c].key
      /\ e.policy = ocall[c].policy /\ e.shield = ocall[c].shield
  BY CallKeys DEF O!ObjCall
<1>2. ocall' = [ocall EXCEPT ![c] = e]
  BY DEF O!At
<1> HIDE DEF e
<1> QED
  BY <1>1, <1>2

\* Writing the data and writing the metadata preserve the invariant.
LEMMA WriteStep ==
    ASSUME ObjInv, NEW c \in ObjClients, O!write_data(c) \/ O!write_meta(c)
    PROVE  ObjInv'
<1>0. PICK k \in ObjectKeys : k = ocall[c].key
  BY CallKeys DEF O!write_data, O!write_meta
<1>1. ocall[c].op = "put" /\ ocall[c].at \in {"data", "truncate", "meta"}
  BY CallKeys DEF O!write_data, O!write_meta
<1>2. PICK at \in {"truncate", "meta", "return"} :
         /\ O!At(c, at)
         /\ backend' = backend /\ done' = done
         /\ data' = data \/ data' = [data EXCEPT ![k] = TRUE]
         /\ \/ meta' = meta /\ at # "return"
            \/ meta' = [meta EXCEPT ![k] = "torn"] /\ at # "return"
            \/ meta' = [meta EXCEPT ![k] = ocall[c].policy]
  BY <1>0 DEF O!write_data, O!write_meta
<1>3. PICK e \in O!ObjCall :
             /\ ocall' = [ocall EXCEPT ![c] = e] /\ e.op = ocall[c].op /\ e.at = at
             /\ e.key = ocall[c].key /\ e.policy = ocall[c].policy
             /\ e.shield = ocall[c].shield
  BY <1>2, AtFacts
<1>4. data' \in [ObjectKeys -> BOOLEAN]
  BY <1>2, CallKeys
<1>5. /\ meta' \in [ObjectKeys -> O!Retention \cup {"absent", "torn"}]
      /\ \A j \in ObjectKeys : j # k => meta'[j] = meta[j]
      /\ at = "return" => meta'[k] = ocall[c].policy
  BY <1>2, CallKeys
<1>6. e.at \notin {"idle", "scan", "unlink", "unlink_meta"} /\ e.op = "put" /\ e.key = k
      /\ ocall[c].at # "return"
  BY <1>0, <1>1, <1>2, <1>3
<1>7. e.at = "return" => meta'[k] = e.policy
  BY <1>3, <1>5
<1> QED
  BY <1>0, <1>1, <1>2, <1>3, <1>4, <1>5, <1>6, <1>7, CallMoves

\* A call that ends and leaves the files alone preserves the invariant, wherever
\* it stopped.
LEMMA StopStep ==
    ASSUME ObjInv, NEW c \in ObjClients, O!Rests(c),
           backend' = backend, data' = data, meta' = meta, done' = done
    PROVE  ObjInv'
<1>1. ocall' = [ocall EXCEPT ![c] = O!Resting]
  BY DEF O!Rests
<1>2. ocall'[c] = O!Resting /\ \A d \in ObjClients : d # c => ocall'[d] = ocall[d]
  BY <1>1, CallKeys
<1>3. O!ObjTypeOK'
  BY <1>1, RestingFacts DEF ObjInv, O!ObjTypeOK
<1>4. CallShape' /\ ProtectedKept'
  BY <1>2, RestingFacts DEF ObjInv, CallShape, Changing, ProtectedKept
<1>5. OneChange' /\ PolicyKept'
  BY <1>2, RestingFacts DEF ObjInv, OneChange, PolicyKept, Changing
<1> QED
  BY <1>3, <1>4, <1>5 DEF ObjInv

\* A call that ends with the removal of a key's metadata preserves the invariant.
LEMMA RestStep ==
    ASSUME ObjInv, NEW c \in ObjClients, NEW k \in ObjectKeys, O!Rests(c),
           backend' = backend, done' = done, data' \in [ObjectKeys -> BOOLEAN],
           meta' = meta \/ meta' = [meta EXCEPT ![k] = "absent"]
    PROVE  ObjInv'
<1>1. /\ meta' \in [ObjectKeys -> O!Retention \cup {"absent", "torn"}]
      /\ \A j \in ObjectKeys : j # k => meta'[j] = meta[j]
      /\ meta'[k] = meta[k] \/ meta'[k] = "absent"
  BY CallKeys
<1>2. ocall' = [ocall EXCEPT ![c] = O!Resting] /\ O!Resting.shield \subseteq ocall[c].shield
  BY RestingFacts DEF O!Rests
<1> QED
  BY <1>1, <1>2, RestingFacts, CallMoves

\* Removing the two files of an object preserves the invariant.
LEMMA UnlinkStep ==
    ASSUME ObjInv, NEW c \in ObjClients, O!unlink(c)
    PROVE  ObjInv'
<1>0. PICK k \in ObjectKeys : k = ocall[c].key
  BY CallKeys DEF O!unlink
<1>1. /\ ocall[c].op \in {"delete", "purge"}
      /\ ocall[c].at \in {"unlink", "unlink_meta"}
  BY CallKeys DEF O!unlink
<1>2. backend' = backend /\ done' = done
  BY DEF O!unlink
<1>3. data' \in [ObjectKeys -> BOOLEAN]
  BY <1>0, CallKeys DEF O!unlink
<1>4. meta' = meta \/ meta' = [meta EXCEPT ![k] = "absent"]
  BY <1>0 DEF O!unlink
<1>5. CASE O!Rests(c)
  BY <1>1, <1>2, <1>3, <1>4, <1>5, RestStep
<1>6. CASE O!At(c, "unlink_meta") \/ (ocall[c].op = "purge" /\ O!At(c, "scan"))
  <2>1. PICK at \in {"unlink_meta", "scan"} :
           O!At(c, at) /\ (at = "scan" => ocall[c].op = "purge")
    BY <1>6
  <2>2. PICK e \in O!ObjCall :
             /\ ocall' = [ocall EXCEPT ![c] = e] /\ e.op = ocall[c].op /\ e.at = at
             /\ e.key = ocall[c].key /\ e.policy = ocall[c].policy
             /\ e.shield = ocall[c].shield
    BY <2>1, AtFacts
  <2>3. /\ meta' \in [ObjectKeys -> O!Retention \cup {"absent", "torn"}]
        /\ \A j \in ObjectKeys : j # k => meta'[j] = meta[j]
        /\ meta'[k] = meta[k] \/ meta'[k] = "absent"
    BY <1>1, <1>4, CallKeys
  <2>4. /\ e.at \in {"scan", "unlink_meta"} /\ e.op \in {"delete", "purge"} /\ e.key = k
        /\ (e.at = "scan" => e.op = "purge")
    BY <1>0, <1>1, <2>1, <2>2
  <2>5. e.at \notin {"data", "truncate", "meta", "return", "unlink", "idle"} /\ e.op # "none"
    BY <2>4
  <2> QED
    BY <1>0, <1>2, <1>3, <2>2, <2>3, <2>4, <2>5, CallMoves
<1>7. O!After(c) => O!Rests(c) \/ (ocall[c].op = "purge" /\ O!At(c, "scan"))
  BY Zenon DEF O!After
<1>8. O!At(c, "unlink_meta") \/ O!After(c) \/ O!Rests(c)
  BY Zenon DEF O!unlink
<1> QED
  BY <1>5, <1>6, <1>7, <1>8

\* A put that returns: its policy is in the metadata file, unless a purge that
\* had read an earlier one has removed the file.
LEMMA PutReturnsStep ==
    ASSUME ObjInv, NEW c \in ObjClients, O!put_returns(c)
    PROVE  ObjInv'
<1> DEFINE k == ocall[c].key
<1>1. /\ ocall[c].at = "return" /\ ocall[c].op = "put" /\ k \in ObjectKeys
      /\ meta[k] \in {ocall[c].policy, "absent"}
  BY CallKeys DEF O!put_returns, ObjInv, PolicyKept
<1>2. /\ backend' = backend /\ data' = data /\ meta' = meta
      /\ ocall' = [ocall EXCEPT ![c] = O!Resting]
      /\ done' = [done EXCEPT ![k] = ocall[c].policy]
  BY DEF O!put_returns, O!Rests
<1>3. ocall'[c] = O!Resting /\ \A d \in ObjClients : d # c => ocall'[d] = ocall[d]
  BY <1>2, CallKeys
<1>4. /\ done'[k] = ocall[c].policy /\ \A j \in ObjectKeys : j # k => done'[j] = done[j]
      /\ done' \in [ObjectKeys -> O!Retention \cup {"unknown"}]
  BY <1>1, <1>2, CallKeys DEF ObjInv, O!ObjTypeOK
<1>5. O!ObjTypeOK'
  BY <1>2, <1>4, RestingFacts DEF ObjInv, O!ObjTypeOK
<1>6. CallShape'
  BY <1>3, RestingFacts DEF ObjInv, CallShape, Changing
<1>7. OneChange'
  <2>1. \A d \in ObjClients : Changing(d)' =>
           /\ d # c /\ Changing(d) /\ ocall'[d] = ocall[d]
           /\ ocall[d].key \in ObjectKeys /\ ocall[d].key # k
    BY <1>1, <1>3, RestingFacts DEF ObjInv, CallShape, OneChange, Changing
  <2>2. \A d \in ObjClients : ocall'[d].shield \subseteq ocall[d].shield
    BY <1>3, RestingFacts
  <2> QED
    BY <2>1, <2>2, <1>4 DEF ObjInv, OneChange
<1>8. PolicyKept'
  BY <1>1, <1>2, <1>3, <1>4, RestingFacts DEF ObjInv, PolicyKept
<1>9. ProtectedKept'
  BY <1>3, RestingFacts DEF ObjInv, ProtectedKept
<1> QED
  BY <1>5, <1>6, <1>7, <1>8, <1>9 DEF ObjInv

\* A purge begins: what it promises to keep has a policy that protects it.
LEMMA PurgeStep ==
    ASSUME ObjInv, NEW c \in ObjClients, O!purge_expired(c)
    PROVE  ObjInv'
<1> DEFINE e == [O!Resting EXCEPT !.op = "purge", !.at = "scan",
                    !.todo = {k \in ObjectKeys : meta[k] # "absent"},
                    !.shield = {k \in ObjectKeys : done[k] \in {"retained", "held"}}]
<1>1. /\ e \in O!ObjCall /\ e.op = "purge" /\ e.at = "scan"
      /\ e.shield = {k \in ObjectKeys : done[k] \in {"retained", "held"}}
  BY DEF O!Resting, O!ObjCall, O!Retention
<1>2. /\ ocall' = [ocall EXCEPT ![c] = e]
      /\ backend' = backend /\ data' = data /\ meta' = meta /\ done' = done
  BY DEF O!purge_expired
<1> HIDE DEF e
<1>3. ocall'[c] = e /\ \A d \in ObjClients : d # c => ocall'[d] = ocall[d]
  BY <1>2, CallKeys
<1>4. O!ObjTypeOK'
  BY <1>1, <1>2 DEF ObjInv, O!ObjTypeOK
<1>5. CallShape' /\ ProtectedKept'
  BY <1>1, <1>3 DEF ObjInv, CallShape, Changing, ProtectedKept
<1>6. OneChange'
  <2>1. \A d \in ObjClients : Changing(d)' => d # c /\ Changing(d) /\ ocall'[d] = ocall[d]
    BY <1>1, <1>3 DEF Changing
  <2> QED
    BY <2>1, <1>1, <1>2, <1>3 DEF ObjInv, OneChange
<1>7. PolicyKept'
  BY <1>1, <1>2, <1>3 DEF ObjInv, PolicyKept
<1> QED
  BY <1>4, <1>5, <1>6, <1>7 DEF ObjInv

\* A purge that removes an object has read a policy that has run out, which no
\* object it promised to keep has.
LEMMA ScanStep ==
    ASSUME ObjInv, NEW c \in ObjClients, O!scan(c)
    PROVE  ObjInv'
<1>1. ocall[c].at = "scan" /\ ocall[c].op = "purge" /\ ocall[c] \in O!ObjCall
  BY CallKeys DEF O!scan, ObjInv, CallShape
<1>2. backend' = backend /\ data' = data /\ meta' = meta /\ done' = done
  BY DEF O!scan
<1>3. CASE O!Rests(c)
  BY <1>2, <1>3, StopStep
<1> DEFINE looked(k) == [ocall[c] EXCEPT !.todo = ocall[c].todo \ {k}]
           Looks(k) == ocall' = [ocall EXCEPT ![c] =
              IF O!Purgeable(k) THEN [looked(k) EXCEPT !.at = "unlink", !.key = k]
              ELSE looked(k)]
<1>4. CASE \E k \in ocall[c].todo : Looks(k)
  <2>1. PICK k \in ocall[c].todo : Looks(k)
    BY <1>4
  <2>2. k \in ObjectKeys
    BY <1>1 DEF O!ObjCall
  <2>3. CASE O!Purgeable(k)
    <3> DEFINE e == [looked(k) EXCEPT !.at = "unlink", !.key = k]
    <3>1. /\ e \in O!ObjCall /\ e.op = "purge" /\ e.at = "unlink" /\ e.key = k
          /\ e.shield = ocall[c].shield
      BY <1>1, <2>2 DEF O!ObjCall
    <3>2. ocall' = [ocall EXCEPT ![c] = e]
      BY <2>1, <2>3
    <3>3. k \notin ocall[c].shield
      BY <2>3 DEF O!Purgeable, ObjInv, PolicyKept
    <3> HIDE DEF e
    <3> QED
      BY <1>1, <1>2, <2>2, <3>1, <3>2, <3>3, CallKeys, CallMoves
  <2>4. CASE ~O!Purgeable(k)
    <3> DEFINE e == looked(k)
    <3>1. /\ e \in O!ObjCall /\ e.op = "purge" /\ e.at = "scan"
          /\ e.shield = ocall[c].shield
      BY <1>1, <2>2 DEF O!ObjCall
    <3>2. ocall' = [ocall EXCEPT ![c] = e]
      BY <2>1, <2>4
    <3> HIDE DEF e
    <3> QED
      BY <1>1, <1>2, <2>2, <3>1, <3>2, CallKeys, CallMoves
  <2> QED
    BY <2>3, <2>4
<1> QED
  BY <1>3, <1>4 DEF O!scan

\* Every step of the object store preserves its invariant.
LEMMA ObjStep == ObjInv /\ O!ObjNext => ObjInv'
<1> SUFFICES ASSUME ObjInv, NEW c \in ObjClients,
                    \/ \E k \in ObjectKeys : \/ \E policy \in O!Retention : O!put(c, k, policy)
                                             \/ O!delete(c, k)
                    \/ O!write_data(c) \/ O!write_meta(c) \/ O!put_returns(c)
                    \/ O!unlink(c)
                    \/ O!purge_expired(c) \/ O!scan(c)
                    \/ O!fails(c)
             PROVE  ObjInv'
  BY DEF O!ObjNext
<1>1. CASE \E k \in ObjectKeys : \/ \E policy \in O!Retention : O!put(c, k, policy)
                                 \/ O!delete(c, k)
  BY <1>1, PutDeleteStep
<1>2. CASE O!write_data(c) \/ O!write_meta(c)
  BY <1>2, WriteStep
<1>3. CASE O!put_returns(c)
  BY <1>3, PutReturnsStep
<1>4. CASE O!unlink(c)
  BY <1>4, UnlinkStep
<1>5. CASE O!purge_expired(c)
  BY <1>5, PurgeStep
<1>6. CASE O!scan(c)
  BY <1>6, ScanStep
<1>7. CASE O!fails(c)
  BY <1>7, StopStep DEF O!fails
<1> QED
  BY <1>1, <1>2, <1>3, <1>4, <1>5, <1>6, <1>7

\* The two stores share the count of the calls and nothing else: a step of the
\* object store leaves the database's invariants alone.
LEMMA ObjLeavesSql ==
    ASSUME StoreInv, AdoptInv, O!ObjNext, UNCHANGED sqlVars
    PROVE  StoreInv' /\ AdoptInv'
<1>1. kept' = kept /\ tables' = tables /\ call' = call /\ told' = told /\ refused' = refused
  BY DEF sqlVars
<1>2. calls' = calls \/ (calls < MaxCalls /\ calls' = calls + 1)
  BY DEF O!ObjNext, O!put, O!delete, O!Begins, O!write_data, O!write_meta, O!put_returns,
         O!unlink, O!purge_expired, O!scan, O!fails
<1>3. calls' \in 0 .. MaxCalls
  BY <1>2, SqlStoreAssumption DEF StoreInv, TypeOK
<1>4. StoreInv'
  BY <1>1, <1>3 DEF StoreInv, TypeOK, Working, Exclusive, Readable
<1>5. AdoptInv'
  BY <1>1 DEF AdoptInv, Checked, NoAdoption, Occupied
<1> QED
  BY <1>4, <1>5

\* The inductive invariant of the two stores side by side.
StorageInv == StoreInv /\ AdoptInv /\ ObjInv

\* Every step of either store preserves it.
LEMMA StorageStep == StorageInv /\ [StorageNext]_allVars => StorageInv'
<1> SUFFICES ASSUME StorageInv, [StorageNext]_allVars PROVE StorageInv'
  OBVIOUS
<1>0. ASSUME UNCHANGED <<backend, data, meta, done, ocall>> PROVE ObjInv'
  <2>1. O!ObjTypeOK'
    BY <1>0 DEF StorageInv, ObjInv, O!ObjTypeOK
  <2>2. CallShape' /\ OneChange' /\ PolicyKept' /\ ProtectedKept'
    BY <1>0 DEF StorageInv, ObjInv, CallShape, OneChange, PolicyKept, ProtectedKept, Changing
  <2> QED
    BY <2>1, <2>2 DEF ObjInv
<1>1. CASE UNCHANGED allVars
  BY <1>0, <1>1, StoreStep, AdoptStep DEF StorageInv, allVars
<1>2. CASE Next /\ UNCHANGED <<backend, data, meta, done, ocall>>
  BY <1>0, <1>2, StoreStep, AdoptStep DEF StorageInv
<1>3. CASE O!ObjNext /\ UNCHANGED sqlVars
  BY <1>3, ObjStep, ObjLeavesSql DEF StorageInv
<1> QED
  BY <1>1, <1>2, <1>3 DEF StorageNext

\* The inductive invariant holds from the start.
LEMMA StorageHolds == StorageSpec => []StorageInv
<1>1. StorageInit => StorageInv
  BY StoreInit, ObjInitOK DEF StorageInit, StorageInv, AdoptInv
<1> QED
  BY <1>1, StorageStep, PTL DEF StorageSpec

\* The database and the object store keep their types, used side by side by any
\* number of processes.
THEOREM StorageTypeCorrect == StorageSpec => []StorageTypeOK
<1>1. StorageInv => StorageTypeOK
  BY DEF StorageInv, StoreInv, ObjInv, StorageTypeOK
<1> QED
  BY <1>1, StorageHolds, PTL

\* purge_expired removes no object that a finished put had protected before the
\* purge began, with any number of objects and of clients that put, delete and
\* purge beside it, and wherever any of them died.
THEOREM ProtectedKeptHolds == StorageSpec => []ProtectedKept
<1>1. StorageInv => ProtectedKept
  BY DEF StorageInv, ObjInv
<1> QED
  BY <1>1, StorageHolds, PTL

\* No scaffold is committed over a tenant that was in use when it was inserted
\* and has been ever since, with any number of clients and writers and with the
\* object store in use beside them.
THEOREM NoAdoptionHolds == StorageSpec => []NoAdoption
<1>1. StorageInv => NoAdoption
  BY DEF StorageInv, AdoptInv
<1> QED
  BY <1>1, StorageHolds, PTL

\* The command log and the scaffold table implement the first-wins store:
\* however the transactions of any number of processes interleave, wait for one
\* another and fail, the first committed request of a slot decides for ever, and
\* success and conflict are reported in accordance with it.
THEOREM StoreImplementsFirstWins == StorageSpec => ImplementsFirstWins
<1>1. StorageInit => FW!Init
  BY DEF StorageInit, Init, FW!Init
<1>2. StorageInv /\ [StorageNext]_allVars => [FW!Next]_(FW!vars)
  <2> SUFFICES ASSUME StorageInv, [StorageNext]_allVars PROVE [FW!Next]_(FW!vars)
    OBVIOUS
  <2>1. CASE UNCHANGED allVars
    BY <2>1, RefinesStep DEF StorageInv, allVars
  <2>2. CASE Next
    BY <2>2, RefinesStep DEF StorageInv
  <2>3. CASE UNCHANGED sqlVars
    BY <2>3 DEF sqlVars, FW!vars
  <2> QED
    BY <2>1, <2>2, <2>3 DEF StorageNext
<1> QED
  BY <1>1, <1>2, StorageHolds, PTL DEF StorageSpec, ImplementsFirstWins, FW!Spec

=============================================================================
