-------------------------- MODULE CommandLogProofs --------------------------
(***************************************************************************)
(* Proofs about CommandLog, for any processes, expenses, funds, packets,   *)
(* donations and bounds: type correctness; that a stored execution receipt *)
(* stands for a row of the log; and, for a workspace that one process has  *)
(* open, that each command is logged once, that an approval is never       *)
(* undone, that the entity snapshot is not ahead of the log, that a        *)
(* restart between commands is invisible, and that the receipts a restart  *)
(* finds are sound.                                                        *)
(***************************************************************************)
EXTENDS CommandLog, Integers, WellFoundedInduction, TLAPS

-----------------------------------------------------------------------------
(* The newest row: a set of row numbers has a greatest element *)

LEMMA LessThan == OpToRel(<, Nat) = {ss \in Nat \X Nat : ss[1] < ss[2]}
  BY Zenon DEF OpToRel

\* A nonempty set of naturals has a least element.
LEMMA HasLeast ==
  ASSUME NEW T \in SUBSET Nat, T # {}
  PROVE  \E x \in T : \A y \in T : x <= y
<1> DEFINE R == {ss \in Nat \X Nat : ss[1] < ss[2]}
<1>1. IsWellFoundedOn(R, Nat)
  BY NatLessThanWellFounded, LessThan, Zenon
<1>2. \A x, y \in Nat : y < x => <<y, x>> \in R
  OBVIOUS
<1> HIDE DEF R
<1>3. PICK x \in T : \A y \in T : ~(<<y, x>> \in R)
  BY <1>1, WFMin, Zenon
<1>4. \A y \in T : ~(y < x)
  BY <1>2, <1>3
<1>5. \A y \in T : x <= y
  BY <1>4
<1> QED
  BY <1>5

\* What the CHOOSE of Newest picks.
LEMMA NewestOf ==
  ASSUME NEW n \in Nat, NEW I \in SUBSET (1..n), I # {}
  PROVE  Newest(I) \in I /\ \A j \in I : j <= Newest(I)
<1> DEFINE T == {n - i : i \in I}
<1>1. T \in SUBSET Nat
  OBVIOUS
<1>2. T # {}
  BY I # {}
<1>3. \A j \in I : (n - j) \in T
  OBVIOUS
<1>4. \A x \in T : \E i \in I : x = n - i
  OBVIOUS
<1> HIDE DEF T
<1>5. PICK x \in T : \A y \in T : x <= y
  BY <1>1, <1>2, HasLeast
<1>6. PICK i \in I : x = n - i
  BY <1>4, <1>5
<1>7. \A j \in I : j <= i
  BY <1>3, <1>5, <1>6
<1> QED
  BY <1>7 DEF Newest

-----------------------------------------------------------------------------
(* Type correctness *)

\* A command is under way whenever the code is inside _dispatch or execute.
CommandUnderWay ==
    \A p \in Processes : pc[p] \in {"append", "put_receipt"} => cmd[p] \in Commands

TypeInv == TypeOK /\ CommandUnderWay

LEMMA EmptyLedgerType == EmptyLedger \in Entities
  BY DEF EmptyLedger, Entities, ExpenseStates

LEMMA RowsAreNumbered ==
  ASSUME TypeOK
  PROVE  /\ Len(log) \in Nat
         /\ DOMAIN log = 1..Len(log)
         /\ \A i \in DOMAIN log : log[i] \in Row
  BY DEF TypeOK

\* The fold of well-formed rows is a well-formed ledger.
LEMMA RehydrateType ==
  ASSUME TypeOK
  PROVE  rehydrate \in Entities
<1> USE RowsAreNumbered
<1>1. \A i \in DOMAIN log : log[i].entities \in Entities
  BY DEF Row
<1>2. ASSUME NEW e \in Expenses
      PROVE  (IF Mentions(e) = {} THEN "ABSENT"
              ELSE log[Newest(Mentions(e))].entities.expenses[e]) \in ExpenseStates
  <2>1. CASE Mentions(e) = {}
    BY <2>1 DEF ExpenseStates
  <2>2. CASE Mentions(e) # {}
    <3>1. Mentions(e) \in SUBSET (1..Len(log))
      BY DEF Mentions
    <3>2. Newest(Mentions(e)) \in DOMAIN log
      BY <2>2, <3>1, NewestOf
    <3> QED
      BY <1>1, <2>2, <3>2 DEF Entities
  <2> QED
    BY <2>1, <2>2
<1>3. ASSUME NEW e \in Expenses
      PROVE  (IF Lineages(e) = {} THEN {}
              ELSE log[Newest(Lineages(e))].entities.expense_receipts[e]) \in SUBSET Nat
  <2>1. CASE Lineages(e) = {}
    BY <2>1
  <2>2. CASE Lineages(e) # {}
    <3>1. Lineages(e) \in SUBSET (1..Len(log))
      BY DEF Lineages
    <3>2. Newest(Lineages(e)) \in DOMAIN log
      BY <2>2, <3>1, NewestOf
    <3> QED
      BY <1>1, <2>2, <3>2 DEF Entities
  <2> QED
    BY <2>1, <2>2
<1>4. UNION {log[i].entities.expense_allocations : i \in DOMAIN log}
          \in SUBSET ExpenseAllocation
  BY <1>1 DEF Entities
<1>5. UNION {log[i].entities.receipts : i \in DOMAIN log} \in SUBSET Receipt
  BY <1>1 DEF Entities
<1> HIDE RowsAreNumbered
<1> QED
  BY <1>2, <1>3, <1>4, <1>5 DEF rehydrate, Entities

\* The effects of the commands on a well-formed ledger are well formed.
LEMMA ChargedType ==
  ASSUME NEW l \in Entities, NEW e \in Expenses, NEW f \in Funds, NEW n \in Nat
  PROVE  Charged(l, e, f, n) \in Entities
<1> DEFINE new == [id |-> n, expense |-> e, fund |-> f]
<1>1. new \in ExpenseAllocation
  BY DEF ExpenseAllocation
<1> HIDE DEF new
<1> QED
  BY <1>1 DEF Charged, Entities, ExpenseStates, ChargesOf, new

LEMMA PublishedType ==
  ASSUME NEW l \in Entities, NEW e \in Expenses, NEW n \in Nat,
         NEW rs \in SUBSET Receipt
  PROVE  Published(l, e, rs, n) \in Entities
  BY DEF Published, Entities

LEMMA ReversedType ==
  ASSUME NEW l \in Entities, NEW e \in Expenses, NEW n \in Nat
  PROVE  Reversed(l, e, n) \in Entities
<1>1. Corrections(l, e, n) \in SUBSET Receipt
  BY DEF Corrections, Entities, Receipt
<1>2. [l EXCEPT !.expenses[e] = "REVERSED"] \in Entities
  BY DEF Entities, ExpenseStates
<1> QED
  BY <1>1, <1>2, PublishedType DEF Reversed

LEMMA DispatchType ==
  ASSUME TypeOK, NEW p \in Processes, NEW c \in Commands, NEW n \in Nat,
         _dispatch(p, c, n)
  PROVE  ledger' \in [Processes -> Entities]
<1>0. /\ c.expense \in Expenses
      /\ ledger \in [Processes -> Entities]
  BY DEF Commands, TypeOK
<1>1. CASE _import_normalized(p, c)
  BY <1>0, <1>1 DEF _import_normalized, Entities, ExpenseStates
<1>2. CASE _allocate(p, c, n)
  <2>1. c.arg \in Funds
    BY <1>2 DEF _allocate, Commands
  <2> QED
    BY <1>0, <1>2, <2>1, ChargedType DEF _allocate
<1>3. CASE _approve(p, c)
  BY <1>0, <1>3 DEF _approve, Entities, ExpenseStates
<1>4. CASE _publish_receipt(p, c, n)
  <2> DEFINE receipt == [id |-> n, expense |-> c.expense,
                         donation |-> c.arg, corrects |-> 0]
  <2>1. c.arg \in Donations
    BY <1>4 DEF _publish_receipt, Commands
  <2>2. {receipt} \in SUBSET Receipt
    BY <1>0, <2>1 DEF Receipt
  <2>3. Published(ledger[p], c.expense, {receipt}, n) \in Entities
    BY <1>0, <2>2, PublishedType
  <2> QED
    BY <1>0, <1>4, <2>3 DEF _publish_receipt
<1>5. CASE _reverse_expense(p, c, n)
  BY <1>0, <1>5, ReversedType DEF _reverse_expense
<1> QED
  BY <1>1, <1>2, <1>3, <1>4, <1>5 DEF _dispatch

LEMMA TypeInit == Init => TypeInv
<1> SUFFICES ASSUME Init PROVE TypeInv
  OBVIOUS
<1>1. /\ ledger \in [Processes -> Entities]
      /\ saved \in [entities: Entities, clean: BOOLEAN]
  BY EmptyLedgerType DEF Init
<1>2. cmd \in [Processes -> Commands \cup {NoCommand}]
  BY DEF Init
<1>3. /\ log \in Seq(Row)
      /\ exec_receipts \subseteq Commands
      /\ pc \in [Processes -> {"down", "idle", "append", "put_receipt"}]
      /\ seen \in [Processes -> SUBSET Commands]
      /\ ids \in Nat
      /\ crashes \in Nat
  BY DEF Init
<1>4. torn \in BOOLEAN /\ dirty \in [Processes -> BOOLEAN]
  BY DEF Init
<1>5. CommandUnderWay
  BY DEF Init, CommandUnderWay
<1> QED
  BY <1>1, <1>2, <1>3, <1>4, <1>5 DEF TypeInv, TypeOK

LEMMA TypeStep == TypeInv /\ [Next]_vars => TypeInv'
<1> SUFFICES ASSUME TypeInv, [Next]_vars PROVE TypeInv'
  OBVIOUS
<1> USE DEF TypeInv, TypeOK, CommandUnderWay
<1>1. CASE UNCHANGED vars
  BY <1>1 DEF vars, process
<1>2. ASSUME NEW p \in Processes, open_workspace(p) PROVE TypeInv'
  <2>1. LoggedKeys \in SUBSET Commands
    BY RowsAreNumbered DEF LoggedKeys, Row
  <2>2. rehydrate \in Entities
    BY RehydrateType
  <2> QED
    BY <1>2, <2>1, <2>2 DEF open_workspace
<1>3. ASSUME NEW p \in Processes, NEW c \in Commands, execute(p, c) PROVE TypeInv'
  <2>1. ledger' \in [Processes -> Entities]
    BY <1>3, DispatchType DEF execute
  <2>2. cmd' \in [Processes -> Commands \cup {NoCommand}]
    BY <1>3 DEF execute
  <2>3. pc' \in [Processes -> {"down", "idle", "append", "put_receipt"}]
    BY <1>3 DEF execute
  <2>4. ids' \in Nat
    BY <1>3 DEF execute
  <2>5. CommandUnderWay'
    BY <1>3 DEF execute
  <2> QED
    BY <1>3, <2>1, <2>2, <2>3, <2>4, <2>5 DEF execute
<1>4. ASSUME NEW p \in Processes, append(p) PROVE TypeInv'
  <2>1. build_result_json(cmd[p], ledger[p]) \in Row
    BY <1>4 DEF append, build_result_json, Row
  <2>2. log' = log \/ log' = Append(log, build_result_json(cmd[p], ledger[p]))
    BY <1>4 DEF append
  <2>3. log' \in Seq(Row)
    BY <2>1, <2>2
  <2>4. seen' \in [Processes -> SUBSET Commands]
    BY <1>4 DEF append
  <2>5. dirty' \in [Processes -> BOOLEAN]
    BY <1>4 DEF append
  <2>6. pc' \in [Processes -> {"down", "idle", "append", "put_receipt"}]
    BY <1>4 DEF append
  <2>7. CommandUnderWay'
    BY <1>4 DEF append
  <2> QED
    BY <1>4, <2>3, <2>4, <2>5, <2>6, <2>7 DEF append
<1>5. ASSUME NEW p \in Processes, append_raises(p) PROVE TypeInv'
  BY <1>5 DEF append_raises
<1>6. ASSUME NEW p \in Processes, _store_receipt(p) PROVE TypeInv'
  BY <1>6 DEF _store_receipt
<1>7. ASSUME NEW p \in Processes, persist_ledger_snapshot(p) PROVE TypeInv'
  BY <1>7 DEF persist_ledger_snapshot, process
<1>8. ASSUME NEW p \in Processes, crash(p) PROVE TypeInv'
  <2>1. ledger' \in [Processes -> Entities]
    BY <1>8, EmptyLedgerType DEF crash
  <2>2. cmd' \in [Processes -> Commands \cup {NoCommand}]
    BY <1>8 DEF crash
  <2>3. /\ torn' \in BOOLEAN
        /\ dirty' \in [Processes -> BOOLEAN]
    BY <1>8 DEF crash
  <2>4. /\ pc' \in [Processes -> {"down", "idle", "append", "put_receipt"}]
        /\ seen' \in [Processes -> SUBSET Commands]
        /\ crashes' \in Nat
    BY <1>8 DEF crash
  <2>5. CommandUnderWay'
    BY <1>8 DEF crash
  <2> QED
    BY <1>8, <2>1, <2>2, <2>3, <2>4, <2>5 DEF crash
<1> QED
  BY <1>1, <1>2, <1>3, <1>4, <1>5, <1>6, <1>7, <1>8 DEF Next

LEMMA TypeInvHolds == Spec => []TypeInv
  BY TypeInit, TypeStep, PTL DEF Spec

\* Every row of the log, every process's ledger and the saved snapshot are
\* well formed in every reachable state (CommandLog.TypeOK).
THEOREM LogTypeCorrect == Spec => []TypeOK
<1>1. TypeInv => TypeOK
  BY DEF TypeInv
<1> QED
  BY <1>1, TypeInvHolds, PTL

-----------------------------------------------------------------------------
(* Receipts stand for rows, for any number of processes *)

\* The part a process plays in ReceiptLogged: what it takes for logged is.
SeenLogged ==
    /\ \A p \in Processes :
          /\ ~torn /\ pc[p] # "down" => seen[p] \subseteq LoggedKeys
          /\ pc[p] = "put_receipt" => cmd[p] \in seen[p]

LEMMA KeysGrow ==
  ASSUME TypeOK, NEW r, log' = Append(log, r)
  PROVE  LoggedKeys' = LoggedKeys \cup {r.key}
<1>1. /\ DOMAIN log' = DOMAIN log \cup {Len(log) + 1}
      /\ \A i \in DOMAIN log : log'[i] = log[i]
      /\ log'[Len(log) + 1] = r
  BY DEF TypeOK
<1> QED
  BY <1>1 DEF LoggedKeys

LEMMA ReceiptStep ==
  ASSUME TypeInv, ReceiptLogged, SeenLogged, [Next]_vars
  PROVE  ReceiptLogged' /\ SeenLogged'
<1> USE DEF ReceiptLogged, SeenLogged, TypeInv, TypeOK
<1>1. CASE UNCHANGED vars
  BY <1>1 DEF vars, process, LoggedKeys
<1>2. ASSUME NEW p \in Processes, open_workspace(p) PROVE ReceiptLogged' /\ SeenLogged'
  BY <1>2 DEF open_workspace, LoggedKeys
<1>3. ASSUME NEW p \in Processes, NEW c \in Commands, execute(p, c)
      PROVE ReceiptLogged' /\ SeenLogged'
  BY <1>3 DEF execute, LoggedKeys
<1>4. ASSUME NEW p \in Processes, append(p) PROVE ReceiptLogged' /\ SeenLogged'
  <2>1. CASE cmd[p] \in seen[p]
    <3>1. UNCHANGED <<log, seen, torn, exec_receipts, cmd>>
      BY <1>4, <2>1 DEF append
    <3>2. LoggedKeys' = LoggedKeys
      BY <3>1 DEF LoggedKeys
    <3>3. pc' = [pc EXCEPT ![p] = "put_receipt"]
      BY <1>4 DEF append
    <3> QED
      BY <1>4, <2>1, <3>1, <3>2, <3>3 DEF append
  <2>2. CASE cmd[p] \notin seen[p]
    <3>1. /\ UNCHANGED <<torn, exec_receipts, cmd>>
          /\ seen' = [seen EXCEPT ![p] = @ \cup {cmd[p]}]
          /\ pc' = [pc EXCEPT ![p] = "put_receipt"]
          /\ pc[p] = "append"
      BY <1>4, <2>2 DEF append
    <3>2. CASE torn
      BY <3>1, <3>2
    <3>3. CASE ~torn
      <4>1. log' = Append(log, build_result_json(cmd[p], ledger[p]))
        BY <1>4, <2>2, <3>3 DEF append
      <4>2. LoggedKeys' = LoggedKeys \cup {cmd[p]}
        BY <4>1, KeysGrow DEF build_result_json
      <4> QED
        BY <3>1, <3>3, <4>2
    <3> QED
      BY <3>2, <3>3
  <2> QED
    BY <2>1, <2>2
<1>5. ASSUME NEW p \in Processes, append_raises(p) PROVE ReceiptLogged' /\ SeenLogged'
  BY <1>5 DEF append_raises, LoggedKeys
<1>6. ASSUME NEW p \in Processes, _store_receipt(p) PROVE ReceiptLogged' /\ SeenLogged'
  BY <1>6 DEF _store_receipt, LoggedKeys
<1>7. ASSUME NEW p \in Processes, persist_ledger_snapshot(p)
      PROVE ReceiptLogged' /\ SeenLogged'
  BY <1>7 DEF persist_ledger_snapshot, process, LoggedKeys
<1>8. ASSUME NEW p \in Processes, crash(p) PROVE ReceiptLogged' /\ SeenLogged'
  BY <1>8 DEF crash, LoggedKeys
<1> QED
  BY <1>1, <1>2, <1>3, <1>4, <1>5, <1>6, <1>7, <1>8 DEF Next

LEMMA ReceiptInvHolds == Spec => [](ReceiptLogged /\ SeenLogged)
<1>1. Init => ReceiptLogged /\ SeenLogged
  BY DEF Init, ReceiptLogged, SeenLogged, LoggedKeys
<1>2. TypeInv /\ ReceiptLogged /\ SeenLogged /\ [Next]_vars
        => ReceiptLogged' /\ SeenLogged'
  BY ReceiptStep
<1> QED
  BY <1>1, <1>2, TypeInvHolds, PTL DEF Spec

\* A command that execute would answer from its stored receipt is a row of
\* the log, with any number of processes on the workspace, whatever appends
\* fail and whoever dies (CommandLog.ReceiptLogged).
THEOREM ReceiptLoggedHolds == Spec => []ReceiptLogged
  BY ReceiptInvHolds, PTL

-----------------------------------------------------------------------------
(* One process at a time: nothing logged is undone *)

\* The workspace is open in one process at a time (the run log_stale_process
\* shows what happens otherwise).
SingleProcess == \A p, q \in Processes : p = q

Final == {"APPROVED", "REVERSED"}
LoggedFinal(e) == \E i \in DOMAIN log : log[i].entities.expenses[e] \in Final

\* A broken line is left by a process that is gone.
TornAlone == torn => \A p \in Processes : pc[p] = "down"

\* A running process knows every key of the log.
KeysSeen == \A p \in Processes : pc[p] # "down" => LoggedKeys \subseteq seen[p]

\* An approval is in the snapshot of its own row and of all the later ones.
ApprovalInRow ==
    \A i \in DOMAIN log : log[i].key.type = "approve_expense" =>
        log[i].entities.expenses[log[i].key.expense] \in Final
RowsKeepFinal ==
    \A i, j \in DOMAIN log : \A e \in Expenses :
        i <= j /\ log[i].entities.expenses[e] \in Final =>
            log[j].entities.expenses[e] \in Final

\* A running process has all that is logged, and the approval under way.
LedgerHasLog ==
    \A p \in Processes : pc[p] # "down" =>
        \A e \in Expenses : LoggedFinal(e) => ledger[p].expenses[e] \in Final
ApprovalUnderWay ==
    \A p \in Processes :
        pc[p] = "append" /\ cmd[p].type = "approve_expense" =>
            ledger[p].expenses[cmd[p].expense] \in Final

\* What a running process has beyond the log is the approval under way,
\* unless an append has failed.
LogHasLedger ==
    \A p \in Processes : pc[p] # "down" /\ ~dirty[p] =>
        \A e \in Expenses : ledger[p].expenses[e] \in Final =>
            \/ LoggedFinal(e)
            \/ pc[p] = "append" /\ cmd[p] \notin LoggedKeys
LogHasSaved ==
    saved.clean => \A e \in Expenses :
        saved.entities.expenses[e] \in Final => LoggedFinal(e)

LogInv == /\ TornAlone /\ KeysSeen /\ KeyOnce
          /\ ApprovalInRow /\ RowsKeepFinal
          /\ LedgerHasLog /\ ApprovalUnderWay
          /\ LogHasLedger /\ LogHasSaved

\* The fold returns an expense as approved or reversed exactly when some row
\* does, since later rows keep it so.
LEMMA FoldFinal ==
  ASSUME TypeOK, RowsKeepFinal, NEW e \in Expenses
  PROVE  rehydrate.expenses[e] \in Final <=> LoggedFinal(e)
<1>1. /\ Len(log) \in Nat
      /\ DOMAIN log = 1..Len(log)
      /\ Mentions(e) \in SUBSET (1..Len(log))
      /\ \A i \in DOMAIN log : log[i].entities.expenses[e] \in Final => i \in Mentions(e)
  BY RowsAreNumbered DEF Mentions, Final
<1>2. rehydrate.expenses[e] =
        IF Mentions(e) = {} THEN "ABSENT"
        ELSE log[Newest(Mentions(e))].entities.expenses[e]
  BY DEF rehydrate
<1>3. CASE Mentions(e) = {}
  BY <1>1, <1>2, <1>3 DEF LoggedFinal, Final
<1>4. CASE Mentions(e) # {}
  <2>1. /\ Newest(Mentions(e)) \in DOMAIN log
        /\ \A j \in Mentions(e) : j <= Newest(Mentions(e))
    BY <1>1, <1>4, NewestOf
  <2> QED
    BY <1>1, <1>2, <1>4, <2>1 DEF LoggedFinal, RowsKeepFinal
<1> QED
  BY <1>3, <1>4

\* What a command may do to an approved expense, and who approves.
LEMMA DispatchFinal ==
  ASSUME TypeOK, NEW p \in Processes, NEW c \in Commands, NEW n \in Nat,
         _dispatch(p, c, n), NEW e \in Expenses
  PROVE  /\ ledger[p].expenses[e] \in Final => ledger'[p].expenses[e] \in Final
         /\ ledger'[p].expenses[e] \in Final /\ ledger[p].expenses[e] \notin Final
               => c.type = "approve_expense" /\ c.expense = e
         /\ c.type = "approve_expense" => ledger'[p].expenses[c.expense] \in Final
<1>0. /\ c.expense \in Expenses
      /\ ledger \in [Processes -> Entities]
      /\ ledger[p] \in Entities
  BY DEF Commands, TypeOK
<1>1. CASE _import_normalized(p, c)
  BY <1>0, <1>1 DEF _import_normalized, Entities, Final
<1>2. CASE _allocate(p, c, n)
  <2>1. Charged(ledger[p], c.expense, c.arg, n).expenses =
          [ledger[p].expenses EXCEPT ![c.expense] = "APPROVAL_PENDING"]
    BY <1>0 DEF Charged, Entities
  <2>2. ledger'[p].expenses = [ledger[p].expenses EXCEPT ![c.expense] = "APPROVAL_PENDING"]
    BY <1>0, <1>2, <2>1 DEF _allocate
  <2> QED
    BY <1>0, <1>2, <2>2 DEF _allocate, Entities, Final
<1>3. CASE _approve(p, c)
  BY <1>0, <1>3 DEF _approve, Entities, Final
<1>4. CASE _publish_receipt(p, c, n)
  <2> DEFINE receipt == [id |-> n, expense |-> c.expense,
                         donation |-> c.arg, corrects |-> 0]
  <2>1. Published(ledger[p], c.expense, {receipt}, n).expenses = ledger[p].expenses
    BY <1>0 DEF Published, Entities
  <2>2. ledger'[p].expenses = ledger[p].expenses
    BY <1>0, <1>4, <2>1 DEF _publish_receipt
  <2> QED
    BY <1>4, <2>2 DEF _publish_receipt
<1>5. CASE _reverse_expense(p, c, n)
  <2>1. CASE UNCHANGED ledger
    BY <1>5, <2>1 DEF _reverse_expense
  <2>2. CASE /\ ledger[p].expenses[c.expense] = "APPROVED"
             /\ ledger' = [ledger EXCEPT ![p] = Reversed(ledger[p], c.expense, n)]
    <3> DEFINE l == [ledger[p] EXCEPT !.expenses[c.expense] = "REVERSED"]
    <3>1. l \in Entities
      BY <1>0 DEF Entities, ExpenseStates
    <3>2. l.expenses = [ledger[p].expenses EXCEPT ![c.expense] = "REVERSED"]
      BY <1>0 DEF Entities
    <3> HIDE DEF l
    <3>3. Published(l, c.expense, Corrections(ledger[p], c.expense, n), n).expenses
            = l.expenses
      BY <3>1 DEF Published, Entities
    <3>4. Reversed(ledger[p], c.expense, n).expenses = l.expenses
      BY <3>3 DEF Reversed, l
    <3>5. ledger'[p].expenses = [ledger[p].expenses EXCEPT ![c.expense] = "REVERSED"]
      BY <1>0, <2>2, <3>2, <3>4
    <3> QED
      BY <1>0, <1>5, <2>2, <3>5 DEF _reverse_expense, Entities, Final
  <2> QED
    BY <1>5, <2>1, <2>2 DEF _reverse_expense
<1> QED
  BY <1>1, <1>2, <1>3, <1>4, <1>5 DEF _dispatch

LEMMA RowsGrow ==
  ASSUME TypeOK, NEW r, log' = Append(log, r)
  PROVE  /\ Len(log) \in Nat
         /\ DOMAIN log = 1..Len(log)
         /\ DOMAIN log' = DOMAIN log \cup {Len(log) + 1}
         /\ \A i \in DOMAIN log : log'[i] = log[i]
         /\ log'[Len(log) + 1] = r
         /\ \A e \in Expenses :
               LoggedFinal(e)' <=> LoggedFinal(e) \/ r.entities.expenses[e] \in Final
<1>1. /\ Len(log) \in Nat
      /\ DOMAIN log = 1..Len(log)
      /\ DOMAIN log' = DOMAIN log \cup {Len(log) + 1}
      /\ \A i \in DOMAIN log : log'[i] = log[i]
      /\ log'[Len(log) + 1] = r
  BY DEF TypeOK
<1> QED
  BY <1>1 DEF LoggedFinal

\* A step that leaves the log alone leaves alone what is said of it only.
LEMMA LogFrame ==
  ASSUME UNCHANGED log
  PROVE  /\ LoggedKeys' = LoggedKeys
         /\ \A e \in Expenses : LoggedFinal(e)' = LoggedFinal(e)
         /\ KeyOnce => KeyOnce'
         /\ ApprovalInRow => ApprovalInRow'
         /\ RowsKeepFinal => RowsKeepFinal'
  BY DEF LoggedKeys, LoggedFinal, KeyOnce, ApprovalInRow, RowsKeepFinal

LEMMA LogInitially == Init => LogInv
  BY DEF Init, LogInv, TornAlone, KeysSeen, KeyOnce, ApprovalInRow, RowsKeepFinal,
         LedgerHasLog, ApprovalUnderWay, LogHasLedger, LogHasSaved, EmptyLedger, Final

\* A row is appended by the only process that is up.
LEMMA AppendStep ==
  ASSUME SingleProcess, TypeInv, SeenLogged, LogInv, NEW p \in Processes, append(p)
  PROVE  LogInv'
<1>0. /\ pc[p] = "append" /\ pc' = [pc EXCEPT ![p] = "put_receipt"]
      /\ UNCHANGED <<torn, saved, cmd, ledger>>
      /\ ~torn
      /\ pc \in [Processes -> {"down", "idle", "append", "put_receipt"}]
  BY DEF append, LogInv, TornAlone, TypeInv, TypeOK
<1>1. /\ TornAlone'
      /\ ApprovalUnderWay'
  BY <1>0, Zenon DEF SingleProcess, TornAlone, ApprovalUnderWay
<1>2. CASE cmd[p] \in seen[p]
  <2>1. UNCHANGED <<log, seen, dirty>>
    BY <1>2 DEF append
  <2>2. /\ LoggedKeys' = LoggedKeys
        /\ \A e \in Expenses : LoggedFinal(e)' = LoggedFinal(e)
        /\ KeyOnce' /\ ApprovalInRow' /\ RowsKeepFinal'
    BY <2>1, LogFrame DEF LogInv
  <2>3. cmd[p] \in LoggedKeys
    BY <1>0, <1>2 DEF SeenLogged
  <2>4. LogHasSaved'
    BY <1>0, <2>2 DEF LogInv, LogHasSaved
  <2>5. KeysSeen' /\ LedgerHasLog'
    BY <1>0, <2>1, <2>2 DEF LogInv, KeysSeen, LedgerHasLog
  <2>6. LogHasLedger'
    BY <1>0, <2>1, <2>2, <2>3 DEF LogInv, LogHasLedger, SingleProcess
  <2> QED
    BY <1>1, <2>2, <2>4, <2>5, <2>6 DEF LogInv
<1>3. CASE cmd[p] \notin seen[p]
  <2> DEFINE r == build_result_json(cmd[p], ledger[p])
             n == Len(log) + 1
  <2>1. /\ log' = Append(log, r)
        /\ seen' = [seen EXCEPT ![p] = @ \cup {cmd[p]}]
    BY <1>0, <1>3 DEF append
  <2>2. r.key = cmd[p] /\ r.entities = ledger[p]
    BY DEF build_result_json
  <2> HIDE DEF r
  <2>3. /\ Len(log) \in Nat
        /\ DOMAIN log = 1..Len(log)
        /\ DOMAIN log' = DOMAIN log \cup {n}
        /\ \A i \in DOMAIN log : log'[i] = log[i]
        /\ log'[n] = r
        /\ \A e \in Expenses :
              LoggedFinal(e)' <=> LoggedFinal(e) \/ ledger[p].expenses[e] \in Final
    BY <2>1, <2>2, RowsGrow DEF TypeInv
  <2>4. LoggedKeys' = LoggedKeys \cup {cmd[p]}
    BY <2>1, <2>2, KeysGrow DEF TypeInv
  <2>5. KeysSeen'
    <3>1. LoggedKeys \subseteq seen[p] /\ seen \in [Processes -> SUBSET Commands]
      BY <1>0 DEF LogInv, KeysSeen, TypeInv, TypeOK
    <3> QED
      BY <2>1, <2>4, <3>1 DEF KeysSeen, SingleProcess
  <2>6. KeyOnce'
    <3>1. cmd[p] \notin LoggedKeys
      BY <1>0, <1>3 DEF LogInv, KeysSeen
    <3>2. \A i \in DOMAIN log : log'[i].key # log'[n].key
      BY <2>2, <2>3, <3>1 DEF LoggedKeys
    <3>3. \A i, j \in DOMAIN log : log'[i].key = log'[j].key => i = j
      BY <2>3 DEF LogInv, KeyOnce
    <3> QED
      BY <2>3, <3>2, <3>3 DEF KeyOnce
  <2>7. ApprovalInRow'
    <3>1. \A i \in DOMAIN log : log'[i].key.type = "approve_expense" =>
            log'[i].entities.expenses[log'[i].key.expense] \in Final
      BY <2>3 DEF LogInv, ApprovalInRow
    <3>2. log'[n].key.type = "approve_expense" =>
            log'[n].entities.expenses[log'[n].key.expense] \in Final
      BY <1>0, <2>2, <2>3 DEF LogInv, ApprovalUnderWay
    <3> QED
      BY <2>3, <3>1, <3>2 DEF ApprovalInRow
  <2>8. RowsKeepFinal'
    <3> SUFFICES ASSUME NEW i \in DOMAIN log', NEW j \in DOMAIN log', NEW e \in Expenses,
                        i <= j, log'[i].entities.expenses[e] \in Final
                 PROVE  log'[j].entities.expenses[e] \in Final
      BY DEF RowsKeepFinal
    <3>1. CASE j \in DOMAIN log
      <4>1. i \in DOMAIN log
        BY <2>3, <3>1
      <4> QED
        BY <2>3, <3>1, <4>1 DEF LogInv, RowsKeepFinal
    <3>2. CASE j = n
      <4>1. CASE i \in DOMAIN log
        <5>1. LoggedFinal(e)
          BY <2>3, <4>1 DEF LoggedFinal
        <5>2. ledger[p].expenses[e] \in Final
          BY <1>0, <5>1 DEF LogInv, LedgerHasLog
        <5> QED
          BY <2>2, <2>3, <3>2, <5>2
      <4>2. CASE i = n
        BY <3>2, <4>2
      <4> QED
        BY <2>3, <4>1, <4>2
    <3> QED
      BY <2>3, <3>1, <3>2
  <2>9. LedgerHasLog' /\ LogHasLedger'
    BY <1>0, <2>3 DEF LogInv, LedgerHasLog, LogHasLedger, SingleProcess
  <2>10. LogHasSaved'
    BY <1>0, <2>3 DEF LogInv, LogHasSaved
  <2> QED
    BY <1>1, <2>5, <2>6, <2>7, <2>8, <2>9, <2>10 DEF LogInv
<1> QED
  BY <1>2, <1>3

LEMMA ExecuteStep ==
  ASSUME SingleProcess, TypeInv, LogInv, NEW p \in Processes, NEW c \in Commands,
         execute(p, c)
  PROVE  LogInv'
<1>0. /\ pc[p] = "idle" /\ pc' = [pc EXCEPT ![p] = "append"]
      /\ cmd' = [cmd EXCEPT ![p] = c]
      /\ UNCHANGED <<log, torn, saved, seen, dirty>>
      /\ pc \in [Processes -> {"down", "idle", "append", "put_receipt"}]
      /\ cmd \in [Processes -> Commands \cup {NoCommand}]
      /\ c.expense \in Expenses
  BY DEF execute, TypeInv, TypeOK, Commands
<1>1. /\ LoggedKeys' = LoggedKeys
      /\ \A e \in Expenses : LoggedFinal(e)' = LoggedFinal(e)
      /\ KeyOnce' /\ ApprovalInRow' /\ RowsKeepFinal'
  BY <1>0, LogFrame DEF LogInv
<1>2. ASSUME NEW e \in Expenses
      PROVE  /\ ledger[p].expenses[e] \in Final => ledger'[p].expenses[e] \in Final
             /\ ledger'[p].expenses[e] \in Final /\ ledger[p].expenses[e] \notin Final
                   => c.type = "approve_expense" /\ c.expense = e
             /\ c.type = "approve_expense" => ledger'[p].expenses[c.expense] \in Final
  <2>1. ids + 1 \in Nat /\ _dispatch(p, c, ids + 1)
    BY DEF execute, TypeInv, TypeOK
  <2> QED
    BY <2>1, DispatchFinal DEF TypeInv
<1>3. TornAlone' /\ KeysSeen'
  BY <1>0, <1>1 DEF LogInv, TornAlone, KeysSeen
<1>4. LedgerHasLog'
  BY <1>0, <1>1, <1>2 DEF LogInv, LedgerHasLog, SingleProcess
<1>5. ApprovalUnderWay'
  BY <1>0, <1>2 DEF ApprovalUnderWay, SingleProcess
<1>6. LogHasLedger'
  <2> SUFFICES ASSUME ~dirty[p], NEW e \in Expenses, ledger'[p].expenses[e] \in Final
               PROVE  LoggedFinal(e) \/ c \notin LoggedKeys
    BY <1>0, <1>1 DEF LogHasLedger, SingleProcess
  <2>1. CASE ledger[p].expenses[e] \in Final
    BY <1>0, <2>1 DEF LogInv, LogHasLedger
  <2>2. CASE ledger[p].expenses[e] \notin Final
    <3>1. c.type = "approve_expense" /\ c.expense = e
      BY <1>2, <2>2
    <3> QED
      BY <3>1 DEF LogInv, ApprovalInRow, LoggedFinal, LoggedKeys
  <2> QED
    BY <2>1, <2>2
<1>7. LogHasSaved'
  BY <1>0, <1>1 DEF LogInv, LogHasSaved
<1> QED
  BY <1>1, <1>3, <1>4, <1>5, <1>6, <1>7 DEF LogInv

LEMMA OpenStep ==
  ASSUME SingleProcess, TypeInv, LogInv, NEW p \in Processes, open_workspace(p)
  PROVE  LogInv'
<1>0. /\ ~torn
      /\ pc' = [pc EXCEPT ![p] = "idle"]
      /\ ledger' = [ledger EXCEPT ![p] = rehydrate]
      /\ seen' = [seen EXCEPT ![p] = LoggedKeys]
      /\ UNCHANGED <<log, torn, saved>>
      /\ pc \in [Processes -> {"down", "idle", "append", "put_receipt"}]
      /\ ledger \in [Processes -> Entities]
      /\ seen \in [Processes -> SUBSET Commands]
  BY DEF open_workspace, TypeInv, TypeOK
<1>1. /\ LoggedKeys' = LoggedKeys
      /\ \A e \in Expenses : LoggedFinal(e)' = LoggedFinal(e)
      /\ KeyOnce' /\ ApprovalInRow' /\ RowsKeepFinal'
  BY <1>0, LogFrame DEF LogInv
<1>2. \A e \in Expenses : ledger'[p].expenses[e] \in Final <=> LoggedFinal(e)
  BY <1>0, FoldFinal DEF LogInv, TypeInv
<1>3. TornAlone' /\ KeysSeen'
  BY <1>0, <1>1 DEF TornAlone, KeysSeen, SingleProcess
<1>4. LedgerHasLog' /\ LogHasLedger'
  BY <1>1, <1>2 DEF LedgerHasLog, LogHasLedger, SingleProcess
<1>5. ApprovalUnderWay'
  BY <1>0 DEF ApprovalUnderWay, SingleProcess
<1>6. LogHasSaved'
  BY <1>0, <1>1 DEF LogInv, LogHasSaved
<1> QED
  BY <1>1, <1>3, <1>4, <1>5, <1>6 DEF LogInv

\* The other steps change neither the log nor a ledger that stays up.
LEMMA QuietStep ==
  ASSUME SingleProcess, TypeInv, LogInv, NEW p \in Processes,
         append_raises(p) \/ _store_receipt(p)
           \/ persist_ledger_snapshot(p) \/ crash(p)
  PROVE  LogInv'
<1>0. UNCHANGED log
  BY DEF append_raises, _store_receipt, persist_ledger_snapshot, crash
<1>1. /\ LoggedKeys' = LoggedKeys
      /\ \A e \in Expenses : LoggedFinal(e)' = LoggedFinal(e)
      /\ KeyOnce' /\ ApprovalInRow' /\ RowsKeepFinal'
  BY <1>0, LogFrame DEF LogInv
<1>2. CASE append_raises(p)
  BY <1>1, <1>2 DEF append_raises, LogInv, TypeInv, TypeOK, SingleProcess, TornAlone,
     KeysSeen, LedgerHasLog, ApprovalUnderWay, LogHasLedger, LogHasSaved
<1>3. CASE _store_receipt(p)
  BY <1>1, <1>3 DEF _store_receipt, LogInv, TypeInv, TypeOK, SingleProcess, TornAlone,
     KeysSeen, LedgerHasLog, ApprovalUnderWay, LogHasLedger, LogHasSaved
<1>4. CASE persist_ledger_snapshot(p)
  <2>1. LogHasSaved'
    BY <1>1, <1>4 DEF persist_ledger_snapshot, LogInv, LogHasLedger, LogHasSaved
  <2> QED
    BY <1>1, <1>4, <2>1 DEF persist_ledger_snapshot, process, LogInv, TornAlone,
       KeysSeen, LedgerHasLog, ApprovalUnderWay, LogHasLedger
<1>5. CASE crash(p)
  BY <1>1, <1>5 DEF crash, LogInv, TypeInv, TypeOK, SingleProcess, TornAlone,
     KeysSeen, LedgerHasLog, ApprovalUnderWay, LogHasLedger, LogHasSaved
<1> QED
  BY <1>2, <1>3, <1>4, <1>5

LEMMA LogInvHolds ==
  ASSUME SingleProcess
  PROVE  Spec => []LogInv
<1>1. TypeInv /\ SeenLogged /\ LogInv /\ [Next]_vars => LogInv'
  <2> SUFFICES ASSUME TypeInv, SeenLogged, LogInv, [Next]_vars PROVE LogInv'
    OBVIOUS
  <2>1. CASE UNCHANGED vars
    <3>1. /\ LoggedKeys' = LoggedKeys
          /\ \A e \in Expenses : LoggedFinal(e)' = LoggedFinal(e)
          /\ KeyOnce' /\ ApprovalInRow' /\ RowsKeepFinal'
      BY <2>1, LogFrame DEF LogInv, vars
    <3> QED
      BY <2>1, <3>1 DEF vars, process, LogInv, TornAlone, KeysSeen, LedgerHasLog,
         ApprovalUnderWay, LogHasLedger, LogHasSaved
  <2>2. CASE Next
    BY <2>2, AppendStep, ExecuteStep, OpenStep, QuietStep DEF Next
  <2> QED
    BY <2>1, <2>2
<1> QED
  BY <1>1, LogInitially, TypeInvHolds, ReceiptInvHolds, PTL DEF Spec

\* With one process at a time on the workspace each command is logged once,
\* however often crashes and failed appends make it run
\* (CommandLog.KeyOnce).
THEOREM KeyOnceHolds ==
  ASSUME SingleProcess
  PROVE  Spec => []KeyOnce
<1>1. LogInv => KeyOnce
  BY DEF LogInv
<1> QED
  BY <1>1, LogInvHolds, PTL

\* With one process at a time an approval that is in the log survives every
\* later command, crash and restart (CommandLog.LoggedApprovalKept).
THEOREM LoggedApprovalKeptHolds ==
  ASSUME SingleProcess
  PROVE  Spec => []LoggedApprovalKept
<1>1. TypeInv /\ LogInv => LoggedApprovalKept
  <2> SUFFICES ASSUME TypeInv, LogInv, NEW e \in Expenses, Approvals(e) # {}
               PROVE  rehydrate.expenses[e] \in {"APPROVED", "REVERSED"}
    BY DEF LoggedApprovalKept
  <2>1. LoggedFinal(e)
    BY DEF Approvals, LogInv, ApprovalInRow, LoggedFinal
  <2> QED
    BY <2>1, FoldFinal DEF TypeInv, LogInv, Final
<1> QED
  BY <1>1, TypeInvHolds, LogInvHolds, PTL

\* With one process at a time the entity snapshot that host applications
\* read shows nothing as approved that the log would take back
\* (CommandLog.SnapshotNotAhead).
THEOREM SnapshotNotAheadHolds ==
  ASSUME SingleProcess
  PROVE  Spec => []SnapshotNotAhead
<1>1. TypeInv /\ LogInv => SnapshotNotAhead
  BY FoldFinal DEF SnapshotNotAhead, TypeInv, LogInv, LogHasSaved, Final
<1> QED
  BY <1>1, TypeInvHolds, LogInvHolds, PTL

-----------------------------------------------------------------------------
(* One process at a time: a restart is invisible, and receipts stay sound *)

\* An expense moves forward: what is known stays known, what is charged
\* stays charged, what is approved stays approved or is reversed for good.
Later(s, t) ==
    /\ s # "ABSENT" => t # "ABSENT"
    /\ s \notin {"ABSENT", "IMPORTED"} => t \notin {"ABSENT", "IMPORTED"}
    /\ s \in Final => t \in Final
    /\ s = "REVERSED" => t = "REVERSED"

\* Ledger l has all that ledger a has.  Charges are left out: a new charge
\* of an expense replaces the old one.
Extends(a, l) ==
    /\ a.receipts \subseteq l.receipts
    /\ \A e \in Expenses : /\ Later(a.expenses[e], l.expenses[e])
                           /\ a.expense_receipts[e] \subseteq l.expense_receipts[e]

\* Ledger l shows that command c has run.
Done(c, l) ==
    /\ c.type = "import_normalized_expense" => l.expenses[c.expense] # "ABSENT"
    /\ c.type = "allocate_expense" =>
          /\ l.expenses[c.expense] \notin {"ABSENT", "IMPORTED"}
          /\ \E ea \in ChargesOf(l, c.expense) : ea.fund = c.arg
    /\ c.type = "approve_expense" => l.expenses[c.expense] \in Final
    /\ c.type = "publish_use_of_funds_receipt" =>
          \E r \in l.receipts : r.expense = c.expense /\ r.donation = c.arg
    /\ c.type = "reverse_expense" => l.expenses[c.expense] = "REVERSED"

\* The receipts of ledger l are sound, with what that rests on: a receipt is
\* in the lineage of its expense, and only a reversed one has corrections.
Sound(l) ==
    \A r \in l.receipts :
        /\ r.id # 0 /\ r.id \in l.expense_receipts[r.expense]
        /\ r.corrects # 0 => l.expenses[r.expense] = "REVERSED"
        /\ \A q \in l.receipts :
              q.expense = r.expense /\ q.donation = r.donation
                  /\ q.corrects = r.corrects => q = r
        /\ r.corrects = 0 /\ l.expenses[r.expense] = "REVERSED" =>
              \E q \in l.receipts : q.corrects = r.id

SameBooks(a, l) ==
    /\ a.expenses = l.expenses
    /\ a.receipts = l.receipts
    /\ a.expense_receipts = l.expense_receipts

\* What command c, drawing id n, makes of the fields of ledger l.
ImportEffect(c, l, m) ==
    /\ c.type = "import_normalized_expense"
    /\ m.expenses = [l.expenses EXCEPT ![c.expense] =
                        IF l.expenses[c.expense] = "ABSENT" THEN "IMPORTED"
                        ELSE l.expenses[c.expense]]
    /\ m.expense_allocations = l.expense_allocations
    /\ m.receipts = l.receipts
    /\ m.expense_receipts = l.expense_receipts
AllocateEffect(c, n, l, m) ==
    /\ c.type = "allocate_expense"
    /\ l.expenses[c.expense] \in {"IMPORTED", "APPROVAL_PENDING"}
    /\ m.expenses = [l.expenses EXCEPT ![c.expense] = "APPROVAL_PENDING"]
    /\ m.expense_allocations = (l.expense_allocations \ ChargesOf(l, c.expense))
                                 \cup {[id |-> n, expense |-> c.expense, fund |-> c.arg]}
    /\ m.receipts = l.receipts
    /\ m.expense_receipts = l.expense_receipts
ApproveEffect(c, l, m) ==
    /\ c.type = "approve_expense"
    /\ l.expenses[c.expense] \in {"IMPORTED", "APPROVAL_PENDING"}
    /\ m.expenses = [l.expenses EXCEPT ![c.expense] = "APPROVED"]
    /\ m.expense_allocations = l.expense_allocations
    /\ m.receipts = l.receipts
    /\ m.expense_receipts = l.expense_receipts
PublishEffect(c, n, l, m) ==
    /\ c.type = "publish_use_of_funds_receipt"
    /\ l.expenses[c.expense] = "APPROVED"
    /\ \A r \in l.receipts : r.expense = c.expense => r.donation # c.arg
    /\ m.expenses = l.expenses
    /\ m.expense_allocations = l.expense_allocations
    /\ m.receipts = l.receipts \cup {[id |-> n, expense |-> c.expense,
                                      donation |-> c.arg, corrects |-> 0]}
    /\ m.expense_receipts = [l.expense_receipts EXCEPT
                                ![c.expense] = l.expense_receipts[c.expense] \cup {n}]
ReverseEffect(c, n, l, m) ==
    /\ c.type = "reverse_expense"
    /\ l.expenses[c.expense] = "APPROVED"
    /\ m.expenses = [l.expenses EXCEPT ![c.expense] = "REVERSED"]
    /\ m.expense_allocations = l.expense_allocations
    /\ m.receipts = l.receipts \cup Corrections(l, c.expense, n)
    /\ m.expense_receipts = [l.expense_receipts EXCEPT
          ![c.expense] = IF Corrections(l, c.expense, n) = {}
                         THEN l.expense_receipts[c.expense]
                         ELSE l.expense_receipts[c.expense] \cup {n}]
Effect(c, n, l, m) ==
    \/ ImportEffect(c, l, m)
    \/ AllocateEffect(c, n, l, m)
    \/ ApproveEffect(c, l, m)
    \/ PublishEffect(c, n, l, m)
    \/ c.type = "reverse_expense" /\ l.expenses[c.expense] = "REVERSED" /\ m = l
    \/ ReverseEffect(c, n, l, m)

LEMMA PublishedFields ==
  ASSUME NEW l \in Entities, NEW e \in Expenses, NEW n, NEW rs
  PROVE  LET m == Published(l, e, rs, n) IN
         /\ m.expenses = l.expenses
         /\ m.expense_allocations = l.expense_allocations
         /\ m.receipts = l.receipts \cup rs
         /\ m.expense_receipts = [l.expense_receipts EXCEPT
               ![e] = IF rs = {} THEN l.expense_receipts[e]
                      ELSE l.expense_receipts[e] \cup {n}]
  BY DEF Published, Entities

\* The dispatch of a command has one of these effects.
LEMMA DispatchEffect ==
  ASSUME TypeOK, NEW p \in Processes, NEW c \in Commands, NEW n \in Nat,
         _dispatch(p, c, n)
  PROVE  /\ ledger[p] \in Entities /\ ledger'[p] \in Entities
         /\ c.expense \in Expenses
         /\ Effect(c, n, ledger[p], ledger'[p])
<1>0. /\ c.expense \in Expenses
      /\ ledger \in [Processes -> Entities]
      /\ ledger[p] \in Entities
  BY DEF Commands, TypeOK
<1>t. ledger'[p] \in Entities
  BY DispatchType
<1>1. CASE _import_normalized(p, c)
  <2>1. ledger'[p] = [ledger[p] EXCEPT !.expenses[c.expense] =
                        IF @ = "ABSENT" THEN "IMPORTED" ELSE @]
    BY <1>0, <1>1 DEF _import_normalized
  <2>2. ImportEffect(c, ledger[p], ledger'[p])
    BY <1>0, <1>1, <2>1 DEF _import_normalized, ImportEffect, Entities
  <2> QED
    BY <1>0, <1>t, <2>2 DEF Effect
<1>2. CASE _allocate(p, c, n)
  <2>1. ledger'[p] = Charged(ledger[p], c.expense, c.arg, n)
    BY <1>0, <1>2 DEF _allocate
  <2>2. AllocateEffect(c, n, ledger[p], ledger'[p])
    BY <1>0, <1>2, <2>1 DEF _allocate, AllocateEffect, Charged, Entities
  <2> QED
    BY <1>0, <1>t, <2>2 DEF Effect
<1>3. CASE _approve(p, c)
  <2>1. ledger'[p] = [ledger[p] EXCEPT !.expenses[c.expense] = "APPROVED"]
    BY <1>0, <1>3 DEF _approve
  <2>2. ApproveEffect(c, ledger[p], ledger'[p])
    BY <1>0, <1>3, <2>1 DEF _approve, ApproveEffect, Entities
  <2> QED
    BY <1>0, <1>t, <2>2 DEF Effect
<1>4. CASE _publish_receipt(p, c, n)
  <2> DEFINE receipt == [id |-> n, expense |-> c.expense,
                         donation |-> c.arg, corrects |-> 0]
  <2>1. ledger'[p] = Published(ledger[p], c.expense, {receipt}, n)
    BY <1>0, <1>4 DEF _publish_receipt
  <2>2. {receipt} # {}
    OBVIOUS
  <2>3. PublishEffect(c, n, ledger[p], ledger'[p])
    <3>1. /\ c.type = "publish_use_of_funds_receipt"
          /\ ledger[p].expenses[c.expense] = "APPROVED"
          /\ \A r \in ledger[p].receipts : r.expense = c.expense => r.donation # c.arg
      BY <1>4 DEF _publish_receipt
    <3> HIDE DEF receipt
    <3>2. /\ ledger'[p].expenses = ledger[p].expenses
          /\ ledger'[p].expense_allocations = ledger[p].expense_allocations
          /\ ledger'[p].receipts = ledger[p].receipts \cup {receipt}
          /\ ledger'[p].expense_receipts = [ledger[p].expense_receipts EXCEPT
                ![c.expense] = ledger[p].expense_receipts[c.expense] \cup {n}]
      BY <1>0, <2>1, <2>2, PublishedFields
    <3> QED
      BY <3>1, <3>2 DEF PublishEffect, receipt
  <2> QED
    BY <1>0, <1>t, <2>3 DEF Effect
<1>5. CASE _reverse_expense(p, c, n)
  <2>1. CASE ledger[p].expenses[c.expense] = "REVERSED" /\ UNCHANGED ledger
    BY <1>0, <1>t, <1>5, <2>1 DEF _reverse_expense, Effect
  <2>2. CASE /\ ledger[p].expenses[c.expense] = "APPROVED"
             /\ ledger' = [ledger EXCEPT ![p] = Reversed(ledger[p], c.expense, n)]
    <3> DEFINE l == [ledger[p] EXCEPT !.expenses[c.expense] = "REVERSED"]
    <3>1. l \in Entities
      BY <1>0 DEF Entities, ExpenseStates
    <3>2. /\ l.expenses = [ledger[p].expenses EXCEPT ![c.expense] = "REVERSED"]
          /\ l.expense_allocations = ledger[p].expense_allocations
          /\ l.receipts = ledger[p].receipts
          /\ l.expense_receipts = ledger[p].expense_receipts
      BY <1>0 DEF Entities
    <3>3. ledger'[p] = Published(l, c.expense, Corrections(ledger[p], c.expense, n), n)
      BY <1>0, <2>2 DEF Reversed
    <3> HIDE DEF l
    <3>4. ReverseEffect(c, n, ledger[p], ledger'[p])
      BY <1>0, <1>5, <2>2, <3>1, <3>2, <3>3, PublishedFields
         DEF _reverse_expense, ReverseEffect
    <3> QED
      BY <1>0, <1>t, <3>4 DEF Effect
  <2> QED
    BY <1>5, <2>1, <2>2 DEF _reverse_expense
<1> QED
  BY <1>1, <1>2, <1>3, <1>4, <1>5 DEF _dispatch

LEMMA ExtendsTransitive ==
  ASSUME NEW a, NEW l, NEW m, Extends(a, l), Extends(l, m)
  PROVE  Extends(a, m)
  BY DEF Extends, Later

\* No command takes anything back but a charge.
LEMMA EffectExtends ==
  ASSUME NEW l \in Entities, NEW m \in Entities, NEW c, NEW n \in Nat,
         c.expense \in Expenses, Effect(c, n, l, m)
  PROVE  Extends(l, m)
<1>1. CASE ImportEffect(c, l, m)
  BY <1>1 DEF ImportEffect, Extends, Later, Final, Entities
<1>2. CASE AllocateEffect(c, n, l, m)
  BY <1>2 DEF AllocateEffect, Extends, Later, Final, Entities
<1>3. CASE ApproveEffect(c, l, m)
  BY <1>3 DEF ApproveEffect, Extends, Later, Final, Entities
<1>4. CASE PublishEffect(c, n, l, m)
  BY <1>4 DEF PublishEffect, Extends, Later, Final, Entities
<1>5. CASE m = l
  BY <1>5 DEF Extends, Later
<1>6. CASE ReverseEffect(c, n, l, m)
  BY <1>6 DEF ReverseEffect, Extends, Later, Final, Entities
<1> QED
  BY <1>1, <1>2, <1>3, <1>4, <1>5, <1>6 DEF Effect

\* A ledger shows the command that has just run on it.
LEMMA EffectDone ==
  ASSUME NEW l \in Entities, NEW m \in Entities, NEW c, NEW n \in Nat,
         c.expense \in Expenses, Effect(c, n, l, m)
  PROVE  Done(c, m)
<1>1. CASE ImportEffect(c, l, m)
  BY <1>1 DEF ImportEffect, Done, Entities
<1>2. CASE AllocateEffect(c, n, l, m)
  <2> DEFINE new == [id |-> n, expense |-> c.expense, fund |-> c.arg]
  <2>1. new \in ChargesOf(m, c.expense) /\ new.fund = c.arg
    BY <1>2 DEF AllocateEffect, ChargesOf
  <2>2. m.expenses[c.expense] = "APPROVAL_PENDING"
    BY <1>2 DEF AllocateEffect, Entities
  <2> HIDE DEF new
  <2> QED
    BY <1>2, <2>1, <2>2 DEF AllocateEffect, Done
<1>3. CASE ApproveEffect(c, l, m)
  BY <1>3 DEF ApproveEffect, Done, Final, Entities
<1>4. CASE PublishEffect(c, n, l, m)
  <2> DEFINE r == [id |-> n, expense |-> c.expense, donation |-> c.arg, corrects |-> 0]
  <2>1. r \in m.receipts /\ r.expense = c.expense /\ r.donation = c.arg
    BY <1>4 DEF PublishEffect
  <2> HIDE DEF r
  <2> QED
    BY <1>4, <2>1 DEF PublishEffect, Done
<1>5. CASE c.type = "reverse_expense" /\ l.expenses[c.expense] = "REVERSED" /\ m = l
  BY <1>5 DEF Done
<1>6. CASE ReverseEffect(c, n, l, m)
  BY <1>6 DEF ReverseEffect, Done, Entities
<1> QED
  BY <1>1, <1>2, <1>3, <1>4, <1>5, <1>6 DEF Effect

\* What shows in a ledger shows in every later one; a charge may be gone.
LEMMA DoneStays ==
  ASSUME NEW a, NEW l, NEW c, c.expense \in Expenses, Done(c, a), Extends(a, l)
  PROVE  /\ c.type = "import_normalized_expense" => l.expenses[c.expense] # "ABSENT"
         /\ c.type = "allocate_expense" =>
               l.expenses[c.expense] \notin {"ABSENT", "IMPORTED"}
         /\ c.type = "approve_expense" => l.expenses[c.expense] \in Final
         /\ c.type = "publish_use_of_funds_receipt" =>
               \E r \in l.receipts : r.expense = c.expense /\ r.donation = c.arg
         /\ c.type = "reverse_expense" => l.expenses[c.expense] = "REVERSED"
  BY DEF Done, Extends, Later

\* A logged command that runs again changes no books, and leaves no charge
\* but those there were and, for an allocation, the one it is about.
LEMMA EffectRepeats ==
  ASSUME NEW a, NEW l \in Entities, NEW m \in Entities, NEW c, NEW n \in Nat,
         c.expense \in Expenses, Done(c, a), Extends(a, l), Effect(c, n, l, m)
  PROVE  /\ SameBooks(l, m)
         /\ \A ea \in m.expense_allocations :
               \/ ea \in l.expense_allocations
               \/ /\ c.type = "allocate_expense"
                  /\ ea.expense = c.expense /\ ea.fund = c.arg
<1>0. /\ c.type = "import_normalized_expense" => l.expenses[c.expense] # "ABSENT"
      /\ c.type = "allocate_expense" =>
            l.expenses[c.expense] \notin {"ABSENT", "IMPORTED"}
      /\ c.type = "approve_expense" => l.expenses[c.expense] \in Final
      /\ c.type = "publish_use_of_funds_receipt" =>
            \E r \in l.receipts : r.expense = c.expense /\ r.donation = c.arg
      /\ c.type = "reverse_expense" => l.expenses[c.expense] = "REVERSED"
  BY DoneStays
<1>1. CASE ImportEffect(c, l, m)
  BY <1>0, <1>1 DEF ImportEffect, SameBooks, Entities
<1>2. CASE AllocateEffect(c, n, l, m)
  <2>1. m.expenses = l.expenses
    BY <1>0, <1>2 DEF AllocateEffect, Entities
  <2> QED
    BY <1>2, <2>1 DEF AllocateEffect, SameBooks
<1>3. CASE ApproveEffect(c, l, m)
  BY <1>0, <1>3 DEF ApproveEffect, Final
<1>4. CASE PublishEffect(c, n, l, m)
  BY <1>0, <1>4 DEF PublishEffect
<1>5. CASE m = l
  BY <1>5 DEF SameBooks
<1>6. CASE ReverseEffect(c, n, l, m)
  BY <1>0, <1>6 DEF ReverseEffect
<1> QED
  BY <1>1, <1>2, <1>3, <1>4, <1>5, <1>6 DEF Effect

LEMMA CorrectionsAre ==
  ASSUME NEW l, NEW e, NEW n
  PROVE  LET new == Corrections(l, e, n) IN
         /\ \A r \in new : /\ r.id = n /\ r.expense = e
                           /\ \E o \in l.receipts : o.id = r.corrects
         /\ \A r, q \in new :
               q.donation = r.donation /\ q.corrects = r.corrects => q = r
         /\ \A o \in l.receipts : o.id \in l.expense_receipts[e] =>
               \E r \in new : r.corrects = o.id
<1> DEFINE new == Corrections(l, e, n)
           corr(o) == [id |-> n, expense |-> e, donation |-> o.donation,
                       corrects |-> o.id]
<1>1. \A r \in new : \E o \in l.receipts : r = corr(o)
  BY DEF Corrections
<1>2. \A o \in l.receipts : o.id \in l.expense_receipts[e] => corr(o) \in new
  BY DEF Corrections
<1>3. \A o : /\ corr(o).id = n /\ corr(o).expense = e
             /\ corr(o).donation = o.donation /\ corr(o).corrects = o.id
  OBVIOUS
<1>4. ASSUME NEW r \in new, NEW q \in new,
             q.donation = r.donation, q.corrects = r.corrects
      PROVE  q = r
  <2>1. PICK o \in l.receipts : r = corr(o)
    BY <1>1
  <2>2. PICK x \in l.receipts : q = corr(x)
    BY <1>1
  <2>3. o.donation = x.donation /\ o.id = x.id
    BY <1>3, <1>4, <2>1, <2>2
  <2> QED
    BY <2>1, <2>2, <2>3
<1> HIDE DEF new, corr
<1>5. \A r \in new : /\ r.id = n /\ r.expense = e
                     /\ \E o \in l.receipts : o.id = r.corrects
  BY <1>1, <1>3
<1>6. \A o \in l.receipts : o.id \in l.expense_receipts[e] =>
        \E r \in new : r.corrects = o.id
  BY <1>2, <1>3
<1> QED
  BY <1>4, <1>5, <1>6 DEF new

\* No command makes the receipts unsound; its id is fresh, so not 0.
LEMMA EffectSound ==
  ASSUME NEW l \in Entities, NEW m \in Entities, NEW c, NEW n \in Nat, n # 0,
         c.expense \in Expenses, Effect(c, n, l, m), Sound(l)
  PROVE  Sound(m)
<1> DEFINE e == c.expense
<1>1. CASE /\ m.receipts = l.receipts /\ m.expense_receipts = l.expense_receipts
           /\ \A x \in Expenses : l.expenses[x] = "REVERSED" <=> m.expenses[x] = "REVERSED"
  BY <1>1 DEF Sound, Entities, Receipt
<1>2. CASE ImportEffect(c, l, m)
  BY <1>1, <1>2 DEF ImportEffect, Entities
<1>3. CASE AllocateEffect(c, n, l, m)
  BY <1>1, <1>3 DEF AllocateEffect, Entities
<1>4. CASE ApproveEffect(c, l, m)
  BY <1>1, <1>4 DEF ApproveEffect, Entities
<1>5. CASE PublishEffect(c, n, l, m)
  <2> DEFINE new == [id |-> n, expense |-> e, donation |-> c.arg, corrects |-> 0]
  <2>1. /\ m.receipts = l.receipts \cup {new}
        /\ new.id = n /\ new.expense = e /\ new.donation = c.arg /\ new.corrects = 0
    BY <1>5 DEF PublishEffect
  <2> HIDE DEF new
  <2>2. \A r \in l.receipts : ~(r.expense = e /\ r.donation = new.donation)
    BY <1>5, <2>1 DEF PublishEffect
  <2>3. /\ m.expenses = l.expenses /\ l.expenses[e] = "APPROVED"
        /\ n \in m.expense_receipts[e]
        /\ \A x \in Expenses : l.expense_receipts[x] \subseteq m.expense_receipts[x]
    BY <1>5 DEF PublishEffect, Entities
  <2>4. \A r \in l.receipts : r.expense \in Expenses
    BY DEF Entities, Receipt
  <2>5. \A r \in m.receipts :
          /\ r.id # 0 /\ r.id \in m.expense_receipts[r.expense]
          /\ r.corrects # 0 => m.expenses[r.expense] = "REVERSED"
    BY <2>1, <2>3, <2>4 DEF Sound
  <2>6. \A r, q \in m.receipts :
          q.expense = r.expense /\ q.donation = r.donation
              /\ q.corrects = r.corrects => q = r
    BY <2>1, <2>2 DEF Sound
  <2>7. \A r \in m.receipts :
          r.corrects = 0 /\ m.expenses[r.expense] = "REVERSED" =>
              \E q \in m.receipts : q.corrects = r.id
    BY <2>1, <2>3 DEF Sound
  <2> QED
    BY <2>5, <2>6, <2>7 DEF Sound
<1>6. CASE m = l
  BY <1>6
<1>7. CASE ReverseEffect(c, n, l, m)
  <2> DEFINE new == Corrections(l, e, n)
  <2>1. /\ \A r \in new : /\ r.id = n /\ r.expense = e
                          /\ \E o \in l.receipts : o.id = r.corrects
        /\ \A r, q \in new :
              q.donation = r.donation /\ q.corrects = r.corrects => q = r
    BY CorrectionsAre
  <2>2. \A o \in l.receipts : o.id \in l.expense_receipts[e] =>
          \E r \in new : r.corrects = o.id
    BY CorrectionsAre
  <2>3. /\ m.receipts = l.receipts \cup new
        /\ l.expenses[e] = "APPROVED" /\ m.expenses[e] = "REVERSED"
        /\ \A x \in Expenses : x # e => m.expenses[x] = l.expenses[x]
        /\ new # {} => n \in m.expense_receipts[e]
        /\ \A x \in Expenses : l.expense_receipts[x] \subseteq m.expense_receipts[x]
    BY <1>7 DEF ReverseEffect, Entities
  <2> HIDE DEF new
  <2>4. \A r \in l.receipts : r.expense \in Expenses
    BY DEF Entities, Receipt
  <2>5. /\ \A r \in new : r.corrects # 0
        /\ \A r \in l.receipts : r.expense = e => r.corrects = 0
    BY <2>1, <2>3 DEF Sound
  <2>6. \A r \in m.receipts :
          /\ r.id # 0 /\ r.id \in m.expense_receipts[r.expense]
          /\ r.corrects # 0 => m.expenses[r.expense] = "REVERSED"
    BY <2>1, <2>3, <2>4 DEF Sound
  <2>7. \A r, q \in m.receipts :
          q.expense = r.expense /\ q.donation = r.donation
              /\ q.corrects = r.corrects => q = r
    BY <2>1, <2>3, <2>5 DEF Sound
  <2>8. ASSUME NEW r \in m.receipts, r.corrects = 0, m.expenses[r.expense] = "REVERSED"
        PROVE  \E q \in m.receipts : q.corrects = r.id
    <3>1. r \in l.receipts
      BY <2>3, <2>5, <2>8
    <3>2. CASE r.expense = e
      BY <2>2, <2>3, <3>1, <3>2 DEF Sound
    <3>3. CASE r.expense # e
      BY <2>3, <2>4, <2>8, <3>1, <3>3 DEF Sound
    <3> QED
      BY <3>2, <3>3
  <2> QED
    BY <2>6, <2>7, <2>8 DEF Sound
<1> QED
  BY <1>2, <1>3, <1>4, <1>5, <1>6, <1>7 DEF Effect

LEMMA EmptySound == Sound(EmptyLedger)
  BY DEF Sound, EmptyLedger

\* The rows of the log: each has all that the earlier ones have, shows its
\* own command and has sound receipts.
RowsExtend ==
    \A i, j \in DOMAIN log : i <= j => Extends(log[i].entities, log[j].entities)
RowsDone == \A i \in DOMAIN log : Done(log[i].key, log[i].entities)
RowsSound == \A i \in DOMAIN log : Sound(log[i].entities)

\* A running process: its ledger has all that is logged, shows the command
\* under way and has sound receipts.
LedgerExtends ==
    \A p \in Processes : pc[p] # "down" =>
        \A i \in DOMAIN log : Extends(log[i].entities, ledger[p])
DoneUnderWay == \A p \in Processes : pc[p] = "append" => Done(cmd[p], ledger[p])
LedgerSound == \A p \in Processes : Sound(ledger[p])

\* The log covers ledger l: a restart would not be noticed.
Covered(l) ==
    /\ SameBooks(rehydrate, l)
    /\ \A ea \in l.expense_allocations :
          \E fa \in ChargesOf(rehydrate, ea.expense) : fa.fund = ea.fund

\* RestartInvisible, kept up by the commands that are logged already and
\* run again.
CleanCovered ==
    \A p \in Processes :
        /\ ~dirty[p]
        /\ \/ pc[p] \in {"idle", "put_receipt"}
           \/ pc[p] = "append" /\ cmd[p] \in LoggedKeys
        => Covered(ledger[p])

FoldInv == /\ RowsExtend /\ RowsDone /\ RowsSound
           /\ LedgerExtends /\ DoneUnderWay /\ LedgerSound
           /\ CleanCovered

LEMMA RehydrateFields ==
  /\ rehydrate.expenses = [e \in Expenses |->
        IF Mentions(e) = {} THEN "ABSENT"
        ELSE log[Newest(Mentions(e))].entities.expenses[e]]
  /\ rehydrate.expense_allocations =
        UNION {log[i].entities.expense_allocations : i \in DOMAIN log}
  /\ rehydrate.receipts = UNION {log[i].entities.receipts : i \in DOMAIN log}
  /\ rehydrate.expense_receipts = [e \in Expenses |->
        IF Lineages(e) = {} THEN {}
        ELSE log[Newest(Lineages(e))].entities.expense_receipts[e]]
  BY DEF rehydrate

\* Of a log whose rows extend each other the fold has the books of the last
\* row, and the charges of all rows.
LEMMA FoldLast ==
  ASSUME TypeOK, RowsExtend, log # << >>
  PROVE  /\ Len(log) \in DOMAIN log
         /\ SameBooks(rehydrate, log[Len(log)].entities)
<1> DEFINE n == Len(log)
           last == log[n].entities
<1>1. /\ n \in Nat
      /\ DOMAIN log = 1..n
      /\ \A i \in DOMAIN log : log[i].entities \in Entities
  BY RowsAreNumbered DEF Row
<1>2. n \in DOMAIN log
  <2>1. log \in Seq(Row)
    BY DEF TypeOK
  <2>2. n # 0
    BY <2>1
  <2> QED
    BY <1>1, <2>2
<1>3. /\ last \in Entities
      /\ \A i \in DOMAIN log : i <= n /\ Extends(log[i].entities, last)
  BY <1>1, <1>2 DEF RowsExtend
<1> HIDE DEF n
<1>4. rehydrate.receipts = last.receipts
  <2>1. \A i \in DOMAIN log : log[i].entities.receipts \subseteq last.receipts
    BY <1>3 DEF Extends
  <2> QED
    BY <1>2, <2>1, RehydrateFields
<1>5. ASSUME NEW e \in Expenses
      PROVE  rehydrate.expenses[e] = last.expenses[e]
  <2>1. Mentions(e) \in SUBSET (1..n)
    BY <1>1 DEF Mentions
  <2>2. CASE Mentions(e) = {}
    <3>1. last.expenses[e] = "ABSENT"
      BY <1>2, <2>2 DEF Mentions
    <3> QED
      BY <2>2, <3>1, RehydrateFields
  <2>3. CASE Mentions(e) # {}
    <3>1. PICK i \in Mentions(e) : TRUE
      BY <2>3
    <3>2. last.expenses[e] # "ABSENT"
      BY <1>3, <3>1 DEF Mentions, Extends, Later
    <3>3. n \in Mentions(e)
      BY <1>2, <3>2 DEF Mentions
    <3>4. /\ Newest(Mentions(e)) \in Mentions(e)
          /\ \A j \in Mentions(e) : j <= Newest(Mentions(e))
      BY <1>1, <2>1, <2>3, NewestOf
    <3>5. Newest(Mentions(e)) = n
      BY <1>1, <2>1, <3>3, <3>4
    <3> QED
      BY <2>3, <3>5, RehydrateFields
  <2> QED
    BY <2>2, <2>3
<1>6. ASSUME NEW e \in Expenses
      PROVE  rehydrate.expense_receipts[e] = last.expense_receipts[e]
  <2>1. Lineages(e) \in SUBSET (1..n)
    BY <1>1 DEF Lineages
  <2>2. CASE Lineages(e) = {}
    <3>1. last.expense_receipts[e] = {}
      BY <1>2, <2>2 DEF Lineages
    <3> QED
      BY <2>2, <3>1, RehydrateFields
  <2>3. CASE Lineages(e) # {}
    <3>1. PICK i \in Lineages(e) : TRUE
      BY <2>3
    <3>2. last.expense_receipts[e] # {}
      BY <1>3, <3>1 DEF Lineages, Extends
    <3>3. n \in Lineages(e)
      BY <1>2, <3>2 DEF Lineages
    <3>4. /\ Newest(Lineages(e)) \in Lineages(e)
          /\ \A j \in Lineages(e) : j <= Newest(Lineages(e))
      BY <1>1, <2>1, <2>3, NewestOf
    <3>5. Newest(Lineages(e)) = n
      BY <1>1, <2>1, <3>3, <3>4
    <3> QED
      BY <2>3, <3>5, RehydrateFields
  <2> QED
    BY <2>2, <2>3
<1>7. rehydrate \in Entities
  BY RehydrateType
<1>8. rehydrate.expenses = last.expenses
  BY <1>3, <1>5, <1>7 DEF Entities
<1>9. rehydrate.expense_receipts = last.expense_receipts
  BY <1>3, <1>6, <1>7 DEF Entities
<1> QED
  BY <1>2, <1>4, <1>8, <1>9 DEF SameBooks, n

LEMMA SameBooksSame ==
  ASSUME NEW a, NEW l, SameBooks(a, l)
  PROVE  /\ Sound(a) <=> Sound(l)
         /\ \A b : Extends(b, a) <=> Extends(b, l)
  BY DEF SameBooks, Sound, Extends

\* A ledger that is folded from the log has all that is logged, and sound
\* receipts.
LEMMA FoldSound ==
  ASSUME TypeOK, RowsExtend, RowsSound
  PROVE  /\ Sound(rehydrate)
         /\ \A i \in DOMAIN log : Extends(log[i].entities, rehydrate)
<1>1. CASE log = << >>
  <2>1. DOMAIN log = {}
    BY <1>1
  <2>2. rehydrate.receipts = {}
    BY <2>1, RehydrateFields
  <2> QED
    BY <2>1, <2>2 DEF Sound
<1>2. CASE log # << >>
  <2>1. /\ Len(log) \in DOMAIN log
        /\ SameBooks(rehydrate, log[Len(log)].entities)
    BY <1>2, FoldLast
  <2>2. \A i \in DOMAIN log : i <= Len(log)
    BY RowsAreNumbered
  <2>3. /\ Sound(log[Len(log)].entities)
        /\ \A i \in DOMAIN log : Extends(log[i].entities, log[Len(log)].entities)
    BY <2>1, <2>2 DEF RowsSound, RowsExtend
  <2> QED
    BY <2>1, <2>3, SameBooksSame
<1> QED
  BY <1>1, <1>2

\* A step that leaves the log alone leaves alone its rows and their fold.
LEMMA FoldFrame ==
  ASSUME UNCHANGED log, FoldInv
  PROVE  /\ LoggedKeys' = LoggedKeys
         /\ rehydrate' = rehydrate
         /\ \A l : Covered(l)' <=> Covered(l)
         /\ RowsExtend' /\ RowsDone' /\ RowsSound'
<1>1. rehydrate' = rehydrate
  BY DEF rehydrate, Mentions, Lineages
<1>2. \A l : Covered(l)' <=> Covered(l)
  BY <1>1 DEF Covered
<1> QED
  BY <1>1, <1>2 DEF LoggedKeys, FoldInv, RowsExtend, RowsDone, RowsSound

LEMMA FoldInitially == Init => FoldInv
<1> SUFFICES ASSUME Init PROVE FoldInv
  OBVIOUS
<1>1. DOMAIN log = {}
  BY DEF Init
<1>2. RowsExtend /\ RowsDone /\ RowsSound
  BY <1>1 DEF RowsExtend, RowsDone, RowsSound
<1>3. LedgerExtends /\ DoneUnderWay /\ CleanCovered
  BY <1>1 DEF Init, LedgerExtends, DoneUnderWay, CleanCovered
<1>4. LedgerSound
  BY EmptySound DEF Init, LedgerSound
<1> QED
  BY <1>2, <1>3, <1>4 DEF FoldInv

LEMMA FoldOpenStep ==
  ASSUME SingleProcess, TypeInv, FoldInv, NEW p \in Processes, open_workspace(p)
  PROVE  FoldInv'
<1>0. /\ pc' = [pc EXCEPT ![p] = "idle"]
      /\ ledger' = [ledger EXCEPT ![p] = rehydrate]
      /\ UNCHANGED <<log, cmd>>
      /\ pc \in [Processes -> {"down", "idle", "append", "put_receipt"}]
      /\ ledger \in [Processes -> Entities]
  BY DEF open_workspace, TypeInv, TypeOK
<1>1. /\ \A l : Covered(l)' <=> Covered(l)
      /\ RowsExtend' /\ RowsDone' /\ RowsSound'
  BY <1>0, FoldFrame
<1>2. ledger'[p] = rehydrate /\ pc'[p] = "idle"
  BY <1>0
<1>3. /\ Sound(rehydrate)
      /\ \A i \in DOMAIN log : Extends(log[i].entities, rehydrate)
  BY FoldSound DEF FoldInv, TypeInv
<1>4. LedgerExtends' /\ LedgerSound'
  BY <1>0, <1>2, <1>3 DEF LedgerExtends, LedgerSound, SingleProcess
<1>5. DoneUnderWay'
  BY <1>2 DEF DoneUnderWay, SingleProcess
<1>6. Covered(rehydrate)
  <2>1. \A ea \in rehydrate.expense_allocations : ea \in ChargesOf(rehydrate, ea.expense)
    BY DEF ChargesOf
  <2> QED
    BY <2>1 DEF Covered, SameBooks
<1>7. CleanCovered'
  BY <1>1, <1>2, <1>6 DEF CleanCovered, SingleProcess
<1> QED
  BY <1>1, <1>4, <1>5, <1>7 DEF FoldInv

LEMMA FoldExecuteStep ==
  ASSUME SingleProcess, TypeInv, FoldInv, NEW p \in Processes, NEW c \in Commands,
         execute(p, c)
  PROVE  FoldInv'
<1>0. /\ pc[p] = "idle" /\ pc' = [pc EXCEPT ![p] = "append"]
      /\ cmd' = [cmd EXCEPT ![p] = c]
      /\ UNCHANGED <<log, dirty>>
      /\ pc \in [Processes -> {"down", "idle", "append", "put_receipt"}]
      /\ cmd \in [Processes -> Commands \cup {NoCommand}]
      /\ _dispatch(p, c, ids + 1)
      /\ ids + 1 \in Nat /\ ids + 1 # 0
  BY DEF execute, TypeInv, TypeOK
<1>1. pc'[p] = "append" /\ cmd'[p] = c
  BY <1>0
<1>2. PICK n \in Nat : n = ids + 1
  BY <1>0
<1>3. PICK l \in Entities, m \in Entities : l = ledger[p] /\ m = ledger'[p]
  BY <1>0, DispatchEffect DEF TypeInv
<1>4. c.expense \in Expenses /\ Effect(c, n, l, m) /\ n # 0
  BY <1>0, <1>2, <1>3, DispatchEffect DEF TypeInv
<1>5. /\ LoggedKeys' = LoggedKeys
      /\ rehydrate' = rehydrate
      /\ \A k : Covered(k)' <=> Covered(k)
      /\ RowsExtend' /\ RowsDone' /\ RowsSound'
  BY <1>0, FoldFrame
<1>6. /\ Extends(l, m) /\ Done(c, m)
      /\ Sound(l) => Sound(m)
  BY <1>4, EffectExtends, EffectDone, EffectSound
<1>7. \A i \in DOMAIN log : Extends(log[i].entities, l)
  BY <1>0, <1>3 DEF FoldInv, LedgerExtends
<1>8. LedgerExtends'
  <2>1. \A i \in DOMAIN log : Extends(log[i].entities, m)
    BY <1>6, <1>7, ExtendsTransitive
  <2> QED
    BY <1>0, <1>3, <2>1 DEF LedgerExtends, SingleProcess
<1>9. LedgerSound'
  <2>1. Sound(m)
    BY <1>3, <1>6 DEF FoldInv, LedgerSound
  <2> QED
    BY <1>3, <2>1 DEF LedgerSound, SingleProcess
<1>10. DoneUnderWay'
  BY <1>1, <1>3, <1>6 DEF DoneUnderWay, SingleProcess
<1>11. ASSUME ~dirty[p], c \in LoggedKeys
       PROVE  Covered(m)
  <2>1. Covered(l)
    BY <1>0, <1>3, <1>11 DEF FoldInv, CleanCovered
  <2>2. PICK i \in DOMAIN log : c = log[i].key
    BY <1>11 DEF LoggedKeys
  <2>3. PICK a : a = log[i].entities
    OBVIOUS
  <2>4. Done(c, a) /\ Extends(a, l)
    BY <1>7, <2>2, <2>3 DEF FoldInv, RowsDone
  <2>5. /\ SameBooks(l, m)
        /\ \A ea \in m.expense_allocations :
              \/ ea \in l.expense_allocations
              \/ /\ c.type = "allocate_expense"
                 /\ ea.expense = c.expense /\ ea.fund = c.arg
    BY <1>4, <2>4, EffectRepeats
  <2>6. SameBooks(rehydrate, m)
    BY <2>1, <2>5 DEF Covered, SameBooks
  <2>7. ASSUME c.type = "allocate_expense"
        PROVE  \E fa \in ChargesOf(rehydrate, c.expense) : fa.fund = c.arg
    <3>1. PICK fa \in ChargesOf(a, c.expense) : fa.fund = c.arg
      BY <2>4, <2>7 DEF Done
    <3>2. fa \in a.expense_allocations /\ fa.expense = c.expense
      BY DEF ChargesOf
    <3>3. fa \in rehydrate.expense_allocations
      BY <2>2, <2>3, <3>2, RehydrateFields
    <3> QED
      BY <3>1, <3>2, <3>3 DEF ChargesOf
  <2>8. \A ea \in m.expense_allocations :
          \E fa \in ChargesOf(rehydrate, ea.expense) : fa.fund = ea.fund
    BY <2>1, <2>5, <2>7 DEF Covered
  <2> QED
    BY <2>6, <2>8 DEF Covered
<1>12. CleanCovered'
  <2> SUFFICES ASSUME ~dirty'[p], pc'[p] = "append" /\ cmd'[p] \in LoggedKeys'
               PROVE  Covered(ledger[p])'
    BY <1>1 DEF CleanCovered, SingleProcess
  <2>1. ~dirty[p] /\ c \in LoggedKeys
    BY <1>0, <1>1, <1>5
  <2> QED
    BY <1>3, <1>5, <1>11, <2>1
<1> QED
  BY <1>5, <1>8, <1>9, <1>10, <1>12 DEF FoldInv

LEMMA FoldAppendStep ==
  ASSUME SingleProcess, TypeInv, SeenLogged, LogInv, FoldInv,
         NEW p \in Processes, append(p), TypeOK'
  PROVE  FoldInv'
<1>0. /\ pc[p] = "append" /\ pc' = [pc EXCEPT ![p] = "put_receipt"]
      /\ UNCHANGED <<torn, cmd, ledger>>
      /\ ~torn
      /\ pc \in [Processes -> {"down", "idle", "append", "put_receipt"}]
  BY DEF append, LogInv, TornAlone, TypeInv, TypeOK
<1>1. pc'[p] = "put_receipt"
  BY <1>0
<1>2. LedgerSound' /\ DoneUnderWay'
  BY <1>0, <1>1 DEF FoldInv, LedgerSound, DoneUnderWay, SingleProcess
<1>3. CASE cmd[p] \in seen[p]
  <2>1. UNCHANGED <<log, dirty>>
    BY <1>3 DEF append
  <2>2. /\ \A l : Covered(l)' <=> Covered(l)
        /\ RowsExtend' /\ RowsDone' /\ RowsSound'
    BY <2>1, FoldFrame
  <2>3. LedgerExtends'
    BY <1>0, <2>1 DEF FoldInv, LedgerExtends, SingleProcess
  <2>4. cmd[p] \in LoggedKeys
    BY <1>0, <1>3 DEF SeenLogged
  <2>5. ~dirty'[p] => Covered(ledger'[p])
    BY <1>0, <2>1, <2>4 DEF FoldInv, CleanCovered
  <2>6. CleanCovered'
    BY <2>2, <2>5 DEF CleanCovered, SingleProcess
  <2> QED
    BY <1>2, <2>2, <2>3, <2>6 DEF FoldInv
<1>4. CASE cmd[p] \notin seen[p]
  <2> DEFINE r == build_result_json(cmd[p], ledger[p])
             n == Len(log) + 1
  <2>1. log' = Append(log, r)
    BY <1>0, <1>4 DEF append
  <2>2. r.key = cmd[p] /\ r.entities = ledger[p]
    BY DEF build_result_json
  <2> HIDE DEF r
  <2>3. /\ Len(log) \in Nat
        /\ DOMAIN log = 1..Len(log)
        /\ DOMAIN log' = DOMAIN log \cup {n}
        /\ \A i \in DOMAIN log : log'[i] = log[i]
        /\ log'[n] = r
    BY <2>1, RowsGrow DEF TypeInv
  <2>4. Len(log') = n /\ log' # << >>
    BY <2>1 DEF TypeInv, TypeOK
  <2>5. /\ \A i \in DOMAIN log : Extends(log[i].entities, ledger[p])
        /\ Extends(ledger[p], ledger[p])
        /\ Done(cmd[p], ledger[p])
        /\ Sound(ledger[p])
    BY <1>0 DEF FoldInv, LedgerExtends, DoneUnderWay, LedgerSound, Extends, Later
  <2>6. RowsExtend'
    <3> SUFFICES ASSUME NEW i \in DOMAIN log', NEW j \in DOMAIN log', i <= j
                 PROVE  Extends(log'[i].entities, log'[j].entities)
      BY DEF RowsExtend
    <3>1. CASE j \in DOMAIN log
      <4>1. i \in DOMAIN log
        BY <2>3, <3>1
      <4> QED
        BY <2>3, <3>1, <4>1 DEF FoldInv, RowsExtend
    <3>2. CASE j = n
      BY <2>2, <2>3, <2>5, <3>2
    <3> QED
      BY <2>3, <3>1, <3>2
  <2>7. RowsDone' /\ RowsSound'
    BY <2>2, <2>3, <2>5 DEF FoldInv, RowsDone, RowsSound
  <2>8. LedgerExtends'
    <3>1. \A i \in DOMAIN log' : Extends(log'[i].entities, ledger'[p])
      BY <1>0, <2>2, <2>3, <2>5
    <3> QED
      BY <3>1 DEF LedgerExtends, SingleProcess
  <2>9. CleanCovered'
    <3>1. SameBooks(rehydrate', ledger'[p])
      <4>1. (TypeOK /\ RowsExtend /\ log # << >> =>
               SameBooks(rehydrate, log[Len(log)].entities))'
        BY FoldLast, PTL
      <4>2. SameBooks(rehydrate', log'[Len(log')].entities)
        BY <2>4, <2>6, <4>1
      <4> QED
        BY <1>0, <2>2, <2>3, <2>4, <4>2
    <3>2. ledger'[p].expense_allocations \subseteq rehydrate'.expense_allocations
      <4>1. (rehydrate.expense_allocations =
               UNION {log[i].entities.expense_allocations : i \in DOMAIN log})'
        BY RehydrateFields, PTL
      <4> QED
        BY <1>0, <2>2, <2>3, <4>1
    <3>3. Covered(ledger[p])'
      BY <3>1, <3>2 DEF Covered, ChargesOf
    <3> QED
      BY <3>3 DEF CleanCovered, SingleProcess
  <2> QED
    BY <1>2, <2>6, <2>7, <2>8, <2>9 DEF FoldInv
<1> QED
  BY <1>3, <1>4

\* The other steps change neither the log nor a ledger that stays up, and
\* a failed append leaves the ledger dirty.
LEMMA FoldQuietStep ==
  ASSUME SingleProcess, TypeInv, FoldInv, NEW p \in Processes,
         append_raises(p) \/ _store_receipt(p)
           \/ persist_ledger_snapshot(p) \/ crash(p)
  PROVE  FoldInv'
<1>0. UNCHANGED log
  BY DEF append_raises, _store_receipt, persist_ledger_snapshot, crash
<1>1. /\ LoggedKeys' = LoggedKeys
      /\ \A l : Covered(l)' <=> Covered(l)
      /\ RowsExtend' /\ RowsDone' /\ RowsSound'
  BY <1>0, FoldFrame
<1>t. /\ pc \in [Processes -> {"down", "idle", "append", "put_receipt"}]
      /\ ledger \in [Processes -> Entities]
      /\ dirty \in [Processes -> BOOLEAN]
  BY DEF TypeInv, TypeOK
<1>2. CASE append_raises(p)
  <2>1. pc[p] = "append" /\ pc'[p] = "idle" /\ dirty'[p] /\ UNCHANGED ledger
    BY <1>2, <1>t DEF append_raises
  <2> QED
    BY <1>0, <1>1, <2>1 DEF FoldInv, LedgerExtends, DoneUnderWay, LedgerSound,
       CleanCovered, SingleProcess
<1>3. CASE _store_receipt(p)
  <2>1. pc[p] = "put_receipt" /\ pc'[p] = "idle" /\ UNCHANGED <<dirty, ledger>>
    BY <1>3, <1>t DEF _store_receipt
  <2> QED
    BY <1>0, <1>1, <2>1 DEF FoldInv, LedgerExtends, DoneUnderWay, LedgerSound,
       CleanCovered, SingleProcess
<1>4. CASE persist_ledger_snapshot(p)
  <2>1. UNCHANGED <<pc, cmd, ledger, dirty>>
    BY <1>4 DEF persist_ledger_snapshot, process
  <2> QED
    BY <1>0, <1>1, <2>1 DEF FoldInv, LedgerExtends, DoneUnderWay, LedgerSound,
       CleanCovered
<1>5. CASE crash(p)
  <2>1. pc'[p] = "down" /\ ledger'[p] = EmptyLedger
    BY <1>5, <1>t DEF crash
  <2> QED
    BY <1>1, <2>1, EmptySound DEF FoldInv, LedgerExtends, DoneUnderWay, LedgerSound,
       CleanCovered, SingleProcess
<1> QED
  BY <1>2, <1>3, <1>4, <1>5

LEMMA FoldInvHolds ==
  ASSUME SingleProcess
  PROVE  Spec => []FoldInv
<1>1. TypeInv /\ TypeInv' /\ SeenLogged /\ LogInv /\ FoldInv /\ [Next]_vars => FoldInv'
  <2> SUFFICES ASSUME TypeInv, TypeInv', SeenLogged, LogInv, FoldInv, [Next]_vars
               PROVE  FoldInv'
    OBVIOUS
  <2>1. CASE UNCHANGED vars
    <3>1. UNCHANGED <<log, pc, cmd, ledger, dirty>>
      BY <2>1 DEF vars, process
    <3>2. /\ LoggedKeys' = LoggedKeys
          /\ \A l : Covered(l)' <=> Covered(l)
          /\ RowsExtend' /\ RowsDone' /\ RowsSound'
      BY <3>1, FoldFrame
    <3> QED
      BY <3>1, <3>2 DEF FoldInv, LedgerExtends, DoneUnderWay, LedgerSound, CleanCovered
  <2>2. CASE Next
    <3>1. TypeOK'
      BY DEF TypeInv
    <3> QED
      BY <2>2, <3>1, FoldAppendStep, FoldExecuteStep, FoldOpenStep, FoldQuietStep DEF Next
  <2> QED
    BY <2>1, <2>2
<1> QED
  BY <1>1, FoldInitially, TypeInvHolds, ReceiptInvHolds, LogInvHolds, PTL DEF Spec

\* With one process at a time a restart between two commands is invisible,
\* unless an append has failed: the fold of the log has the expenses, the
\* receipts and the lineage of the running ledger, and a charge to the fund
\* of every charge (CommandLog.RestartInvisible).
THEOREM RestartInvisibleHolds ==
  ASSUME SingleProcess
  PROVE  Spec => []RestartInvisible
<1>1. FoldInv => RestartInvisible
  BY DEF FoldInv, CleanCovered, Covered, SameBooks, RestartInvisible
<1> QED
  BY <1>1, FoldInvHolds, PTL

\* With one process at a time the receipts that a restart would find are
\* sound, however often crashes and failed appends made a command run: one
\* per expense, donation and corrected receipt, and a correction for each
\* receipt of a reversed expense (CommandLog.LoggedReceiptsSound).
THEOREM LoggedReceiptsSoundHolds ==
  ASSUME SingleProcess
  PROVE  Spec => []LoggedReceiptsSound
<1>1. TypeInv /\ FoldInv => LoggedReceiptsSound
  BY FoldSound DEF TypeInv, FoldInv, Sound, LoggedReceiptsSound
<1> QED
  BY <1>1, TypeInvHolds, FoldInvHolds, PTL

=============================================================================
