----------------------------- MODULE FirstWins -----------------------------
(***************************************************************************)
(* What an idempotent store promises: of the requests for a slot the first  *)
(* one kept decides for ever; a request equal to it is told so, any other   *)
(* is refused, and nobody is told or refused before something is kept.      *)
(***************************************************************************)
CONSTANTS Slots, Bodies, Nothing

VARIABLES
    kept,       \* what each slot holds
    told,       \* the requests that were answered with success
    refused     \* the requests that were answered with a conflict

vars == <<kept, told, refused>>

Init ==
    /\ kept = [s \in Slots |-> Nothing]
    /\ told = {} /\ refused = {}

Keep(s, b) ==
    /\ kept[s] = Nothing
    /\ kept' = [kept EXCEPT ![s] = b]
    /\ UNCHANGED <<told, refused>>

Tell(s, b) ==
    /\ kept[s] = b
    /\ told' = told \cup {<<s, b>>}
    /\ UNCHANGED <<kept, refused>>

Refuse(s, b) ==
    /\ kept[s] \notin {Nothing, b}
    /\ refused' = refused \cup {<<s, b>>}
    /\ UNCHANGED <<kept, told>>

Next == \E s \in Slots, b \in Bodies : Keep(s, b) \/ Tell(s, b) \/ Refuse(s, b)

Spec == Init /\ [][Next]_vars
=============================================================================
