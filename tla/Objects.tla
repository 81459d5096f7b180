------------------------------ MODULE Objects ------------------------------
(***************************************************************************)
(* Object storage (storage/objects.py): put, delete and purge_expired.  On   *)
(* the local file system an object is two files, the data and the .meta.json*)
(* that carries its retention policy, written and removed one after the     *)
(* other; in S3 it is one.  Callers do not put or delete the same key at    *)
(* the same time; a purge may run at any time.                              *)
(***************************************************************************)
EXTENDS Naturals

CONSTANTS
    ObjClients,     \* processes
    ObjectKeys,     \* object keys of the tenant
    MaxCalls        \* bound: calls made

VARIABLES
    backend,    \* IMPACT_RELAY_OBJECT_STORE, fixed at start
    data, meta, \* the two files of each object
    done,       \* the policy of the last put of the key, if it has returned (history)
    ocall,      \* the call each client is in
    calls

objVars == <<backend, data, meta, done, ocall>>

\* No retention policy, one that has run out, one that has not, a legal hold.
Retention == {"plain", "expired", "retained", "held"}

\* todo: the objects a purge has not looked at.  shield: the objects whose last
\* put, protecting them, had returned when the purge began and was not followed
\* by another put or delete (history).
Resting == [op |-> "none", at |-> "idle", key |-> "none", policy |-> "plain",
            todo |-> {}, shield |-> {}]
ObjCall == [op: {"none", "put", "delete", "purge"},
            at: {"idle", "data", "truncate", "meta", "return", "scan", "unlink", "unlink_meta"},
            key: ObjectKeys \cup {"none"}, policy: Retention,
            todo: SUBSET ObjectKeys, shield: SUBSET ObjectKeys]

ObjTypeOK ==
    /\ backend \in {"local", "s3"}
    /\ data \in [ObjectKeys -> BOOLEAN]
    /\ meta \in [ObjectKeys -> Retention \cup {"absent", "torn"}]
    /\ done \in [ObjectKeys -> Retention \cup {"unknown"}]
    /\ ocall \in [ObjClients -> ObjCall]

ObjInit ==
    /\ backend \in {"local", "s3"}
    /\ data = [k \in ObjectKeys |-> FALSE]
    /\ meta = [k \in ObjectKeys |-> "absent"]
    /\ done = [k \in ObjectKeys |-> "unknown"]
    /\ ocall = [c \in ObjClients |-> Resting]

Begins(c) ==
    /\ ocall[c] = Resting
    /\ calls < MaxCalls
    /\ calls' = calls + 1

\* A put or delete of k begins: what a purge may do to k is no longer promised.
Changes(c, k, entry) ==
    /\ \A d \in ObjClients : ocall[d].op \in {"put", "delete"} => ocall[d].key # k
    /\ ocall' = [d \in ObjClients |->
                   IF d = c THEN entry ELSE [ocall[d] EXCEPT !.shield = @ \ {k}]]
    /\ done' = [done EXCEPT ![k] = "unknown"]
    /\ UNCHANGED <<backend, data, meta>>

At(c, at) == ocall' = [ocall EXCEPT ![c] = [@ EXCEPT !.at = at]]
Rests(c) == ocall' = [ocall EXCEPT ![c] = Resting]

-----------------------------------------------------------------------------
put(c, k, policy) ==
    /\ Begins(c)
    /\ Changes(c, k, [Resting EXCEPT !.op = "put", !.at = "data", !.key = k, !.policy = policy])

\* put_object stores data and metadata as one; write_bytes the data only.
write_data(c) ==
    LET k == ocall[c].key IN
    /\ ocall[c].op = "put" /\ ocall[c].at = "data"
    /\ data' = [data EXCEPT ![k] = TRUE]
    /\ \/ /\ backend = "s3" /\ At(c, "return")
          /\ meta' = [meta EXCEPT ![k] = ocall[c].policy]
       \/ backend = "local" /\ At(c, "truncate") /\ UNCHANGED meta
    /\ UNCHANGED <<backend, done, calls>>

\* write_text empties the old file and then fills it.
write_meta(c) ==
    LET k == ocall[c].key IN
    /\ \/ /\ ocall[c].at = "truncate" /\ At(c, "meta")
          /\ meta' = [meta EXCEPT ![k] = "torn"]
       \/ /\ ocall[c].at = "meta" /\ At(c, "return")
          /\ meta' = [meta EXCEPT ![k] = ocall[c].policy]
    /\ UNCHANGED <<backend, data, done, calls>>

put_returns(c) ==
    /\ ocall[c].at = "return" /\ Rests(c)
    /\ done' = [done EXCEPT ![ocall[c].key] = ocall[c].policy]
    /\ UNCHANGED <<backend, data, meta, calls>>

delete(c, k) ==
    /\ Begins(c)
    /\ Changes(c, k, [Resting EXCEPT !.op = "delete", !.at = "unlink", !.key = k])

\* Where an unlink leads: a purge goes on to its next object.
After(c) == IF ocall[c].op = "purge" THEN At(c, "scan") ELSE Rests(c)

unlink(c) ==
    LET k == ocall[c].key IN
    /\ \/ /\ ocall[c].at = "unlink" /\ backend = "local" /\ At(c, "unlink_meta")
          /\ data' = [data EXCEPT ![k] = FALSE] /\ UNCHANGED meta
       \/ /\ ocall[c].at = "unlink_meta" /\ After(c)
          /\ meta' = [meta EXCEPT ![k] = "absent"] /\ UNCHANGED data
       \/ /\ ocall[c].at = "unlink" /\ backend = "s3" /\ Rests(c)
          /\ data' = [data EXCEPT ![k] = FALSE] /\ meta' = [meta EXCEPT ![k] = "absent"]
    /\ UNCHANGED <<backend, done, calls>>

-----------------------------------------------------------------------------
\* Only the local store purges.  The metadata files are listed first.
purge_expired(c) ==
    /\ backend = "local"
    /\ Begins(c)
    /\ ocall' = [ocall EXCEPT ![c] =
          [Resting EXCEPT !.op = "purge", !.at = "scan",
              !.todo = {k \in ObjectKeys : meta[k] # "absent"},
              !.shield = {k \in ObjectKeys : done[k] \in {"retained", "held"}}]]
    /\ UNCHANGED <<backend, data, meta, done>>

\* Mutant: the legal hold is not looked at.
Purgeable_Held(k) == data[k] /\ meta[k] \in {"expired", "held"}
\* Metadata that is missing or cannot be read keeps the object.
Purgeable(k) == data[k] /\ meta[k] = "expired"

scan(c) ==
    /\ ocall[c].at = "scan"
    /\ \/ \E k \in ocall[c].todo :
            LET looked == [ocall[c] EXCEPT !.todo = @ \ {k}] IN
            ocall' = [ocall EXCEPT ![c] =
               IF Purgeable(k) THEN [looked EXCEPT !.at = "unlink", !.key = k] ELSE looked]
       \/ ocall[c].todo = {} /\ Rests(c)
    /\ UNCHANGED <<backend, data, meta, done, calls>>

\* The process dies, or the file system or S3 raises.
fails(c) ==
    /\ ocall[c] # Resting
    /\ Rests(c)
    /\ UNCHANGED <<backend, data, meta, done, calls>>

ObjNext ==
    \E c \in ObjClients :
        \/ \E k \in ObjectKeys : \/ \E policy \in Retention : put(c, k, policy)
                                 \/ delete(c, k)
        \/ write_data(c) \/ write_meta(c) \/ put_returns(c)
        \/ unlink(c)
        \/ purge_expired(c) \/ scan(c)
        \/ fails(c)
=============================================================================
