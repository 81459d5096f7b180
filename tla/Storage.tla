------------------------------ MODULE Storage ------------------------------
(***************************************************************************)
(* A tenant's storage (StorageBundle): the SQL database and the object      *)
(* store, used by processes side by side.                                   *)
(***************************************************************************)
EXTENDS SqlStore

CONSTANTS ObjClients, ObjectKeys
VARIABLES backend, data, meta, done, ocall

O == INSTANCE Objects

allVars == <<vars, backend, data, meta, done, ocall>>

StorageInit == Init /\ O!ObjInit
StorageNext ==
    \/ Next /\ UNCHANGED <<backend, data, meta, done, ocall>>
    \/ O!ObjNext /\ UNCHANGED sqlVars

StorageSpec == StorageInit /\ [][StorageNext]_allVars

\* The database and the object store keep their types.
StorageTypeOK == TypeOK /\ O!ObjTypeOK

\* A purge removes no object that a finished put had protected, by a legal hold
\* or a date still to come, before the purge began, although other puts,
\* deletes and purges run beside it and any of them may have died half way.
ProtectedKept ==
    \A c \in ObjClients :
        ocall[c].op = "purge" /\ ocall[c].at = "unlink" => ocall[c].key \notin ocall[c].shield
=============================================================================
