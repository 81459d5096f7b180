----------------------------- MODULE MCStorage -----------------------------
(* Two database clients, two object clients, one object.                     *)
EXTENDS Storage, TLC

CONSTANTS c1, c2, o1, o2
StorageSymmetry == Permutations({c1, c2}) \cup Permutations({o1, o2})
=============================================================================
