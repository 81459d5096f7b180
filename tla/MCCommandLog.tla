---------------------------- MODULE MCCommandLog ----------------------------
(* Constants for model checking CommandLog. *)
EXTENDS CommandLog, TLC

\* Ids are interchangeable, and so are processes.
Interchangeable ==
    Permutations(Processes) \cup Permutations(Expenses) \cup Permutations(Funds)

=============================================================================
