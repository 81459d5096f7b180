------------------------------ MODULE MCEngine ------------------------------
(* Constants for model checking WorkflowEngine.                             *)
EXTENDS WorkflowEngine, TLC

\* Worker processes are interchangeable.
Interchangeable == Permutations(Workers)

=============================================================================
