--------------------------- MODULE MCCorrections ---------------------------
(* Two workflows over two expenses with receipts and one replacement id.     *)
EXTENDS Corrections, TLC

\* A reversal, a supersede, one whose replacement has the id of another expense,
\* and the reversal of the replacement.
MCRequests(c) ==
    c \in {build_reverse_command("e1"), build_supersede_command("e1", "r1"),
          build_supersede_command("e1", "e2"), build_reverse_command("r1")}

CONSTANTS f1, f2
FlowSymmetry == Permutations({f1, f2})
=============================================================================
