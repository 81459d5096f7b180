------------------------------ MODULE MCImpact ------------------------------
(* One correction of an expense two donors paid for through one fund.        *)
EXTENDS CorrectedImpact, TLC

MCRequests(c) ==
    c \in {build_reverse_command("e1"), build_supersede_command("e1", "r1")}
MCAttributions == {[donor |-> "d1", expense |-> "e1", allocation |-> "fund"],
                   [donor |-> "d2", expense |-> "e1", allocation |-> "fund"],
                   [donor |-> "d1", expense |-> "r1", allocation |-> "fund"]}
MCAssetExpense == [a \in {"a1"} |-> "e1"]
MCLinks == {[expenses |-> {"e1", "r1"}, assets |-> {}],
            [expenses |-> {}, assets |-> {"a1"}],
            [expenses |-> {}, assets |-> {}]}
=============================================================================
