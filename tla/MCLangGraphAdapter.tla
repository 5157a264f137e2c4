------------------------- MODULE MCLangGraphAdapter -------------------------
(* LangGraphAdapter on a small instance. *)
EXTENDS LangGraphAdapter

CONSTANTS a, b

MCTasks == {a, b}

\* What the contract allows for, everything at once, and a late failure alone.
AllFaults == {"crash", "mid_run_save", "late_failure", "recorder_raises"}
MCEnvironments == {[faults |-> {"crash"}, invocations |-> 4], [faults |-> AllFaults, invocations |-> 3]}
MCLate == {[faults |-> {"late_failure"}, invocations |-> 4]}

MCSymmetry == Permutations(MCTasks)
=============================================================================
