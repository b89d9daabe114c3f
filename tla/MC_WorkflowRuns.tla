--------------------------- MODULE MC_WorkflowRuns ---------------------------
(* The calls are interchangeable: symmetry for a run without liveness.      *)
EXTENDS WorkflowRuns, TLC

Symmetry == Permutations(Calls)
==============================================================================
