--------------------------- MODULE MC_WorkflowSteps ---------------------------
(* Three steps, one of each way to treat an error, and every graph on them  *)
(* without self-loops: chains, forks, joins and cycles.                     *)
EXTENDS WorkflowSteps, TLC

CONSTANTS s1, s2, s3

AllGraphs == SUBSET {e \in Steps \X Steps : e[1] # e[2]}
OneOfEach == s1 :> "retry" @@ s2 :> "stop" @@ s3 :> "continue"
OneRetry == [s \in Steps |-> 1]
===============================================================================
