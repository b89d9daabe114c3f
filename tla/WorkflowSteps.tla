---------------------------- MODULE WorkflowSteps ----------------------------
(***************************************************************************)
(* The steps of one workflow run, from the row that WorkflowRuns' Create   *)
(* made to the status that its Finish writes. The graph of a workflow is   *)
(* cut into layers; the steps of a layer run in parallel and the next      *)
(* layer starts when all of them are settled. A step records a row, calls  *)
(* its plugin with a timeout and perhaps retries, and records how it went. *)
(*                                                                         *)
(* Granularity. Each await of a step is an action: creating its row, the   *)
(* plugin call, the back-off, the update of its row. A plugin call that    *)
(* timed out is not stopped: the executor only ceases to wait for it.      *)
(* What steps hand to each other, and the counters on the workflow's step  *)
(* definitions, are left out.                                              *)
(***************************************************************************)
EXTENDS Integers, Sequences, FiniteSets

CONSTANTS
    Steps,         \* the workflow's steps
    Graphs,        \* the sets of edges <<source, target>> to run with
    OnError,       \* OnError[s]: "stop", "continue" or "retry"
    MaxRetries,    \* MaxRetries[s]
    Missing,       \* steps whose plugin may be gone from the catalog
    Faults         \* faults that may happen: "database", "timeout"

ASSUME OnErrorAssumption == OnError \in [Steps -> {"stop", "continue", "retry"}]
ASSUME MaxRetriesAssumption == MaxRetries \in [Steps -> Nat]
ASSUME MissingAssumption == Missing \subseteq Steps
ASSUME StepsAssumption == IsFiniteSet(Steps) /\ Steps # {}
ASSUME GraphsAssumption == Graphs \subseteq SUBSET (Steps \X Steps)

VARIABLES
    edges,       \* the workflow's edges between steps
    layers,      \* executionLayers: a sequence of sets of steps
    layer,       \* the layer under way
    pc,          \* pc[s]: where step s stands
    row,         \* row[s]: the status of its WorkflowStepRun row
    succeeded,   \* succeeded[s]: what its plugin call came to
    attempts,    \* attempts[s]: how often its plugin was called
    live,        \* live[s]: calls of its plugin that have not ended
    fatal,       \* steps that threw StepFailedError
    swallowed,   \* steps that failed without the loop over the layers seeing it
    status,      \* the status of the WorkflowRun row
    thrown       \* whether the write of the run's outcome threw

step == <<pc, row, succeeded, attempts, live, fatal, swallowed>>
vars == <<edges, layers, layer, step, status, thrown>>

-------------------------------------------------------------------------------
(* Kahn's algorithm. InDegree(graph)[n][t] is inDegree of t when n rounds  *)
(* are done: the number of its sources that were in none of them.          *)
InDegree(graph) ==
    LET inDegree[n \in 0..Cardinality(Steps)] ==
          [t \in Steps |->
            Cardinality({s \in Steps : <<s, t>> \in graph /\ (n > 0 => inDegree[n - 1][s] # 0)})]
    IN  inDegree

(* The queue of round n + 1: the steps whose inDegree has just become 0.   *)
Queue(graph, n) ==
    {t \in Steps : InDegree(graph)[n][t] = 0 /\ \A m \in 0..(n - 1) : InDegree(graph)[m][t] # 0}

Rounds(graph) ==
    LET busy == {n \in 1..Cardinality(Steps) : Queue(graph, n - 1) # {}}
    IN  [n \in 1..Cardinality(busy) |-> Queue(graph, n - 1)]

(* Mutant: edges are taken backwards.                                      *)
LayersBackwards(graph) ==
    LET rounds == Rounds({<<e[2], e[1]>> : e \in graph})
        rest == Steps \ UNION {rounds[n] : n \in DOMAIN rounds}
    IN  IF graph = {} THEN <<Steps>>
        ELSE IF rest = {} THEN rounds ELSE Append(rounds, rest)

(* buildExecutionLayers, and the single layer of a workflow without edges. *)
ExecutionLayers(graph) ==
    LET rounds == Rounds(graph)
        rest == Steps \ UNION {rounds[n] : n \in DOMAIN rounds}
    IN  IF graph = {} THEN <<Steps>>
        ELSE IF rest = {} THEN rounds ELSE Append(rounds, rest)

Attempts(s) == IF OnError[s] = "retry" THEN MaxRetries[s] + 1 ELSE 1

Init ==
    /\ edges \in Graphs
    /\ layers = ExecutionLayers(edges)
    /\ layer = 1
    /\ pc = [s \in Steps |-> IF s \in layers[1] THEN "open" ELSE "waiting"]
    /\ row = [s \in Steps |-> "none"]
    /\ succeeded = [s \in Steps |-> FALSE]
    /\ attempts = [s \in Steps |-> 0]
    /\ live = [s \in Steps |-> 0]
    /\ fatal = {}
    /\ swallowed = {}
    /\ status = "running"
    /\ thrown = FALSE

-------------------------------------------------------------------------------
Goto(s, station) == pc' = [pc EXCEPT ![s] = station]
Write(s, value) == row' = [row EXCEPT ![s] = value]

(* A failed step ends the run, unless it is to be passed over.             *)
Settle(s, failed) ==
    /\ Goto(s, "settled")
    /\ fatal' = IF failed /\ OnError[s] # "continue" THEN fatal \cup {s} ELSE fatal

(* The step throws something that the loop over the layers ignores.        *)
Swallow(s) ==
    /\ Goto(s, "settled")
    /\ swallowed' = swallowed \cup {s}
    /\ UNCHANGED <<row, succeeded, attempts, live, fatal>>

(* createStepRun, outside the step's try.                                  *)
Open(s) ==
    /\ pc[s] = "open"
    /\ \/ /\ Goto(s, "ready")
          /\ Write(s, "running")
          /\ UNCHANGED <<succeeded, attempts, live, fatal, swallowed>>
       \/ /\ "database" \in Faults
          /\ Swallow(s)

(* The step is disabled, or its condition does not hold.                   *)
Skip(s) ==
    /\ pc[s] = "ready"
    /\ Goto(s, "settled")
    /\ Write(s, "skipped")
    /\ UNCHANGED <<succeeded, attempts, live, fatal, swallowed>>

(* The guard against a missing plugin: the step's row is failed and the    *)
(* step returns, whatever its onError says.                                *)
MissingPlugin(s) ==
    /\ s \in Missing
    /\ pc[s] = "ready"
    /\ Goto(s, "settled")
    /\ Write(s, "failed")
    /\ swallowed' = swallowed \cup {s}
    /\ UNCHANGED <<succeeded, attempts, live, fatal>>

(* A database call before or after the plugin's throws.                    *)
Throw(s) ==
    /\ "database" \in Faults
    /\ pc[s] \in {"ready", "record"}
    /\ Goto(s, "catch")
    /\ UNCHANGED <<row, succeeded, attempts, live, fatal, swallowed>>

(* executeStepWithRetry: one attempt, after the context or the back-off.   *)
Invoke(s) ==
    /\ pc[s] \in {"ready", "backoff"}
    /\ Goto(s, "plugin")
    /\ attempts' = [attempts EXCEPT ![s] = @ + 1]
    /\ live' = [live EXCEPT ![s] = @ + 1]
    /\ UNCHANGED <<row, succeeded, fatal, swallowed>>

(* The plugin answers, with success or with failure: no further attempt.   *)
Answer(s, success) ==
    /\ pc[s] = "plugin"
    /\ Goto(s, "record")
    /\ succeeded' = [succeeded EXCEPT ![s] = success]
    /\ live' = [live EXCEPT ![s] = @ - 1]
    /\ UNCHANGED <<row, attempts, fatal, swallowed>>

(* Mutant: one attempt more.                                               *)
NextAttemptAlways(s) == Goto(s, IF attempts[s] <= Attempts(s) THEN "backoff" ELSE "record")

(* executeStepWithRetry: after an attempt that threw.                      *)
NextAttempt(s) == Goto(s, IF attempts[s] < Attempts(s) THEN "backoff" ELSE "record")

(* The call throws, and has ended.                                         *)
Crash(s) ==
    /\ pc[s] = "plugin"
    /\ NextAttempt(s)
    /\ live' = [live EXCEPT ![s] = @ - 1]
    /\ UNCHANGED <<row, succeeded, attempts, fatal, swallowed>>

(* Promise.race is won by the timeout: the call goes on.                   *)
TimeOut(s) ==
    /\ "timeout" \in Faults
    /\ pc[s] = "plugin"
    /\ NextAttempt(s)
    /\ UNCHANGED <<row, succeeded, attempts, live, fatal, swallowed>>

(* A call that nobody waits for ends at last, or never.                    *)
EndLate(s) ==
    /\ live[s] > (IF pc[s] = "plugin" THEN 1 ELSE 0)
    /\ live' = [live EXCEPT ![s] = @ - 1]
    /\ UNCHANGED <<pc, row, succeeded, attempts, fatal, swallowed>>

(* Mutant: every failure is passed over.                                   *)
RecordContinue(s) ==
    /\ pc[s] = "record"
    /\ Settle(s, FALSE)
    /\ Write(s, IF succeeded[s] THEN "completed" ELSE "failed")
    /\ UNCHANGED <<succeeded, attempts, live, swallowed>>

(* completeStepRun or failStepRun.                                         *)
Record(s) ==
    /\ pc[s] = "record"
    /\ Settle(s, ~ succeeded[s])
    /\ Write(s, IF succeeded[s] THEN "completed" ELSE "failed")
    /\ UNCHANGED <<succeeded, attempts, live, swallowed>>

(* The catch of the step: failStepRun, which may throw in its turn.        *)
Catch(s) ==
    /\ pc[s] = "catch"
    /\ \/ /\ Settle(s, TRUE)
          /\ Write(s, "failed")
          /\ UNCHANGED <<succeeded, attempts, live, swallowed>>
       \/ /\ "database" \in Faults
          /\ Swallow(s)

StepMoves(s) ==
    \/ Open(s)   \/ Skip(s)    \/ MissingPlugin(s)  \/ Throw(s)   \/ Invoke(s)
    \/ \E success \in BOOLEAN : Answer(s, success)
    \/ Crash(s)  \/ TimeOut(s) \/ Record(s)         \/ Catch(s)

(* failRun or completeRun. Nothing catches what they throw: the executor   *)
(* is over, and the row stays as it was.                                   *)
EndRun(outcome) ==
    /\ \/ status' = outcome /\ UNCHANGED thrown
       \/ "database" \in Faults /\ thrown' = TRUE /\ UNCHANGED status
    /\ UNCHANGED <<layer, pc>>

NextLayer ==
    /\ layer' = layer + 1
    /\ pc' = [s \in Steps |-> IF s \in layers[layer + 1] THEN "open" ELSE pc[s]]
    /\ UNCHANGED <<status, thrown>>

Over == status # "running" \/ thrown

Advance(settled) ==
    /\ ~ Over
    /\ settled
    /\ IF fatal \cap layers[layer] # {} THEN EndRun("failed")
       ELSE IF layer = Len(layers) THEN EndRun("completed")
       ELSE NextLayer
    /\ UNCHANGED <<edges, layers, row, succeeded, attempts, live, fatal, swallowed>>

Settled == \A s \in layers[layer] : pc[s] = "settled"

(* Mutant: Promise.all, which gives up on the layer at the first failure.  *)
EndLayerEarly == Advance(Settled \/ fatal \cap layers[layer] # {})

(* Mutant: the layer waits for calls that have timed out.                  *)
EndLayerQuiet == Advance(Settled /\ \A s \in Steps : live[s] = 0)

(* Mutant: the failures of a layer are looked for at the end only.         *)
EndLayerHeedless ==
    /\ ~ Over
    /\ Settled
    /\ IF layer = Len(layers)
       THEN EndRun(IF fatal # {} THEN "failed" ELSE "completed")
       ELSE NextLayer
    /\ UNCHANGED <<edges, layers, row, succeeded, attempts, live, fatal, swallowed>>

(* Promise.allSettled, the look for a fatal failure, and the run's end.    *)
EndLayer == Advance(Settled)

Next ==
    \/ \E s \in Steps : (StepMoves(s) \/ EndLate(s)) /\ UNCHANGED <<edges, layers, layer, status, thrown>>
    \/ EndLayer

(* The process lives, the database answers or fails, and a call answers or *)
(* its timer fires.                                                        *)
Fairness ==
    /\ \A s \in Steps : WF_vars(StepMoves(s) /\ UNCHANGED <<edges, layers, layer, status, thrown>>)
    /\ WF_vars(EndLayer)

Spec == Init /\ [][Next]_vars /\ Fairness

-------------------------------------------------------------------------------
TypeOK ==
    /\ edges \in Graphs
    /\ layers \in Seq(SUBSET Steps)
    /\ layer \in DOMAIN layers
    /\ pc \in [Steps -> {"waiting", "open", "ready", "plugin", "backoff", "record",
                         "catch", "settled"}]
    /\ row \in [Steps -> {"none", "running", "completed", "failed", "skipped"}]
    /\ succeeded \in [Steps -> BOOLEAN]
    /\ attempts \in [Steps -> Nat]
    /\ live \in [Steps -> Nat]
    /\ \A s \in Steps : live[s] <= attempts[s] /\ attempts[s] <= Attempts(s)
    /\ fatal \subseteq Steps
    /\ swallowed \subseteq Steps
    /\ status \in {"running", "completed", "failed"}
    /\ thrown \in BOOLEAN

(* A step on a cycle of the graph, or behind one: it belongs to a set of   *)
(* steps each of which has a source in the set.                            *)
Unordered(t) ==
    \E Z \in SUBSET Steps : t \in Z /\ \A u \in Z : \E s \in Z : <<s, u>> \in edges

(* Safety. "Each layer contains step IDs that can run in parallel (all     *)
(* their dependencies are in earlier layers)": a step leaves the line only *)
(* when the steps it depends on are settled, unless there is no such order *)
(* (buildExecutionLayers and the loop over the layers).                    *)
SourcesSettled ==
    \A e \in edges : pc[e[2]] # "waiting" /\ ~ Unordered(e[2]) => pc[e[1]] = "settled"

(* Safety. When the run has its outcome, or the write of it threw, no step *)
(* is under way, and a step that never left the line is one that a failure *)
(* cut off: the run does not count as completed (Promise.allSettled).      *)
OutcomeIsLast ==
    Over =>
        \A s \in Steps : /\ pc[s] \in {"settled", "waiting"}
                         /\ pc[s] = "waiting" => status # "completed" /\ fatal # {}
                         /\ row[s] = "running" => s \in swallowed

(* Safety. Nothing is started once a step has failed for good: the steps   *)
(* of later layers are never run (executeWorkflowInternal, the check after *)
(* each layer).                                                            *)
FailureCutsOff ==
    \A m, n \in DOMAIN layers :
        m < n /\ fatal \cap layers[m] # {} => \A s \in layers[n] : pc[s] = "waiting"

(* Safety. "All steps completed successfully" (executeWorkflowInternal,    *)
(* before completeRun): in a completed run every step is completed,        *)
(* skipped, or failed where failing was allowed. It is so of steps whose   *)
(* plugin was there and whose row could be written; a step without its     *)
(* plugin fails, and the run completes.                                    *)
Done(s) == row[s] \in {"completed", "skipped"} \/ (row[s] = "failed" /\ OnError[s] = "continue")
CompletedMeansDoneIfSeen == status = "completed" => \A s \in Steps \ swallowed : Done(s)

(* Liveness. The run gets its outcome, also when a plugin never answers    *)
(* (the timeout of executeStepWithRetry); or failRun or completeRun threw, *)
(* and the row stays running until WorkflowRuns' Cleanup takes it for an   *)
(* orphan.                                                                 *)
RunEnds == <>(status # "running" \/ thrown)
===============================================================================
