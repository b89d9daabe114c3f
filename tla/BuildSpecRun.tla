----------------------------- MODULE BuildSpecRun -----------------------------
(***************************************************************************)
(* An asynchronous apply of a build spec: the row of the run, its job in   *)
(* the queue, and the workers that may get the job, more than once.        *)
(*                                                                         *)
(* The queue (BullMQ) is external: it gives a job to a worker under a lock *)
(* that the worker's process renews. When the lock lapses, because the     *)
(* process died or was too busy to renew it, the job is stalled: it is     *)
(* given out again, MaxStalls times, and then failed. Jobs have one        *)
(* attempt, the default of defaultJobOptions.                              *)
(***************************************************************************)
EXTENDS BuildSpecApply

CONSTANT MaxStalls   \* how often the queue gives a stalled job out again

ASSUME MaxStallsAssumption == MaxStalls \in Nat

VARIABLES
    run,       \* the status of the BuildSpecRun row
    job,       \* the job of the run in the queue
    worker,    \* worker[a]: where the worker of attempt a stands
    overlap    \* history: a job was given out while its worker was alive

vars == <<applyVars, run, job, worker, overlap>>

Ended == {"APPLIED", "ROLLED_BACK", "VALIDATION_FAILED", "FAILED"}
Statuses == {"none", "QUEUED", "RUNNING"} \cup Ended
WorkerPcs == {"idle", "marking", "applying", "failing",
              "completed", "failed", "done", "dead"}

NoJob == [state |-> "none", by |-> None, stalls |-> 0]

Init ==
    /\ ApplyInit
    /\ run = "none"
    /\ job = NoJob
    /\ worker = [a \in Attempts |-> "idle"]
    /\ overlap = FALSE

(***************************************************************************)
(* The request                                                             *)
(***************************************************************************)
(* POST /apply/async inserts the row and then adds the job: two awaits, so *)
(* a request that dies in between leaves a row without a job.              *)
CreateQueuedRun ==
    /\ run = "none"
    /\ run' = "QUEUED"
    /\ UNCHANGED <<applyVars, job, worker, overlap>>

(* The job's id is made of the run's id: adding it again does nothing.     *)
Enqueue ==
    /\ run = "QUEUED" /\ job.state = "none"
    /\ job' = [job EXCEPT !.state = "waiting"]
    /\ UNCHANGED <<applyVars, run, worker, overlap>>

(***************************************************************************)
(* The worker                                                              *)
(***************************************************************************)
Holds(a) == job.state = "active" /\ job.by = a
Go(a, pc) == worker' = [worker EXCEPT ![a] = pc]

(* Mutant: the worker does not ask whether the run has ended.              *)
PickAlways(a) ==
    /\ job.state = "waiting" /\ worker[a] = "idle"
    /\ job' = [job EXCEPT !.state = "active", !.by = a]
    /\ Go(a, "marking")
    /\ UNCHANGED <<applyVars, run, overlap>>

(* Mutant: the worker also leaves a run alone that is RUNNING.             *)
PickQueuedOnly(a) ==
    /\ job.state = "waiting" /\ worker[a] = "idle"
    /\ job' = [job EXCEPT !.state = "active", !.by = a]
    /\ Go(a, IF run # "QUEUED" THEN "completed" ELSE "marking")
    /\ UNCHANGED <<applyVars, run, overlap>>

(* The worker gets the job and reads the row: of an ended run nothing is   *)
(* applied again.                                                          *)
Pick(a) ==
    /\ job.state = "waiting" /\ worker[a] = "idle"
    /\ job' = [job EXCEPT !.state = "active", !.by = a]
    /\ Go(a, IF run \in Ended THEN "completed" ELSE "marking")
    /\ UNCHANGED <<applyVars, run, overlap>>

(* An update of the run's row throws.                                      *)
RecordThrows(a) ==
    /\ Strikes("record")
    /\ Become(a, [try[a] EXCEPT !.hurt = TRUE])
    /\ UNCHANGED <<spec, db, active>>

(* RUNNING is written whatever the row has become since it was read, and   *)
(* applyBuildSpec is called.                                               *)
MarkRunRunning(a) ==
    /\ worker[a] = "marking"
    /\ \/ /\ run' = "RUNNING"
          /\ Begin(a)
          /\ Go(a, "applying")
       \/ /\ RecordThrows(a)      \* outside the try of the worker
          /\ Go(a, "failed")
          /\ UNCHANGED run
    /\ UNCHANGED <<job, overlap>>

WorkApply(a) ==
    /\ worker[a] = "applying"
    /\ ApplyStep(a)
    /\ UNCHANGED <<run, job, worker, overlap>>

(* Mutant: only a validation failure is told from success.                 *)
StatusIgnoresRollback(end) ==
    IF end = "validation-failed" THEN "VALIDATION_FAILED" ELSE "APPLIED"

StatusForResult(end) ==
    CASE end = "applied" -> "APPLIED"
      [] end = "rolled-back" -> "ROLLED_BACK"
      [] end = "validation-failed" -> "VALIDATION_FAILED"

Returned(a) == worker[a] = "applying" /\ try[a].pc = "ended"

CompleteRun(a) ==
    /\ Returned(a) /\ try[a].end # "threw"
    /\ \/ /\ run' = StatusForResult(try[a].end)
          /\ Go(a, "completed")
          /\ UNCHANGED applyVars
       \/ /\ RecordThrows(a)      \* inside the try
          /\ Go(a, "failing")
          /\ UNCHANGED run
    /\ UNCHANGED <<job, overlap>>

(* The job fails with the error, or with that of the update.               *)
FailRun(a) ==
    /\ \/ worker[a] = "failing"
       \/ Returned(a) /\ try[a].end = "threw"
    /\ \/ run' = "FAILED" /\ UNCHANGED applyVars
       \/ RecordThrows(a) /\ UNCHANGED run
    /\ Go(a, "failed")
    /\ UNCHANGED <<job, overlap>>

(* The queue learns how the job ended, from a worker that still has it.    *)
Acknowledge(a) ==
    /\ worker[a] \in {"completed", "failed"}
    /\ job' = IF Holds(a) THEN [job EXCEPT !.state = worker[a], !.by = None] ELSE job
    /\ Go(a, "done")
    /\ UNCHANGED <<applyVars, run, overlap>>

(***************************************************************************)
(* Faults                                                                  *)
(***************************************************************************)
WorkerDies(a) ==
    /\ "die" \in Faults
    /\ worker[a] \notin {"idle", "done", "dead"}
    /\ Go(a, "dead")
    /\ \/ Die(a)
       \/ try[a].pc \notin {"apply", "undo"} /\ UNCHANGED applyVars
    /\ UNCHANGED <<run, job, overlap>>

Alive(a) == worker[a] \notin {"idle", "done", "dead"}

(* The lock lapses.                                                        *)
Stall(a) ==
    /\ Holds(a)
    /\ worker[a] = "dead" \/ "stall" \in Faults
    /\ job' = IF job.stalls < MaxStalls
              THEN [state |-> "waiting", by |-> None, stalls |-> job.stalls + 1]
              ELSE [job EXCEPT !.state = "failed", !.by = None]
    /\ overlap' = (overlap \/ Alive(a))
    /\ UNCHANGED <<applyVars, run, worker>>

(* A worker that has a job does one thing at a time.                       *)
Work(a) ==
    \/ MarkRunRunning(a) \/ WorkApply(a) \/ CompleteRun(a)
    \/ FailRun(a) \/ Acknowledge(a)

Next ==
    \/ CreateQueuedRun
    \/ Enqueue
    \/ \E a \in Attempts : Pick(a) \/ Work(a) \/ WorkerDies(a) \/ Stall(a)

Spec == Init /\ [][Next]_vars

(* A worker's process goes on until it dies; the queue hands out a waiting *)
(* job and notices a dead worker. Which worker gets a job is its choice.   *)
Fairness ==
    /\ \A a \in Attempts : WF_vars(Work(a))
    /\ WF_vars(\E a \in Attempts : Pick(a))
    /\ WF_vars(\E a \in Attempts : worker[a] = "dead" /\ Stall(a))

FairSpec == Spec /\ Fairness

(***************************************************************************)
(* Properties                                                              *)
(***************************************************************************)
JobStates == {"none", "waiting", "active", "completed", "failed"}

TypeOK ==
    /\ ApplyTypeOK
    /\ run \in Statuses
    /\ job \in [state: JobStates, by: Attempts \cup {None}, stalls: 0..MaxStalls]
    /\ worker \in [Attempts -> WorkerPcs]
    /\ overlap \in BOOLEAN

(* Of a run that ended no worker reports another outcome, and none applies *)
(* it again, as long as every worker that lost the job is dead.            *)
EndedIsFinal == [][~overlap /\ run \in Ended => run' = run /\ try' = try]_vars

(* The status a user reads is what happened. APPLIED and ROLLED_BACK are   *)
(* the outcome of an attempt. If one attempt alone had the run, APPLIED    *)
(* means that all it made is there, and any other end that nothing is but  *)
(* perhaps a default project.                                              *)
Alone(a) == try[a] # Untried /\ \A b \in Attempts \ {a} : try[b] = Untried
StatusIsTrue ==
    /\ run = "APPLIED" => \E a \in Attempts : try[a].end = "applied"
    /\ run = "ROLLED_BACK" => \E a \in Attempts : try[a].end = "rolled-back"
    /\ \A a \in Attempts : Alone(a) =>
           /\ run = "APPLIED" => try[a].made \subseteq DOMAIN db
           /\ run \in Ended \ {"APPLIED"} /\ ~try[a].hurt
                  => LeftBy(a) = {}

(* A run with a job ends, or the queue has given its job up: also when a   *)
(* worker dies.                                                            *)
RunEnds == job.state = "waiting" ~> (run \in Ended \/ job.state = "failed")
==============================================================================
