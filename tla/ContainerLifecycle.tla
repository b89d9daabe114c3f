--------------------------- MODULE ContainerLifecycle ---------------------------
(* A workspace: its row in the database, its Docker container, and the        *)
(* operations that move both.  Requests of users, plugin executions and       *)
(* administrators, the periodic health, idle and suspend checks, and the      *)
(* recovery at boot all run in one process, take no lock, and may overlap.    *)
(* Every one reads the row, decides, and then awaits its steps one by one:    *)
(* calls to Docker, and writes of the row by its id, whatever it then holds.  *)
EXTENDS Naturals, Sequences

CONSTANTS
    Actors,       \* operations that may be in flight at once
    MaxRows,      \* bound: rows a user's workspace has in turn
    MaxFails,     \* MAX_HEALTH_FAILURES
    MaxRestarts,  \* maxRestarts of the row
    MaxRequests,  \* bound: operations other than health checks
    MaxFaults,    \* bound: Docker, the agent or a container failing
    MaxCrashes    \* bound: the platform dying

ASSUME LifecycleAssumption ==
    /\ {MaxRows, MaxFails, MaxRestarts, MaxRequests, MaxFaults, MaxCrashes} \subseteq Nat
    /\ MaxFails > 0

VARIABLES
    row,       \* the row of the workspace; id 0 while there is none
    docker,    \* state of the container made for each row
    doing,     \* the operation each actor is in: what it read, and its steps to do
    cooling,   \* a restart is less than RESTART_COOLDOWN ago
    requests, faults, crashes,
    clean      \* no incident or overlap since an operation last settled the row

vars == <<row, docker, doing, cooling, requests, faults, crashes, clean>>

Rows == 1..MaxRows
Transitional == {"CREATING", "STARTING", "STOPPING"}
Statuses == Transitional \cup {"RUNNING", "PAUSED", "STOPPED", "ERROR", "DESTROYED"}

NoRow == [id |-> 0, status |-> "DESTROYED", cid |-> 0, fails |-> 0, restarts |-> 0]

\* The steps of each operation, in the order it awaits them.
StartSteps == <<"markStarting", "start", "bridge", "ports", "markRunning">>
AutoStartSteps == StartSteps \o <<"client">>
CreateSteps == <<"insert", "create", "markCreated", "start", "bridge", "ports", "markUp", "client">>
RestartSteps == <<"markRestarting", "stop", "start", "ports", "markUp">>
StopSteps == <<"markStopping", "stop", "markStopped">>
\* Mutant: a destruction that stops the container and does not remove it.
DestroyStepsOnlyStop == <<"stop", "markDestroyed">>
DestroySteps == <<"remove", "markDestroyed">>
ForceStopSteps == <<"kill", "markStopped">>
SuspendSteps == <<"pause", "markPaused">>
ResumeSteps == <<"unpause", "markResumed">>
SweepSteps == <<"remove", "markStopped">>

\* The status a step writes; the two last ones leave the status alone.
StatusOf ==
    [markStarting |-> "STARTING", markCreated |-> "STARTING", markRestarting |-> "STARTING",
     markRunning |-> "RUNNING", markUp |-> "RUNNING", markResumed |-> "RUNNING",
     markStopping |-> "STOPPING", markStopped |-> "STOPPED", markPaused |-> "PAUSED",
     markDestroyed |-> "DESTROYED", markError |-> "ERROR", giveUp |-> "ERROR",
     markUnreachable |-> "STOPPED",
     markFailed |-> "kept", markHealthy |-> "kept"]

DockerCalls == {"start", "stop", "kill", "pause", "unpause", "remove"}
\* Calls whose caller swallows every error.
Swallowed == {"kill", "remove"}

Idle == [steps |-> << >>, id |-> 0, cid |-> 0, fails |-> 0, restarts |-> 0,
         onThrow |-> "none", solo |-> FALSE]

Init ==
    /\ row = NoRow
    /\ docker = [i \in Rows |-> "absent"]
    /\ doing = [a \in Actors |-> Idle]
    /\ cooling = FALSE
    /\ requests = 0 /\ faults = 0 /\ crashes = 0
    /\ clean = TRUE

Free(a) == doing[a].steps = << >>
Quiet == \A a \in Actors : Free(a)

------------------------------------------------------------------------------
(* An operation begins by reading the row.                                    *)

\* The operation that read the row as it is now.
Reading(steps, onThrow, solo) ==
    [Idle EXCEPT !.steps = steps, !.id = row.id, !.cid = row.cid,
                 !.onThrow = onThrow, !.solo = solo]

\* No operation in flight is alone any more.
Joined == [b \in Actors |-> IF Free(b) THEN doing[b] ELSE [doing[b] EXCEPT !.solo = FALSE]]

Take(a, op) ==
    /\ Free(a)
    /\ doing' = [Joined EXCEPT ![a] = op]
    /\ clean' = (clean /\ Quiet)
    /\ UNCHANGED <<row, docker, cooling, faults, crashes>>

Request(a, steps, onThrow) ==
    /\ requests < MaxRequests
    /\ requests' = requests + 1
    /\ Take(a, Reading(steps, onThrow, Quiet))

\* createWorkspace, when the user has no workspace; with a stopped one it
\* starts that, with a live one it answers at once.
Create(a) ==
    /\ row.status = "DESTROYED"
    /\ Request(a, CreateSteps, "markError")

\* startWorkspace: any row with a container that is not RUNNING.
Start(a) ==
    /\ row.id # 0 /\ row.status # "RUNNING" /\ row.cid # 0
    /\ Request(a, StartSteps, "markError")

\* autoStartContainer, for a plugin execution that found the row STOPPED.
AutoStart(a) ==
    /\ row.status = "STOPPED" /\ row.cid # 0
    /\ Request(a, AutoStartSteps, "markError")

\* stopWorkspace: any row with a container that is not STOPPED.
Stop(a) ==
    /\ row.id # 0 /\ row.status # "STOPPED" /\ row.cid # 0
    /\ Request(a, StopSteps, "markError")

\* destroyWorkspace.
Destroy(a) ==
    /\ row.id # 0
    /\ Request(a, IF row.cid = 0 THEN <<"markDestroyed">> ELSE DestroySteps, "none")

\* adminForceStop.
ForceStop(a) ==
    /\ row.id # 0
    /\ Request(a, IF row.cid = 0 THEN <<"markStopped">> ELSE ForceStopSteps, "none")

\* runIdleChecks and stopIdleContainer, for a row idle too long.
IdleStop(a) ==
    /\ row.status = "RUNNING" /\ row.cid # 0
    /\ Request(a, StopSteps, "markError")

\* runSuspendChecks: its errors are only logged.
Suspend(a) ==
    /\ row.status = "RUNNING" /\ row.cid # 0
    /\ Request(a, SuspendSteps, "none")

\* ensureRunning, before a call to the bridge.
Resume(a) ==
    /\ row.status = "PAUSED" /\ row.cid # 0
    /\ Request(a, ResumeSteps, "none")

\* runHealthChecks: a round reads the RUNNING rows; nothing stops two rounds
\* from overlapping.
HealthCheck(a) ==
    /\ row.status = "RUNNING" /\ row.cid # 0
    /\ Take(a, [Reading(<<"inspect">>, "none", Quiet) EXCEPT !.fails = row.fails,
                                                            !.restarts = row.restarts])
    /\ UNCHANGED requests

\* The platform dies, and all that was in flight with it.  At boot
\* reconnectRunningContainers reads the RUNNING rows; cleanupStaleContainers the
\* transitional ones, if the platform was down for five minutes.
Recovery ==
    IF row.status = "RUNNING" THEN {Reading(<<"verify">>, "markUnreachable", TRUE)}
    ELSE IF row.status \in Transitional
    THEN {Idle, Reading(IF row.cid = 0 THEN <<"markStopped">> ELSE SweepSteps, "none", TRUE)}
    ELSE {Idle}

Crash ==
    /\ crashes < MaxCrashes
    /\ crashes' = crashes + 1
    /\ \E a \in Actors, op \in Recovery : doing' = [[b \in Actors |-> Idle] EXCEPT ![a] = op]
    /\ cooling' = FALSE
    /\ clean' = FALSE
    /\ UNCHANGED <<row, docker, requests, faults>>

------------------------------------------------------------------------------
(* The steps of an operation in flight.                                       *)

Step(a) == Head(doing[a].steps)
ContainerOf(a) == IF doing[a].cid = 0 THEN "absent" ELSE docker[doing[a].cid]

\* Actor a goes on with the given steps.  An operation that ran alone and
\* without incident, and settled the row, makes it clean.
Proceed(a, steps) ==
    /\ doing' = [doing EXCEPT ![a] = IF steps = << >> THEN Idle ELSE [@ EXCEPT !.steps = steps]]
    /\ UNCHANGED <<requests, crashes>>
GoOn(a) == Proceed(a, Tail(doing[a].steps))

\* An exception: the operation's catch writes its status, or there is none.
Throw(a) ==
    Proceed(a, IF doing[a].onThrow = "none" \/ doing[a].steps = <<doing[a].onThrow>>
               THEN << >> ELSE <<doing[a].onThrow>>)

\* Steps that settle the row: the operation has just moved the container to
\* where the status says, or says ERROR.
Settling == {"markRunning", "markUp", "markStopped", "markDestroyed", "markError"}

\* A step writes the row, by id: it throws, twice, if the row is gone.
Updated(a) ==
    LET step == Step(a)
        to == StatusOf[step]
    IN [row EXCEPT !.status = IF to = "kept" THEN @ ELSE to,
                   !.cid = IF step = "markCreated" THEN doing[a].cid ELSE @,
                   !.fails = CASE step \in {"markRunning", "markUp", "markRestarting", "markHealthy"} -> 0
                               [] step \in {"markFailed", "giveUp"} -> doing[a].fails + 1
                               [] OTHER -> @,
                   !.restarts = CASE step = "markRunning" -> 0
                                  [] step = "markRestarting" -> doing[a].restarts + 1
                                  [] OTHER -> @]

Write(a) ==
    /\ Step(a) \in DOMAIN StatusOf
    /\ IF row.id = doing[a].id
       THEN /\ row' = Updated(a)
            /\ clean' = (clean \/ (doing[a].solo /\ Step(a) \in Settling))
            /\ GoOn(a)
       ELSE /\ Proceed(a, << >>)
            /\ UNCHANGED <<row, clean>>
    /\ UNCHANGED <<docker, cooling, faults>>

\* The insert deletes a DESTROYED row of the same container name; the unique
\* name refuses a second live one.
Insert(a) ==
    /\ Step(a) = "insert"
    /\ IF row.status = "DESTROYED" /\ row.id < MaxRows
       THEN /\ row' = [NoRow EXCEPT !.id = row.id + 1, !.status = "CREATING"]
            /\ doing' = [doing EXCEPT ![a].steps = Tail(@), ![a].id = row.id + 1]
            /\ UNCHANGED <<requests, crashes>>
       ELSE Proceed(a, << >>) /\ UNCHANGED row
    /\ UNCHANGED <<docker, cooling, faults, clean>>

\* docker create: the name of a container is taken while one of it exists.
CreateContainer(a) ==
    /\ Step(a) = "create"
    /\ IF \A i \in Rows : docker[i] = "absent"
       THEN /\ docker' = [docker EXCEPT ![doing[a].id] = "exited"]
            /\ doing' = [doing EXCEPT ![a].steps = Tail(@), ![a].cid = doing[a].id]
            /\ UNCHANGED <<requests, crashes>>
       ELSE Throw(a) /\ UNCHANGED docker
    /\ UNCHANGED <<row, cooling, faults, clean>>

\* What a Docker call makes of a container, and which ones it refuses; "already
\* running", "not running" and "not paused" are no errors to the callers.
After(call, was) ==
    CASE call = "start" -> "running"
      [] call \in {"stop", "kill"} -> "exited"
      [] call = "pause" -> IF was = "running" THEN "paused" ELSE was
      [] call = "unpause" -> IF was = "paused" THEN "running" ELSE was
      [] call = "remove" -> "absent"

Refuses(call, was) == was = "absent" \/ (call = "start" /\ was = "paused")

Refused(a) == IF Step(a) \in Swallowed THEN GoOn(a) ELSE Throw(a)

DockerCall(a) ==
    /\ Step(a) \in DockerCalls
    /\ IF Refuses(Step(a), ContainerOf(a))
       THEN Refused(a) /\ UNCHANGED docker
       ELSE /\ docker' = [docker EXCEPT ![doing[a].cid] = After(Step(a), @)]
            /\ GoOn(a)
    /\ UNCHANGED <<row, cooling, faults, clean>>

\* getBridgePort and inspectContainer, getClient, and the wait for the agent.
Ports(a) ==
    /\ Step(a) = "ports"
    /\ IF ContainerOf(a) = "absent" THEN Throw(a) ELSE GoOn(a)
    /\ UNCHANGED <<row, docker, cooling, faults, clean>>

Reach(a) ==
    /\ Step(a) \in {"bridge", "client"}
    /\ IF ContainerOf(a) = "running" THEN GoOn(a) ELSE Throw(a)
    /\ UNCHANGED <<row, docker, cooling, faults, clean>>

\* A call fails though nothing above makes it: with or without its effect.
Fault(a) ==
    /\ faults < MaxFaults
    /\ faults' = faults + 1
    /\ Step(a) \in DockerCalls \cup {"create", "bridge", "ports", "client", "verify"}
    /\ IF Step(a) \in DockerCalls /\ ~Refuses(Step(a), ContainerOf(a))
       THEN \/ UNCHANGED docker
            \/ docker' = [docker EXCEPT ![doing[a].cid] = After(Step(a), @)]
       ELSE UNCHANGED docker
    /\ doing' = [doing EXCEPT ![a] =
                   LET rest == IF Step(a) \in Swallowed THEN Tail(@.steps)
                               ELSE IF @.onThrow = "none" THEN << >> ELSE <<@.onThrow>>
                   IN IF rest = << >> THEN Idle ELSE [@ EXCEPT !.steps = rest, !.solo = FALSE]]
    /\ clean' = FALSE
    /\ UNCHANGED <<row, cooling, requests, crashes>>

\* reconnectRunningContainers, after the inspection.
Verify(a) ==
    /\ Step(a) = "verify"
    /\ CASE ContainerOf(a) = "absent" -> Throw(a)
         [] ContainerOf(a) = "exited" -> Proceed(a, <<"markStopped">>)
         [] OTHER -> Proceed(a, <<"client">>)
    /\ UNCHANGED <<row, docker, cooling, faults, clean>>

UnhealthyOnlyLogs(a) ==  \* Mutant: out of restarts, it leaves the row alone.
    IF doing[a].fails + 1 < MaxFails
    THEN Proceed(a, <<"markFailed">>) /\ UNCHANGED cooling
    ELSE IF doing[a].restarts < MaxRestarts /\ ~cooling
    THEN /\ doing' = [doing EXCEPT ![a].steps = RestartSteps, ![a].onThrow = "markError"]
         /\ cooling' = TRUE
         /\ UNCHANGED <<requests, crashes>>
    ELSE Proceed(a, << >>) /\ UNCHANGED cooling

\* handleUnhealthy: one more failed check; at the limit restart the container,
\* or give it up when its restarts are used up or one was made just now.
Unhealthy(a) ==
    IF doing[a].fails + 1 < MaxFails
    THEN Proceed(a, <<"markFailed">>) /\ UNCHANGED cooling
    ELSE IF doing[a].restarts < MaxRestarts /\ ~cooling
    THEN /\ doing' = [doing EXCEPT ![a].steps = RestartSteps, ![a].onThrow = "markError"]
         /\ cooling' = TRUE
         /\ UNCHANGED <<requests, crashes>>
    ELSE Proceed(a, <<"giveUp">>) /\ UNCHANGED cooling

Healthy(a) ==
    /\ Proceed(a, IF doing[a].fails > 0 THEN <<"markHealthy">> ELSE << >>)
    /\ UNCHANGED cooling

\* checkContainerHealth: a container that runs, or is paused, is healthy unless
\* its agent says otherwise.
Inspect(a) ==
    /\ Step(a) = "inspect"
    /\ IF ContainerOf(a) \in {"running", "paused"} THEN Healthy(a) ELSE Unhealthy(a)
    /\ UNCHANGED <<row, docker, faults, clean>>

InspectFault(a) ==
    /\ Step(a) = "inspect"
    /\ faults < MaxFaults
    /\ faults' = faults + 1
    /\ Unhealthy(a)
    /\ UNCHANGED <<row, docker, clean>>

Work(a) ==
    /\ ~Free(a)
    /\ \/ Write(a) \/ Insert(a) \/ CreateContainer(a) \/ DockerCall(a)
       \/ Ports(a) \/ Reach(a) \/ Verify(a) \/ Inspect(a)

\* The container exits on its own.
ContainerDies ==
    /\ faults < MaxFaults
    /\ faults' = faults + 1
    /\ \E i \in Rows : docker[i] = "running" /\ docker' = [docker EXCEPT ![i] = "exited"]
    /\ doing' = Joined
    /\ clean' = FALSE
    /\ UNCHANGED <<row, cooling, requests, crashes>>

CoolOff ==
    /\ cooling
    /\ cooling' = FALSE
    /\ UNCHANGED <<row, docker, doing, requests, faults, crashes, clean>>

Ask(a) ==
    \/ Create(a) \/ Start(a) \/ AutoStart(a) \/ Stop(a) \/ Destroy(a)
    \/ ForceStop(a) \/ IdleStop(a) \/ Suspend(a) \/ Resume(a)

Next ==
    \/ \E a \in Actors : Ask(a) \/ HealthCheck(a) \/ Work(a)
                         \/ (~Free(a) /\ (Fault(a) \/ InspectFault(a)))
    \/ Crash \/ ContainerDies \/ CoolOff

Spec == Init /\ [][Next]_vars

\* A call ends, with an answer or an error; the health interval goes on firing.
Fairness ==
    /\ \A a \in Actors : WF_vars(Work(a))
    /\ WF_vars(\E a \in Actors : HealthCheck(a))

FairSpec == Spec /\ Fairness

------------------------------------------------------------------------------
(* Properties.                                                                *)

Operations ==
    [steps : Seq(DOMAIN StatusOf \cup DockerCalls
                 \cup {"insert", "create", "bridge", "ports", "client", "verify", "inspect"}),
     id : 0..MaxRows, cid : 0..MaxRows, fails : Nat, restarts : 0..MaxRestarts,
     onThrow : {"none", "markError", "markUnreachable"}, solo : BOOLEAN]

\* The variables have their types; among them, no interleaving of health checks
\* counts more restarts of a container than maxRestarts allows.
TypeOK ==
    /\ row \in [id : 0..MaxRows, status : Statuses, cid : 0..MaxRows,
                fails : Nat, restarts : 0..MaxRestarts]
    /\ docker \in [Rows -> {"absent", "exited", "running", "paused"}]
    /\ doing \in [Actors -> Operations]
    /\ cooling \in BOOLEAN /\ clean \in BOOLEAN
    /\ requests \in 0..MaxRequests /\ faults \in 0..MaxFaults /\ crashes \in 0..MaxCrashes

\* What the status of a row says of its container.
Agrees ==
    row.cid # 0 =>
        LET state == docker[row.cid]
        IN /\ row.status = "RUNNING" => state = "running"
           /\ row.status = "PAUSED" => state = "paused"
           /\ row.status = "STOPPED" => state \in {"exited", "absent"}
           /\ row.status = "DESTROYED" => state = "absent"

\* Whatever crashes, faults and overlapping operations have done to a workspace,
\* a start, stop, restart or destruction that then runs alone and undisturbed
\* leaves a row that tells the truth about the container, and it stays true
\* until operations overlap or something fails again.
AloneTellsTheTruth == clean /\ Quiet => Agrees

\* A row that says RUNNING while its container does not run is found out by the
\* health checks, though overlapping rounds write each other's failure counts
\* from stale reads.
DeadIsNoticed ==
    (row.status = "RUNNING" /\ row.cid # 0 /\ docker[row.cid] = "exited") ~>
    ~(row.status = "RUNNING" /\ row.cid # 0 /\ docker[row.cid] = "exited")
================================================================================
