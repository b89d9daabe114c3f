------------------------------ MODULE ScheduleTick ------------------------------
(***************************************************************************)
(* Schedules that start workflows: every replica's timer tries to take a   *)
(* lock in Redis, and the one that gets it fires the schedules that are    *)
(* due, one after the other, while users go on editing them.               *)
(*                                                                         *)
(* A firing runs its workflow inside the tick, which may therefore outlive *)
(* the lock's time to live.  A run is known by its key, the schedule and   *)
(* the time it was due; how executeWorkflow stores keys is the subject of  *)
(* WorkflowRuns, here a run stores its key when it ends, or not at all.    *)
(* Time is a counter, and a cron expression the period of its firings.     *)
(* An edit reads the row and then updates the fields of its patch: its     *)
(* transaction (READ COMMITTED) takes no lock in between.                  *)
(***************************************************************************)
EXTENDS Naturals, FiniteSets

CONSTANTS
    Schedules,
    Replicas,
    Editors,     \* calls of updateScheduleSidecar in flight at once
    Nobody,      \* the holder of the free lock
    Never,       \* nextFireAt of a disabled schedule: null
    Crons,       \* periods
    FirstCron,   \* FirstCron[s]: what schedule s was created with
    MaxBatch,    \* take: 500
    MaxTime,     \* bound: the time at which the clock stops
    Edited,      \* bound: the schedules that users edit
    Given,       \* bound: the fields that a patch gives
    MaxEdits,    \* bound: edits by users
    MaxFaults    \* bound: deaths, lapses of a lock in use, failed or late updates

ASSUME ReplicasAssumption == IsFiniteSet(Replicas) /\ Nobody \notin Replicas
ASSUME NeverAssumption == Never \notin Nat \cup Schedules
ASSUME CronsAssumption == Crons \subseteq Nat \ {0} /\ FirstCron \in [Schedules -> Crons]
ASSUME BoundsAssumption ==
    /\ Edited \subseteq Schedules /\ Given \subseteq SUBSET {"cron", "enabled"}
    /\ {MaxBatch, MaxTime, MaxEdits, MaxFaults} \subseteq Nat

VARIABLES
    now,         \* the time
    row,         \* the schedules, each with the status of its resource
    lock,        \* the replica whose token Redis holds
    tick,        \* tick[r]: where replica r's tick stands
    stored,      \* the keys of the runs that ended well
    runs,        \* history: how many runs each key has had
    editor,      \* editor[e]: the update that an edit is about to make
    edits,       \* how many edits there have been
    faults,      \* how many faults
    overtaken,   \* history: schedules edited while a tick had read them
    contested    \* history: schedules edited while another edit had read them

editing == <<editor, edits>>
history == <<overtaken, contested>>
vars == <<now, row, lock, tick, stored, runs, editing, faults, history>>

Times == 0..MaxTime
Key(s, due) == [schedule |-> s, due |-> due]
Keys == [schedule : Schedules, due : Times]

\* computeNextFireAt: the first firing after a time.
NextFireAt(cron, from) == cron * (from \div cron + 1)

Reads == [schedule : Schedules, due : Times, cron : Crons]
Row == [cron : Crons, enabled : BOOLEAN, active : BOOLEAN, next : Nat \cup {Never}]

\* An update of a schedule: the fields it sets, and what it takes them to become.
Fields == {"cron", "enabled", "next"}
Patch == [schedule : Schedules, sets : SUBSET Fields, cron : Crons, enabled : BOOLEAN,
          next : Nat \cup {Never}]
NoPatch == [schedule |-> Never, sets |-> {}, cron |-> 0, enabled |-> FALSE, next |-> Never]

Nothing == [schedule |-> Never, due |-> 0, cron |-> 0]
Idle == [pc |-> "idle", at |-> 0, todo |-> {}, row |-> Nothing]

Init ==
    /\ now = 0
    /\ row = [s \in Schedules |-> [cron |-> FirstCron[s], enabled |-> TRUE, active |-> TRUE,
                                   next |-> NextFireAt(FirstCron[s], 0)]]
    /\ lock = Nobody
    /\ tick = [r \in Replicas |-> Idle]
    /\ stored = {}
    /\ runs = [k \in Keys |-> 0]
    /\ editor = [e \in Editors |-> NoPatch]
    /\ edits = 0 /\ faults = 0
    /\ overtaken = {} /\ contested = {}

Fault == faults < MaxFaults /\ faults' = faults + 1

Due(s) == row[s].enabled /\ row[s].active /\ row[s].next # Never /\ row[s].next <= now

-------------------------------------------------------------------------------
(* The tick.                                                               *)

\* What a tick has read of a schedule.
Read(s) == [schedule |-> s, due |-> row[s].next, cron |-> row[s].cron]

\* findMany: the due schedules, or MaxBatch of them.
Batches ==
    LET due == {s \in Schedules : Due(s)}
    IN {batch \in SUBSET due : Cardinality(batch) = MaxBatch \/ (Cardinality(batch) < MaxBatch /\ batch = due)}

BeginAnyway(r) ==  \* Mutant: a replica that does not get the lock ticks all the same.
    /\ tick[r].pc = "idle"
    /\ lock' = IF lock = Nobody THEN r ELSE lock
    /\ \E batch \in Batches \ {{}} :
          tick' = [tick EXCEPT ![r] = [@ EXCEPT !.pc = "next", !.at = now, !.todo = {Read(s) : s \in batch}]]
    /\ UNCHANGED <<now, row, stored, runs, editing, faults, history>>

\* tick, one at a time in each replica, and of all replicas the one that gets
\* the lock; what it finds.  A tick that finds nothing is left out.
Begin(r) ==
    /\ tick[r].pc = "idle" /\ lock = Nobody
    /\ lock' = r
    /\ \E batch \in Batches \ {{}} :
          tick' = [tick EXCEPT ![r] = [@ EXCEPT !.pc = "next", !.at = now, !.todo = {Read(s) : s \in batch}]]
    /\ UNCHANGED <<now, row, stored, runs, editing, faults, history>>

KeyOf(j) == Key(j.schedule, j.due)
AtRow(r, j, pc) ==
    tick' = [tick EXCEPT ![r] = [@ EXCEPT !.pc = pc, !.row = j, !.todo = tick[r].todo \ {j}]]

FireOnlyAdvancesFired(r) ==  \* Mutant: a schedule whose workflow is refused is not advanced.
    /\ tick[r].pc = "next"
    /\ \E j \in tick[r].todo :
          \/ KeyOf(j) \in stored /\ AtRow(r, j, "update") /\ UNCHANGED runs
          \/ /\ KeyOf(j) \notin stored
             /\ runs' = [runs EXCEPT ![KeyOf(j)] = @ + 1]
             /\ AtRow(r, j, "running")
          \/ tick' = [tick EXCEPT ![r].todo = @ \ {j}] /\ UNCHANGED runs
    /\ UNCHANGED <<now, row, lock, stored, editing, faults, history>>

\* executeWorkflow for the next row, in whatever order they came: a key that is
\* stored is answered with its run; else a run begins, or the workflow is
\* refused or not there, which is only logged.
Fire(r) ==
    /\ tick[r].pc = "next"
    /\ \E j \in tick[r].todo :
          \/ /\ KeyOf(j) \notin stored
             /\ runs' = [runs EXCEPT ![KeyOf(j)] = @ + 1]
             /\ AtRow(r, j, "running")
          \/ AtRow(r, j, "update") /\ UNCHANGED runs
    /\ UNCHANGED <<now, row, lock, stored, editing, faults, history>>

\* The run ends, or throws and its key is not stored.
Ran(r) ==
    /\ tick[r].pc = "running"
    /\ tick' = [tick EXCEPT ![r].pc = "update"]
    /\ \/ stored' = stored \cup {KeyOf(tick[r].row)}
       \/ UNCHANGED stored
    /\ UNCHANGED <<now, row, lock, runs, editing, faults, history>>

Done(r) == tick' = [tick EXCEPT ![r].pc = "next", ![r].row = Nothing]

\* The row is advanced from the time of the tick and the cron that it read.
Update(r) ==
    /\ tick[r].pc = "update"
    /\ LET j == tick[r].row
       IN row' = [row EXCEPT ![j.schedule].next = NextFireAt(j.cron, tick[r].at)]
    /\ Done(r)
    /\ UNCHANGED <<now, lock, stored, runs, editing, faults, history>>

\* An exception of a row leaves it as it is.
UpdateThrows(r) ==
    /\ Fault
    /\ tick[r].pc = "update"
    /\ Done(r)
    /\ UNCHANGED <<now, row, lock, stored, runs, editing, history>>

\* The end of the batch: a lock that is no longer this replica's is left alone.
Release(r) ==
    /\ tick[r].pc = "next" /\ tick[r].todo = {}
    /\ tick' = [tick EXCEPT ![r] = Idle]
    /\ lock' = IF lock = r THEN Nobody ELSE lock
    /\ UNCHANGED <<now, row, stored, runs, editing, faults, history>>

-------------------------------------------------------------------------------
(* Users.                                                                  *)

NextOf(cron, enabled) == IF enabled THEN NextFireAt(cron, now) ELSE Never

ReadToEditKeepsNext(e, s, given, cron, enabled) ==  \* Mutant: a new cron takes effect after the next firing.
    /\ edits < MaxEdits
    /\ editor[e] = NoPatch
    /\ LET c == IF "cron" \in given THEN cron ELSE row[s].cron
           on == IF "enabled" \in given THEN enabled ELSE row[s].enabled
           moved == IF on # row[s].enabled THEN {"next"} ELSE {}
       IN editor' = [editor EXCEPT ![e] = [schedule |-> s, sets |-> given \cup moved, cron |-> c,
                                           enabled |-> on, next |-> NextOf(c, on)]]
    /\ edits' = edits + 1
    /\ UNCHANGED <<now, row, lock, tick, stored, runs, faults, history>>

\* updateScheduleSidecar, its findUnique: of the fields that decide when it
\* fires, the patch gives some; the next time is set when one of them changes.
ReadToEdit(e, s, given, cron, enabled) ==
    /\ edits < MaxEdits
    /\ editor[e] = NoPatch
    /\ LET c == IF "cron" \in given THEN cron ELSE row[s].cron
           on == IF "enabled" \in given THEN enabled ELSE row[s].enabled
           moved == IF c # row[s].cron \/ on # row[s].enabled THEN {"next"} ELSE {}
       IN editor' = [editor EXCEPT ![e] = [schedule |-> s, sets |-> given \cup moved, cron |-> c,
                                           enabled |-> on, next |-> NextOf(c, on)]]
    /\ edits' = edits + 1
    /\ UNCHANGED <<now, row, lock, tick, stored, runs, faults, history>>

Patched(old, p) ==
    [old EXCEPT !.cron = IF "cron" \in p.sets THEN p.cron ELSE @,
                !.enabled = IF "enabled" \in p.sets THEN p.enabled ELSE @,
                !.next = IF "next" \in p.sets THEN p.next ELSE @]

\* Its update, of the fields it sets.  To write a time that has passed since
\* it was computed counts as a fault.
Edit(e) ==
    LET p == editor[e] IN
    /\ p # NoPatch
    /\ IF "next" \in p.sets /\ p.next \in 0..now THEN Fault ELSE UNCHANGED faults
    /\ row' = [row EXCEPT ![p.schedule] = Patched(@, p)]
    /\ editor' = [editor EXCEPT ![e] = NoPatch]
    /\ overtaken' = overtaken \cup {s \in {p.schedule} :
                        \E r \in Replicas : \E j \in tick[r].todo \cup {tick[r].row} : j.schedule = s}
    /\ contested' = contested \cup {s \in {p.schedule} : \E f \in Editors \ {e} : editor[f].schedule = s}
    /\ UNCHANGED <<now, lock, tick, stored, runs, edits>>

\* The resource is archived, or made active again.
SetStatus(s) ==
    /\ edits < MaxEdits
    /\ edits' = edits + 1
    /\ row' = [row EXCEPT ![s].active = ~@]
    /\ UNCHANGED <<now, lock, tick, stored, runs, editor, faults, history>>

-------------------------------------------------------------------------------
(* Time and faults.                                                        *)

Clock ==
    /\ now < MaxTime
    /\ now' = now + 1
    /\ UNCHANGED <<row, lock, tick, stored, runs, editing, faults, history>>

Crash(r) ==
    /\ Fault
    /\ tick[r].pc # "idle"
    /\ tick' = [tick EXCEPT ![r] = Idle]
    /\ UNCHANGED <<now, row, lock, stored, runs, editing, history>>

\* The time to live ends: under the tick, if it takes longer, or after a crash.
LockExpires ==
    /\ lock # Nobody
    /\ IF tick[lock].pc = "idle" THEN UNCHANGED faults ELSE Fault
    /\ lock' = Nobody
    /\ UNCHANGED <<now, row, tick, stored, runs, editing, history>>

TickStep(r) == Fire(r) \/ Ran(r) \/ Update(r) \/ Release(r)

Next ==
    \/ \E r \in Replicas : Begin(r) \/ TickStep(r) \/ UpdateThrows(r) \/ Crash(r)
    \/ \E s \in Edited :
          \/ SetStatus(s)
          \/ \E e \in Editors, given \in Given, cron \in Crons, enabled \in BOOLEAN :
                ReadToEdit(e, s, given, cron, enabled)
    \/ \E e \in Editors : Edit(e)
    \/ Clock \/ LockExpires

Spec == Init /\ [][Next]_vars

\* The timers of the replicas go on, statements and runs end, and a lock whose
\* holder is dead expires.
Fairness ==
    /\ \A r \in Replicas : WF_vars(TickStep(r))
    /\ WF_vars(\E r \in Replicas : Begin(r))
    /\ WF_vars(LockExpires /\ UNCHANGED faults)

FairSpec == Spec /\ Fairness

-------------------------------------------------------------------------------
(* Properties.                                                             *)

TypeOK ==
    /\ now \in Times
    /\ row \in [Schedules -> Row]
    /\ lock \in Replicas \cup {Nobody}
    /\ tick \in [Replicas -> [pc : {"idle", "next", "running", "update"}, at : Times,
                              todo : SUBSET Reads, row : Reads \cup {Nothing}]]
    /\ \A r \in Replicas : tick[r].pc \in {"running", "update"} <=> tick[r].row # Nothing
    /\ stored \subseteq Keys
    /\ runs \in [Keys -> Nat]
    /\ editor \in [Editors -> Patch \cup {NoPatch}]
    /\ edits \in 0..MaxEdits /\ faults \in 0..MaxFaults
    /\ overtaken \subseteq Schedules /\ contested \subseteq Schedules

\* A firing starts its workflow once, and once more for each time that a
\* replica died, a tick outlived its lock, an update failed or an edit wrote a
\* time that had passed: not by the replicas' timers, by other edits or by late
\* updates of ticks (withDistributedLock, the idempotency key of
\* processDueSchedules).
ExtraRunsNeedFaults == \A k \in Keys : runs[k] <= 1 + faults

\* What a user sets is what the schedule does.  Two edits of a schedule that
\* overlap may leave it enabled and without a next time, and what comes of them
\* is left open; but for them an enabled schedule has a next time, whatever
\* ticks write late, and unless an edit came while a tick had the schedule in
\* its batch, it is a time of its cron, and a disabled one has none
\* (updateScheduleSidecar; Update writes what its tick read).
EditStands ==
    \A s \in Schedules \ contested :
        /\ row[s].enabled => row[s].next # Never
        /\ s \notin overtaken =>
              IF row[s].enabled THEN row[s].next % row[s].cron = 0 ELSE row[s].next = Never

\* A schedule that is due is fired or refused, and then due later, whatever
\* dies, as long as some replica is alive.
DueIsHandled == \A s \in Schedules : Due(s) ~> ~Due(s)
================================================================================
