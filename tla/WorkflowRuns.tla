----------------------------- MODULE WorkflowRuns -----------------------------
(***************************************************************************)
(* The runs of one workflow: who starts them, how often an event starts    *)
(* one, how many there may be at a time, and how they end.                 *)
(*                                                                         *)
(* A call is one executeWorkflow: a bot message, a webhook, a schedule or  *)
(* a queued job, each of which may be delivered again while or after the   *)
(* first delivery is handled. A call may carry an idempotency key, the     *)
(* event it stands for. Rows live in the database, keys in Redis; the      *)
(* model covers one lifetime of a key (24 hours), so keys do not expire.   *)
(*                                                                         *)
(* Granularity. Each await that reads or writes a run or a key is an       *)
(* action. The transaction that counts the running runs and creates a row  *)
(* is two: at the database's default isolation level the count locks       *)
(* nothing. The steps of a run are one action, Finish.                     *)
(***************************************************************************)
EXTENDS Integers, Sequences, FiniteSets

CONSTANTS
    Calls,           \* executeWorkflow calls that may be in flight at once
    Keys,            \* idempotency keys
    NoKey,           \* the key of a call without one (a manual run)
    NoRun,           \* the value of a key that is not stored
    MaxConcurrent,   \* MAX_CONCURRENT_RUNS
    MaxRuns,         \* bound: the most run rows
    Faults           \* faults that may happen: "redis", "call"

ASSUME KeysAssumption == NoKey \notin Keys
ASSUME NoRunAssumption == NoRun \notin Nat
ASSUME LimitAssumption == MaxConcurrent \in Nat \ {0}
ASSUME MaxRunsAssumption == MaxRuns \in Nat
ASSUME CallsAssumption == IsFiniteSet(Calls)

VARIABLES
    runs,        \* the WorkflowRun rows; a run's id is its index
    stored,      \* stored[k]: the run id that Redis holds for key k
    call,        \* call[c]: where call c stands
    answers,     \* history: <<key, run>> that calls returned
    disturbed,   \* history: keys of calls that overlapped or lost their run
    degraded     \* history: keys for which a Redis command failed

history == <<answers, disturbed, degraded>>
vars == <<runs, stored, call, history>>

Statuses == {"running", "completed", "failed"}
Run == [key: Keys \cup {NoKey}, status: Statuses]

Pcs == {"idle", "lookup", "admit", "create", "executing", "stats", "claim"}
CallState == [pc: Pcs, key: Keys \cup {NoKey}, guarded: BOOLEAN, run: Nat]
IdleCall == [pc |-> "idle", key |-> NoKey, guarded |-> FALSE, run |-> 0]

Running == {i \in DOMAIN runs : runs[i].status = "running"}

Init ==
    /\ runs = << >>
    /\ stored = [k \in Keys |-> NoRun]
    /\ call = [c \in Calls |-> IdleCall]
    /\ answers = {}
    /\ disturbed = {}
    /\ degraded = {}

Goto(c, pc) == call' = [call EXCEPT ![c].pc = pc]
Leave(c) == call' = [call EXCEPT ![c] = IdleCall]
Answer(c, run) ==
    /\ Leave(c)
    /\ answers' = answers \cup {<<call[c].key, run>>}

-------------------------------------------------------------------------------
Start(c, k) ==
    /\ call[c].pc = "idle"
    /\ call' = [call EXCEPT ![c] =
         [IdleCall EXCEPT !.pc = IF k = NoKey THEN "admit" ELSE "lookup",
                          !.key = k,
                          !.guarded = k # NoKey]]
    /\ disturbed' = disturbed \cup {j \in Keys \cap {k} :
                                      \E d \in Calls : call[d].key = j}
    /\ UNCHANGED <<runs, stored, answers, degraded>>

(* Mutant: the key is not looked up.                                       *)
LookupSkipped(c) ==
    /\ call[c].pc = "lookup"
    /\ Goto(c, "admit")
    /\ UNCHANGED <<runs, stored, history>>

(* withIdempotency, the fast path.                                         *)
Lookup(c) ==
    /\ call[c].pc = "lookup"
    /\ \/ /\ stored[call[c].key] # NoRun
          /\ Answer(c, stored[call[c].key])
       \/ /\ stored[call[c].key] = NoRun
          /\ Goto(c, "admit")
          /\ UNCHANGED answers
    /\ UNCHANGED <<runs, stored, disturbed, degraded>>

(* The lookup fails open: the call goes on and will not store its run.     *)
LookupFails(c) ==
    /\ "redis" \in Faults
    /\ call[c].pc = "lookup"
    /\ call' = [call EXCEPT ![c].pc = "admit", ![c].guarded = FALSE]
    /\ degraded' = degraded \cup {call[c].key}
    /\ UNCHANGED <<runs, stored, answers, disturbed>>

(* The workflow is gone, not active or empty, or its gateway is not        *)
(* connected: the call throws.                                             *)
Refuse(c) ==
    /\ call[c].pc = "admit"
    /\ Leave(c)
    /\ UNCHANGED <<runs, stored, history>>

(* Mutant: one run more than the limit is let in.                          *)
AdmitOneMore(c) ==
    /\ call[c].pc = "admit"
    /\ IF Cardinality(Running) > MaxConcurrent THEN Leave(c) ELSE Goto(c, "create")
    /\ UNCHANGED <<runs, stored, history>>

(* The count at the start of the transaction.                              *)
Admit(c) ==
    /\ call[c].pc = "admit"
    /\ IF Cardinality(Running) >= MaxConcurrent THEN Leave(c) ELSE Goto(c, "create")
    /\ UNCHANGED <<runs, stored, history>>

(* Mutant: the key is stored when the run is created.                      *)
CreateClaimsEarly(c) ==
    /\ call[c].pc = "create"
    /\ Len(runs) < MaxRuns
    /\ runs' = Append(runs, [key |-> call[c].key, status |-> "running"])
    /\ call' = [call EXCEPT ![c].pc = "executing", ![c].run = Len(runs) + 1]
    /\ stored' = [k \in Keys |-> IF k = call[c].key /\ stored[k] = NoRun
                                 THEN Len(runs) + 1 ELSE stored[k]]
    /\ UNCHANGED history

(* The row of the new run, in the transaction that counted.                *)
Create(c) ==
    /\ call[c].pc = "create"
    /\ Len(runs) < MaxRuns
    /\ runs' = Append(runs, [key |-> call[c].key, status |-> "running"])
    /\ call' = [call EXCEPT ![c].pc = "executing", ![c].run = Len(runs) + 1]
    /\ UNCHANGED <<stored, history>>

(* completeRun or failRun, the run row: an update by id, whatever its      *)
(* status has become.                                                      *)
Finish(c, status) ==
    /\ call[c].pc = "executing"
    /\ runs' = [runs EXCEPT ![call[c].run].status = status]
    /\ Goto(c, "stats")
    /\ UNCHANGED <<stored, history>>

(* completeRun or failRun, the workflow row. After it, a run that no key   *)
(* guards is returned.                                                     *)
Stats(c) ==
    /\ call[c].pc = "stats"
    /\ IF call[c].guarded
       THEN Goto(c, "claim") /\ UNCHANGED answers
       ELSE Answer(c, call[c].run)
    /\ UNCHANGED <<runs, stored, disturbed, degraded>>

(* Mutant: SET without NX, the last caller wins.                           *)
ClaimOverwrites(c) ==
    /\ call[c].pc = "claim"
    /\ stored' = [stored EXCEPT ![call[c].key] = call[c].run]
    /\ Answer(c, call[c].run)
    /\ UNCHANGED <<runs, disturbed, degraded>>

(* withIdempotency, SET NX: the first caller stores its run, the others    *)
(* return the winner's.                                                    *)
Claim(c) ==
    /\ call[c].pc = "claim"
    /\ \/ /\ stored[call[c].key] = NoRun
          /\ stored' = [stored EXCEPT ![call[c].key] = call[c].run]
          /\ Answer(c, call[c].run)
       \/ /\ stored[call[c].key] # NoRun
          /\ Answer(c, stored[call[c].key])
          /\ UNCHANGED stored
    /\ UNCHANGED <<runs, disturbed, degraded>>

(* The claim, or its answer, is lost: the call returns its own run.        *)
ClaimFails(c) ==
    /\ "redis" \in Faults
    /\ call[c].pc = "claim"
    /\ \/ UNCHANGED stored
       \/ /\ stored[call[c].key] = NoRun
          /\ stored' = [stored EXCEPT ![call[c].key] = call[c].run]
    /\ Answer(c, call[c].run)
    /\ degraded' = degraded \cup {call[c].key}
    /\ UNCHANGED <<runs, disturbed>>

(* The process dies, or a database call throws: what the call did stays,   *)
(* and its run is known to nobody.                                         *)
Abandon(c) ==
    /\ "call" \in Faults
    /\ call[c].pc # "idle"
    /\ Leave(c)
    /\ disturbed' = disturbed \cup
         (IF call[c].run # 0 THEN Keys \cap {call[c].key} ELSE {})
    /\ UNCHANGED <<runs, stored, answers, degraded>>

-------------------------------------------------------------------------------
Mark(marked, status) ==
    /\ runs' = [i \in DOMAIN runs |->
         IF i \in marked THEN [runs[i] EXCEPT !.status = status] ELSE runs[i]]
    /\ UNCHANGED <<stored, call, history>>

(* Mutant: the update does not look at the status.                         *)
CleanupAnyStatus(old) == old # {} /\ Mark(old, "failed")

(* Mutant: the cleanup waits for the calls in flight.                      *)
CleanupWhenQuiet(old) ==
    /\ \A c \in Calls : call[c].pc = "idle"
    /\ old \cap Running # {}
    /\ Mark(old \cap Running, "failed")

(* Mutant: the cleanup writes a status that runs do not have.              *)
CleanupCrashed(old) ==
    /\ old \cap Running # {}
    /\ Mark(old \cap Running, "crashed")

(* cleanupOrphanedRuns, at startup and every two minutes: the runs that    *)
(* started more than ORPHANED_RUN_THRESHOLD_MS ago are old, and those of   *)
(* them still running are failed. It cannot tell an orphan from a slow run.*)
Cleanup(old) ==
    /\ old \cap Running # {}
    /\ Mark(old \cap Running, "failed")

CallStep(c) ==
    \/ \E k \in Keys \cup {NoKey} : Start(c, k)
    \/ Lookup(c)  \/ LookupFails(c)  \/ Refuse(c)  \/ Admit(c)  \/ Create(c)
    \/ \E status \in {"completed", "failed"} : Finish(c, status)
    \/ Stats(c)   \/ Claim(c)        \/ ClaimFails(c)  \/ Abandon(c)

Next ==
    \/ \E c \in Calls : CallStep(c)
    \/ \E old \in SUBSET DOMAIN runs : Cleanup(old)

(* A run gets old, and the cleanup runs on a timer. Nothing is assumed of  *)
(* the calls: they may hang or die.                                        *)
Fairness == \A i \in 1..MaxRuns :
    WF_vars(\E old \in SUBSET DOMAIN runs : i \in old \cap Running /\ Cleanup(old))

Spec == Init /\ [][Next]_vars /\ Fairness

-------------------------------------------------------------------------------
TypeOK ==
    /\ runs \in Seq(Run)
    /\ stored \in [Keys -> Nat \cup {NoRun}]
    /\ call \in [Calls -> CallState]
    /\ answers \subseteq (Keys \cup {NoKey}) \X Nat
    /\ disturbed \subseteq Keys
    /\ degraded \subseteq Keys

RunsOf(k) == {i \in DOMAIN runs : runs[i].key = k}

(* Safety. "If the same trigger event fires twice ... return the original  *)
(* run ID instead of creating a duplicate run" (executeWorkflow): so it is *)
(* of events whose calls neither overlapped nor lost their run, while      *)
(* Redis worked. Calls that overlap both find no key, and both run.        *)
OneRunPerQuietEvent ==
    \A k \in Keys \ (disturbed \cup degraded) : \A i, j \in RunsOf(k) : i = j

(* Safety. A key holds a run of its own event, and one that has ended: a   *)
(* repeated trigger is never answered with a run under way                 *)
(* (withIdempotency stores the value after compute).                       *)
StoredRunHasEnded ==
    \A k \in Keys : stored[k] # NoRun =>
        /\ stored[k] \in RunsOf(k)
        /\ stored[k] \notin Running

(* Safety. "First caller wins; subsequent callers ... receive the          *)
(* previously stored value": while Redis works, every call that returns    *)
(* for an event returns the same run, also when calls overlapped and       *)
(* several runs were made (withIdempotency).                               *)
CallersAgree ==
    \A k \in Keys \ degraded : \A a, b \in answers :
        a[1] = k /\ b[1] = k => a = b

(* Safety. "limit concurrent runs (atomic check + create to prevent race   *)
(* condition)" (executeWorkflowInternal): no more runs than the limit.     *)
(* The code does not keep to it: the transaction runs at READ COMMITTED,   *)
(* and its count locks nothing.                                            *)
WithinLimit == Cardinality(Running) <= MaxConcurrent

(* Safety. What is left of WithinLimit: the calls that counted before each *)
(* other's row was there exceed the limit, by one less than the calls in   *)
(* flight and no more (executeWorkflowInternal).                           *)
LimitOverrunBounded == Cardinality(Running) <= MaxConcurrent + Cardinality(Calls) - 1

(* Action property. A completed run stays completed: the cleanup of old    *)
(* runs and the other calls leave it alone (cleanupOrphanedRuns).          *)
CompletedIsFinal ==
    [][\A i \in DOMAIN runs :
         runs[i].status = "completed" => runs'[i].status = "completed"]_vars

(* Liveness. A run does not count against the limit for ever: whatever     *)
(* becomes of its process, it ends (cleanupOrphanedRuns).                  *)
EveryRunEnds == \A i \in 1..MaxRuns : i \in Running ~> i \notin Running
===============================================================================
