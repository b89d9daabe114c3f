------------------------- MODULE WorkflowRuns_proofs -------------------------
(***************************************************************************)
(* Theorems about WorkflowRuns, for every set of calls and keys, every     *)
(* limit and every bound.                                                  *)
(***************************************************************************)
EXTENDS WorkflowRuns, TLAPS, SequenceTheorems, FiniteSetTheorems

(* What a call holds at each of its stations.                              *)
CallFits(c) ==
    /\ call[c].pc = "lookup" => call[c].guarded
    /\ call[c].pc = "claim" => call[c].guarded
    /\ call[c].guarded => call[c].key \in Keys
    /\ ~ call[c].guarded /\ call[c].key \in Keys => call[c].key \in degraded
    /\ call[c].pc \in {"executing", "stats", "claim"} =>
          /\ call[c].run \in DOMAIN runs
          /\ runs[call[c].run].key = call[c].key
    /\ call[c].pc = "executing" => runs[call[c].run].status # "completed"
    /\ call[c].pc \in {"stats", "claim"} => runs[call[c].run].status # "running"

CallsFit == \A c \in Calls : CallFits(c)

(* A run is executed by one call.                                          *)
OwnRun ==
    \A c, d \in Calls :
        c # d /\ call[c].pc = "executing" /\ call[d].pc = "executing"
            => call[c].run # call[d].run

(* What was answered for an event is what its key holds.                   *)
AnswersStored ==
    \A a \in answers : a[1] \in Keys \ degraded => stored[a[1]] = a[2]

IInv == TypeOK /\ CallsFit /\ OwnRun /\ StoredRunHasEnded /\ AnswersStored

-------------------------------------------------------------------------------
LEMMA RunsType ==
    ASSUME runs \in Seq(Run)
    PROVE  /\ Len(runs) \in Nat
           /\ DOMAIN runs = 1..Len(runs)
           /\ \A i \in DOMAIN runs : runs[i] \in Run /\ i \in Nat
  BY LenProperties, ElementOfSeq

(* Marking runs with a status keeps their number and their keys.           *)
LEMMA MarkType ==
    ASSUME runs \in Seq(Run), NEW marked, NEW status \in Statuses, Mark(marked, status)
    PROVE  /\ runs' \in Seq(Run)
           /\ DOMAIN runs' = DOMAIN runs
           /\ \A i \in DOMAIN runs :
                /\ runs'[i].key = runs[i].key
                /\ runs'[i].status = IF i \in marked THEN status ELSE runs[i].status
  <1>1. /\ Len(runs) \in Nat
        /\ DOMAIN runs = 1..Len(runs)
        /\ \A i \in DOMAIN runs : runs[i] \in Run
    BY RunsType
  <1>2. ASSUME NEW r \in Run
        PROVE  /\ [r EXCEPT !.status = status] \in Run
               /\ [r EXCEPT !.status = status].key = r.key
               /\ [r EXCEPT !.status = status].status = status
    BY DEF Run
  <1>3. runs' = [i \in DOMAIN runs |->
          IF i \in marked THEN [runs[i] EXCEPT !.status = status] ELSE runs[i]]
    BY DEF Mark
  <1>4. runs' \in [1..Len(runs) -> Run]
    BY <1>1, <1>2, <1>3
  <1>5. runs' \in Seq(Run)
    BY <1>1, <1>4, SeqDef
  <1>6. QED
    BY <1>1, <1>2, <1>3, <1>5

(* A new run is the last one, and the others stay as they are.             *)
LEMMA CreateType ==
    ASSUME TypeOK, NEW c \in Calls, Create(c)
    PROVE  /\ runs' \in Seq(Run)
           /\ DOMAIN runs' = DOMAIN runs \cup {Len(runs) + 1}
           /\ Len(runs) + 1 \notin DOMAIN runs
           /\ \A i \in DOMAIN runs : runs'[i] = runs[i]
           /\ runs'[Len(runs) + 1].key = call[c].key
           /\ runs'[Len(runs) + 1].status = "running"
  <1> DEFINE row == [key |-> call[c].key, status |-> "running"]
  <1>1. /\ Len(runs) \in Nat
        /\ DOMAIN runs = 1..Len(runs)
    BY RunsType DEF TypeOK
  <1>2. row \in Run
    BY DEF TypeOK, CallState, Run, Statuses
  <1>3. runs' = Append(runs, row)
    BY DEF Create
  <1>4. /\ runs' \in Seq(Run)
        /\ Len(runs') = Len(runs) + 1
        /\ \A i \in 1..Len(runs) : runs'[i] = runs[i]
        /\ runs'[Len(runs) + 1] = row
    BY <1>2, <1>3, AppendProperties DEF TypeOK
  <1>5. DOMAIN runs' = 1..(Len(runs) + 1)
    BY <1>1, <1>4, LenProperties
  <1>6. QED
    BY <1>1, <1>4, <1>5

(* Ending a run changes its status and nothing else.                       *)
LEMMA FinishType ==
    ASSUME TypeOK, CallsFit, NEW c \in Calls, NEW status \in {"completed", "failed"},
           Finish(c, status)
    PROVE  /\ runs' \in Seq(Run)
           /\ DOMAIN runs' = DOMAIN runs
           /\ \A i \in DOMAIN runs :
                /\ runs'[i].key = runs[i].key
                /\ runs'[i].status = IF i = call[c].run THEN status ELSE runs[i].status
  <1>1. /\ Len(runs) \in Nat
        /\ DOMAIN runs = 1..Len(runs)
        /\ \A i \in DOMAIN runs : runs[i] \in Run
    BY RunsType DEF TypeOK
  <1>2. call[c].run \in DOMAIN runs
    BY DEF Finish, CallsFit, CallFits
  <1> DEFINE row == [runs[call[c].run] EXCEPT !.status = status]
  <1>3. /\ row \in Run
        /\ row.key = runs[call[c].run].key
        /\ row.status = status
    BY <1>1, <1>2 DEF Run, Statuses
  <1>4. runs' = [runs EXCEPT ![call[c].run] = row]
    BY DEF Finish
  <1>5. /\ runs' \in Seq(Run)
        /\ DOMAIN runs' = DOMAIN runs
    BY <1>1, <1>2, <1>3, <1>4, ExceptSeq DEF TypeOK
  <1>6. QED
    BY <1>1, <1>2, <1>3, <1>4, <1>5

(* What a call may be turned into.                                         *)
LEMMA CallType ==
    ASSUME call \in [Calls -> CallState], NEW c \in Calls
    PROVE  /\ IdleCall \in CallState
           /\ \A d \in Calls : call[d] \in CallState
           /\ \A pc \in Pcs : [call EXCEPT ![c].pc = pc] \in [Calls -> CallState]
           /\ \A s \in CallState : [call EXCEPT ![c] = s] \in [Calls -> CallState]
           /\ \A pc \in Pcs, n \in Nat :
                [call EXCEPT ![c].pc = pc, ![c].run = n] \in [Calls -> CallState]
           /\ \A pc \in Pcs, g \in BOOLEAN :
                [call EXCEPT ![c].pc = pc, ![c].guarded = g] \in [Calls -> CallState]
  <1>1. IdleCall \in CallState
    BY DEF IdleCall, CallState, Pcs
  <1>2. ASSUME NEW s \in CallState
        PROVE  /\ \A pc \in Pcs : [s EXCEPT !.pc = pc] \in CallState
               /\ \A pc \in Pcs, n \in Nat : [s EXCEPT !.pc = pc, !.run = n] \in CallState
               /\ \A pc \in Pcs, g \in BOOLEAN : [s EXCEPT !.pc = pc, !.guarded = g] \in CallState
    BY <1>2 DEF CallState
  <1>3. \A d \in Calls : call[d] \in CallState
    OBVIOUS
  <1>4. QED
    BY <1>1, <1>2, <1>3

(* A call that goes on changes its station and nothing else.               *)
LEMMA GotoType ==
    ASSUME TypeOK, NEW c \in Calls, NEW pc \in Pcs, Goto(c, pc)
    PROVE  /\ call' \in [Calls -> CallState]
           /\ call'[c].pc = pc
           /\ call'[c].key = call[c].key
           /\ call'[c].guarded = call[c].guarded
           /\ call'[c].run = call[c].run
  BY CallType DEF Goto, TypeOK, CallState

LEMMA LeaveType ==
    ASSUME TypeOK, NEW c \in Calls, Leave(c)
    PROVE  /\ call' \in [Calls -> CallState]
           /\ call'[c] = IdleCall
  BY CallType DEF Leave, TypeOK

(* A call that answers is over, and its answer is an event and a run.      *)
LEMMA AnswerType ==
    ASSUME TypeOK, NEW c \in Calls, NEW run \in Nat, Answer(c, run)
    PROVE  /\ call' \in [Calls -> CallState]
           /\ answers' \subseteq (Keys \cup {NoKey}) \X Nat
  <1>1. call[c].key \in Keys \cup {NoKey}
    BY DEF TypeOK, CallState
  <1>2. <<call[c].key, run>> \in (Keys \cup {NoKey}) \X Nat
    BY <1>1
  <1>3. call' \in [Calls -> CallState]
    BY LeaveType DEF Answer
  <1>4. answers' \subseteq (Keys \cup {NoKey}) \X Nat
    BY <1>2 DEF Answer, TypeOK
  <1>5. QED
    BY <1>3, <1>4

(* Every step of a call keeps the types.                                   *)
LEMMA CallStepType ==
    ASSUME TypeOK, CallsFit, NEW c \in Calls, CallStep(c)
    PROVE  TypeOK'
  <1> USE DEF TypeOK
  <1>1. ASSUME NEW k \in Keys \cup {NoKey}, Start(c, k) PROVE TypeOK'
    <2> DEFINE s == [IdleCall EXCEPT !.pc = IF k = NoKey THEN "admit" ELSE "lookup",
                                     !.key = k, !.guarded = k # NoKey]
    <2>1. s \in CallState
      BY DEF IdleCall, CallState, Pcs
    <2>2. call' = [call EXCEPT ![c] = s]
      BY <1>1 DEF Start
    <2>3. call' \in [Calls -> CallState]
      BY <2>1, <2>2
    <2>4. disturbed' \subseteq Keys
      BY <1>1 DEF Start
    <2>5. QED
      BY <1>1, <2>3, <2>4 DEF Start
  <1>2. CASE Lookup(c)
    <2>1. call[c].key \in Keys
      BY <1>2 DEF Lookup, CallsFit, CallFits
    <2>2. CASE /\ stored[call[c].key] # NoRun
               /\ Answer(c, stored[call[c].key])
      <3>1. stored[call[c].key] \in Nat
        BY <2>1, <2>2
      <3>2. /\ call' \in [Calls -> CallState]
            /\ answers' \subseteq (Keys \cup {NoKey}) \X Nat
        BY <2>2, <3>1, AnswerType
      <3>3. QED
        BY <1>2, <3>2 DEF Lookup
    <2>3. CASE Goto(c, "admit") /\ UNCHANGED answers
      <3>1. call' \in [Calls -> CallState]
        BY <2>3, GotoType DEF Pcs
      <3>2. QED
        BY <1>2, <2>3, <3>1 DEF Lookup
    <2>4. QED
      BY <1>2, <2>2, <2>3 DEF Lookup
  <1>3. CASE LookupFails(c)
    <2>1. call[c].key \in Keys
      BY <1>3 DEF LookupFails, CallsFit, CallFits
    <2>2. call' \in [Calls -> CallState]
      BY <1>3, CallType DEF LookupFails, Pcs
    <2>3. QED
      BY <1>3, <2>1, <2>2 DEF LookupFails
  <1>4. CASE Refuse(c)
    BY <1>4, LeaveType DEF Refuse, history
  <1>5. CASE Admit(c)
    <2>1. Leave(c) \/ Goto(c, "create")
      BY <1>5 DEF Admit
    <2>2. call' \in [Calls -> CallState]
      BY <2>1, LeaveType, GotoType DEF Pcs
    <2>3. QED
      BY <1>5, <2>2 DEF Admit, history
  <1>6. CASE Create(c)
    <2>1. runs' \in Seq(Run)
      BY <1>6, CreateType
    <2>2. Len(runs) + 1 \in Nat
      <3>1. Len(runs) \in Nat
        BY RunsType
      <3>2. QED
        BY <3>1
    <2>3. call' \in [Calls -> CallState]
      BY <1>6, <2>2, CallType DEF Create, Pcs
    <2>4. QED
      BY <1>6, <2>1, <2>3 DEF Create, history
  <1>7. ASSUME NEW status \in {"completed", "failed"}, Finish(c, status) PROVE TypeOK'
    <2>1. runs' \in Seq(Run)
      BY <1>7, FinishType
    <2>2. call' \in [Calls -> CallState]
      BY <1>7, GotoType DEF Finish, Pcs
    <2>3. QED
      BY <1>7, <2>1, <2>2 DEF Finish, history
  <1>8. CASE Stats(c)
    <2>1. CASE call[c].guarded
      <3>1. Goto(c, "claim") /\ answers' = answers
        BY <1>8, <2>1 DEF Stats
      <3>2. call' \in [Calls -> CallState]
        BY <3>1, GotoType DEF Pcs
      <3>3. QED
        BY <1>8, <3>1, <3>2 DEF Stats
    <2>2. CASE ~ call[c].guarded
      <3>1. call[c].run \in Nat
        BY DEF CallState
      <3>2. Answer(c, call[c].run)
        BY <1>8, <2>2 DEF Stats
      <3>3. /\ call' \in [Calls -> CallState]
            /\ answers' \subseteq (Keys \cup {NoKey}) \X Nat
        BY <3>1, <3>2, AnswerType
      <3>4. QED
        BY <1>8, <3>3 DEF Stats
    <2>3. QED
      BY <2>1, <2>2
  <1>9. CASE Claim(c)
    <2>1. /\ call[c].key \in Keys
          /\ call[c].run \in Nat
      BY <1>9 DEF Claim, CallsFit, CallFits, CallState
    <2>2. stored' \in [Keys -> Nat \cup {NoRun}]
      BY <1>9, <2>1 DEF Claim
    <2>3. \E run \in Nat : Answer(c, run)
      BY <1>9, <2>1 DEF Claim
    <2>4. /\ call' \in [Calls -> CallState]
          /\ answers' \subseteq (Keys \cup {NoKey}) \X Nat
      BY <2>3, AnswerType
    <2>5. QED
      BY <1>9, <2>2, <2>4 DEF Claim
  <1>10. CASE ClaimFails(c)
    <2>1. /\ call[c].key \in Keys
          /\ call[c].run \in Nat
      BY <1>10 DEF ClaimFails, CallsFit, CallFits, CallState
    <2>2. Answer(c, call[c].run)
      BY <1>10 DEF ClaimFails
    <2>3. /\ call' \in [Calls -> CallState]
          /\ answers' \subseteq (Keys \cup {NoKey}) \X Nat
      BY <2>1, <2>2, AnswerType
    <2>4. stored' \in [Keys -> Nat \cup {NoRun}]
      BY <1>10, <2>1 DEF ClaimFails
    <2>5. QED
      BY <1>10, <2>1, <2>3, <2>4 DEF ClaimFails
  <1>11. CASE Abandon(c)
    BY <1>11, LeaveType DEF Abandon
  <1>12. QED
    BY <1>1, <1>2, <1>3, <1>4, <1>5, <1>6, <1>7, <1>8, <1>9, <1>10, <1>11 DEF CallStep

-------------------------------------------------------------------------------
(* Where a step of one call can leave the others: where they were.         *)
LEMMA OthersStay ==
    ASSUME TypeOK, NEW c \in Calls, CallStep(c)
    PROVE  \A d \in Calls \ {c} : call'[d] = call[d]
  BY DEF TypeOK, CallStep, Start, Lookup, LookupFails, Refuse, Admit, Create, Finish,
         Stats, Claim, ClaimFails, Abandon, Answer, Goto, Leave

(* A step keeps every run and its event, never sets one running again, and *)
(* never completes or fails a run but its own.                             *)
LEMMA RunsOnlyEnd ==
    ASSUME TypeOK, CallsFit, NEW c \in Calls, CallStep(c)
    PROVE  \A i \in DOMAIN runs :
             /\ i \in DOMAIN runs'
             /\ runs'[i].key = runs[i].key
             /\ runs[i].status # "running" => runs'[i].status # "running"
             /\ \/ runs'[i].status = runs[i].status
                \/ call[c].pc = "executing" /\ i = call[c].run
  <1>1. CASE Create(c)
    BY <1>1, CreateType
  <1>2. ASSUME NEW status \in {"completed", "failed"}, Finish(c, status)
        PROVE  \A i \in DOMAIN runs :
                 /\ i \in DOMAIN runs'
                 /\ runs'[i].key = runs[i].key
                 /\ runs[i].status # "running" => runs'[i].status # "running"
                 /\ \/ runs'[i].status = runs[i].status
                    \/ call[c].pc = "executing" /\ i = call[c].run
    <2>1. call[c].pc = "executing"
      BY <1>2 DEF Finish
    <2>2. QED
      BY <1>2, <2>1, FinishType
  <1>3. CASE runs' = runs
    BY <1>3
  <1>4. QED
    BY <1>1, <1>2, <1>3 DEF CallStep, Start, Lookup, LookupFails, Refuse, Admit, Stats,
       Claim, ClaimFails, Abandon

(* The marks of the cleanup end running runs and touch no other.           *)
LEMMA CleanupOnlyFails ==
    ASSUME TypeOK, NEW old, Cleanup(old)
    PROVE  /\ runs' \in Seq(Run)
           /\ DOMAIN runs' = DOMAIN runs
           /\ \A i \in DOMAIN runs :
                /\ runs'[i].key = runs[i].key
                /\ runs'[i].status = IF i \in old \cap Running THEN "failed" ELSE runs[i].status
           /\ UNCHANGED <<stored, call, history>>
  <1>1. Mark(old \cap Running, "failed")
    BY DEF Cleanup
  <1>2. "failed" \in Statuses
    BY DEF Statuses
  <1>3. runs \in Seq(Run)
    BY DEF TypeOK
  <1>4. UNCHANGED <<stored, call, history>>
    BY <1>1 DEF Mark
  <1>5. QED
    BY <1>1, <1>2, <1>3, <1>4, MarkType

LEMMA CallsFitStep ==
    ASSUME TypeOK, CallsFit, OwnRun, NEW c \in Calls, CallStep(c)
    PROVE  CallsFit'
  <1>1. degraded \subseteq degraded'
    BY DEF CallStep, Start, Lookup, LookupFails, Refuse, Admit, Create, Finish, Stats,
           Claim, ClaimFails, Abandon, history
  <1>2. ASSUME NEW d \in Calls, d # c PROVE CallFits(d)'
    <2>1. call'[d] = call[d]
      BY <1>2, OthersStay
    <2>2. CallFits(d)
      BY DEF CallsFit
    <2>3. call[d].pc = "executing" /\ call[c].pc = "executing" => call[d].run # call[c].run
      BY <1>2 DEF OwnRun
    <2>4. QED
      BY <1>1, <2>1, <2>2, <2>3, RunsOnlyEnd DEF CallFits
  <1>3. CallFits(c)'
    <2> USE DEF TypeOK
    <2>1. CallFits(c)
      BY DEF CallsFit
    <2>2. ASSUME NEW k \in Keys \cup {NoKey}, Start(c, k) PROVE CallFits(c)'
      BY <2>2, KeysAssumption DEF Start, CallFits, IdleCall
    <2>3. ASSUME call'[c] = IdleCall PROVE CallFits(c)'
      BY <2>3, KeysAssumption DEF CallFits, IdleCall
    <2>4. ASSUME NEW pc \in {"admit", "create"}, Goto(c, pc), UNCHANGED <<runs, degraded>>
          PROVE  CallFits(c)'
      <3>1. /\ call'[c].pc = pc
            /\ call'[c].key = call[c].key
            /\ call'[c].guarded = call[c].guarded
        BY <2>4, GotoType DEF Pcs
      <3>2. QED
        BY <2>1, <2>4, <3>1 DEF CallFits
    <2>5. CASE Lookup(c)
      <3>1. Leave(c) \/ Goto(c, "admit")
        BY <2>5 DEF Lookup, Answer
      <3>2. UNCHANGED <<runs, degraded>>
        BY <2>5 DEF Lookup
      <3>3. QED
        BY <2>3, <2>4, <3>1, <3>2, LeaveType
    <2>6. CASE LookupFails(c)
      BY <2>1, <2>6 DEF LookupFails, CallFits
    <2>7. CASE Refuse(c) \/ ClaimFails(c) \/ Claim(c) \/ Abandon(c)
      <3>1. Leave(c)
        BY <2>7 DEF Refuse, ClaimFails, Claim, Abandon, Answer
      <3>2. QED
        BY <2>3, <3>1, LeaveType
    <2>11. CASE Admit(c)
      <3>1. Leave(c) \/ Goto(c, "create")
        BY <2>11 DEF Admit
      <3>2. UNCHANGED <<runs, degraded>>
        BY <2>11 DEF Admit, history
      <3>3. QED
        BY <2>3, <2>4, <3>1, <3>2, LeaveType
    <2>8. CASE Create(c)
      <3>1. /\ call'[c].pc = "executing"
            /\ call'[c].run = Len(runs) + 1
            /\ call'[c].key = call[c].key
            /\ call'[c].guarded = call[c].guarded
            /\ degraded' = degraded
        BY <2>8 DEF Create, history
      <3>2. QED
        BY <2>1, <2>8, <3>1, CreateType DEF CallFits
    <2>9. ASSUME NEW status \in {"completed", "failed"}, Finish(c, status)
          PROVE  CallFits(c)'
      <3>1. /\ call[c].pc = "executing"
            /\ call'[c].pc = "stats"
            /\ call'[c].run = call[c].run
            /\ call'[c].key = call[c].key
            /\ call'[c].guarded = call[c].guarded
            /\ degraded' = degraded
        BY <2>9 DEF Finish, Goto, history
      <3>2. QED
        BY <2>1, <2>9, <3>1, FinishType DEF CallFits
    <2>10. CASE Stats(c)
      <3>1. CASE call[c].guarded
        <4>1. Goto(c, "claim")
          BY <2>10, <3>1 DEF Stats
        <4>2. /\ call'[c].pc = "claim"
              /\ call'[c].key = call[c].key
              /\ call'[c].guarded = call[c].guarded
              /\ call'[c].run = call[c].run
          BY <4>1, GotoType DEF Pcs
        <4>3. call[c].pc = "stats" /\ UNCHANGED <<runs, degraded>>
          BY <2>10 DEF Stats
        <4>4. QED
          BY <2>1, <3>1, <4>2, <4>3 DEF CallFits
      <3>2. CASE ~ call[c].guarded
        BY <2>3, <2>10, <3>2, LeaveType DEF Stats, Answer
      <3>3. QED
        BY <3>1, <3>2
    <2>12. QED
      BY <2>2, <2>5, <2>6, <2>7, <2>8, <2>9, <2>10, <2>11 DEF CallStep
  <1>4. QED
    BY <1>2, <1>3 DEF CallsFit

(* A new run is nobody else's.                                             *)
LEMMA OwnRunStep ==
    ASSUME TypeOK, CallsFit, OwnRun, NEW c \in Calls, CallStep(c)
    PROVE  OwnRun'
  <1>1. ASSUME call'[c].pc # "executing" PROVE OwnRun'
    BY <1>1, OthersStay DEF OwnRun
  <1>2. CASE Create(c)
    <2>1. call'[c].run = Len(runs) + 1
      BY <1>2 DEF Create, TypeOK, CallState
    <2>2. \A d \in Calls \ {c} : call'[d].pc = "executing" => call'[d].run \in DOMAIN runs
      BY OthersStay DEF CallsFit, CallFits
    <2>3. \A d \in Calls \ {c} : call'[d].pc = "executing" => call'[d].run # call'[c].run
      BY <1>2, <2>1, <2>2, CreateType
    <2>4. QED
      BY <2>3, OthersStay DEF OwnRun
  <1>3. CASE ~ Create(c)
    <2>1. \/ Leave(c)
          \/ \E pc \in Pcs \ {"executing"} : Goto(c, pc)
          \/ \E k \in Keys \cup {NoKey} : Start(c, k)
          \/ LookupFails(c)
      BY <1>3 DEF CallStep, Lookup, Refuse, Admit, Finish, Stats, Claim, ClaimFails,
         Abandon, Answer, Pcs
    <2>2. CASE Leave(c)
      BY <1>1, <2>2, LeaveType DEF IdleCall
    <2>3. ASSUME NEW pc \in Pcs \ {"executing"}, Goto(c, pc) PROVE OwnRun'
      BY <1>1, <2>3, GotoType
    <2>4. ASSUME NEW k \in Keys \cup {NoKey}, Start(c, k) PROVE OwnRun'
      BY <1>1, <2>4 DEF Start, IdleCall, TypeOK
    <2>5. CASE LookupFails(c)
      BY <1>1, <2>5 DEF LookupFails, TypeOK, CallState
    <2>6. QED
      BY <2>1, <2>2, <2>3, <2>4, <2>5
  <1>4. QED
    BY <1>2, <1>3

(* A key is stored once, by a call whose run has ended.                    *)
LEMMA StoredStep ==
    ASSUME TypeOK, CallsFit, StoredRunHasEnded, NEW c \in Calls, CallStep(c)
    PROVE  /\ StoredRunHasEnded'
           /\ \A k \in Keys : stored[k] # NoRun => stored'[k] = stored[k]
  <1>1. ASSUME NEW k \in Keys, stored[k] # NoRun PROVE stored'[k] = stored[k]
    BY <1>1 DEF CallStep, Start, Lookup, LookupFails, Refuse, Admit, Create, Finish, Stats,
       Claim, ClaimFails, Abandon, history, TypeOK
  <1>2. ASSUME NEW k \in Keys, stored'[k] # NoRun
        PROVE  \/ stored[k] = stored'[k]
               \/ /\ Claim(c) \/ ClaimFails(c)
                  /\ k = call[c].key
                  /\ stored'[k] = call[c].run
    BY <1>2 DEF CallStep, Start, Lookup, LookupFails, Refuse, Admit, Create, Finish, Stats,
       Claim, ClaimFails, Abandon, history, TypeOK
  <1>3. ASSUME NEW k \in Keys, stored'[k] # NoRun
        PROVE  /\ stored'[k] \in DOMAIN runs
               /\ runs[stored'[k]].key = k
               /\ runs[stored'[k]].status # "running"
    <2>1. CASE stored[k] = stored'[k]
      BY <1>3, <2>1 DEF StoredRunHasEnded, RunsOf, Running
    <2>2. CASE /\ Claim(c) \/ ClaimFails(c)
               /\ k = call[c].key /\ stored'[k] = call[c].run
      <3>1. call[c].pc = "claim"
        BY <2>2 DEF Claim, ClaimFails
      <3>2. QED
        BY <2>2, <3>1 DEF CallsFit, CallFits
    <2>3. QED
      BY <1>2, <1>3, <2>1, <2>2
  <1>4. StoredRunHasEnded'
    BY <1>3, RunsOnlyEnd DEF StoredRunHasEnded, RunsOf, Running
  <1>5. QED
    BY <1>1, <1>4

(* An answer for an event is what its key holds from then on.              *)
LEMMA AnswersStep ==
    ASSUME TypeOK, CallsFit, StoredRunHasEnded, AnswersStored, NEW c \in Calls, CallStep(c)
    PROVE  AnswersStored'
  <1>1. degraded \subseteq degraded'
    BY DEF CallStep, Start, Lookup, LookupFails, Refuse, Admit, Create, Finish, Stats,
           Claim, ClaimFails, Abandon, history
  <1>2. ASSUME NEW a \in answers, a[1] \in Keys \ degraded'
        PROVE  stored'[a[1]] = a[2]
    <2>1. /\ a[1] \in Keys
          /\ stored[a[1]] = a[2]
      BY <1>1, <1>2 DEF AnswersStored
    <2>2. a[2] \in Nat
      BY DEF TypeOK
    <2>3. stored[a[1]] # NoRun
      BY <2>1, <2>2, NoRunAssumption
    <2>4. QED
      BY <2>1, <2>3, StoredStep
  <1>3. ASSUME NEW a \in answers' \ answers, a[1] \in Keys \ degraded'
        PROVE  stored'[a[1]] = a[2]
    <2>1. CASE Lookup(c)
      <3>1. a = <<call[c].key, stored[call[c].key]>> /\ stored' = stored
        BY <1>3, <2>1 DEF Lookup, Answer
      <3>2. QED
        BY <3>1
    <2>2. CASE Stats(c)
      <3>1. ~ call[c].guarded /\ a = <<call[c].key, call[c].run>> /\ degraded' = degraded
        BY <1>3, <2>2 DEF Stats, Answer
      <3>2. call[c].key \in degraded
        BY <1>3, <3>1 DEF CallsFit, CallFits
      <3>3. QED
        BY <1>3, <3>1, <3>2
    <2>3. CASE Claim(c)
      <3>1. CASE stored[call[c].key] = NoRun
        <4>1. /\ stored' = [stored EXCEPT ![call[c].key] = call[c].run]
              /\ answers' = answers \cup {<<call[c].key, call[c].run>>}
          BY <2>3, <3>1 DEF Claim, Answer
        <4>2. a = <<call[c].key, call[c].run>>
          BY <1>3, <4>1
        <4>3. QED
          BY <1>3, <4>1, <4>2 DEF TypeOK
      <3>2. CASE stored[call[c].key] # NoRun
        <4>1. /\ stored' = stored
              /\ answers' = answers \cup {<<call[c].key, stored[call[c].key]>>}
          BY <2>3, <3>2 DEF Claim, Answer
        <4>2. QED
          BY <1>3, <4>1
      <3>3. QED
        BY <3>1, <3>2
    <2>4. CASE ClaimFails(c)
      <3>1. a = <<call[c].key, call[c].run>> /\ call[c].key \in degraded'
        BY <1>3, <2>4 DEF ClaimFails, Answer
      <3>2. QED
        BY <1>3, <3>1
    <2>5. answers' = answers \/ Lookup(c) \/ Stats(c) \/ Claim(c) \/ ClaimFails(c)
      BY DEF CallStep, Start, LookupFails, Refuse, Admit, Create, Finish, Abandon, history
    <2>6. QED
      BY <1>3, <2>1, <2>2, <2>3, <2>4, <2>5
  <1>4. QED
    BY <1>2, <1>3 DEF AnswersStored

-------------------------------------------------------------------------------
LEMMA InitIInv == Init => IInv
  <1> SUFFICES ASSUME Init PROVE IInv
    OBVIOUS
  <1>1. TypeOK
    <2>1. IdleCall \in CallState
      BY DEF IdleCall, CallState, Pcs
    <2>2. << >> \in Seq(Run)
      BY EmptySeq
    <2>3. QED
      BY <2>1, <2>2 DEF Init, TypeOK
  <1>2. CallsFit
    BY KeysAssumption DEF Init, CallsFit, CallFits, IdleCall
  <1>3. OwnRun
    BY DEF Init, OwnRun, IdleCall
  <1>4. StoredRunHasEnded
    BY DEF Init, StoredRunHasEnded
  <1>5. AnswersStored
    BY DEF Init, AnswersStored
  <1>6. QED
    BY <1>1, <1>2, <1>3, <1>4, <1>5 DEF IInv

LEMMA CleanupIInv ==
    ASSUME IInv, NEW old, Cleanup(old)
    PROVE  IInv'
  <1>1. TypeOK /\ CallsFit /\ OwnRun /\ StoredRunHasEnded /\ AnswersStored
    BY DEF IInv
  <1>2. UNCHANGED <<stored, call, answers, disturbed, degraded>>
    BY <1>1, CleanupOnlyFails DEF history
  <1>3. TypeOK'
    BY <1>1, <1>2, CleanupOnlyFails DEF TypeOK
  <1>4. \A i \in DOMAIN runs :
          /\ i \in DOMAIN runs'
          /\ runs'[i].key = runs[i].key
          /\ runs'[i].status \in {"failed", runs[i].status}
    BY <1>1, CleanupOnlyFails
  <1>5. CallsFit'
    <2>1. ASSUME NEW c \in Calls PROVE CallFits(c)'
      BY <1>1, <1>2, <1>4 DEF CallsFit, CallFits
    <2>2. QED
      BY <2>1 DEF CallsFit
  <1>6. OwnRun'
    BY <1>1, <1>2 DEF OwnRun
  <1>7. StoredRunHasEnded'
    BY <1>1, <1>2, <1>4 DEF StoredRunHasEnded, RunsOf, Running
  <1>8. AnswersStored'
    BY <1>1, <1>2 DEF AnswersStored
  <1>9. QED
    BY <1>3, <1>5, <1>6, <1>7, <1>8 DEF IInv

LEMMA NextIInv == IInv /\ [Next]_vars => IInv'
  <1> SUFFICES ASSUME IInv, [Next]_vars PROVE IInv'
    OBVIOUS
  <1>1. TypeOK /\ CallsFit /\ OwnRun /\ StoredRunHasEnded /\ AnswersStored
    BY DEF IInv
  <1>2. ASSUME NEW c \in Calls, CallStep(c) PROVE IInv'
    BY <1>1, <1>2, CallStepType, CallsFitStep, OwnRunStep, StoredStep, AnswersStep DEF IInv
  <1>3. ASSUME NEW old \in SUBSET DOMAIN runs, Cleanup(old) PROVE IInv'
    BY <1>3, CleanupIInv
  <1>4. CASE UNCHANGED vars
    BY <1>1, <1>4 DEF vars, history, IInv, TypeOK, CallsFit, CallFits, OwnRun,
       StoredRunHasEnded, RunsOf, Running, AnswersStored
  <1>5. QED
    BY <1>2, <1>3, <1>4 DEF Next

THEOREM Invariance == Spec => []IInv
  <1>1. Spec => Init /\ [][Next]_vars
    BY DEF Spec
  <1>2. QED
    BY <1>1, InitIInv, NextIInv, PTL

(* Every variable keeps its type, whatever calls do and however Redis and  *)
(* the processes fail.                                                     *)
THEOREM TypeCorrect == Spec => []TypeOK
  <1>1. IInv => TypeOK
    BY DEF IInv
  <1>2. QED
    BY <1>1, Invariance, PTL

(* A repeated trigger is only ever answered with a run of its own event    *)
(* that has ended (withIdempotency stores the value after compute).        *)
THEOREM StoredRunHasEndedHolds == Spec => []StoredRunHasEnded
  <1>1. IInv => StoredRunHasEnded
    BY DEF IInv
  <1>2. QED
    BY <1>1, Invariance, PTL

(* While Redis works, all calls of an event that return return the same    *)
(* run: an answer is what the key holds, and a key is stored once.         *)
THEOREM CallersAgreeHolds == Spec => []CallersAgree
  <1>1. IInv => CallersAgree
    <2> SUFFICES ASSUME IInv, NEW k \in Keys \ degraded, NEW a \in answers, NEW b \in answers,
                        a[1] = k, b[1] = k
                 PROVE  a = b
      BY DEF CallersAgree
    <2>1. a[2] = b[2]
      BY DEF IInv, AnswersStored
    <2>2. a = <<a[1], a[2]>> /\ b = <<b[1], b[2]>>
      BY DEF IInv, TypeOK
    <2>3. QED
      BY <2>1, <2>2
  <1>2. QED
    BY <1>1, Invariance, PTL

(* A completed run stays completed: nobody but its own call, which has     *)
(* gone on, and the cleanup, which passes over it, ends runs.              *)
THEOREM CompletedIsFinalHolds == Spec => CompletedIsFinal
  <1> DEFINE Final == \A i \in DOMAIN runs :
                        runs[i].status = "completed" => runs'[i].status = "completed"
  <1>1. IInv /\ [Next]_vars => [Final]_vars
    <2> SUFFICES ASSUME IInv, Next PROVE Final
      OBVIOUS
    <2>1. TypeOK /\ CallsFit
      BY DEF IInv
    <2>2. ASSUME NEW c \in Calls, CallStep(c) PROVE Final
      BY <2>1, <2>2, RunsOnlyEnd DEF CallsFit, CallFits
    <2>3. ASSUME NEW old \in SUBSET DOMAIN runs, Cleanup(old) PROVE Final
      BY <2>1, <2>3, CleanupOnlyFails DEF Running
    <2>4. QED
      BY <2>2, <2>3 DEF Next
  <1>2. Spec => [][Next]_vars
    BY DEF Spec
  <1>3. QED
    BY <1>1, <1>2, Invariance, PTL DEF CompletedIsFinal

-------------------------------------------------------------------------------
(***************************************************************************)
(* The limit on concurrent runs. A call that counted below the limit may   *)
(* still add its run: the running runs and the calls about to add one are, *)
(* together, at most what the limit and the calls allow.                   *)
(***************************************************************************)
Creating == {c \in Calls : call[c].pc = "create"}

LimitInv == Cardinality(Running) + Cardinality(Creating) <= MaxConcurrent - 1 + Cardinality(Calls)

LEMMA SetsFinite ==
    ASSUME TypeOK
    PROVE  /\ IsFiniteSet(Running)
           /\ Cardinality(Running) \in Nat
           /\ IsFiniteSet(Creating)
           /\ Cardinality(Creating) \in Nat
           /\ Cardinality(Creating) <= Cardinality(Calls)
           /\ Cardinality(Calls) \in Nat
  <1>1. Len(runs) \in Nat /\ DOMAIN runs = 1..Len(runs)
    BY RunsType DEF TypeOK
  <1>2. IsFiniteSet(1..Len(runs))
    BY <1>1, FS_Interval
  <1>3. Running \in SUBSET (1..Len(runs))
    BY <1>1 DEF Running
  <1>4. IsFiniteSet(Running)
    BY <1>2, <1>3, FS_Subset
  <1>5. Creating \in SUBSET Calls
    BY DEF Creating
  <1>6. IsFiniteSet(Creating) /\ Cardinality(Creating) <= Cardinality(Calls)
    BY <1>5, CallsAssumption, FS_Subset
  <1>7. QED
    BY <1>4, <1>6, CallsAssumption, FS_CardinalityType

(* A step that ends runs, and lets no call pass the count, keeps the limit.*)
LEMMA LimitShrinks ==
    ASSUME TypeOK, LimitInv, Running' \subseteq Running, Creating' \subseteq Creating
    PROVE  LimitInv'
  <1>1. Cardinality(Running') <= Cardinality(Running) /\ IsFiniteSet(Running')
    BY SetsFinite, FS_Subset
  <1>2. Cardinality(Creating') <= Cardinality(Creating) /\ IsFiniteSet(Creating')
    BY SetsFinite, FS_Subset
  <1>3. Cardinality(Running') \in Nat /\ Cardinality(Creating') \in Nat
    BY <1>1, <1>2, FS_CardinalityType
  <1>4. QED
    BY <1>1, <1>2, <1>3, SetsFinite, LimitAssumption DEF LimitInv

LEMMA AdmitLimit ==
    ASSUME TypeOK, LimitInv, NEW c \in Calls, Admit(c)
    PROVE  LimitInv'
  <1>1. Running' = Running
    BY DEF Admit, history, Running
  <1>2. CASE Cardinality(Running) < MaxConcurrent
    <2>1. /\ Cardinality(Creating') \in Nat
          /\ Cardinality(Creating') <= Cardinality(Calls)
      <3>1. Creating' \in SUBSET Calls
        BY DEF Creating
      <3>2. IsFiniteSet(Creating') /\ Cardinality(Creating') <= Cardinality(Calls)
        BY <3>1, CallsAssumption, FS_Subset
      <3>3. QED
        BY <3>2, FS_CardinalityType
    <2>2. QED
      BY <1>1, <1>2, <2>1, SetsFinite, LimitAssumption DEF LimitInv
  <1>3. CASE ~ (Cardinality(Running) < MaxConcurrent)
    <2>1. Leave(c)
      BY <1>3, SetsFinite, LimitAssumption DEF Admit
    <2>2. Creating' \subseteq Creating
      BY <2>1, LeaveType DEF Creating, Leave, IdleCall, TypeOK
    <2>3. QED
      BY <1>1, <2>2, LimitShrinks
  <1>4. QED
    BY <1>2, <1>3

LEMMA CreateLimit ==
    ASSUME TypeOK, LimitInv, NEW c \in Calls, Create(c)
    PROVE  LimitInv'
  <1>1. Running' = Running \cup {Len(runs) + 1}
    BY CreateType DEF Running
  <1>2. Len(runs) + 1 \notin Running
    BY CreateType DEF Running
  <1>3. Cardinality(Running') = Cardinality(Running) + 1
    BY <1>1, <1>2, SetsFinite, FS_AddElement
  <1>4. Creating' = Creating \ {c}
    <2>1. call'[c].pc = "executing"
      BY DEF Create, TypeOK, CallState
    <2>2. \A d \in Calls \ {c} : call'[d] = call[d]
      BY DEF Create, TypeOK
    <2>3. QED
      BY <2>1, <2>2 DEF Creating
  <1>5. c \in Creating
    BY DEF Create, Creating
  <1>6. Cardinality(Creating') = Cardinality(Creating) - 1
    BY <1>4, <1>5, SetsFinite, FS_RemoveElement
  <1>7. QED
    BY <1>3, <1>6, SetsFinite, LimitAssumption DEF LimitInv

(* Any other step of a call adds no running run and passes no count.       *)
LEMMA OtherLimit ==
    ASSUME TypeOK, CallsFit, LimitInv, NEW c \in Calls, CallStep(c), ~ Create(c), ~ Admit(c)
    PROVE  LimitInv'
  <1>1. DOMAIN runs' = DOMAIN runs
    <2>1. ASSUME NEW status \in {"completed", "failed"}, Finish(c, status)
          PROVE  DOMAIN runs' = DOMAIN runs
      BY <2>1, FinishType
    <2>2. QED
      BY <2>1 DEF CallStep, Start, Lookup, LookupFails, Refuse, Stats, Claim, ClaimFails, Abandon
  <1>2. Running' \subseteq Running
    BY <1>1, RunsOnlyEnd DEF Running
  <1>3. call'[c].pc # "create"
    <2>1. \/ Leave(c)
          \/ \E pc \in Pcs \ {"create"} : Goto(c, pc)
          \/ \E k \in Keys \cup {NoKey} : Start(c, k)
          \/ LookupFails(c)
      BY DEF CallStep, Lookup, Refuse, Finish, Stats, Claim, ClaimFails, Abandon, Answer, Pcs
    <2>2. CASE Leave(c)
      BY <2>2, LeaveType DEF IdleCall
    <2>3. ASSUME NEW pc \in Pcs \ {"create"}, Goto(c, pc) PROVE call'[c].pc # "create"
      BY <2>3, GotoType
    <2>4. ASSUME NEW k \in Keys \cup {NoKey}, Start(c, k) PROVE call'[c].pc # "create"
      BY <2>4 DEF Start, IdleCall, TypeOK
    <2>5. CASE LookupFails(c)
      BY <2>5 DEF LookupFails, TypeOK, CallState
    <2>6. QED
      BY <2>1, <2>2, <2>3, <2>4, <2>5
  <1>4. Creating' \subseteq Creating
    BY <1>3, OthersStay DEF Creating
  <1>5. QED
    BY <1>2, <1>4, LimitShrinks

(* Calls that count before each other's row is there exceed the limit, but *)
(* never by more than one less than their number (executeWorkflowInternal).*)
THEOREM LimitOverrunBoundedHolds == Spec => []LimitOverrunBounded
  <1>1. Init => LimitInv
    <2> SUFFICES ASSUME Init PROVE LimitInv
      OBVIOUS
    <2>1. Running = {} /\ Creating = {}
      BY DEF Init, Running, Creating, IdleCall
    <2>2. Cardinality(Running) = 0 /\ Cardinality(Creating) = 0
      BY <2>1, FS_EmptySet
    <2>3. QED
      BY <2>2, LimitAssumption, CallsAssumption, FS_CardinalityType DEF LimitInv
  <1>2. IInv /\ LimitInv /\ [Next]_vars => LimitInv'
    <2> SUFFICES ASSUME IInv, LimitInv, [Next]_vars PROVE LimitInv'
      OBVIOUS
    <2>1. TypeOK /\ CallsFit
      BY DEF IInv
    <2>2. ASSUME NEW c \in Calls, CallStep(c) PROVE LimitInv'
      BY <2>1, <2>2, AdmitLimit, CreateLimit, OtherLimit
    <2>3. ASSUME NEW old \in SUBSET DOMAIN runs, Cleanup(old) PROVE LimitInv'
      <3>1. Running' \subseteq Running
        BY <2>1, <2>3, CleanupOnlyFails DEF Running
      <3>2. Creating' = Creating
        BY <2>1, <2>3, CleanupOnlyFails DEF Creating
      <3>3. QED
        BY <2>1, <3>1, <3>2, LimitShrinks
    <2>4. CASE UNCHANGED vars
      BY <2>4 DEF vars, LimitInv, Running, Creating
    <2>5. QED
      BY <2>2, <2>3, <2>4 DEF Next
  <1>3. IInv /\ LimitInv => LimitOverrunBounded
    BY SetsFinite, LimitAssumption DEF IInv, LimitInv, LimitOverrunBounded
  <1>4. Spec => Init /\ [][Next]_vars
    BY DEF Spec
  <1>5. QED
    BY <1>1, <1>2, <1>3, <1>4, Invariance, PTL

-------------------------------------------------------------------------------
(***************************************************************************)
(* One run per quiet event. While neither overlap nor a lost run has       *)
(* disturbed an event and Redis works for it, at most one call is about    *)
(* it; the event has no run until that call creates one, which is its run  *)
(* until the call stores it.                                               *)
(***************************************************************************)
Settled(k) ==
    \/ RunsOf(k) = {} /\ stored[k] = NoRun
    \/ stored[k] # NoRun /\ \E i \in DOMAIN runs : RunsOf(k) = {i}

(* How far the only call about an event is.                                *)
Stands(k, c) ==
    \/ call[c].pc = "lookup" /\ Settled(k)
    \/ call[c].pc \in {"admit", "create"} /\ RunsOf(k) = {} /\ stored[k] = NoRun
    \/ call[c].pc \in {"executing", "stats", "claim"} /\ RunsOf(k) = {call[c].run} /\ stored[k] = NoRun

About(k) == {c \in Calls : call[c].key = k}

Handled(k) ==
    /\ \A c, d \in About(k) : c = d
    /\ \A c \in About(k) : Stands(k, c)
    /\ About(k) = {} => Settled(k)

QuietInv == \A k \in Keys \ (disturbed \cup degraded) : Handled(k)

LEMMA RunsOfType ==
    ASSUME TypeOK
    PROVE  /\ Len(runs) + 1 \notin DOMAIN runs
           /\ \A i \in DOMAIN runs : i # 0
           /\ \A k : RunsOf(k) \subseteq DOMAIN runs
  <1>1. Len(runs) \in Nat /\ DOMAIN runs = 1..Len(runs)
    BY RunsType DEF TypeOK
  <1>2. QED
    BY <1>1 DEF RunsOf

(* An event that a step does not touch is handled as before.               *)
LEMMA Elsewhere ==
    ASSUME NEW k, Handled(k), RunsOf(k)' = RunsOf(k), stored'[k] = stored[k],
           DOMAIN runs \subseteq DOMAIN runs',
           \A d \in Calls : call'[d].key = k \/ call[d].key = k => call'[d] = call[d]
    PROVE  Handled(k)'
  <1>1. About(k)' = About(k)
    BY DEF About
  <1>2. Settled(k) => Settled(k)'
    BY DEF Settled
  <1>3. ASSUME NEW d \in About(k) PROVE Stands(k, d)'
    <2>1. Stands(k, d) /\ call'[d] = call[d]
      BY DEF Handled, About
    <2>2. QED
      BY <1>2, <2>1 DEF Stands
  <1>4. QED
    BY <1>1, <1>2, <1>3 DEF Handled

(* The only call about an event goes on.                                   *)
LEMMA GoesOn ==
    ASSUME NEW k, Handled(k), NEW c \in Calls,
           \A d \in Calls \ {c} : call'[d] = call[d],
           call[c].key = k \/ About(k) = {}, call'[c].key = k, Stands(k, c)'
    PROVE  Handled(k)'
  <1>1. \A d \in Calls \ {c} : call'[d].key # k
    BY DEF Handled, About
  <1>2. About(k)' = {c}
    BY <1>1 DEF About
  <1>3. QED
    BY <1>2 DEF Handled

(* The only call about an event is over.                                   *)
LEMMA IsOver ==
    ASSUME NEW k \in Keys, Handled(k), NEW c \in Calls, call[c].key = k,
           \A d \in Calls \ {c} : call'[d] = call[d],
           call'[c] = IdleCall, Settled(k)'
    PROVE  Handled(k)'
  <1>1. \A d \in Calls \ {c} : call'[d].key # k
    BY DEF Handled, About
  <1>2. call'[c].key # k
    BY KeysAssumption DEF IdleCall
  <1>3. About(k)' = {}
    BY <1>1, <1>2 DEF About
  <1>4. QED
    BY <1>3 DEF Handled

(* A step of a call only adds a run to the event that the call is about.   *)
LEMMA RunsOfStep ==
    ASSUME TypeOK, CallsFit, NEW c \in Calls, CallStep(c), NEW k
    PROVE  /\ DOMAIN runs \subseteq DOMAIN runs'
           /\ RunsOf(k)' = IF Create(c) /\ call[c].key = k THEN RunsOf(k) \cup {Len(runs) + 1}
                           ELSE RunsOf(k)
  <1>1. CASE Create(c)
    BY <1>1, CreateType DEF RunsOf
  <1>2. CASE ~ Create(c)
    <2>1. DOMAIN runs' = DOMAIN runs
      <3>1. ASSUME NEW status \in {"completed", "failed"}, Finish(c, status)
            PROVE  DOMAIN runs' = DOMAIN runs
        BY <3>1, FinishType
      <3>2. QED
        BY <1>2, <3>1 DEF CallStep, Start, Lookup, LookupFails, Refuse, Admit, Stats, Claim, ClaimFails, Abandon
    <2>2. QED
      BY <1>2, <2>1, RunsOnlyEnd DEF RunsOf
  <1>3. QED
    BY <1>1, <1>2

(* A step of a call about another event, or about none.                    *)
LEMMA OtherEvent ==
    ASSUME TypeOK, CallsFit, NEW c \in Calls, CallStep(c), NEW k \in Keys, Handled(k),
           call[c].key # k, \A j \in {k} : ~ Start(c, j)
    PROVE  Handled(k)'
  <1>1. DOMAIN runs \subseteq DOMAIN runs' /\ RunsOf(k)' = RunsOf(k)
    BY RunsOfStep
  <1>2. stored'[k] = stored[k]
    <2>1. CASE Claim(c)
      BY <2>1 DEF Claim, TypeOK
    <2>2. CASE ClaimFails(c)
      BY <2>2 DEF ClaimFails, TypeOK
    <2>3. CASE stored' = stored
      BY <2>3
    <2>4. QED
      BY <2>1, <2>2, <2>3 DEF CallStep, Start, Lookup, LookupFails, Refuse, Admit, Create, Finish, Stats, Abandon
  <1>3. call'[c].key # k
    <2>1. ASSUME NEW j \in Keys \cup {NoKey}, Start(c, j) PROVE call'[c].key # k
      <3>1. j # k
        BY <2>1
      <3>2. call'[c].key = j
        BY <2>1 DEF Start, IdleCall, TypeOK
      <3>3. QED
        BY <3>1, <3>2
    <2>2. CASE Leave(c)
      BY <2>2, LeaveType, KeysAssumption DEF IdleCall
    <2>3. ASSUME NEW pc \in Pcs, Goto(c, pc) PROVE call'[c].key # k
      BY <2>3, GotoType
    <2>4. CASE LookupFails(c)
      BY <2>4 DEF LookupFails, TypeOK, CallState
    <2>5. CASE Create(c)
      BY <2>5 DEF Create, TypeOK, CallState
    <2>6. \/ \E j \in Keys \cup {NoKey} : Start(c, j)
          \/ Leave(c)
          \/ \E pc \in Pcs : Goto(c, pc)
          \/ LookupFails(c)
          \/ Create(c)
      BY DEF CallStep, Lookup, Refuse, Admit, Finish, Stats, Claim, ClaimFails, Abandon, Answer, Pcs
    <2>7. QED
      BY <2>1, <2>2, <2>3, <2>4, <2>5, <2>6
  <1>4. \A d \in Calls : call'[d].key = k \/ call[d].key = k => call'[d] = call[d]
    BY <1>3, OthersStay
  <1>5. QED
    BY <1>1, <1>2, <1>4, Elsewhere

(* A step of the call about the event, or one that begins such a call.     *)
LEMMA OwnEvent ==
    ASSUME TypeOK, CallsFit, NEW c \in Calls, CallStep(c),
           NEW k \in Keys \ (disturbed' \cup degraded'), Handled(k),
           call[c].key = k \/ Start(c, k)
    PROVE  Handled(k)'
  <1>1. \A d \in Calls \ {c} : call'[d] = call[d]
    BY OthersStay
  <1>2. call[c].key = k => Stands(k, c)
    BY DEF Handled, About
  <1>3. ASSUME UNCHANGED <<runs, stored>>
        PROVE  /\ RunsOf(k)' = RunsOf(k)
               /\ Settled(k)' = Settled(k)
    BY <1>3 DEF RunsOf, Settled
  <1>4. ASSUME NEW j \in Keys \cup {NoKey}, Start(c, j) PROVE Handled(k)'
    <2>1. CASE j = k
      <3>1. About(k) = {}
        BY <1>4, <2>1 DEF Start, About
      <3>2. Settled(k)'
        BY <1>3, <1>4, <3>1 DEF Start, Handled
      <3>3. call'[c].key = k /\ call'[c].pc = "lookup"
        BY <1>4, <2>1, KeysAssumption DEF Start, IdleCall, TypeOK
      <3>4. QED
        BY <1>1, <3>1, <3>2, <3>3, GoesOn DEF Stands
    <2>2. CASE j # k
      <3>1. ASSUME NEW n, Start(c, n) PROVE call[c].pc = "idle" /\ call'[c].key = n
        BY <3>1 DEF Start, IdleCall, TypeOK
      <3>2. ~ Start(c, k)
        BY <1>4, <2>2, <3>1
      <3>3. call[c].key = k /\ call[c].pc = "idle"
        BY <1>4, <3>1, <3>2
      <3>4. QED
        BY <1>2, <3>3 DEF Stands
    <2>3. QED
      BY <2>1, <2>2
  <1>5. CASE Lookup(c) /\ call[c].key = k
    <2>1. CASE stored[k] # NoRun
      <3>1. Leave(c) /\ Settled(k)'
        BY <1>2, <1>3, <1>5, <2>1 DEF Lookup, Answer, Stands
      <3>2. QED
        BY <1>1, <1>5, <3>1, LeaveType, IsOver
    <2>2. CASE stored[k] = NoRun
      <3>1. Goto(c, "admit")
        BY <1>5, <2>2 DEF Lookup
      <3>2. call'[c].key = k /\ call'[c].pc = "admit"
        BY <1>5, <3>1, GotoType DEF Pcs
      <3>3. RunsOf(k) = {} /\ stored'[k] = NoRun
        BY <1>2, <1>5, <2>2 DEF Lookup, Stands, Settled
      <3>4. Stands(k, c)'
        BY <1>3, <1>5, <3>2, <3>3 DEF Lookup, Stands
      <3>5. QED
        BY <1>1, <1>5, <3>2, <3>4, GoesOn
    <2>3. QED
      BY <2>1, <2>2
  <1>6. CASE LookupFails(c) /\ call[c].key = k
    BY <1>6 DEF LookupFails
  <1>7. CASE (Refuse(c) \/ Admit(c)) /\ call[c].key = k
    <2>1. RunsOf(k) = {} /\ stored[k] = NoRun /\ UNCHANGED <<runs, stored>>
      BY <1>2, <1>7 DEF Refuse, Admit, Stands
    <2>2. CASE Leave(c)
      <3>1. Settled(k)'
        BY <1>3, <2>1 DEF Settled
      <3>2. QED
        BY <1>1, <1>7, <2>2, <3>1, LeaveType, IsOver
    <2>3. CASE Goto(c, "create")
      <3>1. call'[c].key = k /\ call'[c].pc = "create"
        BY <1>7, <2>3, GotoType DEF Pcs
      <3>2. Stands(k, c)'
        BY <1>3, <2>1, <3>1 DEF Stands
      <3>3. QED
        BY <1>1, <1>7, <3>1, <3>2, GoesOn
    <2>4. QED
      BY <1>7, <2>2, <2>3 DEF Refuse, Admit
  <1>8. CASE Create(c) /\ call[c].key = k
    <2>1. RunsOf(k) = {} /\ stored'[k] = NoRun
      BY <1>2, <1>8 DEF Create, Stands
    <2>2. RunsOf(k)' = {Len(runs) + 1}
      BY <1>8, <2>1, RunsOfStep
    <2>3. call'[c].key = k /\ call'[c].pc = "executing" /\ call'[c].run = Len(runs) + 1
      BY <1>8 DEF Create, TypeOK, CallState
    <2>4. Stands(k, c)'
      BY <2>1, <2>2, <2>3 DEF Stands
    <2>5. QED
      BY <1>1, <1>8, <2>3, <2>4, GoesOn
  <1>9. ASSUME NEW status \in {"completed", "failed"}, Finish(c, status), call[c].key = k
        PROVE  Handled(k)'
    <2>1. RunsOf(k) = {call[c].run} /\ stored'[k] = NoRun
      BY <1>2, <1>9 DEF Finish, Stands
    <2>2. ~ Create(c)
      BY <1>9 DEF Finish, Create
    <2>3. RunsOf(k)' = RunsOf(k)
      BY <2>2, RunsOfStep
    <2>4. call'[c].key = k /\ call'[c].pc = "stats" /\ call'[c].run = call[c].run
      BY <1>9, GotoType DEF Finish, Pcs
    <2>5. Stands(k, c)'
      BY <2>1, <2>3, <2>4 DEF Stands
    <2>6. QED
      BY <1>1, <1>9, <2>4, <2>5, GoesOn
  <1>10. CASE Stats(c) /\ call[c].key = k
    <2>1. call[c].guarded
      BY <1>10 DEF CallsFit, CallFits, Stats
    <2>2. call'[c].key = k /\ call'[c].pc = "claim" /\ call'[c].run = call[c].run
      BY <1>10, <2>1, GotoType DEF Stats, Pcs
    <2>3. Stands(k, c)'
      BY <1>2, <1>3, <1>10, <2>2 DEF Stats, Stands
    <2>4. QED
      BY <1>1, <1>10, <2>2, <2>3, GoesOn
  <1>11. CASE Claim(c) /\ call[c].key = k
    <2>1. RunsOf(k) = {call[c].run} /\ stored[k] = NoRun
      BY <1>2, <1>11 DEF Claim, Stands
    <2>2. call[c].run \in DOMAIN runs
      BY <2>1, RunsOfType
    <2>3. stored'[k] = call[c].run /\ runs' = runs /\ Leave(c)
      BY <1>11, <2>1 DEF Claim, Answer, TypeOK
    <2>4. call[c].run # NoRun
      BY NoRunAssumption DEF TypeOK, CallState
    <2>5. Settled(k)'
      BY <2>1, <2>2, <2>3, <2>4 DEF Settled, RunsOf
    <2>6. QED
      BY <1>1, <1>11, <2>3, <2>5, LeaveType, IsOver
  <1>12. CASE ClaimFails(c) /\ call[c].key = k
    BY <1>12 DEF ClaimFails
  <1>13. CASE Abandon(c) /\ call[c].key = k
    <2>1. call[c].run = 0
      BY <1>13 DEF Abandon
    <2>2. call[c].pc \notin {"executing", "stats", "claim"}
      BY <2>1, RunsOfType DEF CallsFit, CallFits
    <2>3. Settled(k)'
      BY <1>2, <1>3, <1>13, <2>2 DEF Abandon, Stands, Settled
    <2>4. QED
      BY <1>1, <1>13, <2>3, LeaveType, IsOver DEF Abandon
  <1>14. QED
    BY <1>4, <1>5, <1>6, <1>7, <1>8, <1>9, <1>10, <1>11, <1>12, <1>13 DEF CallStep

(* The cleanup ends runs and leaves their events alone.                    *)
LEMMA CleanupEvents ==
    ASSUME TypeOK, NEW old, Cleanup(old), NEW k, Handled(k)
    PROVE  Handled(k)'
  <1>1. DOMAIN runs' = DOMAIN runs /\ \A i \in DOMAIN runs : runs'[i].key = runs[i].key
    BY CleanupOnlyFails
  <1>2. RunsOf(k)' = RunsOf(k)
    BY <1>1 DEF RunsOf
  <1>3. UNCHANGED <<stored, call>>
    BY CleanupOnlyFails
  <1>4. QED
    BY <1>1, <1>2, <1>3, Elsewhere

(* An event is quiet until it is disturbed.                                *)
LEMMA StillQuiet ==
    ASSUME [Next]_vars
    PROVE  disturbed \subseteq disturbed' /\ degraded \subseteq degraded'
  <1>1. ASSUME NEW c \in Calls, CallStep(c) PROVE disturbed \subseteq disturbed' /\ degraded \subseteq degraded'
    BY <1>1 DEF CallStep, Start, Lookup, LookupFails, Refuse, Admit, Create, Finish, Stats, Claim, ClaimFails,
                Abandon, history
  <1>2. QED
    BY <1>1 DEF Next, Cleanup, Mark, history, vars

(* An event whose calls neither overlapped nor lost their run, and for     *)
(* which Redis worked, has one run, however often it is delivered          *)
(* (executeWorkflow with withIdempotency).                                 *)
THEOREM OneRunPerQuietEventHolds == Spec => []OneRunPerQuietEvent
  <1>1. Init => QuietInv
    <2> SUFFICES ASSUME Init, NEW k \in Keys PROVE Handled(k)
      BY DEF QuietInv
    <2>1. About(k) = {}
      BY KeysAssumption DEF Init, About, IdleCall
    <2>2. Settled(k)
      BY DEF Init, Settled, RunsOf
    <2>3. QED
      BY <2>1, <2>2 DEF Handled
  <1>2. IInv /\ QuietInv /\ [Next]_vars => QuietInv'
    <2> SUFFICES ASSUME IInv, QuietInv, [Next]_vars,
                        NEW k \in Keys, k \notin disturbed', k \notin degraded'
                 PROVE  Handled(k)'
      BY DEF QuietInv
    <2>1. TypeOK /\ CallsFit
      BY DEF IInv
    <2>2. Handled(k)
      BY StillQuiet DEF QuietInv
    <2>3. ASSUME NEW c \in Calls, CallStep(c) PROVE Handled(k)'
      BY <2>1, <2>2, <2>3, OwnEvent, OtherEvent
    <2>4. ASSUME NEW old \in SUBSET DOMAIN runs, Cleanup(old) PROVE Handled(k)'
      BY <2>1, <2>2, <2>4, CleanupEvents
    <2>5. CASE UNCHANGED vars
      BY <2>2, <2>5 DEF vars, Handled, Stands, Settled, About, RunsOf
    <2>6. QED
      BY <2>3, <2>4, <2>5 DEF Next
  <1>3. IInv /\ QuietInv => OneRunPerQuietEvent
    <2> SUFFICES ASSUME IInv, QuietInv, NEW k \in Keys \ (disturbed \cup degraded),
                        NEW i \in RunsOf(k), NEW j \in RunsOf(k)
                 PROVE  i = j
      BY DEF OneRunPerQuietEvent
    <2>1. Handled(k)
      BY DEF QuietInv
    <2>2. \E n : RunsOf(k) = {n}
      <3>1. CASE Settled(k)
        BY <3>1 DEF Settled
      <3>2. ASSUME NEW c \in About(k) PROVE \E n : RunsOf(k) = {n}
        BY <2>1, <3>1 DEF Handled, Stands, Settled
      <3>3. QED
        BY <2>1, <3>1, <3>2 DEF Handled
    <2>3. QED
      BY <2>2
  <1>4. Spec => Init /\ [][Next]_vars
    BY DEF Spec
  <1>5. QED
    BY <1>1, <1>2, <1>3, <1>4, Invariance, PTL
===============================================================================
