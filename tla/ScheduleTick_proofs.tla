-------------------------- MODULE ScheduleTick_proofs --------------------------
(***************************************************************************)
(* Proofs about schedules, for every number of replicas, schedules, crons, *)
(* edits and faults: an edit stands, and a firing runs once but for        *)
(* faults.                                                                 *)
(***************************************************************************)
EXTENDS ScheduleTick, FiniteSetTheorems, TLAPS

USE DEF editing, history

Ticks == [pc : {"idle", "next", "running", "update"}, at : Times,
          todo : SUBSET Reads, row : Reads \cup {Nothing}]

(* What a tick has read and not dealt with.                                *)
Hands(t) == t.todo \cup ({t.row} \ {Nothing})

(* A tick has read each schedule once, and what was due when it began.     *)
Sound(t, time) ==
    /\ t.pc = "idle" => t.todo = {}
    /\ t.at <= time
    /\ \A j \in Hands(t) : j.due <= t.at
    /\ \A j \in t.todo : j.schedule # t.row.schedule
    /\ \A i, j \in t.todo : i.schedule = j.schedule => i = j

TickInv == \A r \in Replicas : Sound(tick[r], now)

(* As long as a schedule has not been edited under a tick that had read    *)
(* it, every tick that has read it knows its cron.                         *)
Known(s) ==
    \A r \in Replicas : \A j \in Hands(tick[r]) :
        j.schedule = s => row[s].enabled /\ j.cron = row[s].cron
Planned(x) == IF x.enabled THEN x.next \in Nat /\ x.next % x.cron = 0 ELSE x.next = Never

(* An update that an edit is about to make of a row: what it does not set  *)
(* is still as it was read.                                                *)
Agrees(p, x) ==
    /\ "cron" \notin p.sets => p.cron = x.cron
    /\ "enabled" \notin p.sets => p.enabled = x.enabled
    /\ IF "next" \in p.sets THEN Planned(p) ELSE p.cron = x.cron /\ p.enabled = x.enabled
Fresh(s) == \A e \in Editors : editor[e].schedule = s => Agrees(editor[e], row[s])

EditInv ==
    \A s \in Schedules \ contested :
        /\ Fresh(s)
        /\ row[s].enabled => row[s].next \in Nat
        /\ s \notin overtaken => Planned(row[s]) /\ Known(s)

(* A tick that has not ended and has lost the lock: each took a fault.     *)
Loose == {r \in Replicas : tick[r].pc # "idle" /\ lock # r}

(* A tick that will fire a key, has it in hand, or will set the schedule   *)
(* to be due at its time.                                                  *)
Carries(t, k) == \E j \in t.todo : KeyOf(j) = k
InHand(t, k) == KeyOf(t.row) = k
Sets(t, k) ==
    \E j \in Hands(t) : j.schedule = k.schedule /\ NextFireAt(j.cron, t.at) = k.due

Threats(k) == {r \in Loose : Carries(tick[r], k) \/ Sets(tick[r], k)}

(* The run that a key is entitled to is still to come: its time has not    *)
(* come, or the tick with the lock carries it, or its row is due and that  *)
(* tick does not have it in hand.                                          *)
Open(k) ==
    \/ k.due > now
    \/ \E r \in Replicas : lock = r /\ Carries(tick[r], k)
    \/ /\ row[k.schedule].next = k.due
       /\ \A r \in Replicas : lock = r => ~InHand(tick[r], k)

(* Runs that were, and those that may come without another fault.          *)
Owed(k) == runs[k] + (IF Open(k) THEN 1 ELSE 0) + Cardinality(Threats(k))

(* What has run was due when the tick with the lock began.                 *)
RunInv ==
    /\ \A k \in Keys : runs[k] > 0 => k.due <= now
    /\ \A r \in Replicas : lock = r /\ tick[r].pc # "idle" =>
          /\ \A k \in Keys : runs[k] > 0 => k.due <= tick[r].at
          /\ \A q \in Replicas : tick[q].at <= tick[r].at

OwedInv ==
    /\ Cardinality(Loose) <= faults
    /\ \A k \in Keys : Owed(k) <= 1 + faults

-------------------------------------------------------------------------------
(* Times                                                                   *)

LEMMA NextFireAtFacts ==
  ASSUME NEW cron \in Nat \ {0}, NEW from \in Nat
  PROVE  /\ NextFireAt(cron, from) \in Nat /\ NextFireAt(cron, from) > from
         /\ NextFireAt(cron, from) % cron = 0
<1>1. from \div cron + 1 \in Nat
  BY SMT
<1>2. \A n \in Nat : cron * n \in Nat /\ (cron * n) % cron = 0
  BY SMT
<1>3. NextFireAt(cron, from) > from
  BY SMT DEF NextFireAt
<1> QED
  BY <1>1, <1>2, <1>3 DEF NextFireAt

LEMMA NeverIsNoTime == Never \notin Nat /\ Never \notin Schedules /\ Nothing \notin Reads
BY NeverAssumption DEF Nothing, Reads

-------------------------------------------------------------------------------
(* What the steps of a tick do to it                                       *)

(* Only the tick of replica r changes, into t.                             *)
Turns(r, t) ==
    /\ t \in Ticks
    /\ tick' \in [Replicas -> Ticks]
    /\ tick'[r] = t
    /\ \A q \in Replicas \ {r} : tick'[q] = tick[q]

LEMMA BeginFacts ==
  ASSUME TypeOK, NEW r \in Replicas, Begin(r)
  PROVE  /\ tick[r].pc = "idle" /\ tick[r].row = Nothing
         /\ \E t \in Ticks : /\ Turns(r, t) /\ t.pc = "next" /\ t.at = now /\ t.row = Nothing
                             /\ \A j \in t.todo : \E s \in Schedules : Due(s) /\ j = Read(s)
<1>1. PICK batch \in Batches \ {{}} :
        tick' = [tick EXCEPT ![r] = [@ EXCEPT !.pc = "next", !.at = now, !.todo = {Read(s) : s \in batch}]]
  BY DEF Begin
<1> DEFINE reads == {Read(s) : s \in batch}
           t == [tick[r] EXCEPT !.pc = "next", !.at = now, !.todo = reads]
<1>2. \A s \in batch : s \in Schedules /\ Due(s)
  BY DEF Batches
<1>3. ASSUME NEW s \in batch PROVE Read(s) \in Reads
  <2>1. row[s] \in Row /\ now \in 0..MaxTime /\ MaxTime \in Nat
    BY <1>2, BoundsAssumption DEF TypeOK, Times
  <2>2. row[s].next \in Nat /\ row[s].next <= now
    BY <1>2, <2>1 DEF Due, Row
  <2>3. row[s].next \in Times
    BY <2>1, <2>2 DEF Times
  <2> QED
    BY <1>2, <2>1, <2>3 DEF Read, Reads, Row
<1>4. tick[r] \in Ticks /\ tick \in [Replicas -> Ticks] /\ now \in Times
      /\ tick[r].pc = "idle" /\ tick[r].row = Nothing
  BY DEF TypeOK, Ticks, Begin
<1>5. /\ reads \subseteq Reads
      /\ \A j \in reads : \E s \in Schedules : Due(s) /\ j = Read(s)
  BY <1>2, <1>3
<1>6. tick' = [tick EXCEPT ![r] = t]
  BY <1>1
<1> HIDE DEF reads
<1>7. t \in Ticks /\ t.pc = "next" /\ t.at = now /\ t.row = Nothing /\ t.todo = reads
  BY <1>4, <1>5 DEF Ticks
<1> HIDE DEF t
<1>8. Turns(r, t)
  BY <1>4, <1>6, <1>7 DEF Turns
<1> QED
  BY <1>4, <1>5, <1>7, <1>8

LEMMA FireFacts ==
  ASSUME TypeOK, NEW r \in Replicas, Fire(r)
  PROVE  \E j \in tick[r].todo, t \in Ticks :
            /\ Turns(r, t) /\ t.pc \in {"running", "update"} /\ t.at = tick[r].at
            /\ t.row = j /\ t.todo = tick[r].todo \ {j}
            /\ tick[r].row = Nothing /\ tick[r].pc = "next" /\ KeyOf(j) \in Keys
            /\ runs' = runs \/ runs' = [runs EXCEPT ![KeyOf(j)] = @ + 1]
<1>1. PICK j \in tick[r].todo, pc \in {"running", "update"} :
        /\ AtRow(r, j, pc)
        /\ runs' = runs \/ runs' = [runs EXCEPT ![KeyOf(j)] = @ + 1]
  BY DEF Fire
<1> DEFINE rest == tick[r].todo \ {j}
           t == [tick[r] EXCEPT !.pc = pc, !.row = j, !.todo = rest]
<1>2. tick[r] \in Ticks /\ tick \in [Replicas -> Ticks] /\ tick[r].row = Nothing /\ tick[r].pc = "next"
  BY DEF TypeOK, Ticks, Fire
<1>3. j \in Reads /\ rest \subseteq Reads
  BY <1>2 DEF Ticks
<1>5. tick' = [tick EXCEPT ![r] = t] /\ rest = tick[r].todo \ {j}
  BY <1>1 DEF AtRow
<1> HIDE DEF rest
<1>6. pc \in {"idle", "next", "running", "update"} /\ j \in Reads \cup {Nothing} /\ rest \in SUBSET Reads
  BY <1>3
<1>4. t \in Ticks /\ t.pc = pc /\ t.at = tick[r].at /\ t.row = j /\ t.todo = rest
  BY <1>2, <1>6 DEF Ticks
<1> HIDE DEF t
<1>8. Turns(r, t)
  BY <1>2, <1>4, <1>5 DEF Turns
<1>7. KeyOf(j) \in Keys
  BY <1>3 DEF KeyOf, Key, Keys, Reads
<1> QED
  BY <1>1, <1>2, <1>4, <1>5, <1>7, <1>8

LEMMA RanFacts ==
  ASSUME TypeOK, NEW r \in Replicas, Ran(r)
  PROVE  \E t \in Ticks :
            /\ Turns(r, t) /\ t.pc = "update" /\ t.at = tick[r].at
            /\ t.row = tick[r].row /\ t.todo = tick[r].todo /\ tick[r].pc = "running"
<1> DEFINE t == [tick[r] EXCEPT !.pc = "update"]
<1>1. tick[r] \in Ticks /\ tick \in [Replicas -> Ticks] /\ tick[r].pc = "running" /\ tick' = [tick EXCEPT ![r] = t]
  BY DEF TypeOK, Ticks, Ran
<1>2. t \in Ticks /\ t.pc = "update" /\ t.at = tick[r].at /\ t.row = tick[r].row /\ t.todo = tick[r].todo
  BY <1>1 DEF Ticks
<1> HIDE DEF t
<1> QED
  BY <1>1, <1>2 DEF Turns

LEMMA DoneFacts ==
  ASSUME TypeOK, NEW r \in Replicas, Done(r), tick[r].pc = "update"
  PROVE  /\ tick[r].row \in Reads
         /\ \E t \in Ticks :
               /\ Turns(r, t) /\ t.pc = "next" /\ t.at = tick[r].at
               /\ t.row = Nothing /\ t.todo = tick[r].todo
<1> DEFINE t == [tick[r] EXCEPT !.pc = "next", !.row = Nothing]
<1>1. tick[r] \in Ticks /\ tick \in [Replicas -> Ticks] /\ tick' = [tick EXCEPT ![r] = t]
      /\ tick[r].row # Nothing
  BY DEF TypeOK, Ticks, Done
<1>2. t \in Ticks /\ t.pc = "next" /\ t.at = tick[r].at /\ t.row = Nothing /\ t.todo = tick[r].todo
  BY <1>1 DEF Ticks
<1> HIDE DEF t
<1>3. Turns(r, t)
  BY <1>1, <1>2 DEF Turns
<1>4. tick[r].row \in Reads
  BY <1>1 DEF Ticks
<1> QED
  BY <1>2, <1>3, <1>4

LEMMA IdleFacts ==
  ASSUME TypeOK, NEW r \in Replicas, tick' = [tick EXCEPT ![r] = Idle]
  PROVE  Turns(r, Idle)
<1>1. Idle \in Ticks
  BY BoundsAssumption DEF Idle, Ticks, Times
<1> QED
  BY <1>1 DEF TypeOK, Turns, Ticks

(* The row of a schedule after an update of the tick, and after an edit.   *)
LEMMA UpdateFacts ==
  ASSUME TypeOK, NEW r \in Replicas, Update(r)
  PROVE  LET j == tick[r].row
         IN  /\ j \in Reads /\ tick[r].pc = "update" /\ tick[r].at \in Times
             /\ row' \in [Schedules -> Row]
             /\ row'[j.schedule].next = NextFireAt(j.cron, tick[r].at)
             /\ row'[j.schedule].cron = row[j.schedule].cron
             /\ row'[j.schedule].enabled = row[j.schedule].enabled
             /\ \A s \in Schedules \ {j.schedule} : row'[s] = row[s]
<1> DEFINE j == tick[r].row
           e == NextFireAt(j.cron, tick[r].at)
<1>1. j \in Reads /\ tick[r].pc = "update" /\ tick[r].at \in Times
  BY DEF TypeOK, Update
<1>2. e \in Nat
  <2>1. j.cron \in Nat \ {0}
    BY <1>1, CronsAssumption DEF Reads
  <2>2. tick[r].at \in Nat
    BY <1>1, BoundsAssumption DEF Times
  <2> QED
    BY <2>1, <2>2, NextFireAtFacts
<1>3. row' = [row EXCEPT ![j.schedule].next = e] /\ j.schedule \in Schedules
  BY <1>1 DEF Update, Reads
<1>4. row \in [Schedules -> Row]
  BY DEF TypeOK
<1> HIDE DEF e, j
<1>5. [row[j.schedule] EXCEPT !.next = e] \in Row
  BY <1>2, <1>3, <1>4 DEF Row
<1>6. /\ row' \in [Schedules -> Row] /\ row'[j.schedule] = [row[j.schedule] EXCEPT !.next = e]
      /\ \A s \in Schedules \ {j.schedule} : row'[s] = row[s]
  BY <1>3, <1>4, <1>5
<1>7. /\ row'[j.schedule].next = e /\ row'[j.schedule].cron = row[j.schedule].cron
      /\ row'[j.schedule].enabled = row[j.schedule].enabled
  BY <1>3, <1>4, <1>6 DEF Row
<1> QED
  BY <1>1, <1>6, <1>7 DEF e, j

(* An edit that has read the row.                                          *)
LEMMA ReadFacts ==
  ASSUME TypeOK, NEW e \in Editors, NEW s \in Edited, NEW given \in Given,
         NEW cron \in Crons, NEW enabled \in BOOLEAN, ReadToEdit(e, s, given, cron, enabled)
  PROVE  \E p \in Patch : /\ editor' = [editor EXCEPT ![e] = p]
                          /\ p.schedule = s /\ Agrees(p, row[s])
<1> DEFINE c == IF "cron" \in given THEN cron ELSE row[s].cron
           on == IF "enabled" \in given THEN enabled ELSE row[s].enabled
           moved == IF c # row[s].cron \/ on # row[s].enabled THEN {"next"} ELSE {}
           sets == given \cup moved
           next == NextOf(c, on)
           p == [schedule |-> s, sets |-> sets, cron |-> c, enabled |-> on, next |-> next]
<1>1. editor' = [editor EXCEPT ![e] = p]
  BY DEF ReadToEdit
<1>2. s \in Schedules /\ given \subseteq {"cron", "enabled"}
  BY BoundsAssumption
<1>3. c \in Crons /\ on \in BOOLEAN
  BY <1>2 DEF TypeOK, Row
<1>4. sets \subseteq Fields
  BY <1>2 DEF Fields
<1>5. ("cron" \notin sets => c = row[s].cron) /\ ("enabled" \notin sets => on = row[s].enabled)
      /\ ("next" \notin sets => c = row[s].cron /\ on = row[s].enabled)
  BY <1>2
<1>6. now \in Nat
  BY BoundsAssumption DEF TypeOK, Times
<1> HIDE DEF c, on, sets
<1>7. IF on THEN next \in Nat /\ next % c = 0 ELSE next = Never
  BY <1>3, <1>6, CronsAssumption, NextFireAtFacts DEF NextOf
<1>8. next \in Nat \cup {Never}
  BY <1>3, <1>7
<1> HIDE DEF next
<1>9. p \in Patch /\ p.schedule = s
  BY <1>2, <1>3, <1>4, <1>8 DEF Patch
<1>10. Agrees(p, row[s])
  BY <1>5, <1>7 DEF Agrees, Planned
<1> QED
  BY <1>1, <1>9, <1>10

LEMMA EditFacts ==
  ASSUME TypeOK, NEW e \in Editors, Edit(e)
  PROVE  /\ editor[e] \in Patch
         /\ row' \in [Schedules -> Row]
         /\ LET p == editor[e]
                new == row'[p.schedule]
                old == row[p.schedule]
            IN /\ new.cron = (IF "cron" \in p.sets THEN p.cron ELSE old.cron)
               /\ new.enabled = (IF "enabled" \in p.sets THEN p.enabled ELSE old.enabled)
               /\ new.next = (IF "next" \in p.sets THEN p.next ELSE old.next)
               /\ \A x \in Schedules \ {p.schedule} : row'[x] = row[x]
<1> DEFINE p == editor[e]
<1>1. p \in Patch
  BY DEF TypeOK, Edit
<1>2. p.schedule \in Schedules /\ row \in [Schedules -> Row] /\ row[p.schedule] \in Row
  BY <1>1 DEF TypeOK, Patch
<1>3. row' = [row EXCEPT ![p.schedule] = Patched(row[p.schedule], p)]
  BY <1>2 DEF Edit
<1> DEFINE old == row[p.schedule]
           new == Patched(old, p)
<1>4. p.cron \in Crons /\ p.enabled \in BOOLEAN /\ p.next \in Nat \cup {Never}
  BY <1>1 DEF Patch
<1>5. p = editor[e] /\ old = row[p.schedule]
  OBVIOUS
<1> HIDE DEF p, old
<1>6. /\ new \in Row
      /\ new.cron = (IF "cron" \in p.sets THEN p.cron ELSE old.cron)
      /\ new.enabled = (IF "enabled" \in p.sets THEN p.enabled ELSE old.enabled)
      /\ new.next = (IF "next" \in p.sets THEN p.next ELSE old.next)
  BY <1>2, <1>4, <1>5 DEF Patched, Row
<1>7. row' = [row EXCEPT ![p.schedule] = new]
  BY <1>3, <1>5
<1> HIDE DEF new
<1>8. row' \in [Schedules -> Row] /\ row'[p.schedule] = new
      /\ \A x \in Schedules \ {p.schedule} : row'[x] = row[x]
  BY <1>2, <1>6, <1>7
<1> QED
  BY <1>1, <1>5, <1>6, <1>8

LEMMA StatusFacts ==
  ASSUME TypeOK, NEW s \in Schedules, SetStatus(s)
  PROVE  /\ row' \in [Schedules -> Row]
         /\ \A x \in Schedules : /\ row'[x].next = row[x].next /\ row'[x].cron = row[x].cron
                                 /\ row'[x].enabled = row[x].enabled
<1> DEFINE new == [row[s] EXCEPT !.active = ~row[s].active]
<1>1. row' = [row EXCEPT ![s] = new] /\ row \in [Schedules -> Row]
  BY DEF TypeOK, SetStatus
<1>2. new \in Row /\ new.next = row[s].next /\ new.cron = row[s].cron /\ new.enabled = row[s].enabled
  BY <1>1 DEF Row
<1> HIDE DEF new
<1> QED
  BY <1>1, <1>2

-------------------------------------------------------------------------------
(* Types                                                                   *)

LEMMA Init_TypeOK == Init => TypeOK
<1> SUFFICES ASSUME Init PROVE TypeOK
  OBVIOUS
<1>1. 0 \in Times /\ 0 \in 0..MaxEdits /\ 0 \in 0..MaxFaults
  BY BoundsAssumption DEF Times
<1>2. \A s \in Schedules : NextFireAt(FirstCron[s], 0) \in Nat
  BY CronsAssumption, NextFireAtFacts
<1>3. row \in [Schedules -> Row]
  BY <1>2, CronsAssumption DEF Init, Row
<1>4. Idle \in Ticks /\ Idle.row = Nothing /\ Idle.pc = "idle"
  BY <1>1 DEF Idle, Ticks
<1> QED
  BY <1>1, <1>3, <1>4 DEF Init, TypeOK, Ticks

(* The replica's tick, and nothing that its type depends on.               *)
LEMMA TurnType ==
  ASSUME TypeOK, NEW r \in Replicas, NEW t, Turns(r, t),
         t.pc \in {"running", "update"} <=> t.row # Nothing,
         now' \in Times, row' \in [Schedules -> Row], lock' \in Replicas \cup {Nobody},
         stored' \subseteq Keys, runs' \in [Keys -> Nat],
         editor' \in [Editors -> Patch \cup {NoPatch}], edits' \in 0..MaxEdits,
         faults' \in 0..MaxFaults, overtaken' \subseteq Schedules, contested' \subseteq Schedules
  PROVE  TypeOK'
BY DEF TypeOK, Turns, Ticks

LEMMA FaultFacts ==
  ASSUME TypeOK, Fault
  PROVE  faults' = faults + 1 /\ faults' \in 0..MaxFaults /\ faults \in Nat
BY BoundsAssumption DEF TypeOK, Fault

LEMMA NothingFacts == Nothing.schedule = Never /\ Nothing \notin Reads
BY NeverIsNoTime DEF Nothing

LEMMA StepType ==
  ASSUME TypeOK, [Next]_vars
  PROVE  TypeOK'
<1>1. ASSUME NEW r \in Replicas, Begin(r) PROVE TypeOK'
  BY <1>1, BeginFacts, TurnType DEF TypeOK, Begin
<1>2. ASSUME NEW r \in Replicas, Fire(r) PROVE TypeOK'
  <2>1. PICK j \in tick[r].todo, t \in Ticks :
            /\ Turns(r, t) /\ t.pc \in {"running", "update"} /\ t.row = j
            /\ KeyOf(j) \in Keys
            /\ runs' = runs \/ runs' = [runs EXCEPT ![KeyOf(j)] = @ + 1]
    BY <1>2, FireFacts
  <2>2. runs' \in [Keys -> Nat]
    BY <2>1 DEF TypeOK
  <2>3. j # Nothing
    BY <2>1, NothingFacts DEF TypeOK
  <2> QED
    BY <1>2, <2>1, <2>2, <2>3, TurnType DEF TypeOK, Fire
<1>3. ASSUME NEW r \in Replicas, Ran(r) PROVE TypeOK'
  <2>1. tick[r].row \in Reads
    BY <1>3 DEF TypeOK, Ran
  <2>2. stored' \subseteq Keys
    BY <1>3, <2>1 DEF TypeOK, Ran, KeyOf, Key, Keys, Reads
  <2>3. tick[r].row # Nothing
    BY <2>1, NothingFacts
  <2> QED
    BY <1>3, <2>2, <2>3, RanFacts, TurnType DEF TypeOK, Ran
<1>4. ASSUME NEW r \in Replicas, Update(r) PROVE TypeOK'
  <2>1. row' \in [Schedules -> Row] /\ tick[r].pc = "update" /\ Done(r)
    BY <1>4, UpdateFacts DEF Update
  <2> QED
    BY <1>4, <2>1, DoneFacts, TurnType DEF TypeOK, Update
<1>5. ASSUME NEW r \in Replicas, UpdateThrows(r) PROVE TypeOK'
  BY <1>5, DoneFacts, FaultFacts, TurnType DEF TypeOK, UpdateThrows
<1>6. ASSUME NEW r \in Replicas, Release(r) \/ Crash(r) PROVE TypeOK'
  <2>1. Turns(r, Idle) /\ Idle.pc = "idle" /\ Idle.row = Nothing
    BY <1>6, IdleFacts DEF Release, Crash, Idle
  <2>2. faults' \in 0..MaxFaults
    BY <1>6, FaultFacts DEF Release, Crash, TypeOK
  <2> QED
    BY <1>6, <2>1, <2>2, TurnType DEF TypeOK, Release, Crash
<1>7. ASSUME NEW e \in Editors, Edit(e) PROVE TypeOK'
  <2>1. row' \in [Schedules -> Row] /\ editor[e] \in Patch
    BY <1>7, EditFacts
  <2>2. overtaken' \subseteq Schedules /\ contested' \subseteq Schedules
    BY <1>7, <2>1 DEF Edit, TypeOK, Patch
  <2>3. editor' \in [Editors -> Patch \cup {NoPatch}]
    BY <1>7 DEF Edit, TypeOK
  <2>4. faults' \in 0..MaxFaults
    BY <1>7, FaultFacts DEF Edit, TypeOK
  <2> QED
    BY <1>7, <2>1, <2>2, <2>3, <2>4 DEF Edit, TypeOK
<1>12. ASSUME NEW e \in Editors, NEW s \in Edited, NEW given \in Given,
              NEW cron \in Crons, NEW enabled \in BOOLEAN, ReadToEdit(e, s, given, cron, enabled)
       PROVE  TypeOK'
  <2>1. editor' \in [Editors -> Patch \cup {NoPatch}]
    BY <1>12, ReadFacts DEF TypeOK
  <2>2. edits' \in 0..MaxEdits
    BY <1>12, BoundsAssumption DEF ReadToEdit, TypeOK
  <2> QED
    BY <1>12, <2>1, <2>2 DEF ReadToEdit, TypeOK
<1>8. ASSUME NEW s \in Edited, SetStatus(s) PROVE TypeOK'
  <2>1. row' \in [Schedules -> Row]
    BY <1>8, StatusFacts, BoundsAssumption
  <2>2. edits' \in 0..MaxEdits
    BY <1>8, BoundsAssumption DEF SetStatus, TypeOK
  <2> QED
    BY <1>8, <2>1, <2>2 DEF SetStatus, TypeOK
<1>9. CASE Clock
  <2>1. now' \in Times
    BY <1>9, BoundsAssumption DEF Clock, TypeOK, Times
  <2> QED
    BY <1>9, <2>1 DEF Clock, TypeOK
<1>10. CASE LockExpires
  <2>1. faults' \in 0..MaxFaults
    BY <1>10, FaultFacts DEF LockExpires, TypeOK
  <2> QED
    BY <1>10, <2>1 DEF LockExpires, TypeOK
<1>11. CASE UNCHANGED vars
  BY <1>11 DEF vars, TypeOK
<1> QED
  BY <1>1, <1>2, <1>3, <1>4, <1>5, <1>6, <1>7, <1>8, <1>9, <1>10, <1>11, <1>12 DEF Next, TickStep

-------------------------------------------------------------------------------
(* Ticks                                                                   *)

LEMMA TurnTicks ==
  ASSUME TickInv, NEW r \in Replicas, NEW t, Turns(r, t), Sound(t, now), now' = now
  PROVE  TickInv'
BY DEF TickInv, Turns

LEMMA NothingReads == ASSUME TypeOK, NEW r \in Replicas
  PROVE  /\ tick[r] \in Ticks
         /\ tick[r].todo \subseteq Reads /\ Nothing \notin tick[r].todo
         /\ tick[r].at \in Nat /\ now \in Nat
         /\ \A j \in tick[r].todo : j.due \in Nat /\ j.schedule \in Schedules /\ j.cron \in Nat \ {0}
<1>1. tick[r] \in Ticks /\ now \in Nat
  BY BoundsAssumption DEF TypeOK, Ticks, Times
<1>2. tick[r].todo \subseteq Reads /\ tick[r].at \in Times
  BY <1>1 DEF Ticks
<1>3. tick[r].at \in Nat
  BY <1>2, BoundsAssumption DEF Times
<1>4. \A j \in Reads : j.due \in Nat /\ j.schedule \in Schedules /\ j.cron \in Nat \ {0}
  <2> SUFFICES ASSUME NEW j \in Reads PROVE j.due \in Nat /\ j.schedule \in Schedules /\ j.cron \in Nat \ {0}
    OBVIOUS
  <2>1. j.due \in Times /\ j.schedule \in Schedules /\ j.cron \in Crons
    BY DEF Reads
  <2>2. j.due \in 0..MaxTime /\ MaxTime \in Nat
    BY <2>1, BoundsAssumption DEF Times
  <2>3. j.due \in Nat
    BY <2>2
  <2> QED
    BY <2>1, <2>3, CronsAssumption
<1> QED
  BY <1>1, <1>2, <1>3, <1>4, NothingFacts

LEMMA StepTicks ==
  ASSUME TypeOK, TickInv, [Next]_vars
  PROVE  TickInv'
<1>1. ASSUME NEW r \in Replicas, Begin(r) PROVE TickInv'
  <2>1. PICK t \in Ticks : /\ Turns(r, t) /\ t.pc = "next" /\ t.at = now /\ t.row = Nothing
                          /\ \A j \in t.todo : \E s \in Schedules : Due(s) /\ j = Read(s)
    BY <1>1, BeginFacts
  <2>2. now' = now /\ now \in Nat
    BY <1>1, NothingReads DEF Begin
  <2>3. \A j \in t.todo : j.due <= now /\ j.schedule # Never
    BY <2>1, NeverIsNoTime DEF Due, Read
  <2>4. \A i, j \in t.todo : i.schedule = j.schedule => i = j
    BY <2>1 DEF Read
  <2>5. Sound(t, now)
    BY <2>1, <2>2, <2>3, <2>4, NothingFacts DEF Sound, Hands
  <2> QED
    BY <2>1, <2>2, <2>5, TurnTicks
<1>2. ASSUME NEW r \in Replicas, Fire(r) PROVE TickInv'
  <2>1. PICK j \in tick[r].todo, t \in Ticks :
            /\ Turns(r, t) /\ t.pc \in {"running", "update"} /\ t.at = tick[r].at
            /\ t.row = j /\ t.todo = tick[r].todo \ {j}
    BY <1>2, FireFacts
  <2>2. Sound(t, now)
    BY <2>1 DEF Sound, TickInv, Hands
  <2> QED
    BY <1>2, <2>1, <2>2, TurnTicks DEF Fire
<1>3. ASSUME NEW r \in Replicas, Ran(r) PROVE TickInv'
  <2>1. PICK t \in Ticks : /\ Turns(r, t) /\ t.pc = "update" /\ t.at = tick[r].at
                          /\ t.row = tick[r].row /\ t.todo = tick[r].todo
    BY <1>3, RanFacts
  <2>2. Sound(t, now)
    BY <2>1 DEF Sound, TickInv, Hands
  <2> QED
    BY <1>3, <2>1, <2>2, TurnTicks DEF Ran
<1>4. ASSUME NEW r \in Replicas, Update(r) \/ UpdateThrows(r) PROVE TickInv'
  <2>1. PICK t \in Ticks : /\ Turns(r, t) /\ t.pc = "next" /\ t.at = tick[r].at
                          /\ t.row = Nothing /\ t.todo = tick[r].todo
    BY <1>4, DoneFacts DEF Update, UpdateThrows
  <2>2. \A j \in t.todo : j.schedule # Nothing.schedule
    BY <2>1, NothingReads, NothingFacts, NeverIsNoTime
  <2>3. Sound(t, now)
    BY <2>1, <2>2 DEF Sound, TickInv, Hands
  <2> QED
    BY <1>4, <2>1, <2>3, TurnTicks DEF Update, UpdateThrows
<1>5. ASSUME NEW r \in Replicas, Release(r) \/ Crash(r) PROVE TickInv'
  <2>1. Turns(r, Idle)
    BY <1>5, IdleFacts DEF Release, Crash
  <2>2. Sound(Idle, now)
    BY NothingReads DEF Sound, Idle, Hands
  <2> QED
    BY <1>5, <2>1, <2>2, TurnTicks DEF Release, Crash
<1>6. CASE Clock
  <2>1. now' = now + 1 /\ tick' = tick /\ \A r \in Replicas : tick[r].at \in Nat /\ now \in Nat
    BY <1>6, NothingReads DEF Clock
  <2>2. \A r \in Replicas : tick[r].at <= now + 1
    BY <2>1 DEF TickInv, Sound
  <2> QED
    BY <2>1, <2>2 DEF TickInv, Sound
<1>7. ASSUME UNCHANGED <<tick, now>> PROVE TickInv'
  BY <1>7 DEF TickInv
<1>8. ASSUME \/ \E s \in Edited :
                   \/ SetStatus(s)
                   \/ \E e \in Editors, given \in Given, cron \in Crons, enabled \in BOOLEAN :
                         ReadToEdit(e, s, given, cron, enabled)
             \/ \E e \in Editors : Edit(e)
             \/ LockExpires \/ UNCHANGED vars
      PROVE  TickInv'
  BY <1>7, <1>8 DEF Edit, ReadToEdit, SetStatus, LockExpires, vars
<1> QED
  BY <1>1, <1>2, <1>3, <1>4, <1>5, <1>6, <1>8 DEF Next, TickStep

-------------------------------------------------------------------------------
(* Edits                                                                   *)

(* A tick that forgets, and a row that keeps what was read of it.          *)
LEMMA ForgetKnows ==
  ASSUME TypeOK, NEW r \in Replicas, NEW t, Turns(r, t), Hands(t) \subseteq Hands(tick[r]),
         NEW s \in Schedules, Known(s),
         row'[s].enabled = row[s].enabled, row'[s].cron = row[s].cron
  PROVE  Known(s)'
<1>1. \A q \in Replicas : Hands(tick'[q]) \subseteq Hands(tick[q])
  BY DEF Turns
<1> QED
  BY <1>1 DEF Known

LEMMA StepEdits ==
  ASSUME TypeOK, TickInv, EditInv, [Next]_vars
  PROVE  EditInv'
<1>1. ASSUME NEW r \in Replicas, Begin(r) PROVE EditInv'
  <2>1. PICK t \in Ticks : /\ Turns(r, t) /\ t.row = Nothing
                          /\ \A j \in t.todo : \E s \in Schedules : Due(s) /\ j = Read(s)
    BY <1>1, BeginFacts
  <2>2. UNCHANGED <<row, editor, history>>
    BY <1>1 DEF Begin
  <2>3. \A j \in Hands(t) : row[j.schedule].enabled /\ j.cron = row[j.schedule].cron
    BY <2>1 DEF Hands, Due, Read
  <2> QED
    BY <2>1, <2>2, <2>3 DEF EditInv, Fresh, Known, Turns
<1>2. ASSUME NEW r \in Replicas, NEW t, Turns(r, t), Hands(t) \subseteq Hands(tick[r]),
             UNCHANGED <<row, editor, history>>
      PROVE  EditInv'
  BY <1>2, ForgetKnows DEF EditInv, Fresh
<1>3. ASSUME NEW r \in Replicas, Fire(r) \/ Ran(r) \/ Release(r) \/ Crash(r) PROVE EditInv'
  <2>1. UNCHANGED <<row, editor, history>>
    BY <1>3 DEF Fire, Ran, Release, Crash
  <2>2. \E t : Turns(r, t) /\ Hands(t) \subseteq Hands(tick[r])
    <3>1. CASE Fire(r)
      BY <3>1, FireFacts DEF Hands
    <3>2. CASE Ran(r)
      BY <3>2, RanFacts DEF Hands
    <3>3. CASE Release(r) \/ Crash(r)
      BY <3>3, IdleFacts DEF Release, Crash, Hands, Idle
    <3> QED
      BY <1>3, <3>1, <3>2, <3>3
  <2> QED
    BY <1>2, <2>1, <2>2
<1>4. ASSUME NEW r \in Replicas, UpdateThrows(r) PROVE EditInv'
  <2>1. \E t : Turns(r, t) /\ Hands(t) \subseteq Hands(tick[r])
    BY <1>4, DoneFacts DEF UpdateThrows, Hands
  <2> QED
    BY <1>2, <1>4, <2>1 DEF UpdateThrows
<1>5. ASSUME NEW r \in Replicas, Update(r) PROVE EditInv'
  <2> DEFINE j == tick[r].row
             e == NextFireAt(j.cron, tick[r].at)
  <2>1. /\ j \in Reads /\ tick[r].at \in Nat /\ UNCHANGED <<editor, history>>
        /\ row'[j.schedule].next = e /\ row'[j.schedule].cron = row[j.schedule].cron
        /\ row'[j.schedule].enabled = row[j.schedule].enabled
        /\ \A s \in Schedules \ {j.schedule} : row'[s] = row[s]
    BY <1>5, UpdateFacts, NothingReads DEF Update
  <2>2. PICK t : Turns(r, t) /\ Hands(t) \subseteq Hands(tick[r])
    BY <1>5, UpdateFacts, DoneFacts DEF Update, Hands
  <2>3. j \in Hands(tick[r]) /\ j.schedule \in Schedules /\ j.cron \in Nat \ {0}
    BY <2>1, NothingFacts, CronsAssumption DEF Hands, Reads
  <2>4. e \in Nat /\ e % j.cron = 0
    BY <2>1, <2>3, NextFireAtFacts
  <2> HIDE DEF j, e
  <2>5. ASSUME NEW s \in Schedules \ contested
        PROVE  /\ Fresh(s)'
               /\ row'[s].enabled => row'[s].next \in Nat
               /\ s \notin overtaken => Planned(row'[s]) /\ Known(s)'
    <3>1. /\ Fresh(s) /\ (row[s].enabled => row[s].next \in Nat)
          /\ s \notin overtaken => Planned(row[s]) /\ Known(s)
      BY DEF EditInv
    <3>2. row'[s].enabled = row[s].enabled /\ row'[s].cron = row[s].cron
      BY <2>1
    <3>3. s \notin overtaken => Known(s)'
      BY <2>2, <3>1, <3>2, ForgetKnows
    <3>6. Fresh(s)'
      BY <2>1, <3>1, <3>2 DEF Fresh, Agrees
    <3>4. CASE s # j.schedule
      BY <2>1, <3>1, <3>3, <3>4, <3>6
    <3>5. CASE s = j.schedule
      <4>1. s \notin overtaken => row[s].enabled /\ row[s].cron = j.cron
        BY <2>3, <3>1, <3>5 DEF Known
      <4>2. s \notin overtaken => Planned(row'[s])
        BY <2>1, <2>4, <3>2, <3>5, <4>1 DEF Planned
      <4> QED
        BY <2>1, <2>4, <3>3, <3>5, <3>6, <4>2
    <3> QED
      BY <3>4, <3>5
  <2> QED
    BY <2>1, <2>5 DEF EditInv
<1>6. ASSUME NEW e \in Editors, Edit(e) PROVE EditInv'
  <2>5. PICK p, s : p = editor[e] /\ s = p.schedule
    OBVIOUS
  <2>1. /\ p \in Patch
        /\ row'[s].cron = (IF "cron" \in p.sets THEN p.cron ELSE row[s].cron)
        /\ row'[s].enabled = (IF "enabled" \in p.sets THEN p.enabled ELSE row[s].enabled)
        /\ row'[s].next = (IF "next" \in p.sets THEN p.next ELSE row[s].next)
        /\ \A x \in Schedules \ {s} : row'[x] = row[x]
    BY <1>6, <2>5, EditFacts
  <2>2. /\ tick' = tick /\ overtaken \subseteq overtaken' /\ contested \subseteq contested'
        /\ s \notin overtaken' => \A r \in Replicas : \A j \in Hands(tick[r]) : j.schedule # s
        /\ s \notin contested' => \A f \in Editors \ {e} : editor[f].schedule # s
    BY <1>6, <2>5 DEF Edit, Hands
  <2>3. editor' = [editor EXCEPT ![e] = NoPatch] /\ editor \in [Editors -> Patch \cup {NoPatch}]
    BY <1>6 DEF Edit, TypeOK
  <2>4. s \in Schedules /\ NoPatch.schedule \notin Schedules
    <3>1. s \in Schedules
      BY <2>1, <2>5 DEF Patch
    <3>2. NoPatch.schedule = Never
      BY DEF NoPatch
    <3> QED
      BY <3>1, <3>2, NeverIsNoTime
  <2>6. ASSUME NEW x \in Schedules \ (contested' \cup {s})
        PROVE  /\ Fresh(x)'
               /\ row'[x].enabled => row'[x].next \in Nat
               /\ x \notin overtaken' => Planned(row'[x]) /\ Known(x)'
    <3>1. row'[x] = row[x] /\ x \notin contested /\ (x \notin overtaken' => x \notin overtaken)
      BY <2>1, <2>2
    <3>2. /\ Fresh(x) /\ (row[x].enabled => row[x].next \in Nat)
          /\ x \notin overtaken => Planned(row[x]) /\ Known(x)
      BY <3>1 DEF EditInv
    <3>3. Fresh(x)'
      BY <2>3, <2>4, <3>1, <3>2 DEF Fresh
    <3>4. Known(x) => Known(x)'
      BY <2>2, <3>1 DEF Known
    <3> QED
      BY <3>1, <3>2, <3>3, <3>4
  <2>7. ASSUME s \notin contested'
        PROVE  /\ Fresh(s)'
               /\ row'[s].enabled => row'[s].next \in Nat
               /\ s \notin overtaken' => Planned(row'[s]) /\ Known(s)'
    <3>1. Fresh(s)'
      BY <2>2, <2>3, <2>4, <2>7 DEF Fresh
    <3>2. /\ Fresh(s) /\ (row[s].enabled => row[s].next \in Nat)
          /\ s \notin overtaken => Planned(row[s])
      BY <2>2, <2>4, <2>7 DEF EditInv
    <3>3. Agrees(p, row[s])
      BY <2>5, <3>2 DEF Fresh
    <3>4. row'[s].cron = p.cron /\ row'[s].enabled = p.enabled
      BY <2>1, <3>3 DEF Agrees
    <3>5. s \notin overtaken' => Known(s)'
      BY <2>2 DEF Known
    <3>6. CASE "next" \in p.sets
      <4>1. Planned(p) /\ row'[s].next = p.next
        BY <2>1, <3>3, <3>6 DEF Agrees
      <4>2. Planned(row'[s])
        BY <3>4, <4>1 DEF Planned
      <4> QED
        BY <3>1, <3>5, <4>2 DEF Planned
    <3>7. CASE "next" \notin p.sets
      <4>1. row'[s].cron = row[s].cron /\ row'[s].enabled = row[s].enabled /\ row'[s].next = row[s].next
        BY <2>1, <3>3, <3>4, <3>7 DEF Agrees
      <4>2. s \notin overtaken' => Planned(row'[s])
        BY <2>2, <3>2, <4>1 DEF Planned
      <4> QED
        BY <3>1, <3>2, <3>5, <4>1, <4>2
    <3> QED
      BY <3>6, <3>7
  <2> QED
    BY <2>6, <2>7 DEF EditInv
<1>9. ASSUME NEW e \in Editors, NEW s \in Edited, NEW given \in Given,
             NEW cron \in Crons, NEW enabled \in BOOLEAN, ReadToEdit(e, s, given, cron, enabled)
      PROVE  EditInv'
  <2>1. PICK p \in Patch : editor' = [editor EXCEPT ![e] = p] /\ p.schedule = s /\ Agrees(p, row[s])
    BY <1>9, ReadFacts
  <2>2. UNCHANGED <<row, tick, overtaken, contested>> /\ editor \in [Editors -> Patch \cup {NoPatch}]
    BY <1>9 DEF ReadToEdit, TypeOK
  <2>3. \A x \in Schedules : Fresh(x) => Fresh(x)'
    BY <2>1, <2>2 DEF Fresh
  <2> QED
    BY <2>2, <2>3 DEF EditInv, Known
<1>7. ASSUME NEW s \in Edited, SetStatus(s) PROVE EditInv'
  <2>1. /\ \A x \in Schedules : /\ row'[x].next = row[x].next /\ row'[x].cron = row[x].cron
                                /\ row'[x].enabled = row[x].enabled
        /\ UNCHANGED <<editor, tick, overtaken, contested>>
    BY <1>7, BoundsAssumption, StatusFacts DEF SetStatus
  <2> QED
    BY <2>1 DEF EditInv, Fresh, Agrees, Planned, Known
<1>8. CASE Clock \/ LockExpires \/ UNCHANGED vars
  BY <1>8 DEF Clock, LockExpires, vars, EditInv, Fresh, Known
<1> QED
  BY <1>1, <1>3, <1>4, <1>5, <1>6, <1>7, <1>8, <1>9 DEF Next, TickStep

-------------------------------------------------------------------------------
(* Runs                                                                    *)

LEMMA StepRuns ==
  ASSUME TypeOK, TickInv, RunInv, [Next]_vars
  PROVE  RunInv'
<1>1. ASSUME NEW r \in Replicas, Begin(r) PROVE RunInv'
  <2>1. PICK t \in Ticks : Turns(r, t) /\ t.at = now
    BY <1>1, BeginFacts
  <2>2. lock' = r /\ now' = now /\ runs' = runs /\ now \in Nat
    BY <1>1, NothingReads DEF Begin
  <2>3. \A q \in Replicas : tick'[q].at <= now
    BY <2>1, <2>2 DEF TickInv, Sound, Turns
  <2> QED
    BY <2>1, <2>2, <2>3 DEF RunInv, Turns
<1>2. ASSUME NEW r \in Replicas, NEW t, Turns(r, t), t.at = tick[r].at, tick[r].pc # "idle",
             UNCHANGED <<now, lock, runs>>
      PROVE  RunInv'
  <2>1. \A q \in Replicas : tick'[q].at = tick[q].at /\ (tick'[q].pc # "idle" => tick[q].pc # "idle")
    BY <1>2 DEF Turns
  <2> QED
    BY <1>2, <2>1 DEF RunInv
<1>3. ASSUME NEW r \in Replicas, Fire(r) PROVE RunInv'
  <2>1. PICK j \in tick[r].todo, t \in Ticks :
            /\ Turns(r, t) /\ t.at = tick[r].at /\ tick[r].pc = "next" /\ KeyOf(j) \in Keys
            /\ runs' = runs \/ runs' = [runs EXCEPT ![KeyOf(j)] = @ + 1]
    BY <1>3, FireFacts
  <2>2. \A q \in Replicas : tick'[q].at = tick[q].at /\ (tick'[q].pc # "idle" => tick[q].pc # "idle")
    BY <2>1 DEF Turns
  <2>3. \A k \in Keys : k # KeyOf(j) => runs'[k] = runs[k]
    BY <2>1 DEF TypeOK
  <2>4. KeyOf(j).due = j.due /\ j.due <= tick[r].at /\ tick[r].at <= now /\ j.due \in Nat
    BY <2>1, NothingReads DEF KeyOf, Key, TickInv, Sound, Hands
  <2>5. lock' = lock /\ now' = now /\ \A q \in Replicas : tick[q].at \in Nat /\ now \in Nat
    BY <1>3, NothingReads DEF Fire
  <2>6. \A k \in Keys : runs'[k] > 0 => k.due <= now
    BY <2>1, <2>3, <2>4, <2>5 DEF RunInv
  <2>7. \A q \in Replicas : lock = q /\ tick[q].pc # "idle" =>
            \A k \in Keys : runs'[k] > 0 => k.due <= tick[q].at
    <3> SUFFICES ASSUME NEW q \in Replicas, lock = q, tick[q].pc # "idle", NEW k \in Keys, runs'[k] > 0
                 PROVE  k.due <= tick[q].at
      OBVIOUS
    <3>1. CASE k # KeyOf(j)
      BY <2>3, <3>1 DEF RunInv
    <3>2. CASE k = KeyOf(j)
      <4>1. tick[r].at <= tick[q].at
        BY DEF RunInv
      <4> QED
        BY <2>4, <2>5, <3>2, <4>1
    <3> QED
      BY <3>1, <3>2
  <2> QED
    BY <2>2, <2>5, <2>6, <2>7 DEF RunInv
<1>4. ASSUME NEW r \in Replicas, Ran(r) PROVE RunInv'
  BY <1>2, <1>4, RanFacts DEF Ran
<1>5. ASSUME NEW r \in Replicas, Update(r) \/ UpdateThrows(r) PROVE RunInv'
  BY <1>2, <1>5, DoneFacts DEF Update, UpdateThrows
<1>6. ASSUME NEW r \in Replicas, Release(r) \/ Crash(r) PROVE RunInv'
  <2>1. Turns(r, Idle) /\ Idle.pc = "idle" /\ Idle.at = 0 /\ now' = now /\ runs' = runs
        /\ lock' \in {lock, Nobody}
    BY <1>6, IdleFacts DEF Release, Crash, Idle
  <2>2. \A q \in Replicas : tick[q].at \in Nat
    BY NothingReads
  <2> QED
    BY <2>1, <2>2, ReplicasAssumption DEF RunInv, Turns
<1>7. CASE Clock
  <2>1. now' = now + 1 /\ UNCHANGED <<lock, tick, runs>> /\ now \in Nat /\ \A k \in Keys : k.due \in Nat
    BY <1>7, BoundsAssumption DEF Clock, TypeOK, Times, Keys
  <2>2. \A k \in Keys : runs[k] > 0 => k.due <= now + 1
    BY <2>1 DEF RunInv
  <2> QED
    BY <2>1, <2>2 DEF RunInv
<1>8. CASE LockExpires
  BY <1>8, ReplicasAssumption DEF LockExpires, RunInv
<1>9. ASSUME \/ \E s \in Edited :
                   \/ SetStatus(s)
                   \/ \E e \in Editors, given \in Given, cron \in Crons, enabled \in BOOLEAN :
                         ReadToEdit(e, s, given, cron, enabled)
             \/ \E e \in Editors : Edit(e)
             \/ UNCHANGED vars
      PROVE  RunInv'
  <2>1. UNCHANGED <<now, lock, tick, runs>>
    BY <1>9 DEF Edit, ReadToEdit, SetStatus, vars
  <2> QED
    BY <2>1 DEF RunInv
<1> QED
  BY <1>1, <1>3, <1>4, <1>5, <1>6, <1>7, <1>8, <1>9 DEF Next, TickStep

-------------------------------------------------------------------------------
(* Counting                                                                *)

LEMMA Counts ==
  ASSUME NEW S \in SUBSET Replicas, NEW T \in SUBSET Replicas
  PROVE  /\ Cardinality(S) \in Nat /\ Cardinality(T) \in Nat
         /\ T \subseteq S => Cardinality(T) <= Cardinality(S)
         /\ \A r \in Replicas :
               /\ T \subseteq S \cup {r} => Cardinality(T) <= Cardinality(S) + 1
               /\ r \in S /\ T \subseteq S \ {r} => Cardinality(T) + 1 <= Cardinality(S)
<1>1. IsFiniteSet(S) /\ IsFiniteSet(T) /\ Cardinality(S) \in Nat /\ Cardinality(T) \in Nat
  BY ReplicasAssumption, FS_Subset, FS_CardinalityType
<1>2. ASSUME T \subseteq S PROVE Cardinality(T) <= Cardinality(S)
  BY <1>1, <1>2, FS_Subset
<1>3. ASSUME NEW r \in Replicas, T \subseteq S \cup {r} PROVE Cardinality(T) <= Cardinality(S) + 1
  <2>1. IsFiniteSet(S \cup {r})
        /\ (Cardinality(S \cup {r}) = Cardinality(S) \/ Cardinality(S \cup {r}) = Cardinality(S) + 1)
    BY <1>1, FS_AddElement
  <2>2. Cardinality(T) <= Cardinality(S \cup {r})
    BY <1>3, <2>1, FS_Subset
  <2> QED
    BY <1>1, <2>1, <2>2
<1>4. ASSUME NEW r \in Replicas, r \in S, T \subseteq S \ {r} PROVE Cardinality(T) + 1 <= Cardinality(S)
  <2>1. IsFiniteSet(S \ {r}) /\ Cardinality(S \ {r}) = Cardinality(S) - 1
    BY <1>1, <1>4, FS_RemoveElement
  <2>2. Cardinality(T) <= Cardinality(S \ {r})
    BY <1>4, <2>1, FS_Subset
  <2> QED
    BY <1>1, <2>1, <2>2
<1> QED
  BY <1>1, <1>2, <1>3, <1>4

LEMMA ThreatsAreLoose == \A k \in Keys : Threats(k) \subseteq Loose /\ Loose \subseteq Replicas
BY DEF Threats, Loose

(* A key that has not run is owed no more than one run and one for each    *)
(* loose tick.                                                             *)
LEMMA Quiet ==
  ASSUME TypeOK, NEW k \in Keys, runs[k] = 0, Cardinality(Loose) <= faults
  PROVE  Owed(k) <= 1 + faults
<1>1. Cardinality(Threats(k)) <= Cardinality(Loose) /\ Cardinality(Threats(k)) \in Nat /\ Cardinality(Loose) \in Nat
  BY ThreatsAreLoose, Counts
<1>2. faults \in Nat
  BY BoundsAssumption DEF TypeOK
<1> QED
  BY <1>1, <1>2 DEF Owed

LEMMA QuietAgain ==
  ASSUME TypeOK', NEW k \in Keys, runs'[k] = 0, Cardinality(Loose)' <= faults'
  PROVE  Owed(k)' <= 1 + faults'
<1>1. Cardinality(Threats(k)') <= Cardinality(Loose') /\ Cardinality(Threats(k)') \in Nat /\ Cardinality(Loose') \in Nat
  <2>1. Threats(k)' \subseteq Loose' /\ Loose' \subseteq Replicas
    BY DEF Threats, Loose
  <2> QED
    BY <2>1, Counts
<1>2. faults' \in Nat
  BY BoundsAssumption DEF TypeOK
<1> QED
  BY <1>1, <1>2 DEF Owed

(* The ways in which a step keeps within the bound: nothing is added; a    *)
(* threat becomes the row's; a run that was open, or threatened, happens;  *)
(* a fault opens the key again, or makes a threat.                         *)
LEMMA Balance ==
  ASSUME TypeOK, TypeOK', NEW k \in Keys, Owed(k) <= 1 + faults,
         \/ /\ runs'[k] = runs[k] /\ faults' = faults
            /\ Threats(k)' \subseteq Threats(k) /\ (Open(k)' => Open(k))
         \/ /\ runs'[k] = runs[k] /\ faults' = faults
            /\ \E r \in Threats(k) : Threats(k)' \subseteq Threats(k) \ {r}
         \/ /\ runs'[k] <= runs[k] + 1 /\ faults' = faults
            /\ Open(k) /\ ~Open(k)' /\ Threats(k)' \subseteq Threats(k)
         \/ /\ runs'[k] <= runs[k] + 1 /\ faults' = faults
            /\ (Open(k)' => Open(k)) /\ \E r \in Threats(k) : Threats(k)' \subseteq Threats(k) \ {r}
         \/ /\ runs'[k] = runs[k] /\ faults' = faults + 1
            /\ Threats(k)' \subseteq Threats(k)
         \/ /\ runs'[k] = runs[k] /\ faults' = faults + 1
            /\ (Open(k)' => Open(k)) /\ \E r \in Replicas : Threats(k)' \subseteq Threats(k) \cup {r}
  PROVE  Owed(k)' <= 1 + faults'
<1> DEFINE S == Threats(k)
           T == Threats(k)'
           m == Cardinality(S)
           n == Cardinality(T)
           o == IF Open(k) THEN 1 ELSE 0
           p == IF Open(k)' THEN 1 ELSE 0
<1>1. S \subseteq Replicas /\ T \subseteq Replicas
  BY DEF Threats, Loose
<1>2. faults \in Nat /\ faults' \in Nat /\ runs[k] \in Nat /\ runs'[k] \in Nat
  BY BoundsAssumption DEF TypeOK
<1>3. /\ Owed(k) = runs[k] + o + m /\ Owed(k)' = runs'[k] + p + n
      /\ o \in {0, 1} /\ p \in {0, 1}
  BY DEF Owed
<1>4. /\ (Open(k)' => Open(k)) => p <= o
      /\ Open(k) /\ ~Open(k)' => p + 1 = o
  OBVIOUS
<1>5. \/ runs'[k] = runs[k] /\ T \subseteq S /\ p <= o /\ faults' = faults
      \/ runs'[k] = runs[k] /\ (\E r \in S : T \subseteq S \ {r}) /\ faults' = faults
      \/ runs'[k] <= runs[k] + 1 /\ T \subseteq S /\ p + 1 = o /\ faults' = faults
      \/ runs'[k] <= runs[k] + 1 /\ (\E r \in S : T \subseteq S \ {r}) /\ p <= o /\ faults' = faults
      \/ runs'[k] = runs[k] /\ T \subseteq S /\ faults' = faults + 1
      \/ runs'[k] = runs[k] /\ (\E r \in Replicas : T \subseteq S \cup {r}) /\ p <= o /\ faults' = faults + 1
  BY <1>4
<1> HIDE DEF o, p, S, T
<1>6. m \in Nat /\ n \in Nat /\ (T \subseteq S => n <= m)
  BY <1>1, Counts
<1>7. ASSUME NEW r \in S, T \subseteq S \ {r} PROVE n + 1 <= m
  BY <1>1, <1>7, Counts
<1>8. ASSUME NEW r \in Replicas, T \subseteq S \cup {r} PROVE n <= m + 1
  BY <1>1, <1>8, Counts
<1> HIDE DEF m, n
<1>9. runs[k] + o + m <= 1 + faults
  BY <1>3
<1>10. CASE runs'[k] = runs[k] /\ n <= m /\ p <= o /\ faults' = faults
  BY <1>2, <1>3, <1>6, <1>9, <1>10
<1>11. CASE runs'[k] = runs[k] /\ n + 1 <= m /\ faults' = faults
  BY <1>2, <1>3, <1>6, <1>9, <1>11
<1>12. CASE runs'[k] <= runs[k] + 1 /\ n <= m /\ p + 1 = o /\ faults' = faults
  BY <1>2, <1>3, <1>6, <1>9, <1>12
<1>13. CASE runs'[k] <= runs[k] + 1 /\ n + 1 <= m /\ p <= o /\ faults' = faults
  BY <1>2, <1>3, <1>6, <1>9, <1>13
<1>14. CASE runs'[k] = runs[k] /\ n <= m /\ faults' = faults + 1
  BY <1>2, <1>3, <1>6, <1>9, <1>14
<1>15. CASE runs'[k] = runs[k] /\ n <= m + 1 /\ p <= o /\ faults' = faults + 1
  BY <1>2, <1>3, <1>6, <1>9, <1>15
<1> QED
  BY <1>3, <1>5, <1>6, <1>7, <1>8, <1>10, <1>11, <1>12, <1>13, <1>14, <1>15

(* A tick that threatens a key no more than before, or no longer.          *)
LEMMA SameThreats ==
  ASSUME NEW k \in Keys, NEW r \in Replicas, NEW t, Turns(r, t), Loose' \subseteq Loose,
         Carries(t, k) \/ Sets(t, k) => Carries(tick[r], k) \/ Sets(tick[r], k)
  PROVE  Threats(k)' \subseteq Threats(k)
<1>1. \A q \in Replicas : Carries(tick'[q], k) \/ Sets(tick'[q], k) => Carries(tick[q], k) \/ Sets(tick[q], k)
  <2> SUFFICES ASSUME NEW q \in Replicas PROVE Carries(tick'[q], k) \/ Sets(tick'[q], k) => Carries(tick[q], k) \/ Sets(tick[q], k)
    OBVIOUS
  <2>1. CASE q = r
    <3>1. tick'[q] = t
      BY <2>1 DEF Turns
    <3> QED
      BY <2>1, <3>1
  <2>2. CASE q # r
    <3>1. tick'[q] = tick[q]
      BY <2>2 DEF Turns
    <3> QED
      BY <3>1
  <2> QED
    BY <2>1, <2>2
<1>2. \A q \in Loose : q \in Replicas
  BY DEF Loose
<1> QED
  BY <1>1, <1>2 DEF Threats

LEMMA LessThreats ==
  ASSUME NEW k \in Keys, NEW r \in Replicas, NEW t, Turns(r, t), Loose' \subseteq Loose,
         ~Carries(t, k), ~Sets(t, k)
  PROVE  Threats(k)' \subseteq Threats(k) \ {r}
<1>1. Threats(k)' \subseteq Threats(k)
  BY SameThreats
<1>2. tick'[r] = t
  BY DEF Turns
<1>3. r \notin Threats(k)'
  BY <1>2 DEF Threats
<1> QED
  BY <1>1, <1>3

(* Only the keys whose time has come need be looked at.                    *)
LEMMA OwedWhenDue ==
  ASSUME TypeOK', RunInv', Cardinality(Loose)' <= faults',
         \A k \in Keys : k.due <= now' => Owed(k)' <= 1 + faults'
  PROVE  OwedInv'
<1>1. ASSUME NEW k \in Keys, ~(k.due <= now') PROVE Owed(k)' <= 1 + faults'
  <2>1. runs'[k] \in Nat /\ ~(runs'[k] > 0)
    <3>1. runs'[k] \in Nat
      BY DEF TypeOK
    <3> QED
      BY <1>1, <3>1 DEF RunInv
  <2>2. runs'[k] = 0
    BY <2>1
  <2> QED
    BY <2>2, QuietAgain
<1> QED
  BY <1>1 DEF OwedInv

LEMMA LooseCount ==
  ASSUME TypeOK, TypeOK', Cardinality(Loose) <= faults,
         \/ Loose' \subseteq Loose /\ faults' \in {faults, faults + 1}
         \/ (\E r \in Replicas : Loose' \subseteq Loose \cup {r}) /\ faults' = faults + 1
  PROVE  Cardinality(Loose)' <= faults'
<1>1. Loose \subseteq Replicas /\ Loose' \subseteq Replicas /\ faults \in Nat /\ faults' \in Nat
  BY BoundsAssumption DEF Loose, TypeOK
<1>2. Cardinality(Loose) \in Nat /\ Cardinality(Loose') \in Nat
      /\ (Loose' \subseteq Loose => Cardinality(Loose') <= Cardinality(Loose))
      /\ (\A r \in Replicas : Loose' \subseteq Loose \cup {r} => Cardinality(Loose') <= Cardinality(Loose) + 1)
  BY <1>1, Counts
<1> QED
  BY <1>1, <1>2

-------------------------------------------------------------------------------
(* The steps                                                               *)

LEMMA KeyFacts ==
  /\ \A k \in Keys : k.schedule \in Schedules /\ k.due \in Nat /\ KeyOf(Nothing) # k
  /\ \A j \in Reads : KeyOf(j) \in Keys /\ KeyOf(j).schedule = j.schedule /\ KeyOf(j).due = j.due
  /\ \A j \in Reads : \A k \in Keys : j.schedule = k.schedule /\ j.due = k.due => KeyOf(j) = k
<1>1. ASSUME NEW k \in Keys PROVE k.schedule \in Schedules /\ k.due \in Nat /\ KeyOf(Nothing) # k
  <2>1. k.schedule \in Schedules /\ k.due \in 0..MaxTime /\ MaxTime \in Nat
    BY BoundsAssumption DEF Keys, Times
  <2>2. KeyOf(Nothing).schedule = Never
    BY DEF KeyOf, Key, Nothing
  <2> QED
    BY <2>1, <2>2, NeverIsNoTime
<1>2. ASSUME NEW j \in Reads PROVE KeyOf(j) \in Keys /\ KeyOf(j).schedule = j.schedule /\ KeyOf(j).due = j.due
  BY DEF KeyOf, Key, Reads, Keys
<1>3. ASSUME NEW j \in Reads, NEW k \in Keys, j.schedule = k.schedule, j.due = k.due PROVE KeyOf(j) = k
  BY <1>3 DEF KeyOf, Key, Reads, Keys
<1> QED
  BY <1>1, <1>2, <1>3

LEMMA BeginOwed ==
  ASSUME TypeOK, TypeOK', TickInv, RunInv', OwedInv, NEW r \in Replicas, Begin(r)
  PROVE  OwedInv'
<1>1. PICK t \in Ticks : /\ Turns(r, t) /\ t.pc = "next" /\ t.row = Nothing
                        /\ \A j \in t.todo : \E s \in Schedules : Due(s) /\ j = Read(s)
  BY BeginFacts
<1>2. tick[r].pc = "idle" /\ lock = Nobody /\ lock' = r /\ UNCHANGED <<now, row, runs, faults>>
  BY DEF Begin
<1>3. Loose' = Loose
  BY <1>1, <1>2, ReplicasAssumption DEF Loose, Turns
<1>4. Cardinality(Loose)' <= faults'
  BY <1>2, <1>3 DEF OwedInv
<1>5. ASSUME NEW k \in Keys, k.due <= now' PROVE Owed(k)' <= 1 + faults'
  <2>1. Threats(k)' = Threats(k)
    BY <1>1, <1>2, <1>3 DEF Threats, Turns, Loose
  <2>2. Carries(t, k) => row[k.schedule].next = k.due
    BY <1>1 DEF Carries, Read, KeyOf, Key
  <2>3. \A q \in Replicas : lock # q
    BY <1>2, ReplicasAssumption
  <2>4. k.due <= now /\ now \in Nat /\ k.due \in Nat
    BY <1>2, <1>5, NothingReads, KeyFacts
  <2>5. Open(k)' => row[k.schedule].next = k.due
    BY <1>1, <1>2, <2>2, <2>4 DEF Open, Turns
  <2>6. Open(k)' => Open(k)
    BY <2>3, <2>5 DEF Open
  <2> QED
    BY <1>2, <2>1, <2>6, Balance DEF OwedInv
<1> QED
  BY <1>4, <1>5, OwedWhenDue

LEMMA FireOwed ==
  ASSUME TypeOK, TypeOK', TickInv, RunInv', OwedInv, NEW r \in Replicas, Fire(r)
  PROVE  OwedInv'
<1>1. PICK j \in tick[r].todo, t \in Ticks :
        /\ Turns(r, t) /\ t.pc \in {"running", "update"} /\ t.at = tick[r].at
        /\ t.row = j /\ t.todo = tick[r].todo \ {j}
        /\ tick[r].row = Nothing /\ tick[r].pc = "next" /\ KeyOf(j) \in Keys
        /\ runs' = runs \/ runs' = [runs EXCEPT ![KeyOf(j)] = @ + 1]
  BY FireFacts
<1>2. UNCHANGED <<now, row, lock, faults>>
  BY DEF Fire
<1>3. Loose' = Loose
  BY <1>1, <1>2 DEF Loose, Turns
<1>4. Cardinality(Loose)' <= faults'
  BY <1>2, <1>3 DEF OwedInv
<1>5. j \in Reads /\ Nothing \notin tick[r].todo /\ tick[r].todo \subseteq Reads /\ j # Nothing
      /\ Hands(t) = Hands(tick[r])
  BY <1>1, NothingReads DEF Hands
<1>6. \A q \in Replicas \ {r} : tick'[q] = tick[q]
  BY <1>1 DEF Turns
<1>7. ASSUME NEW k \in Keys, k.due <= now' PROVE Owed(k)' <= 1 + faults'
  <2>1. Owed(k) <= 1 + faults
    BY DEF OwedInv
  <2>2. Sets(t, k) <=> Sets(tick[r], k)
    BY <1>1, <1>5 DEF Sets
  <2>3. CASE k # KeyOf(j)
    <3>1. runs'[k] = runs[k]
      BY <1>1, <2>3 DEF TypeOK
    <3>2. Carries(t, k) <=> Carries(tick[r], k)
      BY <1>1, <2>3 DEF Carries
    <3>3. ~InHand(t, k) /\ ~InHand(tick[r], k)
      BY <1>1, <2>3, KeyFacts DEF InHand
    <3>4. Threats(k)' \subseteq Threats(k)
      BY <1>1, <1>3, <2>2, <3>2, SameThreats
    <3>5. Open(k)' => Open(k)
      BY <1>1, <1>2, <1>6, <3>2, <3>3 DEF Open, Turns
    <3> QED
      BY <1>2, <2>1, <3>1, <3>4, <3>5, Balance
  <2>4. CASE k = KeyOf(j)
    <3>1. runs'[k] <= runs[k] + 1
      BY <1>1, <2>4 DEF TypeOK
    <3>2. j.schedule = k.schedule /\ j.due = k.due
      BY <1>5, <2>4, KeyFacts
    <3>3. Carries(tick[r], k) /\ ~Carries(t, k) /\ InHand(t, k)
      <4>1. \A i \in t.todo : KeyOf(i) # k
        BY <1>1, <1>5, <3>2, KeyFacts DEF TickInv, Sound
      <4> QED
        BY <1>1, <2>4, <4>1 DEF Carries, InHand
    <3>4. ~Sets(tick[r], k)
      <4>1. \A i \in Hands(tick[r]) : i.schedule = k.schedule => i = j
        BY <1>1, <3>2, NothingFacts DEF TickInv, Sound, Hands
      <4>2. j.due <= tick[r].at
        BY <1>5, NothingFacts DEF TickInv, Sound, Hands
      <4>3. NextFireAt(j.cron, tick[r].at) > tick[r].at /\ NextFireAt(j.cron, tick[r].at) \in Nat
            /\ tick[r].at \in Nat /\ j.due \in Nat
        BY NothingReads, NextFireAtFacts
      <4>4. NextFireAt(j.cron, tick[r].at) # k.due
        BY <3>2, <4>2, <4>3
      <4> QED
        BY <4>1, <4>4 DEF Sets
    <3>5. CASE lock = r
      <4>1. Open(k)
        BY <3>3, <3>5 DEF Open
      <4>2. ~(k.due > now')
        BY <1>7, KeyFacts, NothingReads, <1>2
      <4>3. ~Open(k)'
        BY <1>1, <1>2, <3>3, <3>5, <4>2 DEF Open, Turns
      <4>4. Threats(k)' \subseteq Threats(k)
        BY <1>2, <1>3, <1>6, <3>5 DEF Threats, Loose
      <4> QED
        BY <1>2, <2>1, <3>1, <4>1, <4>3, <4>4, Balance
    <3>6. CASE lock # r
      <4>1. r \in Threats(k)
        BY <1>1, <3>3, <3>6 DEF Threats, Loose
      <4>2. Threats(k)' \subseteq Threats(k) \ {r}
        BY <1>1, <1>3, <2>2, <3>3, <3>4, LessThreats
      <4>3. Open(k)' => Open(k)
        BY <1>2, <1>6, <3>6 DEF Open
      <4> QED
        BY <1>2, <2>1, <3>1, <4>1, <4>2, <4>3, Balance
    <3> QED
      BY <3>5, <3>6
  <2> QED
    BY <2>3, <2>4
<1> QED
  BY <1>4, <1>7, OwedWhenDue

LEMMA RanOwed ==
  ASSUME TypeOK, TypeOK', RunInv', OwedInv, NEW r \in Replicas, Ran(r)
  PROVE  OwedInv'
<1>1. PICK t \in Ticks : /\ Turns(r, t) /\ t.pc = "update" /\ t.at = tick[r].at
                        /\ t.row = tick[r].row /\ t.todo = tick[r].todo /\ tick[r].pc = "running"
  BY RanFacts
<1>2. UNCHANGED <<now, row, lock, runs, faults>>
  BY DEF Ran
<1>3. Loose' = Loose
  BY <1>1, <1>2 DEF Loose, Turns
<1>4. Cardinality(Loose)' <= faults'
  BY <1>2, <1>3 DEF OwedInv
<1>5. ASSUME NEW k \in Keys PROVE Owed(k)' <= 1 + faults'
  <2>1. (Carries(t, k) <=> Carries(tick[r], k)) /\ (Sets(t, k) <=> Sets(tick[r], k))
        /\ (InHand(t, k) <=> InHand(tick[r], k))
    BY <1>1 DEF Carries, Sets, InHand, Hands
  <2>2. Threats(k)' \subseteq Threats(k)
    BY <1>1, <1>3, <2>1, SameThreats
  <2>3. Open(k)' => Open(k)
    BY <1>1, <1>2, <2>1 DEF Open, Turns
  <2> QED
    BY <1>2, <2>2, <2>3, Balance DEF OwedInv
<1> QED
  BY <1>4, <1>5, OwedWhenDue

LEMMA UpdateOwed ==
  ASSUME TypeOK, TypeOK', TickInv, RunInv, RunInv', OwedInv, NEW r \in Replicas, Update(r)
  PROVE  OwedInv'
<1> DEFINE j == tick[r].row
           e == NextFireAt(j.cron, tick[r].at)
<1>1. /\ j \in Reads /\ tick[r].pc = "update" /\ row'[j.schedule].next = e
      /\ \A s \in Schedules \ {j.schedule} : row'[s] = row[s]
  BY UpdateFacts
<1>2. PICK t \in Ticks : /\ Turns(r, t) /\ t.pc = "next" /\ t.at = tick[r].at
                        /\ t.row = Nothing /\ t.todo = tick[r].todo
  BY <1>1, DoneFacts DEF Update
<1>3. UNCHANGED <<now, lock, runs, faults>>
  BY DEF Update
<1>4. Loose' = Loose
  BY <1>1, <1>2, <1>3 DEF Loose, Turns
<1>5. Cardinality(Loose)' <= faults'
  BY <1>3, <1>4 DEF OwedInv
<1>6. /\ j \in Hands(tick[r]) /\ j.schedule \in Schedules /\ j.cron \in Nat \ {0}
      /\ Hands(t) = tick[r].todo /\ tick[r].todo \subseteq Hands(tick[r]) /\ tick[r].todo \subseteq Reads
  BY <1>1, <1>2, NothingFacts, CronsAssumption, NothingReads DEF Hands, Reads
<1>7. e > tick[r].at /\ e \in Nat /\ tick[r].at \in Nat
  BY <1>6, NothingReads, NextFireAtFacts
<1>8. j = tick[r].row /\ e = NextFireAt(j.cron, tick[r].at)
  OBVIOUS
<1> HIDE DEF j, e
<1>9. ASSUME NEW k \in Keys, k.due <= now' PROVE Owed(k)' <= 1 + faults'
  <2>1. Owed(k) <= 1 + faults /\ runs'[k] = runs[k]
    BY <1>3 DEF OwedInv
  <2>2. (Carries(t, k) <=> Carries(tick[r], k)) /\ (Sets(t, k) => Sets(tick[r], k)) /\ ~InHand(t, k)
    BY <1>2, <1>6, KeyFacts DEF Carries, Sets, InHand
  <2>3. Threats(k)' \subseteq Threats(k)
    BY <1>2, <1>4, <2>2, SameThreats
  <2>4. CASE j.schedule = k.schedule /\ e = k.due
    <3>1. CASE lock = r
      <4>1. ~(k.due <= tick[r].at)
        BY <1>7, <2>4
      <4>2. ~(runs[k] > 0)
        BY <1>1, <3>1, <4>1 DEF RunInv
      <4>3. runs'[k] = 0
        BY <2>1, <4>2 DEF TypeOK
      <4> QED
        BY <1>5, <4>3, QuietAgain
    <3>2. CASE lock # r
      <4>1. Sets(tick[r], k)
        BY <1>6, <1>8, <2>4 DEF Sets
      <4>2. r \in Threats(k)
        BY <1>1, <3>2, <4>1 DEF Threats, Loose
      <4>3. \A i \in tick[r].todo : i.schedule # k.schedule
        BY <1>8, <2>4 DEF TickInv, Sound
      <4>4. ~Carries(t, k) /\ ~Sets(t, k)
        BY <1>2, <1>6, <4>3, KeyFacts DEF Carries, Sets
      <4>5. Threats(k)' \subseteq Threats(k) \ {r}
        BY <1>2, <1>4, <4>4, LessThreats
      <4> QED
        BY <1>3, <2>1, <4>2, <4>5, Balance
    <3> QED
      BY <3>1, <3>2
  <2>5. CASE ~(j.schedule = k.schedule /\ e = k.due)
    <3>1. row'[k.schedule].next = k.due => row[k.schedule].next = k.due /\ k.schedule # j.schedule
      BY <1>1, <2>5, KeyFacts
    <3>2. k.schedule # j.schedule => ~InHand(tick[r], k)
      BY <1>1, <1>8, KeyFacts DEF InHand
    <3>3. \A q \in Replicas \ {r} : tick'[q] = tick[q]
      BY <1>2 DEF Turns
    <3>4. Open(k)' => Open(k)
      <4>1. (\E q \in Replicas : lock' = q /\ Carries(tick'[q], k)) => \E q \in Replicas : lock = q /\ Carries(tick[q], k)
        BY <1>2, <1>3, <2>2, <3>3 DEF Turns
      <4>2. (k.schedule # j.schedule /\ \A q \in Replicas : lock' = q => ~InHand(tick'[q], k))
              => \A q \in Replicas : lock = q => ~InHand(tick[q], k)
        BY <1>3, <3>2, <3>3
      <4> QED
        BY <1>3, <3>1, <4>1, <4>2 DEF Open
    <3> QED
      BY <1>3, <2>1, <2>3, <3>4, Balance
  <2> QED
    BY <2>4, <2>5
<1> QED
  BY <1>5, <1>9, OwedWhenDue

(* A fault by which no tick loses the lock, other than by its end.         *)
LEMMA UpdateThrowsOwed ==
  ASSUME TypeOK, TypeOK', RunInv', OwedInv, NEW r \in Replicas, UpdateThrows(r) \/ Crash(r)
  PROVE  OwedInv'
<1>1. /\ UNCHANGED <<now, row, lock, runs>> /\ faults' = faults + 1 /\ tick[r].pc # "idle"
  BY FaultFacts DEF UpdateThrows, Crash
<1>2. PICK t : Turns(r, t) /\ t.todo \subseteq tick[r].todo /\ t.row = Nothing
               /\ (t.at = tick[r].at \/ t.todo = {})
  <2>1. CASE UpdateThrows(r)
    <3>1. Done(r) /\ tick[r].pc = "update"
      BY <2>1 DEF UpdateThrows
    <3>2. PICK t \in Ticks : Turns(r, t) /\ t.at = tick[r].at /\ t.row = Nothing /\ t.todo = tick[r].todo
      BY <3>1, DoneFacts
    <3> QED
      BY <3>2
  <2>2. CASE Crash(r)
    <3>1. Turns(r, Idle)
      BY <2>2, IdleFacts DEF Crash
    <3>2. Idle.todo = {} /\ Idle.row = Nothing
      BY DEF Idle
    <3> QED
      BY <3>1, <3>2
  <2> QED
    BY <2>1, <2>2
<1>3. Loose' \subseteq Loose
  BY <1>1, <1>2 DEF Loose, Turns
<1>4. Cardinality(Loose)' <= faults'
  BY <1>1, <1>3, LooseCount DEF OwedInv
<1>5. ASSUME NEW k \in Keys PROVE Owed(k)' <= 1 + faults'
  <2>1. (Carries(t, k) => Carries(tick[r], k)) /\ (Sets(t, k) => Sets(tick[r], k))
    BY <1>2 DEF Carries, Sets, Hands
  <2>2. Threats(k)' \subseteq Threats(k)
    BY <1>2, <1>3, <2>1, SameThreats
  <2> QED
    BY <1>1, <2>2, Balance DEF OwedInv
<1> QED
  BY <1>4, <1>5, OwedWhenDue

LEMMA ReleaseOwed ==
  ASSUME TypeOK, TypeOK', RunInv', OwedInv, NEW r \in Replicas, Release(r)
  PROVE  OwedInv'
<1>1. /\ UNCHANGED <<now, row, runs, faults>> /\ lock' \in {lock, Nobody} /\ (lock = r => lock' = Nobody)
      /\ (lock # r => lock' = lock) /\ tick[r].pc = "next" /\ tick[r].todo = {}
  BY DEF Release
<1>2. Turns(r, Idle) /\ Idle.todo = {} /\ Idle.row = Nothing /\ tick[r].row = Nothing /\ Idle.pc = "idle"
  BY <1>1, IdleFacts DEF Release, Idle, TypeOK
<1>3. Loose' \subseteq Loose
  BY <1>1, <1>2 DEF Loose, Turns
<1>4. Cardinality(Loose)' <= faults'
  BY <1>1, <1>3, LooseCount DEF OwedInv
<1>5. ASSUME NEW k \in Keys PROVE Owed(k)' <= 1 + faults'
  <2>1. /\ ~Carries(Idle, k) /\ ~Sets(Idle, k) /\ ~InHand(Idle, k)
        /\ ~Carries(tick[r], k) /\ ~InHand(tick[r], k)
    BY <1>1, <1>2, KeyFacts DEF Carries, Sets, InHand, Hands
  <2>2. Threats(k)' \subseteq Threats(k)
    BY <1>2, <1>3, <2>1, SameThreats
  <2>3. \A q \in Replicas \ {r} : tick'[q] = tick[q]
    BY <1>2 DEF Turns
  <2>4. \A q \in Replicas : lock' = q => lock = q /\ q # r
    BY <1>1, ReplicasAssumption
  <2>5. \A q \in Replicas : lock = q /\ q # r => lock' = q
    BY <1>1
  <2>6. (\E q \in Replicas : lock' = q /\ Carries(tick'[q], k)) => \E q \in Replicas : lock = q /\ Carries(tick[q], k)
    BY <2>3, <2>4
  <2>7. (\A q \in Replicas : lock' = q => ~InHand(tick'[q], k))
          => \A q \in Replicas : lock = q => ~InHand(tick[q], k)
    BY <2>1, <2>3, <2>5
  <2>8. Open(k)' => Open(k)
    BY <1>1, <2>6, <2>7 DEF Open
  <2> QED
    BY <1>1, <2>2, <2>8, Balance DEF OwedInv
<1> QED
  BY <1>4, <1>5, OwedWhenDue

(* A row that is due at another time than before is due in the future, but *)
(* for a fault.                                                            *)
LEMMA EditOwed ==
  ASSUME TypeOK, TypeOK', RunInv', OwedInv, NEW e \in Editors, Edit(e)
  PROVE  OwedInv'
<1> DEFINE p == editor[e]
           s == p.schedule
<1>1. UNCHANGED <<now, lock, tick, runs>> /\ now \in Nat
  BY BoundsAssumption DEF Edit, TypeOK, Times
<1>2. /\ p \in Patch /\ row'[s].next = (IF "next" \in p.sets THEN p.next ELSE row[s].next)
      /\ \A x \in Schedules \ {s} : row'[x] = row[x]
  BY EditFacts
<1>3. Loose' = Loose
  BY <1>1 DEF Loose
<1>4. \/ "next" \in p.sets /\ p.next \in 0..now /\ faults' = faults + 1
      \/ ~("next" \in p.sets /\ p.next \in 0..now) /\ faults' = faults
  BY FaultFacts DEF Edit
<1>5. Cardinality(Loose)' <= faults'
  BY <1>3, <1>4, LooseCount DEF OwedInv
<1> HIDE DEF p, s
<1>6. ASSUME NEW k \in Keys, k.due <= now' PROVE Owed(k)' <= 1 + faults'
  <2>1. Threats(k)' \subseteq Threats(k) /\ runs'[k] = runs[k] /\ Owed(k) <= 1 + faults
    BY <1>1, <1>3 DEF Threats, OwedInv
  <2>2. CASE "next" \in p.sets /\ p.next \in 0..now
    <3>1. faults' = faults + 1
      BY <1>4, <2>2
    <3> QED
      BY <2>1, <3>1, Balance
  <2>3. CASE ~("next" \in p.sets /\ p.next \in 0..now)
    <3>1. k.due \in 0..now /\ k.schedule \in Schedules
      BY <1>1, <1>6, KeyFacts
    <3>2. row'[k.schedule].next = k.due => row[k.schedule].next = k.due
      BY <1>2, <2>3, <3>1
    <3>3. Open(k)' => Open(k)
      BY <1>1, <3>2 DEF Open
    <3>4. faults' = faults
      BY <1>4, <2>3
    <3> QED
      BY <2>1, <3>3, <3>4, Balance
  <2> QED
    BY <2>2, <2>3
<1> QED
  BY <1>5, <1>6, OwedWhenDue

LEMMA ReadOwed ==
  ASSUME TypeOK, TypeOK', RunInv', OwedInv, UNCHANGED <<now, row, lock, tick, runs, faults>>
  PROVE  OwedInv'
BY DEF OwedInv, Owed, Open, Threats, Loose

LEMMA StatusOwed ==
  ASSUME TypeOK, TypeOK', RunInv', OwedInv, NEW s \in Schedules, SetStatus(s)
  PROVE  OwedInv'
<1>1. UNCHANGED <<now, lock, tick, runs, faults>> /\ \A x \in Schedules : row'[x].next = row[x].next
  BY StatusFacts DEF SetStatus
<1>2. Loose' = Loose
  BY <1>1 DEF Loose
<1>3. Cardinality(Loose)' <= faults'
  BY <1>1, <1>2 DEF OwedInv
<1>4. ASSUME NEW k \in Keys PROVE Owed(k)' <= 1 + faults'
  <2>1. Threats(k)' \subseteq Threats(k)
    BY <1>1, <1>2 DEF Threats
  <2>2. Open(k)' => Open(k)
    BY <1>1, KeyFacts DEF Open
  <2> QED
    BY <1>1, <2>1, <2>2, Balance DEF OwedInv
<1> QED
  BY <1>3, <1>4, OwedWhenDue

LEMMA ClockOwed ==
  ASSUME TypeOK, TypeOK', RunInv, RunInv', OwedInv, Clock
  PROVE  OwedInv'
<1>1. UNCHANGED <<row, lock, tick, runs, faults>> /\ now' = now + 1 /\ now \in Nat
  BY BoundsAssumption DEF Clock, TypeOK, Times
<1>2. Loose' = Loose
  BY <1>1 DEF Loose
<1>3. Cardinality(Loose)' <= faults'
  BY <1>1, <1>2 DEF OwedInv
<1>4. ASSUME NEW k \in Keys PROVE Owed(k)' <= 1 + faults'
  <2>1. Threats(k)' \subseteq Threats(k)
    BY <1>1, <1>2 DEF Threats
  <2>2. k.due \in Nat
    BY KeyFacts
  <2>3. k.due > now' => k.due > now
    BY <1>1, <2>2
  <2>4. Open(k)' => Open(k)
    BY <1>1, <2>3 DEF Open
  <2> QED
    BY <1>1, <2>1, <2>4, Balance DEF OwedInv
<1> QED
  BY <1>3, <1>4, OwedWhenDue

LEMMA LockExpiresOwed ==
  ASSUME TypeOK, TypeOK', TickInv, RunInv', OwedInv, LockExpires
  PROVE  OwedInv'
<1>1. UNCHANGED <<now, row, tick, runs>> /\ lock' = Nobody /\ lock \in Replicas
      /\ \A q \in Replicas : lock' # q
  BY ReplicasAssumption DEF LockExpires, TypeOK
<1>2. Loose' \subseteq Loose \cup {lock}
  BY <1>1 DEF Loose
<1>3. ASSUME NEW k \in Keys PROVE Open(k)' => k.due > now \/ row[k.schedule].next = k.due
  BY <1>1 DEF Open
<1>4. CASE tick[lock].pc = "idle"
  <2>1. Loose' = Loose /\ faults' = faults
    BY <1>1, <1>4 DEF Loose, LockExpires
  <2>2. tick[lock].todo = {} /\ tick[lock].row = Nothing
    BY <1>1, <1>4 DEF TickInv, Sound, TypeOK
  <2>3. Cardinality(Loose)' <= faults'
    BY <2>1 DEF OwedInv
  <2>4. ASSUME NEW k \in Keys PROVE Owed(k)' <= 1 + faults'
    <3>1. Threats(k)' \subseteq Threats(k)
      BY <1>1, <2>1 DEF Threats
    <3>2. ~InHand(tick[lock], k)
      BY <2>2, KeyFacts DEF InHand
    <3>3. Open(k)' => Open(k)
      BY <1>1, <1>3, <3>2 DEF Open
    <3> QED
      BY <1>1, <2>1, <3>1, <3>3, Balance DEF OwedInv
  <2> QED
    BY <2>3, <2>4, OwedWhenDue
<1>5. CASE tick[lock].pc # "idle"
  <2>1. faults' = faults + 1
    BY <1>5, FaultFacts DEF LockExpires
  <2>2. Cardinality(Loose)' <= faults'
    BY <1>1, <1>2, <2>1, LooseCount DEF OwedInv
  <2>3. ASSUME NEW k \in Keys PROVE Owed(k)' <= 1 + faults'
    <3>1. Threats(k)' \subseteq Threats(k) \cup {lock}
      BY <1>1, <1>2 DEF Threats
    <3>2. CASE InHand(tick[lock], k)
      <4> DEFINE j == tick[lock].row
      <4>1. j # Nothing /\ KeyOf(j) = k /\ tick[lock] \in Ticks
        BY <1>1, <3>2, KeyFacts, NothingReads DEF InHand
      <4>2. j \in Reads /\ j \in Hands(tick[lock])
        BY <4>1 DEF Ticks, Hands
      <4>3. j.schedule = k.schedule /\ j.due = k.due /\ j.cron \in Nat \ {0} /\ k.due \in Nat
        BY <4>1, <4>2, KeyFacts, CronsAssumption DEF Reads
      <4>4. \A i \in tick[lock].todo : i.schedule # k.schedule
        BY <1>1, <4>3 DEF TickInv, Sound
      <4>5. tick[lock].at \in Nat /\ k.due <= tick[lock].at /\ tick[lock].todo \subseteq Reads
        BY <1>1, <4>2, <4>3, NothingReads DEF TickInv, Sound
      <4>6. NextFireAt(j.cron, tick[lock].at) > tick[lock].at /\ NextFireAt(j.cron, tick[lock].at) \in Nat
        BY <4>3, <4>5, NextFireAtFacts
      <4>7. NextFireAt(j.cron, tick[lock].at) # k.due
        BY <4>3, <4>5, <4>6
      <4>8. ~Carries(tick[lock], k) /\ ~Sets(tick[lock], k)
        BY <4>4, <4>5, <4>7, KeyFacts DEF Carries, Sets, Hands
      <4>9. Threats(k)' \subseteq Threats(k)
        BY <1>1, <3>1, <4>8 DEF Threats
      <4> QED
        BY <1>1, <2>1, <4>9, Balance DEF OwedInv
    <3>3. CASE ~InHand(tick[lock], k)
      <4>1. Open(k)' => Open(k)
        BY <1>1, <1>3, <3>3 DEF Open
      <4> QED
        BY <1>1, <2>1, <3>1, <4>1, Balance DEF OwedInv
    <3> QED
      BY <3>2, <3>3
  <2> QED
    BY <2>2, <2>3, OwedWhenDue
<1> QED
  BY <1>4, <1>5

LEMMA StepOwed ==
  ASSUME TypeOK, TypeOK', TickInv, RunInv, RunInv', OwedInv, [Next]_vars
  PROVE  OwedInv'
<1>1. CASE UNCHANGED vars
  BY <1>1, ReadOwed DEF vars
<1>2. ASSUME NEW e \in Editors, NEW s \in Edited, NEW given \in Given,
             NEW cron \in Crons, NEW enabled \in BOOLEAN, ReadToEdit(e, s, given, cron, enabled)
      PROVE  OwedInv'
  BY <1>2, ReadOwed DEF ReadToEdit
<1>3. ASSUME NEW s \in Edited, SetStatus(s) PROVE OwedInv'
  BY <1>3, StatusOwed, BoundsAssumption
<1> QED
  BY <1>1, <1>2, <1>3, BeginOwed, FireOwed, RanOwed, UpdateOwed, UpdateThrowsOwed, ReleaseOwed, EditOwed,
     ClockOwed, LockExpiresOwed DEF Next, TickStep

-------------------------------------------------------------------------------
(* The invariant                                                           *)

IInv == TypeOK /\ TickInv /\ EditInv /\ RunInv /\ OwedInv

LEMMA Init_IInv == Init => IInv
<1> SUFFICES ASSUME Init PROVE IInv
  OBVIOUS
<1>1. TypeOK
  BY Init_TypeOK
<1>2. \A r \in Replicas : tick[r] = Idle
  BY DEF Init
<1>3. Idle.todo = {} /\ Idle.row = Nothing /\ Idle.at = 0 /\ Idle.pc = "idle" /\ Hands(Idle) = {} /\ now = 0
  BY DEF Init, Idle, Hands
<1>4. TickInv
  BY <1>2, <1>3 DEF TickInv, Sound
<1>5. EditInv
  <2> SUFFICES ASSUME NEW s \in Schedules PROVE Fresh(s) /\ row[s].next \in Nat /\ Planned(row[s]) /\ Known(s)
    BY DEF EditInv
  <2>2. Fresh(s)
    BY NeverIsNoTime DEF Fresh, Init, NoPatch
  <2>1. row[s].enabled /\ row[s].next = NextFireAt(FirstCron[s], 0) /\ row[s].cron = FirstCron[s]
        /\ FirstCron[s] \in Nat \ {0}
    BY CronsAssumption DEF Init
  <2> QED
    BY <1>2, <1>3, <2>1, <2>2, NextFireAtFacts DEF Planned, Known
<1>6. \A k \in Keys : runs[k] = 0
  BY DEF Init
<1>7. RunInv
  BY <1>2, <1>3, <1>6 DEF RunInv
<1>8. Loose = {} /\ faults = 0
  BY <1>2, <1>3 DEF Loose, Init
<1>9. Cardinality(Loose) <= faults
  BY <1>8, FS_EmptySet
<1>10. OwedInv
  BY <1>1, <1>6, <1>9, Quiet DEF OwedInv
<1> QED
  BY <1>1, <1>4, <1>5, <1>7, <1>10 DEF IInv

LEMMA StepInv == IInv /\ [Next]_vars => IInv'
BY StepType, StepTicks, StepEdits, StepRuns, StepOwed DEF IInv

LEMMA Invariance == Spec => []IInv
BY Init_IInv, StepInv, PTL DEF Spec

(* Every variable keeps its type: no tick holds a row it has not read, and *)
(* faults stay within their bound (processDueSchedules).                   *)
THEOREM TypeCorrect == Spec => []TypeOK
<1>1. IInv => TypeOK
  BY DEF IInv
<1> QED
  BY <1>1, Invariance, PTL

(* A firing runs its workflow once, and once more for each fault: a        *)
(* replica that died, a tick that outlived its lock, an update that failed *)
(* or an edit that wrote a time already passed (withDistributedLock around *)
(* processDueSchedules).                                                   *)
THEOREM ExtraRunsNeedFaultsHolds == Spec => []ExtraRunsNeedFaults
<1>1. IInv => ExtraRunsNeedFaults
  <2> SUFFICES ASSUME IInv, NEW k \in Keys PROVE runs[k] <= 1 + faults
    BY DEF ExtraRunsNeedFaults
  <2>1. Owed(k) <= 1 + faults /\ faults \in Nat /\ runs[k] \in Nat
    BY BoundsAssumption DEF IInv, OwedInv, TypeOK
  <2>2. Cardinality(Threats(k)) \in Nat
    BY ThreatsAreLoose, Counts
  <2> QED
    BY <2>1, <2>2 DEF Owed
<1> QED
  BY <1>1, Invariance, PTL

(* A schedule of which no two edits overlapped has a next time when it is  *)
(* enabled; if it was not edited under a tick that had read it either, it  *)
(* is due at a time of its cron, or never if it is disabled                *)
(* (updateScheduleSidecar, and the update at the end of each firing).      *)
THEOREM EditStandsHolds == Spec => []EditStands
<1>1. IInv => EditStands
  BY NeverIsNoTime DEF IInv, EditInv, Planned, EditStands
<1> QED
  BY <1>1, Invariance, PTL
===============================================================================
