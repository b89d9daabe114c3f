------------------------- MODULE ContainerLifecycle_proofs -------------------------
(***************************************************************************)
(* That a workspace's row tells the truth again after any operation that   *)
(* runs alone, for any number of operations in flight, faults, crashes,    *)
(* restarts and rows; and that the variables keep their types.             *)
(*                                                                         *)
(* AloneTellsTheTruth says nothing while an operation is in flight, so it  *)
(* is far from inductive. What is added: every operation is a chain of     *)
(* steps that ends in a status (Carrying); and one that runs alone knows,  *)
(* at each step, what the row and the container are (Knows), which the     *)
(* step before it left so.                                                 *)
(***************************************************************************)
EXTENDS ContainerLifecycle, Integers, SequenceTheorems, TLAPS

(***************************************************************************)
(* The shape of an operation. What an actor still has to do is a chain:    *)
(* every step is followed by one of a few, and the last is one that an     *)
(* operation may end with.                                                 *)
(***************************************************************************)
AllSteps == DOMAIN StatusOf \cup DockerCalls
              \cup {"insert", "create", "bridge", "ports", "client", "verify", "inspect"}

Follows ==
    {<<"markStarting", "start">>, <<"markCreated", "start">>, <<"stop", "start">>,
     <<"start", "bridge">>, <<"start", "ports">>, <<"bridge", "ports">>,
     <<"ports", "markRunning">>, <<"ports", "markUp">>,
     <<"markRunning", "client">>, <<"markUp", "client">>,
     <<"insert", "create">>, <<"create", "markCreated">>,
     <<"markRestarting", "stop">>, <<"markStopping", "stop">>, <<"stop", "markStopped">>,
     <<"kill", "markStopped">>, <<"remove", "markStopped">>, <<"remove", "markDestroyed">>,
     <<"pause", "markPaused">>, <<"unpause", "markResumed">>}

Lasts == {"markRunning", "markUp", "markStopped", "markDestroyed", "markPaused", "markResumed",
          "markError", "markUnreachable", "markFailed", "markHealthy", "giveUp",
          "client", "verify", "inspect"}

Chained(steps) ==
    /\ steps \in Seq(AllSteps)
    /\ steps # << >> => steps[Len(steps)] \in Lasts
    /\ \A i \in 1..(Len(steps) - 1) : <<steps[i], steps[i + 1]>> \in Follows

(* The steps before which an operation answers an error with "markError".  *)
Guarded == {"markStarting", "start", "bridge", "ports", "markRunning", "insert", "create",
            "markCreated", "markUp", "markRestarting", "stop", "markStopping"}

(* What any operation in flight carries, overlapped or not.                *)
Carries(op) ==
    /\ Chained(op.steps)
    /\ op.steps # << >> =>
         /\ Head(op.steps) \in Guarded => op.onThrow = "markError"
         /\ Head(op.steps) = "markRestarting" => op.restarts < MaxRestarts
         /\ Head(op.steps) \in {"verify", "markUnreachable"} => op.onThrow = "markUnreachable"

(* What an operation that runs alone knows at its next step.               *)
Untouched == {"insert", "inspect", "markHealthy", "markFailed", "client", "pause", "unpause"}
Knows(op) ==
    LET step == Head(op.steps)
        state == IF op.cid = 0 THEN "absent" ELSE docker[op.cid]
    IN /\ row.id = op.id
       /\ step \notin {"create", "markCreated", "markError"} => row.cid = op.cid
       /\ step \in {"bridge", "ports", "markRunning", "markUp"} => state = "running"
       /\ step = "markStopped" => state \in {"exited", "absent"}
       /\ step = "markDestroyed" => state = "absent"
       /\ step = "pause" => row.status = "RUNNING" /\ row.cid # 0
       /\ step = "unpause" => row.status = "PAUSED" /\ row.cid # 0
       /\ clean => /\ step = "markPaused" => state = "paused"
                   /\ step = "markResumed" => state = "running"
                   /\ step \in Untouched => Agrees
                   /\ op.onThrow # "markUnreachable"

Alone ==
    /\ \A a \in Actors : ~ Free(a) => /\ clean => doing[a].solo
                                      /\ doing[a].solo => Knows(doing[a])
    /\ \A a, b \in Actors : (~ Free(a) /\ doing[a].solo /\ ~ Free(b)) => a = b
    /\ AloneTellsTheTruth

(* Moving on to the next step of a chain.                                  *)
LEMMA ChainedTail ==
    ASSUME NEW steps, Chained(steps), steps # << >>
    PROVE  /\ steps \in Seq(AllSteps) /\ Head(steps) \in AllSteps
           /\ Chained(Tail(steps))
           /\ Tail(steps) = << >> => Head(steps) \in Lasts
           /\ Tail(steps) # << >> => <<Head(steps), Head(Tail(steps))>> \in Follows
  <1> DEFINE rest == Tail(steps)
  <1>1. steps \in Seq(AllSteps) /\ Len(steps) \in Nat \ {0} /\ Head(steps) = steps[1]
    BY DEF Chained
  <1>2. /\ rest \in Seq(AllSteps) /\ Len(rest) = Len(steps) - 1
        /\ \A i \in 1..Len(rest) : rest[i] = steps[i + 1]
    BY <1>1
  <1>3. CASE Len(steps) = 1
    <2>1. steps[1] \in Lasts
      BY <1>1, <1>3 DEF Chained
    <2>2. Len(rest) = 0
      BY <1>2, <1>3
    <2>3. rest = << >>
      <3>1. rest # << >> => Len(rest) \in Nat \ {0}
        BY <1>2, EmptySeq
      <3>2. QED
        BY <2>2, <3>1
    <2>4. QED
      BY <1>1, <1>2, <2>1, <2>3 DEF Chained
  <1>4. CASE Len(steps) > 1
    <2>1. rest # << >> /\ Len(rest) \in Nat \ {0} /\ Head(rest) = steps[2]
      BY <1>1, <1>2, <1>4
    <2>2. rest[Len(rest)] \in Lasts
      BY <1>1, <1>2, <2>1 DEF Chained
    <2>3. \A i \in 1..(Len(rest) - 1) : <<rest[i], rest[i + 1]>> \in Follows
      <3> SUFFICES ASSUME NEW i \in 1..(Len(rest) - 1) PROVE <<rest[i], rest[i + 1]>> \in Follows
        OBVIOUS
      <3>1. rest[i] = steps[i + 1] /\ rest[i + 1] = steps[(i + 1) + 1] /\ i + 1 \in 1..(Len(steps) - 1)
        BY <1>1, <1>2, <2>1
      <3>2. QED
        BY <3>1 DEF Chained
    <2>4. <<steps[1], steps[2]>> \in Follows
      <3>1. 1 \in 1..(Len(steps) - 1) /\ 1 + 1 = 2
        BY <1>1, <1>4
      <3>2. QED
        BY <3>1 DEF Chained
    <2>5. QED
      BY <1>1, <1>2, <2>1, <2>2, <2>3, <2>4 DEF Chained
  <1>5. Len(steps) = 1 \/ Len(steps) > 1
    <2>1. \A n \in Nat \ {0} : n = 1 \/ n > 1
      OBVIOUS
    <2>2. QED
      BY <1>1, <2>1
  <1>6. QED
    BY <1>3, <1>4, <1>5, Zenon

(* The names of the steps that write the row.                              *)
Writes == {"markStarting", "markCreated", "markRestarting", "markRunning", "markUp", "markResumed",
           "markStopping", "markStopped", "markPaused", "markDestroyed", "markError", "giveUp",
           "markUnreachable", "markFailed", "markHealthy"}
(* The steps that write the row are those that have a status.              *)
LEMMA WritesAre == DOMAIN StatusOf = Writes
  BY DEF StatusOf, Writes

(* What the steps that follow one another have in common.                  *)
LEMMA FollowsFacts ==
    ASSUME NEW x, NEW y, <<x, y>> \in Follows
    PROVE  /\ y \in Guarded => x \in Guarded
           /\ y \notin {"markRestarting", "verify", "markUnreachable"}
  BY DEF Follows, Guarded

(* Every list of steps is a chain.                                         *)
LEMMA Lists ==
    /\ Chained(<< >>)
    /\ \A steps \in {StartSteps, AutoStartSteps, CreateSteps, RestartSteps, StopSteps, DestroySteps,
                     ForceStopSteps, SuspendSteps, ResumeSteps, SweepSteps} :
         Chained(steps) /\ steps # << >>
    /\ \A step \in Lasts : Chained(<<step>>) /\ <<step>> # << >> /\ Head(<<step>>) = step
    /\ Head(StartSteps) = "markStarting" /\ Head(AutoStartSteps) = "markStarting"
    /\ Head(CreateSteps) = "insert" /\ Head(RestartSteps) = "markRestarting"
    /\ Head(StopSteps) = "markStopping" /\ Head(DestroySteps) = "remove"
    /\ Head(ForceStopSteps) = "kill" /\ Head(SuspendSteps) = "pause"
    /\ Head(ResumeSteps) = "unpause" /\ Head(SweepSteps) = "remove"
  <1>1. Chained(StartSteps) /\ StartSteps # << >> /\ Head(StartSteps) = "markStarting"
    BY WritesAre DEF Chained, StartSteps, AllSteps, Writes, Follows, Lasts, DockerCalls
  <1>2. "client" \in AllSteps /\ "client" \in Lasts
    BY DEF AllSteps, Lasts
  <1>3. Chained(AutoStartSteps) /\ AutoStartSteps # << >> /\ Head(AutoStartSteps) = "markStarting"
    <2>1. /\ StartSteps \in Seq(AllSteps) /\ Len(StartSteps) = 5
          /\ StartSteps[1] = "markStarting" /\ StartSteps[5] = "markRunning"
      BY <1>1 DEF Chained, StartSteps
    <2>2. /\ AutoStartSteps \in Seq(AllSteps) /\ Len(AutoStartSteps) = 6
          /\ \A i \in 1..5 : AutoStartSteps[i] = StartSteps[i]
          /\ AutoStartSteps[6] = "client"
      <3> DEFINE last == <<"client">>
      <3>1. last \in Seq(AllSteps) /\ Len(last) = 1 /\ last[1] = "client"
        BY <1>2
      <3>2. AutoStartSteps = StartSteps \o last
        BY DEF AutoStartSteps
      <3> HIDE DEF last
      <3>3. /\ AutoStartSteps \in Seq(AllSteps) /\ Len(AutoStartSteps) = 6
            /\ \A i \in 1..6 : AutoStartSteps[i] = IF i <= 5 THEN StartSteps[i] ELSE last[i - 5]
        <4>1. /\ StartSteps \o last \in Seq(AllSteps)
              /\ Len(StartSteps \o last) = Len(StartSteps) + Len(last)
              /\ \A i \in 1..(Len(StartSteps) + Len(last)) :
                   (StartSteps \o last)[i] = IF i <= Len(StartSteps) THEN StartSteps[i]
                                              ELSE last[i - Len(StartSteps)]
          BY <2>1, <3>1, ConcatProperties, Zenon
        <4>2. Len(StartSteps) + Len(last) = 6
          BY <2>1, <3>1
        <4>3. Len(StartSteps) = 5
          BY <2>1
        <4>4. QED
          BY <3>2, <4>1, <4>2, <4>3, Zenon
      <3>4. AutoStartSteps[6] = "client"
        BY <3>1, <3>3
      <3>5. \A i \in 1..5 : AutoStartSteps[i] = StartSteps[i]
        BY <3>3
      <3>6. QED
        BY <3>3, <3>4, <3>5
    <2>3. \A i \in 1..5 : <<AutoStartSteps[i], AutoStartSteps[i + 1]>> \in Follows
      <3>1. \A i \in 1..4 : <<StartSteps[i], StartSteps[i + 1]>> \in Follows
        <4>1. \A i \in 1..(Len(StartSteps) - 1) : <<StartSteps[i], StartSteps[i + 1]>> \in Follows
          BY <1>1, Zenon DEF Chained
        <4>2. Len(StartSteps) - 1 = 4
          BY <2>1
        <4>3. QED
          BY <4>1, <4>2, Zenon
      <3>2. <<AutoStartSteps[5], AutoStartSteps[6]>> \in Follows
        BY <2>1, <2>2 DEF Follows
      <3>3. ASSUME NEW i \in 1..5 PROVE <<AutoStartSteps[i], AutoStartSteps[i + 1]>> \in Follows
        <4>1. CASE i = 5
          <5>1. i + 1 = 6
            BY <4>1
          <5>2. QED
            BY <3>2, <4>1, <5>1
        <4>2. CASE i \in 1..4
          <5>1. i + 1 \in 1..5
            BY <4>2
          <5>2. QED
            BY <2>2, <3>1, <4>2, <5>1
        <4>3. QED
          BY <4>1, <4>2
      <3>4. QED
        BY <3>3
    <2>4. QED
      BY <1>2, <2>1, <2>2, <2>3 DEF Chained
  <1>4. Chained(CreateSteps) /\ CreateSteps # << >> /\ Head(CreateSteps) = "insert"
    BY WritesAre DEF Chained, CreateSteps, AllSteps, Writes, Follows, Lasts, DockerCalls
  <1>5. Chained(RestartSteps) /\ RestartSteps # << >> /\ Head(RestartSteps) = "markRestarting"
    BY WritesAre DEF Chained, RestartSteps, AllSteps, Writes, Follows, Lasts, DockerCalls
  <1>6. Chained(StopSteps) /\ StopSteps # << >> /\ Head(StopSteps) = "markStopping"
    BY WritesAre DEF Chained, StopSteps, AllSteps, Writes, Follows, Lasts, DockerCalls
  <1>7. /\ Chained(DestroySteps) /\ DestroySteps # << >> /\ Head(DestroySteps) = "remove"
        /\ Chained(ForceStopSteps) /\ ForceStopSteps # << >> /\ Head(ForceStopSteps) = "kill"
        /\ Chained(SuspendSteps) /\ SuspendSteps # << >> /\ Head(SuspendSteps) = "pause"
        /\ Chained(ResumeSteps) /\ ResumeSteps # << >> /\ Head(ResumeSteps) = "unpause"
        /\ Chained(SweepSteps) /\ SweepSteps # << >> /\ Head(SweepSteps) = "remove"
    BY WritesAre DEF Chained, DestroySteps, ForceStopSteps, SuspendSteps, ResumeSteps, SweepSteps,
       AllSteps, Writes, Follows, Lasts, DockerCalls
  <1>8. Chained(<< >>)
    BY DEF Chained
  <1>9. ASSUME NEW step \in Lasts PROVE Chained(<<step>>) /\ <<step>> # << >> /\ Head(<<step>>) = step
    <2>1. step \in AllSteps
      BY WritesAre DEF Lasts, AllSteps, Writes
    <2>2. QED
      BY <2>1 DEF Chained
  <1>10. QED
    BY <1>1, <1>3, <1>4, <1>5, <1>6, <1>7, <1>8, <1>9

(* Going on, giving up with an error, and what is then left to do.         *)
Left(op, steps) == IF steps = << >> THEN Idle ELSE [op EXCEPT !.steps = steps]
(* An actor that goes on has those steps left, or is free.                 *)
LEMMA Proceeds ==
    ASSUME doing \in [Actors -> Operations], NEW a \in Actors, NEW steps, Proceed(a, steps)
    PROVE  doing' = [doing EXCEPT ![a] = Left(doing[a], steps)]
  BY DEF Proceed, Left

-------------------------------------------------------------------------------
(* Moving one actor, and what every operation carries.                     *)
Carrying == \A a \in Actors : Carries(doing[a])
Moved(a, op) == op \in Operations /\ Carries(op) /\ doing' = [doing EXCEPT ![a] = op]

(* The types of the fields of an operation, and of its steps.              *)
LEMMA OperationsAre ==
    ASSUME NEW op
    PROVE  op \in Operations <=>
             op \in [steps : Seq(AllSteps), id : 0..MaxRows, cid : 0..MaxRows, fails : Nat,
                     restarts : 0..MaxRestarts, onThrow : {"none", "markError", "markUnreachable"},
                     solo : BOOLEAN]
  BY DEF Operations, AllSteps

(* An actor that is free carries nothing.                                  *)
LEMMA IdleCarries == Idle \in Operations /\ Carries(Idle) /\ Idle.steps = << >>
  <1>1. 0 \in 0..MaxRows /\ 0 \in 0..MaxRestarts
    BY LifecycleAssumption
  <1>2. << >> \in Seq(AllSteps)
    BY Lists DEF Chained
  <1>3. QED
    BY <1>1, <1>2, Lists, OperationsAre DEF Idle, Carries

(* Nothing left to do.                                                     *)
LEMMA LeftNothing ==
    ASSUME NEW op \in Operations
    PROVE  Left(op, << >>) \in Operations /\ Carries(Left(op, << >>))
  BY IdleCarries DEF Left

(* What is left after one step of a chain is a chain, and carries as much. *)
LEMMA LeftTail ==
    ASSUME NEW op \in Operations, Carries(op), op.steps # << >>
    PROVE  LET rest == Left(op, Tail(op.steps)) IN rest \in Operations /\ Carries(rest)
  <1> DEFINE steps == Tail(op.steps)
             x == Head(op.steps)
             rest == [op EXCEPT !.steps = steps]
  <1>1. Chained(steps) /\ steps \in Seq(AllSteps) /\ (steps # << >> => <<x, Head(steps)>> \in Follows)
    BY ChainedTail DEF Carries, Chained
  <1>2. /\ rest \in Operations /\ rest.steps = steps
        /\ rest.onThrow = op.onThrow /\ rest.restarts = op.restarts
    <2> HIDE DEF steps
    <2>1. QED
      BY <1>1 DEF Operations, AllSteps
  <1>3. x \in Guarded => op.onThrow = "markError"
    BY DEF Carries
  <1> HIDE DEF steps, x, rest
  <1>4. Carries(rest)
    BY <1>1, <1>2, <1>3, FollowsFacts DEF Carries
  <1>5. QED
    BY <1>2, <1>4, IdleCarries DEF Left, rest, steps

(* An operation that comes to a last step.                                 *)
Endings == {"markError", "markUnreachable", "markStopped", "markFailed", "markHealthy", "giveUp",
            "client"}
(* One last step, chosen by the operation, is a chain.                     *)
LEMMA LeftOne ==
    ASSUME NEW op \in Operations, NEW step \in Endings,
           step = "markUnreachable" => op.onThrow = "markUnreachable"
    PROVE  LET rest == Left(op, <<step>>) IN
             /\ rest \in Operations /\ Carries(rest)
             /\ rest = [op EXCEPT !.steps = <<step>>]
  <1> DEFINE steps == <<step>>
             rest == [op EXCEPT !.steps = steps]
  <1>1. step \in Lasts
    BY DEF Endings, Lasts
  <1>2. Chained(steps) /\ steps \in Seq(AllSteps) /\ steps # << >> /\ Head(steps) = step
    BY <1>1, Lists DEF Chained
  <1> HIDE DEF steps
  <1>3. rest \in Operations /\ rest.steps = steps /\ rest.onThrow = op.onThrow
    BY <1>2, OperationsAre
  <1>4. step \notin Guarded /\ step \notin {"markRestarting", "verify"}
    BY DEF Endings, Guarded
  <1>5. Left(op, steps) = rest
    BY <1>2 DEF Left
  <1> HIDE DEF rest
  <1>6. Carries(rest)
    BY <1>2, <1>3, <1>4 DEF Carries
  <1>7. QED
    BY <1>3, <1>5, <1>6 DEF rest, steps

(* What is left of an operation that throws.                               *)
LEMMA LeftThrown ==
    ASSUME NEW op \in Operations
    PROVE  /\ op.onThrow \in {"none", "markError", "markUnreachable"}
           /\ op.onThrow # "none" => LET rest == Left(op, <<op.onThrow>>) IN
                /\ rest \in Operations /\ Carries(rest)
                /\ rest = [op EXCEPT !.steps = <<op.onThrow>>]
  <1>1. op.onThrow \in {"none", "markError", "markUnreachable"}
    BY OperationsAre
  <1>2. op.onThrow # "none" => op.onThrow \in Endings
    BY <1>1 DEF Endings
  <1>3. QED
    BY <1>1, <1>2, LeftOne

(* An actor goes on to its next step.                                      *)
LEMMA GoesOn ==
    ASSUME TypeOK, Carrying, NEW a \in Actors, ~ Free(a), GoOn(a)
    PROVE  Moved(a, Left(doing[a], Tail(doing[a].steps)))
  BY Proceeds, LeftTail DEF TypeOK, Carrying, GoOn, Free, Moved

(* An exception ends the operation, or leaves it the status of its catch.  *)
LEMMA Throws ==
    ASSUME TypeOK, NEW a \in Actors, Throw(a)
    PROVE  \/ Moved(a, Idle) /\ (doing[a].onThrow = "none" \/ doing[a].steps = <<doing[a].onThrow>>)
           \/ /\ doing[a].onThrow # "none"
              /\ Moved(a, [doing[a] EXCEPT !.steps = <<doing[a].onThrow>>])
  <1>1. doing[a] \in Operations /\ doing \in [Actors -> Operations]
    BY DEF TypeOK
  <1>2. CASE doing[a].onThrow = "none" \/ doing[a].steps = <<doing[a].onThrow>>
    <2>1. Proceed(a, << >>)
      BY <1>2 DEF Throw
    <2>2. QED
      BY <1>1, <1>2, <2>1, Proceeds, IdleCarries DEF Moved, Left
  <1>3. CASE ~ (doing[a].onThrow = "none" \/ doing[a].steps = <<doing[a].onThrow>>)
    <2>1. Proceed(a, <<doing[a].onThrow>>)
      BY <1>3 DEF Throw
    <2>2. doing' = [doing EXCEPT ![a] = Left(doing[a], <<doing[a].onThrow>>)]
      BY <1>1, <2>1, Proceeds
    <2>3. QED
      BY <1>1, <1>3, <2>2, LeftThrown DEF Moved
  <1>4. QED
    BY <1>2, <1>3

(* A row keeps its types, and a write by its id moves the actor on.        *)
LEMMA StatusesAre ==
    \A step \in DOMAIN StatusOf : StatusOf[step] \in Statuses \cup {"kept"}
  BY DEF StatusOf, Statuses, Transitional

RowOf == [id : 0..MaxRows, status : Statuses, cid : 0..MaxRows, fails : Nat, restarts : 0..MaxRestarts]
(* The row a step writes: types, identity, status, container.              *)
LEMMA UpdatedType ==
    ASSUME TypeOK, Carrying, NEW a \in Actors, ~ Free(a), Step(a) \in DOMAIN StatusOf
    PROVE  /\ Updated(a) \in RowOf
           /\ Updated(a).id = row.id
           /\ Updated(a).status = IF StatusOf[Step(a)] = "kept" THEN row.status ELSE StatusOf[Step(a)]
           /\ Updated(a).cid = IF Step(a) = "markCreated" THEN doing[a].cid ELSE row.cid
  <1> DEFINE step == Step(a)
             status == IF StatusOf[step] = "kept" THEN row.status ELSE StatusOf[step]
             cid == IF step = "markCreated" THEN doing[a].cid ELSE row.cid
             fails == CASE step \in {"markRunning", "markUp", "markRestarting", "markHealthy"} -> 0
                        [] step \in {"markFailed", "giveUp"} -> doing[a].fails + 1
                        [] OTHER -> row.fails
             restarts == CASE step = "markRunning" -> 0
                           [] step = "markRestarting" -> doing[a].restarts + 1
                           [] OTHER -> row.restarts
  <1>1. row \in RowOf
    BY DEF TypeOK, RowOf
  <1>2. /\ doing[a].fails \in Nat /\ doing[a].restarts \in 0..MaxRestarts /\ doing[a].cid \in 0..MaxRows
        /\ row.fails \in Nat /\ row.restarts \in 0..MaxRestarts /\ row.cid \in 0..MaxRows
        /\ row.status \in Statuses
    BY <1>1, OperationsAre DEF TypeOK, RowOf
  <1>3. status \in Statuses
    BY <1>2, StatusesAre
  <1>4. cid \in 0..MaxRows
    BY <1>2
  <1>5. fails \in Nat
    BY <1>2
  <1>6. restarts \in 0..MaxRestarts
    <2>1. step = "markRestarting" => doing[a].restarts < MaxRestarts
      BY DEF Carrying, Carries, Step, Free
    <2>2. 0 \in 0..MaxRestarts /\ MaxRestarts \in Nat
      BY LifecycleAssumption
    <2> HIDE DEF step
    <2>3. CASE step = "markRunning"
      BY <2>2, <2>3
    <2>4. CASE step = "markRestarting"
      BY <1>2, <2>1, <2>2, <2>4
    <2>5. CASE step \notin {"markRunning", "markRestarting"}
      BY <1>2, <2>5
    <2>6. QED
      BY <2>3, <2>4, <2>5
  <1>7. Updated(a) = [row EXCEPT !.status = status, !.cid = cid, !.fails = fails, !.restarts = restarts]
    BY DEF Updated
  <1> HIDE DEF status, cid, fails, restarts
  <1>8. QED
    BY <1>1, <1>3, <1>4, <1>5, <1>6, <1>7 DEF RowOf, status, cid, step

(* A write of the row: by the operation's id, or, if the row is gone, an   *)
(* error and the end.                                                      *)
LEMMA WriteEffect ==
    ASSUME TypeOK, Carrying, NEW a \in Actors, ~ Free(a), Write(a)
    PROVE  /\ UNCHANGED <<docker, cooling, faults, requests, crashes>>
           /\ \/ /\ row.id = doing[a].id
                 /\ row' = Updated(a) /\ row' \in RowOf
                 /\ clean' = (clean \/ (doing[a].solo /\ Step(a) \in Settling))
                 /\ Moved(a, Left(doing[a], Tail(doing[a].steps)))
              \/ /\ row.id # doing[a].id
                 /\ UNCHANGED <<row, clean>>
                 /\ Moved(a, Idle)
  <1>1. UNCHANGED <<docker, cooling, faults, requests, crashes>>
    BY DEF Write, GoOn, Proceed
  <1>2. CASE row.id = doing[a].id
    BY <1>1, <1>2, GoesOn, UpdatedType DEF Write
  <1>3. CASE row.id # doing[a].id
    <2>1. Proceed(a, << >>) /\ UNCHANGED <<row, clean>>
      BY <1>3 DEF Write
    <2>2. doing' = [doing EXCEPT ![a] = Left(doing[a], << >>)]
      BY <2>1, Proceeds DEF TypeOK
    <2>3. QED
      BY <1>1, <1>3, <2>1, <2>2, IdleCarries DEF Moved, Left
  <1>4. QED
    BY <1>2, <1>3

(* The insert makes the next row, or the operation ends.                   *)
LEMMA InsertEffect ==
    ASSUME TypeOK, Carrying, NEW a \in Actors, ~ Free(a), Insert(a)
    PROVE  /\ UNCHANGED <<docker, cooling, faults, clean, requests, crashes>>
           /\ \/ /\ row.id + 1 \in 0..MaxRows
                 /\ row' = [NoRow EXCEPT !.id = row.id + 1, !.status = "CREATING"] /\ row' \in RowOf
                 /\ \E op : /\ Moved(a, op) /\ op.steps = Tail(doing[a].steps) /\ op.id = row.id + 1
                            /\ op.solo = doing[a].solo /\ op.onThrow = doing[a].onThrow
              \/ Moved(a, Idle) /\ UNCHANGED row
  <1>1. UNCHANGED <<docker, cooling, faults, clean, requests, crashes>>
    BY DEF Insert, Proceed
  <1>2. doing[a] \in Operations /\ doing \in [Actors -> Operations]
    BY DEF TypeOK
  <1>3. CASE row.status = "DESTROYED" /\ row.id < MaxRows
    <2> DEFINE id == row.id + 1
               rest == Tail(doing[a].steps)
               op == [doing[a] EXCEPT !.steps = rest, !.id = id]
    <2>1. row.id \in 0..MaxRows /\ id \in 0..MaxRows
      BY <1>3, LifecycleAssumption DEF TypeOK
    <2>2. row' = [NoRow EXCEPT !.id = id, !.status = "CREATING"] /\ doing' = [doing EXCEPT ![a] = op]
      BY <1>2, <1>3 DEF Insert
    <2>3. Chained(doing[a].steps) /\ doing[a].steps # << >>
      BY DEF Carrying, Carries, Free
    <2>4. Chained(rest) /\ rest \in Seq(AllSteps)
          /\ (rest # << >> => <<Head(doing[a].steps), Head(rest)>> \in Follows)
      BY <2>3, ChainedTail DEF Chained
    <2> HIDE DEF id, rest
    <2>5. /\ op \in Operations /\ op.steps = rest /\ op.id = id /\ op.solo = doing[a].solo
          /\ op.onThrow = doing[a].onThrow /\ op.restarts = doing[a].restarts
      BY <1>2, <2>1, <2>4 DEF Operations, AllSteps
    <2>6. Head(doing[a].steps) \in Guarded => doing[a].onThrow = "markError"
      BY <2>3 DEF Carrying, Carries
    <2> HIDE DEF op
    <2>7. Carries(op)
      BY <2>4, <2>5, <2>6, FollowsFacts DEF Carries
    <2>8. [NoRow EXCEPT !.id = id, !.status = "CREATING"] \in RowOf
      <3>1. 0 \in 0..MaxRows /\ 0 \in 0..MaxRestarts
        BY LifecycleAssumption
      <3>2. QED
        BY <2>1, <3>1 DEF NoRow, RowOf, Statuses, Transitional
    <2>9. QED
      BY <1>1, <2>1, <2>2, <2>5, <2>7, <2>8 DEF Moved, id, rest
  <1>4. CASE ~ (row.status = "DESTROYED" /\ row.id < MaxRows)
    <2>1. Proceed(a, << >>) /\ UNCHANGED row
      BY <1>4 DEF Insert
    <2>2. QED
      BY <1>1, <1>2, <2>1, Proceeds, IdleCarries DEF Moved, Left
  <1>5. QED
    BY <1>3, <1>4

States == {"absent", "exited", "running", "paused"}

(* The container is created under the row's id, or the name is taken.      *)
LEMMA CreateEffect ==
    ASSUME TypeOK, Carrying, NEW a \in Actors, ~ Free(a), CreateContainer(a)
    PROVE  /\ UNCHANGED <<row, cooling, faults, clean, requests, crashes>>
           /\ docker' \in [Rows -> States]
           /\ \/ \E op : /\ Moved(a, op) /\ op.steps = Tail(doing[a].steps) /\ op.cid = op.id
                         /\ op.id = doing[a].id /\ op.solo = doing[a].solo
                         /\ op.onThrow = doing[a].onThrow
              \/ Throw(a) /\ UNCHANGED docker
  <1>1. UNCHANGED <<row, cooling, faults, clean, requests, crashes>>
    BY DEF CreateContainer, Throw, Proceed
  <1>2. doing[a] \in Operations /\ doing \in [Actors -> Operations] /\ docker \in [Rows -> States]
    BY DEF TypeOK, States
  <1>3. CASE \A i \in Rows : docker[i] = "absent"
    <2> DEFINE id == doing[a].id
               rest == Tail(doing[a].steps)
               op == [doing[a] EXCEPT !.steps = rest, !.cid = id]
    <2>1. id \in 0..MaxRows
      BY <1>2, OperationsAre
    <2>2. docker' = [docker EXCEPT ![id] = "exited"] /\ doing' = [doing EXCEPT ![a] = op]
      BY <1>2, <1>3 DEF CreateContainer
    <2>3. Chained(doing[a].steps) /\ doing[a].steps # << >>
      BY DEF Carrying, Carries, Free
    <2>4. Chained(rest) /\ rest \in Seq(AllSteps)
          /\ (rest # << >> => <<Head(doing[a].steps), Head(rest)>> \in Follows)
      BY <2>3, ChainedTail DEF Chained
    <2>5. docker' \in [Rows -> States]
      BY <1>2, <2>2 DEF States
    <2> HIDE DEF rest
    <2>6. /\ op \in Operations /\ op.steps = rest /\ op.id = id /\ op.cid = id
          /\ op.solo = doing[a].solo /\ op.onThrow = doing[a].onThrow
          /\ op.restarts = doing[a].restarts
      BY <1>2, <2>1, <2>4 DEF Operations, AllSteps
    <2>7. Head(doing[a].steps) \in Guarded => doing[a].onThrow = "markError"
      BY <2>3 DEF Carrying, Carries
    <2> HIDE DEF op
    <2>8. Carries(op)
      BY <2>4, <2>6, <2>7, FollowsFacts DEF Carries
    <2>9. QED
      BY <1>1, <2>2, <2>5, <2>6, <2>8 DEF Moved, rest
  <1>4. CASE ~ (\A i \in Rows : docker[i] = "absent")
    BY <1>1, <1>2, <1>4 DEF CreateContainer
  <1>5. QED
    BY <1>3, <1>4

(* A Docker call leaves a container in one of its states.                  *)
LEMMA AfterType ==
    ASSUME NEW call \in DockerCalls, NEW was \in States
    PROVE  After(call, was) \in States
  BY DEF After, DockerCalls, States

(* The container an operation acts on.                                     *)
LEMMA ContainerIs ==
    ASSUME TypeOK, NEW a \in Actors
    PROVE  /\ ContainerOf(a) \in States
           /\ ContainerOf(a) # "absent" => doing[a].cid \in Rows /\ ContainerOf(a) = docker[doing[a].cid]
  <1>1. doing[a].cid \in 0..MaxRows /\ MaxRows \in Nat
    BY OperationsAre, LifecycleAssumption DEF TypeOK
  <1>2. doing[a].cid # 0 => doing[a].cid \in Rows
    BY <1>1 DEF Rows
  <1>3. QED
    BY <1>2 DEF TypeOK, States, ContainerOf

(* A Docker call: it is refused, or moves the container of the operation.  *)
Called(a) ==
    /\ doing[a].cid \in Rows /\ ContainerOf(a) = docker[doing[a].cid]
    /\ docker' = [docker EXCEPT ![doing[a].cid] = After(Step(a), docker[doing[a].cid])]
(* A Docker call is refused, silently or by an error, or it is made.       *)
LEMMA CallEffect ==
    ASSUME TypeOK, Carrying, NEW a \in Actors, ~ Free(a), DockerCall(a)
    PROVE  /\ UNCHANGED <<row, cooling, faults, clean, requests, crashes>>
           /\ docker' \in [Rows -> States]
           /\ \/ /\ UNCHANGED docker /\ Step(a) \in Swallowed /\ Refuses(Step(a), ContainerOf(a))
                 /\ GoOn(a)
              \/ /\ UNCHANGED docker /\ Step(a) \notin Swallowed /\ Refuses(Step(a), ContainerOf(a))
                 /\ Throw(a)
              \/ /\ ~ Refuses(Step(a), ContainerOf(a))
                 /\ Called(a) /\ GoOn(a)
  <1>1. UNCHANGED <<row, cooling, faults, clean, requests, crashes>>
    BY DEF DockerCall, Refused, GoOn, Throw, Proceed
  <1>2. docker \in [Rows -> States]
    BY DEF TypeOK, States
  <1>3. CASE Refuses(Step(a), ContainerOf(a))
    BY <1>1, <1>2, <1>3 DEF DockerCall, Refused
  <1>4. CASE ~ Refuses(Step(a), ContainerOf(a))
    <2>1. doing[a].cid \in Rows /\ ContainerOf(a) = docker[doing[a].cid]
      BY <1>4, ContainerIs DEF Refuses
    <2>2. /\ docker' = [docker EXCEPT ![doing[a].cid] = After(Step(a), docker[doing[a].cid])]
          /\ GoOn(a) /\ Step(a) \in DockerCalls
      BY <1>4 DEF DockerCall
    <2>3. After(Step(a), docker[doing[a].cid]) \in States
      BY <1>2, <2>1, <2>2, AfterType
    <2>4. QED
      BY <1>1, <1>2, <1>4, <2>1, <2>2, <2>3 DEF Called
  <1>5. QED
    BY <1>3, <1>4

(* What an operation reads when it begins.                                 *)
Begun(op) ==
    LET step == Head(op.steps)
    IN /\ op \in Operations /\ Carries(op) /\ op.steps # << >>
       /\ op.id = row.id /\ op.cid = row.cid
       /\ step \in {"markStarting", "insert", "markStopping", "remove", "kill", "pause", "unpause",
                    "markStopped", "markDestroyed", "inspect", "verify"}
       /\ step \in {"markStopped", "markDestroyed"} => row.cid = 0
       /\ step = "pause" => row.status = "RUNNING" /\ row.cid # 0
       /\ step = "unpause" => row.status = "PAUSED" /\ row.cid # 0

(* An operation that has just read the row is well formed.                 *)
LEMMA ReadingIs ==
    ASSUME TypeOK, NEW steps, Chained(steps), steps # << >>,
           NEW onThrow \in {"none", "markError", "markUnreachable"}, NEW solo \in BOOLEAN,
           Head(steps) \in Guarded => onThrow = "markError",
           Head(steps) # "markRestarting",
           Head(steps) \in {"verify", "markUnreachable"} => onThrow = "markUnreachable"
    PROVE  LET op == Reading(steps, onThrow, solo)
           IN /\ op \in Operations /\ Carries(op) /\ op.steps = steps
              /\ op.id = row.id /\ op.cid = row.cid /\ op.solo = solo /\ op.onThrow = onThrow
  <1> DEFINE op == Reading(steps, onThrow, solo)
  <1>1. row.id \in 0..MaxRows /\ row.cid \in 0..MaxRows /\ steps \in Seq(AllSteps)
    BY DEF TypeOK, Chained
  <1>2. /\ op \in Operations /\ op.steps = steps
        /\ op.id = row.id /\ op.cid = row.cid /\ op.solo = solo /\ op.onThrow = onThrow
    BY <1>1, IdleCarries DEF Reading, Operations, AllSteps
  <1> HIDE DEF op
  <1>3. Carries(op)
    BY <1>2 DEF Carries
  <1>4. QED
    BY <1>2, <1>3 DEF op

(* Every request begins with one of a few steps, and what its guard read.  *)
LEMMA AskEffect ==
    ASSUME TypeOK, NEW a \in Actors, Ask(a)
    PROVE  \E op : /\ Begun(op) /\ Take(a, op)
                   /\ op.solo = Quiet /\ op.onThrow \in {"none", "markError"}
                   /\ requests' \in 0..MaxRequests
  <1> DEFINE Asked(steps, onThrow) ==
                 /\ steps # << >> /\ Chained(steps)
                 /\ onThrow \in {"none", "markError"}
                 /\ Head(steps) \in Guarded => onThrow = "markError"
                 /\ Head(steps) \in {"markStarting", "insert", "markStopping", "remove", "kill",
                                     "pause", "unpause", "markStopped", "markDestroyed"}
                 /\ Head(steps) \in {"markStopped", "markDestroyed"} => row.cid = 0
                 /\ Head(steps) = "pause" => row.status = "RUNNING" /\ row.cid # 0
                 /\ Head(steps) = "unpause" => row.status = "PAUSED" /\ row.cid # 0
                 /\ Request(a, steps, onThrow)
  <1>1. \E steps, onThrow : Asked(steps, onThrow)
    <2>1. CASE Create(a)
      <3>1. Asked(CreateSteps, "markError")
        BY <2>1, Lists DEF Create
      <3>2. QED
        BY <3>1
    <2>2. CASE Start(a)
      <3>1. Asked(StartSteps, "markError")
        BY <2>2, Lists DEF Start
      <3>2. QED
        BY <3>1
    <2>3. CASE AutoStart(a)
      <3>1. Asked(AutoStartSteps, "markError")
        BY <2>3, Lists DEF AutoStart
      <3>2. QED
        BY <3>1
    <2>4. CASE Stop(a) \/ IdleStop(a)
      <3>1. Asked(StopSteps, "markError")
        BY <2>4, Lists DEF Stop, IdleStop
      <3>2. QED
        BY <3>1
    <2>5. CASE Destroy(a)
      <3>1. CASE row.cid = 0
        <4>1. Asked(<<"markDestroyed">>, "none")
          BY <2>5, <3>1, Lists DEF Destroy, Lasts, Guarded
        <4>2. QED
          BY <4>1
      <3>2. CASE row.cid # 0
        <4>1. Asked(DestroySteps, "none")
          BY <2>5, <3>2, Lists DEF Destroy, Guarded
        <4>2. QED
          BY <4>1
      <3>3. QED
        BY <3>1, <3>2
    <2>6. CASE ForceStop(a)
      <3>1. CASE row.cid = 0
        <4>1. Asked(<<"markStopped">>, "none")
          BY <2>6, <3>1, Lists DEF ForceStop, Lasts, Guarded
        <4>2. QED
          BY <4>1
      <3>2. CASE row.cid # 0
        <4>1. Asked(ForceStopSteps, "none")
          BY <2>6, <3>2, Lists DEF ForceStop, Guarded
        <4>2. QED
          BY <4>1
      <3>3. QED
        BY <3>1, <3>2
    <2>7. CASE Suspend(a)
      <3>1. Asked(SuspendSteps, "none")
        BY <2>7, Lists DEF Suspend, Guarded
      <3>2. QED
        BY <3>1
    <2>8. CASE Resume(a)
      <3>1. Asked(ResumeSteps, "none")
        BY <2>8, Lists DEF Resume, Guarded
      <3>2. QED
        BY <3>1
    <2>9. QED
      BY <2>1, <2>2, <2>3, <2>4, <2>5, <2>6, <2>7, <2>8 DEF Ask
  <1>2. PICK steps, onThrow : Asked(steps, onThrow)
    BY <1>1
  <1> DEFINE op == Reading(steps, onThrow, Quiet)
  <1>3. Quiet \in BOOLEAN
    BY DEF Quiet
  <1>4. /\ op \in Operations /\ Carries(op) /\ op.steps = steps
        /\ op.id = row.id /\ op.cid = row.cid /\ op.solo = Quiet /\ op.onThrow = onThrow
    BY <1>2, <1>3, ReadingIs
  <1>5. Take(a, op) /\ requests' \in 0..MaxRequests
    BY <1>2, LifecycleAssumption DEF Request, TypeOK
  <1> HIDE DEF op
  <1>6. Begun(op)
    BY <1>2, <1>4 DEF Begun
  <1>7. QED
    BY <1>2, <1>4, <1>5, <1>6

(* A health check begins with the inspection.                              *)
LEMMA HealthEffect ==
    ASSUME TypeOK, NEW a \in Actors, HealthCheck(a)
    PROVE  \E op : /\ Begun(op) /\ Take(a, op) /\ UNCHANGED requests
                   /\ op.solo = Quiet /\ op.onThrow = "none" /\ Head(op.steps) = "inspect"
  <1> DEFINE was == Reading(<<"inspect">>, "none", Quiet)
             op == [was EXCEPT !.fails = row.fails, !.restarts = row.restarts]
  <1>1. Quiet \in BOOLEAN
    BY DEF Quiet
  <1>2. /\ was \in Operations /\ Carries(was) /\ was.steps = <<"inspect">> /\ was.id = row.id
        /\ was.cid = row.cid /\ was.solo = Quiet /\ was.onThrow = "none"
    <2>1. Chained(<<"inspect">>) /\ <<"inspect">> # << >> /\ Head(<<"inspect">>) = "inspect"
      BY Lists DEF Lasts
    <2> DEFINE steps == <<"inspect">>
    <2>2. Chained(steps) /\ steps # << >> /\ Head(steps) = "inspect"
      BY <2>1
    <2> HIDE DEF steps
    <2>3. "inspect" \notin Guarded
      BY DEF Guarded
    <2>4. LET it == Reading(steps, "none", Quiet)
          IN /\ it \in Operations /\ Carries(it) /\ it.steps = steps
             /\ it.id = row.id /\ it.cid = row.cid /\ it.solo = Quiet /\ it.onThrow = "none"
      BY <1>1, <2>2, <2>3, ReadingIs
    <2>5. QED
      BY <2>4 DEF steps
  <1>3. Take(a, op) /\ UNCHANGED requests
    BY Zenon DEF HealthCheck
  <1> HIDE DEF was
  <1>4. row.fails \in Nat /\ row.restarts \in 0..MaxRestarts
    BY DEF TypeOK
  <1>5. /\ op \in Operations /\ op.steps = was.steps /\ op.id = was.id /\ op.cid = was.cid
        /\ op.solo = was.solo /\ op.onThrow = was.onThrow
    BY <1>2, <1>4 DEF Operations
  <1>6. <<"inspect">> # << >> /\ Head(<<"inspect">>) = "inspect"
    OBVIOUS
  <1> HIDE DEF op
  <1>7. Carries(op)
    BY <1>2, <1>5, <1>6 DEF Carries
  <1>8. QED
    BY <1>2, <1>3, <1>5, <1>6, <1>7 DEF Begun

(* Recovery at boot.                                                       *)
LEMMA ReadingAtBoot ==
    ASSUME TypeOK, NEW steps, Chained(steps), steps # << >>, Head(steps) \notin Guarded,
           Head(steps) # "markRestarting", Head(steps) \notin {"verify", "markUnreachable"}
    PROVE  LET op == Reading(steps, "none", TRUE)
           IN /\ op \in Operations /\ Carries(op) /\ op.steps = steps
              /\ op.id = row.id /\ op.cid = row.cid /\ op.solo = TRUE
  <1>1. PICK solo \in BOOLEAN : solo = TRUE
    OBVIOUS
  <1>2. LET op == Reading(steps, "none", solo)
        IN /\ op \in Operations /\ Carries(op) /\ op.steps = steps
           /\ op.id = row.id /\ op.cid = row.cid /\ op.solo = solo
    BY ReadingIs
  <1>3. QED
    BY <1>1, <1>2, Zenon

(* The operation that boot starts, if any.                                 *)
LEMMA RecoveryIs ==
    ASSUME TypeOK, NEW op \in Recovery
    PROVE  op = Idle \/ (Begun(op) /\ op.solo = TRUE)
  <1>1. CASE row.status = "RUNNING"
    <2>1. op = Reading(<<"verify">>, "markUnreachable", TRUE)
      BY <1>1 DEF Recovery
    <2>2. /\ op \in Operations /\ Carries(op) /\ op.steps = <<"verify">> /\ op.id = row.id
          /\ op.cid = row.cid /\ op.solo = TRUE
      <3> DEFINE steps == <<"verify">>
      <3>1. Chained(steps) /\ steps # << >> /\ Head(steps) = "verify"
        BY Lists DEF Lasts
      <3> HIDE DEF steps
      <3>2. Head(steps) \notin Guarded \cup {"markRestarting"} /\ TRUE \in BOOLEAN
        BY <3>1 DEF Guarded
      <3>3. LET new == Reading(steps, "markUnreachable", TRUE)
            IN /\ new \in Operations /\ Carries(new) /\ new.steps = steps
               /\ new.id = row.id /\ new.cid = row.cid /\ new.solo = TRUE
        BY <3>1, <3>2, ReadingIs
      <3>4. QED
        BY <2>1, <3>3, Zenon DEF steps
    <2>3. <<"verify">> # << >> /\ Head(<<"verify">>) = "verify"
      OBVIOUS
    <2>4. QED
      BY <2>2, <2>3 DEF Begun
  <1>2. CASE row.status # "RUNNING" /\ op # Idle
    <2>1. PICK steps \in {<<"markStopped">>, SweepSteps} :
             /\ op = Reading(steps, "none", TRUE)
             /\ steps = IF row.cid = 0 THEN <<"markStopped">> ELSE SweepSteps
      BY <1>2 DEF Recovery
    <2>2. /\ Chained(steps) /\ steps # << >>
          /\ Head(steps) = IF row.cid = 0 THEN "markStopped" ELSE "remove"
      BY <2>1, Lists DEF Lasts
    <2>3. /\ op \in Operations /\ Carries(op) /\ op.steps = steps /\ op.id = row.id
          /\ op.cid = row.cid /\ op.solo = TRUE
      <3>1. /\ Chained(steps) /\ steps # << >> /\ TRUE \in BOOLEAN
            /\ Head(steps) \notin Guarded
            /\ Head(steps) # "markRestarting" /\ Head(steps) \notin {"verify", "markUnreachable"}
        BY <2>2 DEF Guarded
      <3>2. QED
        BY <2>1, <3>1, ReadingAtBoot, Zenon
    <2>4. QED
      BY <2>2, <2>3 DEF Begun
  <1>3. QED
    BY <1>1, <1>2

-------------------------------------------------------------------------------
(* An unhealthy container: one more failure, a restart, or giving up. The  *)
(* operation stays what it was, on the container it was.                   *)
Same(op, was) == op.id = was.id /\ op.cid = was.cid /\ op.solo = was.solo

(* An operation comes to one last step.                                    *)
LEMMA ComesTo ==
    ASSUME TypeOK, NEW a \in Actors, NEW step \in Endings \ {"markUnreachable"}, Proceed(a, <<step>>)
    PROVE  \E op : /\ Moved(a, op) /\ op.steps = <<step>> /\ Same(op, doing[a])
                   /\ op.onThrow = doing[a].onThrow
  <1>1. doing[a] \in Operations /\ doing \in [Actors -> Operations]
    BY DEF TypeOK
  <1>2. doing' = [doing EXCEPT ![a] = Left(doing[a], <<step>>)]
    BY <1>1, Proceeds
  <1> DEFINE steps == <<step>>
             op == [doing[a] EXCEPT !.steps = steps]
  <1>3. /\ op = Left(doing[a], steps) /\ op \in Operations /\ Carries(op)
    BY <1>1, LeftOne
  <1> HIDE DEF steps
  <1>4. op.steps = steps /\ Same(op, doing[a]) /\ op.onThrow = doing[a].onThrow
    BY <1>1 DEF Operations, Same
  <1> HIDE DEF op
  <1>5. Moved(a, op)
    BY <1>2, <1>3 DEF Moved, steps
  <1>6. QED
    BY <1>4, <1>5 DEF steps

(* handleUnhealthy: a failure counted, a restart, or giving up.            *)
LEMMA UnhealthyEffect ==
    ASSUME TypeOK, NEW a \in Actors, Unhealthy(a)
    PROVE  /\ UNCHANGED <<requests, crashes>> /\ cooling' \in BOOLEAN
           /\ \E op : /\ Moved(a, op) /\ Same(op, doing[a])
                      /\ op.onThrow \in {doing[a].onThrow, "markError"}
                      /\ op.steps \in {<<"markFailed">>, <<"giveUp">>, RestartSteps}
  <1>1. doing[a] \in Operations /\ doing \in [Actors -> Operations] /\ cooling \in BOOLEAN
    BY DEF TypeOK
  <1>2. CASE doing[a].fails + 1 < MaxFails
    <2>1. Proceed(a, <<"markFailed">>) /\ UNCHANGED cooling
      BY <1>2 DEF Unhealthy
    <2>2. "markFailed" \in Endings \ {"markUnreachable"}
      BY DEF Endings
    <2>3. QED
      BY <1>1, <2>1, <2>2, ComesTo DEF Proceed
  <1>3. CASE ~ (doing[a].fails + 1 < MaxFails) /\ doing[a].restarts < MaxRestarts /\ ~ cooling
    <2> DEFINE op == [doing[a] EXCEPT !.steps = RestartSteps, !.onThrow = "markError"]
    <2>1. /\ doing' = [doing EXCEPT ![a].steps = RestartSteps, ![a].onThrow = "markError"]
          /\ cooling' = TRUE /\ UNCHANGED <<requests, crashes>>
      BY <1>3 DEF Unhealthy
    <2>2. doing' = [doing EXCEPT ![a] = op]
      BY <1>1, <2>1
    <2>3. RestartSteps \in Seq(AllSteps) /\ Chained(RestartSteps) /\ Head(RestartSteps) = "markRestarting"
      BY Lists DEF Chained
    <2>4. /\ op \in Operations /\ op.steps = RestartSteps /\ Same(op, doing[a])
          /\ op.onThrow = "markError" /\ op.restarts = doing[a].restarts
      BY <1>1, <2>3 DEF Operations, AllSteps, Same
    <2> HIDE DEF op
    <2>5. Carries(op)
      BY <1>3, <2>3, <2>4 DEF Carries
    <2>6. Moved(a, op)
      BY <2>2, <2>4, <2>5 DEF Moved
    <2>7. op.steps \in {<<"markFailed">>, <<"giveUp">>, RestartSteps}
      BY <2>4
    <2>8. QED
      BY <2>1, <2>4, <2>6, <2>7
  <1>4. CASE ~ (doing[a].fails + 1 < MaxFails) /\ ~ (doing[a].restarts < MaxRestarts /\ ~ cooling)
    <2>1. Proceed(a, <<"giveUp">>) /\ UNCHANGED cooling
      BY <1>4 DEF Unhealthy
    <2>2. "giveUp" \in Endings \ {"markUnreachable"}
      BY DEF Endings
    <2>3. QED
      BY <1>1, <2>1, <2>2, ComesTo DEF Proceed
  <1>5. QED
    BY <1>2, <1>3, <1>4

(* An operation that ends here.                                            *)
LEMMA Ends ==
    ASSUME TypeOK, NEW a \in Actors, Proceed(a, << >>)
    PROVE  Moved(a, Idle)
  BY Proceeds, IdleCarries DEF TypeOK, Moved, Left

(* The health check moves its actor, and nothing else.                     *)
LEMMA InspectEffect ==
    ASSUME TypeOK, NEW a \in Actors, Inspect(a) \/ InspectFault(a)
    PROVE  /\ UNCHANGED <<row, docker, clean, requests, crashes>>
           /\ Step(a) = "inspect" /\ cooling' \in BOOLEAN /\ faults' \in 0..MaxFaults
           /\ \/ Moved(a, Idle)
              \/ \E op : /\ Moved(a, op) /\ Same(op, doing[a])
                         /\ op.onThrow \in {doing[a].onThrow, "markError"}
                         /\ op.steps \in {<<"markHealthy">>, <<"markFailed">>, <<"giveUp">>, RestartSteps}
  <1>1. /\ UNCHANGED <<row, docker, clean>> /\ Step(a) = "inspect" /\ faults' \in 0..MaxFaults
        /\ Healthy(a) \/ Unhealthy(a)
    BY LifecycleAssumption DEF Inspect, InspectFault, TypeOK
  <1>2. CASE Unhealthy(a)
    <2>1. UNCHANGED <<requests, crashes>> /\ cooling' \in BOOLEAN
      BY <1>2, UnhealthyEffect
    <2>2. PICK op : /\ Moved(a, op) /\ Same(op, doing[a])
                    /\ op.onThrow \in {doing[a].onThrow, "markError"}
                    /\ op.steps \in {<<"markFailed">>, <<"giveUp">>, RestartSteps}
      BY <1>2, UnhealthyEffect
    <2>3. op.steps \in {<<"markHealthy">>, <<"markFailed">>, <<"giveUp">>, RestartSteps}
      BY <2>2, Zenon
    <2>4. QED
      BY <1>1, <2>1, <2>2, <2>3, Zenon
  <1>3. CASE Healthy(a)
    <2>1. UNCHANGED <<requests, crashes>> /\ cooling' \in BOOLEAN
      BY <1>3 DEF Healthy, Proceed, TypeOK
    <2>2. CASE doing[a].fails > 0
      <3>1. Proceed(a, <<"markHealthy">>)
        BY <1>3, <2>2 DEF Healthy
      <3>2. "markHealthy" \in Endings \ {"markUnreachable"}
        BY DEF Endings
      <3>3. PICK op : /\ Moved(a, op) /\ op.steps = <<"markHealthy">> /\ Same(op, doing[a])
                      /\ op.onThrow = doing[a].onThrow
        BY <3>1, <3>2, ComesTo
      <3>4. QED
        BY <1>1, <2>1, <3>3, Zenon
    <2>3. CASE ~ (doing[a].fails > 0)
      BY <1>1, <1>3, <2>1, <2>3, Ends DEF Healthy
    <2>4. QED
      BY <2>2, <2>3
  <1>4. QED
    BY <1>1, <1>2, <1>3

(* The inspection at boot throws, or finds the container exited or running. *)
LEMMA VerifyEffect ==
    ASSUME TypeOK, NEW a \in Actors, Verify(a)
    PROVE  /\ UNCHANGED <<row, docker, cooling, faults, clean, requests, crashes>>
           /\ Step(a) = "verify"
           /\ \/ Throw(a)
              \/ \E op : /\ Moved(a, op) /\ Same(op, doing[a]) /\ op.onThrow = doing[a].onThrow
                         /\ \/ op.steps = <<"markStopped">> /\ ContainerOf(a) = "exited"
                            \/ op.steps = <<"client">>
  <1>1. UNCHANGED <<row, docker, cooling, faults, clean, requests, crashes>> /\ Step(a) = "verify"
    BY DEF Verify, Throw, Proceed
  <1>2. "markStopped" \in Endings \ {"markUnreachable"} /\ "client" \in Endings \ {"markUnreachable"}
    BY DEF Endings
  <1>3. CASE ContainerOf(a) = "absent"
    BY <1>1, <1>3 DEF Verify
  <1>4. CASE ContainerOf(a) = "exited"
    <2>1. Proceed(a, <<"markStopped">>)
      BY <1>4 DEF Verify
    <2>2. QED
      BY <1>1, <1>2, <1>4, <2>1, ComesTo
  <1>5. CASE ContainerOf(a) \notin {"absent", "exited"}
    <2>1. Proceed(a, <<"client">>)
      BY <1>5 DEF Verify
    <2>2. QED
      BY <1>1, <1>2, <2>1, ComesTo
  <1>6. QED
    BY <1>3, <1>4, <1>5

(* A failing call, or a wait for the agent that is not answered.           *)
LEMMA FaultEffect ==
    ASSUME TypeOK, Carrying, NEW a \in Actors, ~ Free(a), Fault(a)
    PROVE  /\ UNCHANGED <<row, cooling, requests, crashes>>
           /\ docker' \in [Rows -> States] /\ faults' \in 0..MaxFaults /\ clean' = FALSE
           /\ \E op : Moved(a, op) /\ (op.steps = << >> \/ op.solo = FALSE)
  <1> DEFINE was == doing[a]
             rest == IF Step(a) \in Swallowed THEN Tail(was.steps)
                     ELSE IF was.onThrow = "none" THEN << >> ELSE <<was.onThrow>>
             op == IF rest = << >> THEN Idle ELSE [was EXCEPT !.steps = rest, !.solo = FALSE]
  <1>1. was \in Operations /\ doing \in [Actors -> Operations] /\ docker \in [Rows -> States]
    BY DEF TypeOK, States
  <1>2. UNCHANGED <<row, cooling, requests, crashes>> /\ faults' \in 0..MaxFaults /\ clean' = FALSE
    <2>1. UNCHANGED <<row, cooling, requests, crashes>> /\ clean' = FALSE
      BY Zenon DEF Fault
    <2>2. faults < MaxFaults /\ faults' = faults + 1
      BY Zenon DEF Fault
    <2>3. faults' \in 0..MaxFaults
      BY <2>2, LifecycleAssumption DEF TypeOK
    <2>4. QED
      BY <2>1, <2>3
  <1>3. docker' \in [Rows -> States]
    <2>1. CASE UNCHANGED docker
      BY <1>1, <2>1
    <2>2. CASE /\ docker' = [docker EXCEPT ![was.cid] = After(Step(a), docker[was.cid])]
               /\ Step(a) \in DockerCalls /\ ~ Refuses(Step(a), ContainerOf(a))
      <3>1. was.cid \in Rows
        BY <2>2, ContainerIs DEF Refuses
      <3>2. After(Step(a), docker[was.cid]) \in States
        BY <1>1, <2>2, <3>1, AfterType
      <3>3. QED
        BY <1>1, <2>2, <3>2
    <2>3. QED
      BY <2>1, <2>2 DEF Fault
  <1>4. doing' = [doing EXCEPT ![a] = op]
    BY DEF Fault
  <1>5. op \in Operations /\ Carries(op) /\ (op.steps = << >> \/ op.solo = FALSE)
    <2>1. CASE rest = << >>
      BY <2>1, IdleCarries
    <2>2. CASE rest # << >>
      <3> DEFINE left == Left(was, rest)
      <3>1. left \in Operations /\ Carries(left)
        BY <1>1, LeftTail, LeftThrown, LeftNothing DEF Carrying, Free
      <3> HIDE DEF was, rest
      <3>2. left = [was EXCEPT !.steps = rest]
        BY <2>2 DEF Left
      <3>3. op = [left EXCEPT !.solo = FALSE]
        BY <1>1, <2>2, <3>2
      <3> HIDE DEF left, op
      <3>4. /\ op \in Operations /\ op.steps = left.steps /\ op.onThrow = left.onThrow
            /\ op.restarts = left.restarts /\ op.solo = FALSE
        BY <3>1, <3>3 DEF Operations
      <3>5. Carries(op)
        BY <3>1, <3>4 DEF Carries
      <3>6. QED
        BY <3>4, <3>5
    <2>3. QED
      BY <2>1, <2>2
  <1> HIDE DEF op
  <1>6. QED
    BY <1>2, <1>3, <1>4, <1>5 DEF Moved

-------------------------------------------------------------------------------
(* Types, and what every operation in flight carries, are kept.            *)
LEMMA MovedKeeps ==
    ASSUME TypeOK, Carrying, NEW a \in Actors, NEW op, Moved(a, op)
    PROVE  doing' \in [Actors -> Operations] /\ Carrying'
  BY DEF TypeOK, Carrying, Moved

(* Joining an operation leaves the steps of the others, and none alone.    *)
LEMMA JoinedKeeps ==
    ASSUME TypeOK, Carrying
    PROVE  /\ Joined \in [Actors -> Operations]
           /\ \A b \in Actors : /\ Carries(Joined[b]) /\ Joined[b].steps = doing[b].steps
                                /\ Joined[b].steps # << >> => Joined[b].solo = FALSE
  <1>1. ASSUME NEW b \in Actors
        PROVE  /\ Joined[b] \in Operations /\ Carries(Joined[b])
               /\ Joined[b].steps = doing[b].steps
               /\ Joined[b].steps # << >> => Joined[b].solo = FALSE
    <2>1. doing[b] \in Operations /\ Carries(doing[b])
      BY DEF TypeOK, Carrying
    <2>2. CASE Free(b)
      <3>1. Joined[b] = doing[b]
        BY <2>2 DEF Joined
      <3>2. QED
        BY <2>1, <2>2, <3>1 DEF Free
    <2>3. CASE ~ Free(b)
      <3> DEFINE op == [doing[b] EXCEPT !.solo = FALSE]
      <3>1. Joined[b] = op
        BY <2>3 DEF Joined
      <3>2. /\ op \in Operations /\ op.steps = doing[b].steps /\ op.onThrow = doing[b].onThrow
            /\ op.restarts = doing[b].restarts /\ op.solo = FALSE
        BY <2>1 DEF Operations
      <3> HIDE DEF op
      <3>3. Carries(op)
        BY <2>1, <3>2 DEF Carries
      <3>4. QED
        BY <3>1, <3>2, <3>3
    <2>4. QED
      BY <2>2, <2>3
  <1>2. Joined \in [Actors -> Operations]
    BY <1>1 DEF Joined
  <1>3. QED
    BY <1>1, <1>2

(* An operation begins: types and what is carried are kept.                *)
LEMMA TakeKeeps ==
    ASSUME TypeOK, Carrying, NEW a \in Actors, NEW op, op \in Operations, Carries(op), Take(a, op)
    PROVE  /\ doing' \in [Actors -> Operations] /\ Carrying' /\ clean' \in BOOLEAN
           /\ UNCHANGED <<row, docker, cooling, faults, crashes>>
  <1>1. doing' = [Joined EXCEPT ![a] = op]
    BY DEF Take
  <1>2. doing' \in [Actors -> Operations] /\ Carrying'
    BY <1>1, JoinedKeeps DEF Carrying
  <1>3. clean' \in BOOLEAN
    BY DEF Take, TypeOK
  <1>4. QED
    BY <1>2, <1>3 DEF Take

(* Every step keeps the types and what the operations carry.               *)
LEMMA TypedStep ==
    ASSUME TypeOK, Carrying, [Next]_vars
    PROVE  TypeOK' /\ Carrying'
  <1> DEFINE Kept == /\ row' \in RowOf /\ docker' \in [Rows -> States]
                     /\ doing' \in [Actors -> Operations] /\ Carrying'
                     /\ cooling' \in BOOLEAN /\ clean' \in BOOLEAN
                     /\ requests' \in 0..MaxRequests /\ faults' \in 0..MaxFaults
                     /\ crashes' \in 0..MaxCrashes
  <1>1. /\ row \in RowOf /\ docker \in [Rows -> States] /\ doing \in [Actors -> Operations]
        /\ cooling \in BOOLEAN /\ clean \in BOOLEAN
        /\ requests \in 0..MaxRequests /\ faults \in 0..MaxFaults /\ crashes \in 0..MaxCrashes
    BY DEF TypeOK, RowOf, States
  <1>2. ASSUME UNCHANGED vars PROVE Kept
    <2>1. Carrying'
      BY <1>2 DEF vars, Carrying
    <2>2. clean' \in BOOLEAN /\ cooling' \in BOOLEAN
      BY <1>1, <1>2, Zenon DEF vars
    <2>3. QED
      BY <1>1, <1>2, <2>1, <2>2, Zenon DEF vars
  <1>3. ASSUME NEW a \in Actors, Ask(a) PROVE Kept
    <2>1. PICK op : Begun(op) /\ Take(a, op) /\ requests' \in 0..MaxRequests
      BY <1>3, AskEffect
    <2>2. QED
      BY <1>1, <2>1, TakeKeeps DEF Begun
  <1>4. ASSUME NEW a \in Actors, HealthCheck(a) PROVE Kept
    <2>1. PICK op : Begun(op) /\ Take(a, op) /\ UNCHANGED requests
      BY <1>4, HealthEffect
    <2>2. QED
      BY <1>1, <2>1, TakeKeeps DEF Begun
  <1>5. ASSUME NEW a \in Actors, ~ Free(a), Work(a) PROVE Kept
    <2>1. CASE Write(a)
      <3>1. UNCHANGED <<docker, cooling, faults, requests, crashes>>
        BY <1>5, <2>1, WriteEffect
      <3>2. row' \in RowOf /\ clean' \in BOOLEAN /\ \E op : Moved(a, op)
        BY <1>1, <1>5, <2>1, WriteEffect
      <3>3. QED
        BY <1>1, <3>1, <3>2, MovedKeeps
    <2>2. CASE Insert(a)
      <3>1. UNCHANGED <<docker, cooling, faults, clean, requests, crashes>>
        BY <1>5, <2>2, InsertEffect
      <3>2. row' \in RowOf /\ \E op : Moved(a, op)
        BY <1>1, <1>5, <2>2, InsertEffect
      <3>3. QED
        BY <1>1, <3>1, <3>2, MovedKeeps
    <2>3. CASE CreateContainer(a)
      <3>1. UNCHANGED <<row, cooling, faults, clean, requests, crashes>> /\ docker' \in [Rows -> States]
        BY <1>5, <2>3, CreateEffect
      <3>2. \E op : Moved(a, op)
        BY <1>5, <2>3, CreateEffect, Throws
      <3>3. QED
        BY <1>1, <3>1, <3>2, MovedKeeps
    <2>4. CASE DockerCall(a)
      <3>1. UNCHANGED <<row, cooling, faults, clean, requests, crashes>> /\ docker' \in [Rows -> States]
        BY <1>5, <2>4, CallEffect
      <3>2. \E op : Moved(a, op)
        BY <1>5, <2>4, CallEffect, Throws, GoesOn
      <3>3. QED
        BY <1>1, <3>1, <3>2, MovedKeeps
    <2>5. CASE Ports(a) \/ Reach(a)
      <3>1. /\ UNCHANGED <<row, docker, cooling, faults, clean, requests, crashes>>
            /\ Throw(a) \/ GoOn(a)
        BY <2>5 DEF Ports, Reach, Throw, GoOn, Proceed
      <3>2. \E op : Moved(a, op)
        BY <1>5, <3>1, Throws, GoesOn
      <3>3. QED
        BY <1>1, <3>1, <3>2, MovedKeeps
    <2>6. CASE Verify(a)
      <3>1. UNCHANGED <<row, docker, cooling, faults, clean, requests, crashes>>
        BY <2>6, VerifyEffect
      <3>2. \E op : Moved(a, op)
        BY <2>6, VerifyEffect, Throws
      <3>3. QED
        BY <1>1, <3>1, <3>2, MovedKeeps
    <2>7. CASE Inspect(a)
      <3>1. /\ UNCHANGED <<row, docker, clean, requests, crashes>>
            /\ cooling' \in BOOLEAN /\ faults' \in 0..MaxFaults
        BY <2>7, InspectEffect
      <3>2. \E op : Moved(a, op)
        BY <2>7, InspectEffect
      <3>3. QED
        BY <1>1, <3>1, <3>2, MovedKeeps
    <2>8. QED
      BY <1>5, <2>1, <2>2, <2>3, <2>4, <2>5, <2>6, <2>7 DEF Work
  <1>6. ASSUME NEW a \in Actors, ~ Free(a), Fault(a) PROVE Kept
    <2>1. /\ UNCHANGED <<row, cooling, requests, crashes>>
          /\ docker' \in [Rows -> States] /\ faults' \in 0..MaxFaults /\ clean' = FALSE
      BY <1>6, FaultEffect
    <2>2. \E op : Moved(a, op)
      BY <1>6, FaultEffect
    <2>3. QED
      BY <1>1, <2>1, <2>2, MovedKeeps
  <1>7. ASSUME NEW a \in Actors, InspectFault(a) PROVE Kept
    <2>1. /\ UNCHANGED <<row, docker, clean, requests, crashes>>
          /\ cooling' \in BOOLEAN /\ faults' \in 0..MaxFaults
      BY <1>7, InspectEffect
    <2>2. \E op : Moved(a, op)
      BY <1>7, InspectEffect
    <2>3. QED
      BY <1>1, <2>1, <2>2, MovedKeeps
  <1>8. ASSUME Crash PROVE Kept
    <2>1. PICK a \in Actors, op \in Recovery : doing' = [[b \in Actors |-> Idle] EXCEPT ![a] = op]
      BY <1>8 DEF Crash
    <2>2. op \in Operations /\ Carries(op)
      BY RecoveryIs, IdleCarries DEF Begun
    <2>3. doing' \in [Actors -> Operations] /\ Carrying'
      BY <2>1, <2>2, IdleCarries DEF Carrying
    <2>4. /\ UNCHANGED <<row, docker, requests, faults>> /\ cooling' = FALSE /\ clean' = FALSE
          /\ crashes' \in 0..MaxCrashes
      BY <1>1, <1>8, LifecycleAssumption DEF Crash
    <2>5. clean' \in BOOLEAN /\ cooling' \in BOOLEAN
      BY <2>4, Zenon
    <2>6. QED
      BY <1>1, <2>3, <2>4, <2>5, Zenon
  <1>9. ASSUME ContainerDies PROVE Kept
    <2>1. doing' \in [Actors -> Operations] /\ Carrying'
      BY <1>9, JoinedKeeps DEF ContainerDies, Carrying
    <2>2. /\ UNCHANGED <<row, cooling, requests, crashes>> /\ clean' = FALSE
          /\ faults' \in 0..MaxFaults
      BY <1>1, <1>9, LifecycleAssumption DEF ContainerDies
    <2>3. docker' \in [Rows -> States]
      BY <1>1, <1>9 DEF ContainerDies, States
    <2>4. clean' \in BOOLEAN /\ cooling' \in BOOLEAN
      BY <1>1, <2>2, Zenon
    <2>5. QED
      BY <1>1, <2>1, <2>2, <2>3, <2>4, Zenon
  <1>10. ASSUME CoolOff PROVE Kept
    <2>1. Carrying'
      BY <1>10 DEF CoolOff, Carrying
    <2>2. clean' \in BOOLEAN /\ cooling' \in BOOLEAN
      BY <1>1, <1>10, Zenon DEF CoolOff
    <2>3. QED
      BY <1>1, <1>10, <2>1, <2>2, Zenon DEF CoolOff
  <1>11. Kept
    <2> HIDE DEF Kept
    <2>1. \A a \in Actors : Work(a) => ~ Free(a)
      BY DEF Work
    <2>2. QED
      BY <1>2, <1>3, <1>4, <1>5, <1>6, <1>7, <1>8, <1>9, <1>10, <2>1, Zenon DEF Next
  <1>12. QED
    BY <1>11 DEF TypeOK, RowOf, States

(* They hold at the start.                                                 *)
LEMMA InitTyped == Init => TypeOK /\ Carrying
  <1>1. NoRow \in RowOf
    BY LifecycleAssumption DEF NoRow, RowOf, Statuses, Transitional
  <1>2. 0 \in 0..MaxRequests /\ 0 \in 0..MaxFaults /\ 0 \in 0..MaxCrashes
    BY LifecycleAssumption
  <1>3. QED
    BY <1>1, <1>2, IdleCarries DEF Init, TypeOK, Carrying, RowOf

(* The variables keep their types; among them, the count of restarts stays *)
(* within maxRestarts however health checks overlap (handleUnhealthy).     *)
THEOREM TypeCorrect == Spec => []TypeOK
  <1>1. TypeOK /\ Carrying /\ [Next]_vars => TypeOK' /\ Carrying'
    BY TypedStep
  <1>2. QED
    BY <1>1, InitTyped, PTL DEF Spec

-------------------------------------------------------------------------------
(***************************************************************************)
(* An operation that runs alone. Every step either hands the next one what *)
(* it has to know, or ends the operation with a row that tells the truth.  *)
(***************************************************************************)
HandsOn(op) ==
    /\ op.steps # << >> => Knows(op)'
    /\ op.steps = << >> => (clean' => Agrees')

(* A step of one actor that keeps it alone, or leaves it overlapped.       *)
LEMMA StepAlone ==
    ASSUME TypeOK, Alone, NEW a \in Actors, ~ Free(a), NEW op, Moved(a, op),
           op.steps # << >> => op.solo = doing[a].solo,
           clean' => clean \/ doing[a].solo,
           doing[a].solo => HandsOn(op)
    PROVE  Alone'
  <1>1. doing \in [Actors -> Operations]
    BY DEF TypeOK
  <1>2. doing'[a] = op /\ \A b \in Actors \ {a} : doing'[b] = doing[b]
    BY <1>1 DEF Moved
  <1>3. CASE ~ doing[a].solo
    <2>1. ~ clean'
      BY <1>3 DEF Alone
    <2>2. \A b \in Actors : doing'[b].steps # << >> => ~ doing'[b].solo
      <3>1. \A b \in Actors \ {a} : ~ Free(b) => ~ doing[b].solo
        BY Zenon DEF Alone
      <3>2. QED
        BY <1>2, <1>3, <3>1, Zenon DEF Free
    <2>3. QED
      BY <2>1, <2>2, Zenon DEF Alone, Free, AloneTellsTheTruth
  <1>4. CASE doing[a].solo
    <2>1. \A b \in Actors \ {a} : doing'[b].steps = << >>
      BY <1>2, <1>4, Zenon DEF Alone, Free
    <2>2. op.steps # << >> => doing'[a].solo /\ Knows(doing[a])'
      BY <1>2, <1>4, Zenon DEF HandsOn, Knows
    <2>3. \A b \in Actors : doing'[b].steps # << >> => b = a
      BY <2>1, Zenon
    <2>4. (clean /\ Quiet => Agrees)'
      BY <1>2, <1>4, <2>1, Zenon DEF HandsOn, Quiet, Free
    <2>5. QED
      BY <1>2, <2>2, <2>3, <2>4, Zenon DEF Alone, AloneTellsTheTruth, Free
  <1>5. QED
    BY <1>3, <1>4

(* What is left after one more step.                                       *)
Onto(op, was) ==
    \/ op.steps = << >> /\ Head(was.steps) \in Lasts
    \/ /\ op.steps # << >> /\ <<Head(was.steps), Head(op.steps)>> \in Follows
       /\ Same(op, was) /\ op.onThrow = was.onThrow

(* Going on leaves the next step of the chain, or an operation that may end. *)
LEMMA GoesOnto ==
    ASSUME TypeOK, Carrying, NEW a \in Actors, ~ Free(a), GoOn(a)
    PROVE  \E op : Moved(a, op) /\ Onto(op, doing[a])
  <1> DEFINE steps == Tail(doing[a].steps)
             op == Left(doing[a], steps)
  <1>1. Moved(a, op)
    BY GoesOn
  <1>2. doing[a] \in Operations /\ Chained(doing[a].steps) /\ doing[a].steps # << >>
    BY DEF TypeOK, Carrying, Carries, Free
  <1>3. /\ steps \in Seq(AllSteps)
        /\ steps = << >> => Head(doing[a].steps) \in Lasts
        /\ steps # << >> => <<Head(doing[a].steps), Head(steps)>> \in Follows
    BY <1>2, ChainedTail DEF Chained
  <1> HIDE DEF steps
  <1>4. CASE steps = << >>
    BY <1>1, <1>3, <1>4, IdleCarries DEF Left, Onto
  <1>5. CASE steps # << >>
    <2> DEFINE rest == [doing[a] EXCEPT !.steps = steps]
    <2>1. rest.steps = steps /\ Same(rest, doing[a]) /\ rest.onThrow = doing[a].onThrow
      BY <1>2 DEF Operations, Same
    <2>2. op = rest
      BY <1>5 DEF Left
    <2> HIDE DEF rest, op
    <2>3. QED
      BY <1>1, <1>3, <1>5, <2>1, <2>2 DEF Onto
  <1>6. QED
    BY <1>4, <1>5

(* The knowledge a lone operation starts a step with.                      *)
Lone(a) == ~ Free(a) /\ doing[a].solo /\ Knows(doing[a])

(* While all is clean, an operation in flight is alone, and knows.         *)
LEMMA LoneIs ==
    ASSUME Alone, NEW a \in Actors, ~ Free(a)
    PROVE  /\ clean => doing[a].solo
           /\ doing[a].solo => Lone(a)
  BY DEF Alone, Lone

(* Throwing, from a step that may: the catch's status, or none if the row  *)
(* has not been touched.                                                   *)
LEMMA ThrowsAlone ==
    ASSUME TypeOK, Carrying, Alone, NEW a \in Actors, ~ Free(a), Throw(a),
           UNCHANGED <<row, docker, clean>>,
           Step(a) \in DockerCalls \cup {"create", "bridge", "ports", "client", "verify"},
           clean => Agrees \/ Step(a) \in Guarded
    PROVE  Alone'
  <1>1. doing[a] \in Operations /\ Carries(doing[a]) /\ doing[a].steps # << >>
    BY DEF TypeOK, Carrying, Free
  <1>2. doing[a].onThrow \in {"none", "markError", "markUnreachable"}
    BY <1>1, LeftThrown
  <1>3. Step(a) \in Guarded => doing[a].onThrow = "markError"
    BY <1>1 DEF Carries, Step
  <1>4. CASE Moved(a, Idle) /\ (doing[a].onThrow = "none" \/ doing[a].steps = <<doing[a].onThrow>>)
    <2>1. doing[a].onThrow = "none"
      <3>1. ASSUME doing[a].steps = <<doing[a].onThrow>> PROVE Step(a) = doing[a].onThrow
        BY <3>1 DEF Step
      <3>2. Step(a) \notin {"markError", "markUnreachable"}
        BY DEF DockerCalls
      <3>3. QED
        BY <1>2, <1>4, <3>1, <3>2
    <2>2. clean' => Agrees'
      BY <1>3, <2>1 DEF Agrees
    <2>3. HandsOn(Idle)
      BY <2>2, IdleCarries DEF HandsOn
    <2>4. QED
      BY <1>4, <2>3, IdleCarries, StepAlone
  <1>5. CASE /\ doing[a].onThrow # "none"
             /\ Moved(a, [doing[a] EXCEPT !.steps = <<doing[a].onThrow>>])
    <2> DEFINE to == doing[a].onThrow
               steps == <<to>>
    <2>1. steps # << >> /\ Head(steps) = to /\ to \in {"markError", "markUnreachable"}
      BY <1>2, <1>5
    <2>2. PICK op : op = [doing[a] EXCEPT !.steps = steps]
      OBVIOUS
    <2>3. Moved(a, op)
      BY <1>5, <2>2
    <2> HIDE DEF steps
    <2>4. op.steps = steps /\ Same(op, doing[a]) /\ op.onThrow = to
      BY <1>1, <2>2 DEF Operations, Same
    <2> HIDE DEF to
    <2>5. ASSUME Lone(a) PROVE Knows(op)'
      <3>1. /\ row.id = doing[a].id
            /\ Step(a) \notin {"create", "markCreated", "markError"} => row.cid = doing[a].cid
            /\ clean => doing[a].onThrow # "markUnreachable"
        BY <2>5 DEF Lone, Knows, Step
      <3>2. Step(a) = "create" => to = "markError"
        BY <1>3 DEF Guarded, to
      <3>3. Step(a) \notin {"markCreated", "markError"}
        BY DEF DockerCalls
      <3>4. Head(op.steps) \in {"markError", "markUnreachable"} /\ Head(op.steps) = to
        BY <2>1, <2>4
      <3>5. to # "markError" => row.cid = op.cid
        BY <2>4, <3>1, <3>2, <3>3 DEF Same
      <3>6. row.id = op.id /\ (clean => to # "markUnreachable")
        BY <2>4, <3>1 DEF Same, to
      <3>7. row' = row /\ (clean' => clean)
        OBVIOUS
      <3>8. /\ row'.id = op.id
            /\ Head(op.steps) # "markError" => row'.cid = op.cid
            /\ clean' => op.onThrow # "markUnreachable"
        BY <2>4, <3>4, <3>5, <3>6, <3>7, Zenon
      <3>9. /\ Head(op.steps) \notin {"bridge", "ports", "markRunning", "markUp"}
            /\ Head(op.steps) # "markStopped" /\ Head(op.steps) # "markDestroyed"
            /\ Head(op.steps) # "pause" /\ Head(op.steps) # "unpause"
            /\ Head(op.steps) # "markPaused" /\ Head(op.steps) # "markResumed"
            /\ Head(op.steps) \notin Untouched
        BY <3>4 DEF Untouched
      <3>10. Head(op.steps) \notin {"create", "markCreated", "markError"} => row'.cid = op.cid
        BY <3>8
      <3>11. QED
        BY <3>8, <3>9, <3>10, Zenon DEF Knows
    <2>6. doing[a].solo => HandsOn(op)
      BY <2>1, <2>5, <2>4, LoneIs DEF HandsOn
    <2>7. op.steps # << >> => op.solo = doing[a].solo
      BY <2>4, Zenon DEF Same
    <2>8. QED
      BY <2>3, <2>6, <2>7, StepAlone
  <1>6. QED
    BY <1>4, <1>5, Throws

(* Going on from a step: what is shown of whatever is left.                *)
LEMMA GoesOnAlone ==
    ASSUME TypeOK, Carrying, Alone, NEW a \in Actors, ~ Free(a), GoOn(a),
           clean' => clean \/ doing[a].solo,
           \A op : (Lone(a) /\ Moved(a, op) /\ Onto(op, doing[a])) => HandsOn(op)
    PROVE  Alone'
  <1>1. PICK op : Moved(a, op) /\ Onto(op, doing[a])
    BY GoesOnto
  <1>2. op.steps # << >> => op.solo = doing[a].solo
    BY <1>1, Zenon DEF Onto, Same
  <1>3. doing[a].solo => HandsOn(op)
    BY <1>1, LoneIs
  <1>4. QED
    BY <1>1, <1>2, <1>3, StepAlone

-------------------------------------------------------------------------------
(* What may follow what, one step at a time.                               *)
LEMMA FollowsOne ==
    ASSUME NEW x, NEW y, <<x, y>> \in Follows
    PROVE  /\ x \in {"markStarting", "markCreated"} => y = "start"
           /\ x \in {"markRunning", "markUp"} => y = "client"
           /\ x \in {"markRestarting", "markStopping"} => y = "stop"
           /\ x \in Writes => x \in {"markStarting", "markCreated", "markRunning", "markUp",
                                     "markRestarting", "markStopping"}
           /\ x = "insert" => y = "create"
           /\ x = "create" => y = "markCreated"
           /\ x = "start" => y \in {"bridge", "ports"}
           /\ x = "bridge" => y = "ports"
           /\ x = "ports" => y \in {"markRunning", "markUp"}
           /\ x = "stop" => y \in {"start", "markStopped"}
           /\ x = "kill" => y = "markStopped"
           /\ x = "remove" => y \in {"markStopped", "markDestroyed"}
           /\ x = "pause" => y = "markPaused"
           /\ x = "unpause" => y = "markResumed"
           /\ x # "client"
  BY DEF Follows, Writes

(* The status of each step.                                                *)
LEMMA StatusIs ==
    /\ \A step \in {"markRunning", "markUp", "markResumed"} : StatusOf[step] = "RUNNING"
    /\ \A step \in {"markStarting", "markCreated", "markRestarting"} : StatusOf[step] = "STARTING"
    /\ \A step \in {"markFailed", "markHealthy"} : StatusOf[step] = "kept"
    /\ \A step \in {"markStopped", "markUnreachable"} : StatusOf[step] = "STOPPED"
    /\ \A step \in {"markError", "giveUp"} : StatusOf[step] = "ERROR"
    /\ StatusOf["markPaused"] = "PAUSED" /\ StatusOf["markDestroyed"] = "DESTROYED"
    /\ StatusOf["markStopping"] = "STOPPING"
  BY DEF StatusOf

(* A write: it passes the knowledge on, or settles the row.                *)
LEMMA WriteAlone ==
    ASSUME TypeOK, Carrying, Alone, NEW a \in Actors, ~ Free(a), Write(a)
    PROVE  Alone'
  <1> DEFINE x == Step(a)
  <1>1. doing[a] \in Operations /\ Carries(doing[a]) /\ doing[a].steps # << >> /\ x \in Writes
    BY WritesAre DEF TypeOK, Carrying, Free, Write
  <1>2. UNCHANGED docker
    BY WriteEffect
  <1>3. CASE row.id # doing[a].id
    <2>1. UNCHANGED <<row, clean>> /\ Moved(a, Idle)
      BY <1>3, WriteEffect
    <2>2. ~ doing[a].solo
      BY <1>3, LoneIs DEF Lone, Knows
    <2>3. QED
      BY <2>1, <2>2, IdleCarries, StepAlone
  <1>4. CASE row.id = doing[a].id
    <2>1. /\ row' = Updated(a) /\ clean' = (clean \/ (doing[a].solo /\ x \in Settling))
          /\ GoOn(a)
      BY <1>4 DEF Write
    <2>2. /\ row'.id = row.id
          /\ row'.status = IF StatusOf[x] = "kept" THEN row.status ELSE StatusOf[x]
          /\ row'.cid = IF x = "markCreated" THEN doing[a].cid ELSE row.cid
      BY <1>1, <2>1, UpdatedType, WritesAre
    <2>3. ASSUME NEW op, Lone(a), Onto(op, doing[a]) PROVE HandsOn(op)
      <3>1. /\ row.id = doing[a].id
            /\ x \notin {"create", "markCreated", "markError"} => row.cid = doing[a].cid
            /\ x \in {"markRunning", "markUp"} => ContainerOf(a) = "running"
            /\ x = "markStopped" => ContainerOf(a) \in {"exited", "absent"}
            /\ x = "markDestroyed" => ContainerOf(a) = "absent"
            /\ clean => /\ x = "markPaused" => ContainerOf(a) = "paused"
                        /\ x = "markResumed" => ContainerOf(a) = "running"
                        /\ x \in Untouched => Agrees
                        /\ doing[a].onThrow # "markUnreachable"
        BY <2>3 DEF Lone, Knows, Step, ContainerOf
      <3>2. doing[a].cid # 0 => ContainerOf(a) = docker'[doing[a].cid]
        BY <1>2 DEF ContainerOf
      <3>3. clean' => clean \/ x \in Settling
        BY <2>1
      <3>4. x \in {"markRunning", "markUp"} => Agrees'
        <4>1. ASSUME x \in {"markRunning", "markUp"} PROVE Agrees'
          <5>1. row'.status = "RUNNING" /\ row'.cid = doing[a].cid
            BY <2>2, <3>1, <4>1, StatusIs
          <5>2. ContainerOf(a) = "running"
            BY <3>1, <4>1
          <5>3. QED
            BY <3>2, <5>1, <5>2 DEF Agrees
        <4>2. QED
          BY <4>1
      <3>5. CASE op.steps = << >>
        <4>1. x \in {"markRunning", "markUp", "markStopped", "markDestroyed", "markPaused",
                     "markResumed", "markError", "markUnreachable", "markFailed", "markHealthy", "giveUp"}
          BY <1>1, <2>3, <3>5 DEF Onto, Lasts, Writes, Step
        <4>2. CASE x \in {"markRunning", "markUp"}
          BY <3>4, <3>5, <4>2 DEF HandsOn
        <4>3. CASE x \in {"markStopped", "markDestroyed"}
          <5>1. row'.cid = doing[a].cid
            BY <2>2, <3>1, <4>3
          <5>2. \/ row'.status = "STOPPED" /\ ContainerOf(a) \in {"exited", "absent"}
                \/ row'.status = "DESTROYED" /\ ContainerOf(a) = "absent"
            BY <2>2, <3>1, <4>3, StatusIs
          <5>3. Agrees'
            BY <3>2, <5>1, <5>2 DEF Agrees
          <5>4. QED
            BY <3>5, <5>3 DEF HandsOn
        <4>4. CASE x \in {"markPaused", "markResumed"}
          <5>1. clean' => clean
            BY <3>3, <4>4 DEF Settling
          <5>2. row'.cid = doing[a].cid
            BY <2>2, <3>1, <4>4
          <5>3. clean => \/ row'.status = "PAUSED" /\ ContainerOf(a) = "paused"
                         \/ row'.status = "RUNNING" /\ ContainerOf(a) = "running"
            BY <2>2, <3>1, <4>4, StatusIs
          <5>4. clean => Agrees'
            BY <3>2, <5>2, <5>3 DEF Agrees
          <5>5. QED
            BY <3>5, <5>1, <5>4 DEF HandsOn
        <4>5. CASE x \in {"markError", "giveUp"}
          <5>1. row'.status = "ERROR"
            BY <2>2, <4>5, StatusIs
          <5>2. Agrees'
            BY <5>1 DEF Agrees
          <5>3. QED
            BY <3>5, <5>2 DEF HandsOn
        <4>6. CASE x = "markUnreachable"
          <5>1. doing[a].onThrow = "markUnreachable"
            BY <1>1, <4>6 DEF Carries, Step
          <5>2. ~ clean'
            BY <3>1, <3>3, <4>6, <5>1 DEF Settling
          <5>3. QED
            BY <3>5, <5>2 DEF HandsOn
        <4>7. CASE x \in {"markFailed", "markHealthy"}
          <5>1. (clean' => clean) /\ (clean => Agrees)
            BY <3>1, <3>3, <4>7 DEF Settling, Untouched
          <5>2. row'.status = row.status /\ row'.cid = row.cid
            BY <2>2, <4>7, StatusIs
          <5>3. Agrees => Agrees'
            BY <1>2, <5>2 DEF Agrees
          <5>4. QED
            BY <3>5, <5>1, <5>3 DEF HandsOn
        <4>8. QED
          BY <4>1, <4>2, <4>3, <4>4, <4>5, <4>6, <4>7
      <3>6. CASE op.steps # << >>
        <4> DEFINE y == Head(op.steps)
        <4>1. <<x, y>> \in Follows /\ Same(op, doing[a]) /\ op.onThrow = doing[a].onThrow
          BY <2>3, <3>6 DEF Onto, Step
        <4>2. x \in {"markStarting", "markCreated", "markRunning", "markUp", "markRestarting", "markStopping"}
          BY <1>1, <4>1, FollowsOne
        <4>3. op.onThrow = "markError"
          BY <1>1, <4>1, <4>2 DEF Carries, Step, Guarded
        <4>4. row'.id = op.id /\ row'.cid = op.cid
          BY <1>4, <2>2, <3>1, <4>1, <4>2 DEF Same
        <4>5. y \in {"start", "stop", "client"} /\ (y = "client" => x \in {"markRunning", "markUp"})
          BY <4>1, <4>2, FollowsOne
        <4>6. y = "client" => Agrees'
          BY <3>4, <4>5
        <4> HIDE DEF y
        <4>7. Knows(op)'
          <5>1. /\ y \notin {"bridge", "ports", "markRunning", "markUp"}
                /\ y # "markStopped" /\ y # "markDestroyed" /\ y # "pause" /\ y # "unpause"
                /\ y # "markPaused" /\ y # "markResumed"
                /\ y \in Untouched => y = "client"
            BY <4>5 DEF Untouched
          <5>2. op.onThrow # "markUnreachable"
            BY <4>3
          <5>3. QED
            BY <4>4, <4>6, <5>1, <5>2, Zenon DEF Knows, y
        <4>8. QED
          BY <3>6, <4>7 DEF HandsOn
      <3>7. QED
        BY <3>5, <3>6
    <2>4. clean' => clean \/ doing[a].solo
      BY <2>1, Zenon
    <2>5. QED
      BY <2>1, <2>3, <2>4, GoesOnAlone
  <1>5. QED
    BY <1>3, <1>4

(* The knowledge of an operation that is alone, step by step.              *)
LEMMA LoneKnows ==
    ASSUME NEW a \in Actors, Lone(a)
    PROVE  /\ row.id = doing[a].id
           /\ Step(a) \notin {"create", "markCreated", "markError"} => row.cid = doing[a].cid
           /\ Step(a) \in {"bridge", "ports", "markRunning", "markUp"} => ContainerOf(a) = "running"
           /\ Step(a) = "pause" => row.status = "RUNNING" /\ row.cid # 0
           /\ Step(a) = "unpause" => row.status = "PAUSED" /\ row.cid # 0
           /\ clean => /\ Step(a) \in Untouched => Agrees
                       /\ doing[a].onThrow # "markUnreachable"
  BY DEF Lone, Knows, Step, ContainerOf

(* A Docker call: it is refused, or it leaves the container where the next *)
(* step expects it.                                                        *)
LEMMA CallAlone ==
    ASSUME TypeOK, Carrying, Alone, NEW a \in Actors, ~ Free(a), DockerCall(a)
    PROVE  Alone'
  <1> DEFINE x == Step(a)
  <1>1. /\ UNCHANGED <<row, clean>> /\ x \in DockerCalls
        /\ \/ UNCHANGED docker /\ x \in Swallowed /\ Refuses(x, ContainerOf(a)) /\ GoOn(a)
           \/ UNCHANGED docker /\ x \notin Swallowed /\ Throw(a)
           \/ ~ Refuses(x, ContainerOf(a)) /\ Called(a) /\ GoOn(a)
    BY CallEffect DEF DockerCall
  <1>2. clean => Lone(a)
    BY LoneIs
  <1>3. CASE UNCHANGED docker /\ x \notin Swallowed /\ Throw(a)
    <2>1. x \in {"start", "stop", "pause", "unpause"}
      BY <1>1, <1>3 DEF DockerCalls, Swallowed
    <2>2. clean => Agrees \/ x \in Guarded
      BY <1>2, <2>1, LoneKnows DEF Guarded, Untouched
    <2>3. QED
      BY <1>1, <1>3, <2>2, ThrowsAlone
  <1>4. CASE /\ GoOn(a)
             /\ \/ UNCHANGED docker /\ x \in Swallowed /\ Refuses(x, ContainerOf(a))
                \/ ~ Refuses(x, ContainerOf(a)) /\ Called(a)
    <2>1. ASSUME NEW op, Lone(a), Onto(op, doing[a]) PROVE HandsOn(op)
      <3> DEFINE y == Head(op.steps)
                 was == ContainerOf(a)
      <3>1. op.steps # << >> /\ <<x, y>> \in Follows /\ Same(op, doing[a]) /\ op.onThrow = doing[a].onThrow
        <4>1. x \notin Lasts
          BY <1>1 DEF DockerCalls, Lasts
        <4>2. QED
          BY <2>1, <4>1 DEF Onto, Step
      <3>2. /\ x = "start" => y \in {"bridge", "ports"}
            /\ x = "stop" => y \in {"start", "markStopped"}
            /\ x = "kill" => y = "markStopped"
            /\ x = "remove" => y \in {"markStopped", "markDestroyed"}
            /\ x = "pause" => y = "markPaused"
            /\ x = "unpause" => y = "markResumed"
        BY <3>1, FollowsOne
      <3>3. x \in {"start", "stop", "kill", "remove", "pause", "unpause"}
        BY <1>1 DEF DockerCalls
      <3>4. /\ row'.id = op.id /\ row'.cid = op.cid
            /\ clean' => clean /\ op.onThrow # "markUnreachable"
        BY <1>1, <2>1, <3>1, <3>3, LoneKnows DEF Same
      <3>5. PICK state : state = IF op.cid = 0 THEN "absent" ELSE docker'[op.cid]
        OBVIOUS
      <3>6. /\ x = "start" => state = "running"
            /\ x \in {"stop", "kill"} => state \in {"exited", "absent"}
            /\ x = "remove" => state = "absent"
            /\ x = "pause" => state = IF was = "running" THEN "paused" ELSE was
            /\ x = "unpause" => state = IF was = "paused" THEN "running" ELSE was
        <4>1. CASE UNCHANGED docker /\ x \in Swallowed /\ Refuses(x, was)
          <5>1. was = "absent" /\ x \in {"kill", "remove"}
            BY <4>1 DEF Refuses, Swallowed
          <5>2. state = was
            BY <3>1, <3>5, <4>1 DEF Same, ContainerOf
          <5>3. QED
            BY <5>1, <5>2
        <4>2. CASE ~ Refuses(x, was) /\ Called(a)
          <5>1. op.cid = doing[a].cid /\ op.cid \in Rows /\ op.cid # 0 /\ was = docker[op.cid]
            BY <3>1, <4>2 DEF Same, Called, Rows
          <5>2. docker \in [Rows -> States]
            BY DEF TypeOK, States
          <5>3. docker'[op.cid] = After(x, was)
            BY <4>2, <5>1, <5>2 DEF Called
          <5>4. state = After(x, was)
            BY <3>5, <5>1, <5>3
          <5>5. QED
            BY <3>3, <5>4 DEF After
        <4>3. QED
          BY <1>4, <4>1, <4>2
      <3>7. ASSUME clean PROVE /\ y = "markPaused" => state = "paused"
                               /\ y = "markResumed" => state = "running"
        <4>1. /\ x = "pause" => row.status = "RUNNING" /\ row.cid # 0
              /\ x = "unpause" => row.status = "PAUSED" /\ row.cid # 0
              /\ x \in {"pause", "unpause"} => Agrees
              /\ row.cid = doing[a].cid
          BY <2>1, <3>3, <3>7, LoneKnows DEF Untouched
        <4>2. /\ x = "pause" => was = "running"
              /\ x = "unpause" => was = "paused"
          BY <4>1 DEF Agrees, ContainerOf
        <4>3. /\ y = "markPaused" => x = "pause"
              /\ y = "markResumed" => x = "unpause"
          BY <3>2, <3>3
        <4>4. QED
          BY <3>6, <4>2, <4>3
      <3>8. /\ y \in {"bridge", "ports", "markRunning", "markUp"} => state = "running"
            /\ y = "markStopped" => state \in {"exited", "absent"}
            /\ y = "markDestroyed" => state = "absent"
            /\ y # "pause" /\ y # "unpause" /\ y \notin Untouched
        BY <3>2, <3>3, <3>6 DEF Untouched
      <3>9. Knows(op)'
        <4> HIDE DEF y
        <4>1. clean' => /\ y = "markPaused" => state = "paused"
                        /\ y = "markResumed" => state = "running"
                        /\ op.onThrow # "markUnreachable"
          BY <3>4, <3>7
        <4>2. QED
          BY <3>4, <3>5, <3>8, <4>1, Zenon DEF Knows, y
      <3>10. QED
        BY <3>1, <3>9 DEF HandsOn
    <2>2. clean' => clean \/ doing[a].solo
      BY <1>1, Zenon
    <2>3. QED
      BY <1>4, <2>1, <2>2, GoesOnAlone
  <1>5. QED
    BY <1>1, <1>3, <1>4

(* The insert: the row it makes is the operation's own.                    *)
LEMMA InsertAlone ==
    ASSUME TypeOK, Carrying, Alone, NEW a \in Actors, ~ Free(a), Insert(a)
    PROVE  Alone'
  <1>1. UNCHANGED <<docker, clean>> /\ Step(a) = "insert"
    BY InsertEffect DEF Insert
  <1>2. clean' => clean \/ doing[a].solo
    BY <1>1
  <1>3. ASSUME NEW op, Moved(a, op), op.steps = Tail(doing[a].steps), op.id = row.id + 1,
               op.solo = doing[a].solo, op.onThrow = doing[a].onThrow,
               row' = [NoRow EXCEPT !.id = row.id + 1, !.status = "CREATING"]
        PROVE  Alone'
    <2> DEFINE y == Head(op.steps)
    <2>1. Carries(doing[a]) /\ doing[a].steps # << >>
      BY DEF Carrying, Free
    <2>2. op.steps # << >> => <<"insert", y>> \in Follows
      BY <1>1, <1>3, <2>1, ChainedTail DEF Carries, Step
    <2>3. op.steps # << >> => y = "create"
      BY <2>2, FollowsOne
    <2>4. op.steps # << >>
      BY <1>1, <1>3, <2>1, ChainedTail DEF Carries, Step, Lasts
    <2>5. op.onThrow = "markError"
      BY <1>1, <1>3, <2>1 DEF Carries, Step, Guarded
    <2>6. row'.id = op.id
      BY <1>3 DEF NoRow
    <2> HIDE DEF y
    <2>7. Knows(op)'
      <3>1. /\ y \notin {"bridge", "ports", "markRunning", "markUp"}
            /\ y # "markStopped" /\ y # "markDestroyed" /\ y # "pause" /\ y # "unpause"
            /\ y # "markPaused" /\ y # "markResumed" /\ y \notin Untouched
            /\ y \in {"create", "markCreated", "markError"}
        BY <2>3, <2>4 DEF Untouched
      <3>2. op.onThrow # "markUnreachable"
        BY <2>5
      <3>3. QED
        BY <2>6, <3>1, <3>2, Zenon DEF Knows, y
    <2>8. HandsOn(op)
      BY <2>4, <2>7 DEF HandsOn
    <2>9. QED
      BY <1>2, <1>3, <2>8, StepAlone, Zenon
  <1>4. ASSUME Moved(a, Idle), UNCHANGED row PROVE Alone'
    <2>1. doing[a].solo => HandsOn(Idle)
      <3>1. ASSUME doing[a].solo, clean PROVE Agrees'
        <4>1. Agrees
          BY <1>1, <3>1, LoneIs, LoneKnows DEF Untouched
        <4>2. QED
          BY <1>1, <1>4, <4>1 DEF Agrees
      <3>2. QED
        BY <1>1, <3>1, IdleCarries, Zenon DEF HandsOn
    <2>2. QED
      BY <1>2, <1>4, <2>1, IdleCarries, StepAlone, Zenon
  <1>5. QED
    BY <1>3, <1>4, InsertEffect

(* The creation of the container, or its refusal.                          *)
LEMMA CreateAlone ==
    ASSUME TypeOK, Carrying, Alone, NEW a \in Actors, ~ Free(a), CreateContainer(a)
    PROVE  Alone'
  <1>1. UNCHANGED <<row, clean>> /\ Step(a) = "create"
    BY CreateEffect DEF CreateContainer
  <1>2. clean' => clean \/ doing[a].solo
    BY <1>1
  <1>3. ASSUME NEW op, Moved(a, op), op.steps = Tail(doing[a].steps), op.id = doing[a].id,
               op.solo = doing[a].solo, op.onThrow = doing[a].onThrow
        PROVE  Alone'
    <2> DEFINE y == Head(op.steps)
    <2>1. Carries(doing[a]) /\ doing[a].steps # << >>
      BY DEF Carrying, Free
    <2>2. op.steps # << >> => <<"create", y>> \in Follows
      BY <1>1, <1>3, <2>1, ChainedTail DEF Carries, Step
    <2>3. op.steps # << >> => y = "markCreated"
      BY <2>2, FollowsOne
    <2>4. op.steps # << >>
      BY <1>1, <1>3, <2>1, ChainedTail DEF Carries, Step, Lasts
    <2>5. op.onThrow = "markError"
      BY <1>1, <1>3, <2>1 DEF Carries, Step, Guarded
    <2> HIDE DEF y
    <2>6. ASSUME Lone(a) PROVE Knows(op)'
      <3>1. row'.id = op.id
        BY <1>1, <1>3, <2>6, LoneKnows
      <3>2. /\ y \notin {"bridge", "ports", "markRunning", "markUp"}
            /\ y # "markStopped" /\ y # "markDestroyed" /\ y # "pause" /\ y # "unpause"
            /\ y # "markPaused" /\ y # "markResumed" /\ y \notin Untouched
            /\ y \in {"create", "markCreated", "markError"}
        BY <2>3, <2>4 DEF Untouched
      <3>3. op.onThrow # "markUnreachable"
        BY <2>5
      <3>4. QED
        BY <3>1, <3>2, <3>3, Zenon DEF Knows, y
    <2>7. doing[a].solo => HandsOn(op)
      BY <2>4, <2>6, LoneIs DEF HandsOn
    <2>8. QED
      BY <1>2, <1>3, <2>7, StepAlone, Zenon
  <1>4. ASSUME Throw(a), UNCHANGED docker PROVE Alone'
    BY <1>1, <1>4, ThrowsAlone DEF Guarded
  <1>5. QED
    BY <1>3, <1>4, CreateEffect

(* The waits: for the ports, the agent, and the client's connection.       *)
LEMMA WaitAlone ==
    ASSUME TypeOK, Carrying, Alone, NEW a \in Actors, ~ Free(a), Ports(a) \/ Reach(a)
    PROVE  Alone'
  <1> DEFINE x == Step(a)
  <1>1. /\ UNCHANGED <<row, docker, clean>> /\ x \in {"ports", "bridge", "client"}
        /\ Throw(a) \/ GoOn(a)
    BY DEF Ports, Reach
  <1>2. clean => Lone(a)
    BY LoneIs
  <1>3. ASSUME Throw(a) PROVE Alone'
    <2>1. clean => Agrees \/ x \in Guarded
      BY <1>1, <1>2, LoneKnows DEF Untouched, Guarded
    <2>2. QED
      BY <1>1, <1>3, <2>1, ThrowsAlone
  <1>4. ASSUME GoOn(a) PROVE Alone'
    <2>1. ASSUME NEW op, Lone(a), Onto(op, doing[a]) PROVE HandsOn(op)
      <3>1. CASE op.steps = << >>
        <4>1. x = "client"
          BY <1>1, <2>1, <3>1 DEF Onto, Lasts, Step
        <4>2. clean => Agrees
          BY <2>1, <4>1, LoneKnows DEF Untouched
        <4>3. clean' => Agrees'
          BY <1>1, <4>2 DEF Agrees
        <4>4. QED
          BY <3>1, <4>3 DEF HandsOn
      <3>2. CASE op.steps # << >>
        <4> DEFINE y == Head(op.steps)
        <4>1. <<x, y>> \in Follows /\ Same(op, doing[a]) /\ op.onThrow = doing[a].onThrow
          BY <2>1, <3>2 DEF Onto, Step
        <4>2. x \in {"ports", "bridge"} /\ y \in {"ports", "markRunning", "markUp"}
          BY <1>1, <4>1, FollowsOne
        <4>3. /\ row'.id = op.id /\ row'.cid = op.cid
              /\ clean' => op.onThrow # "markUnreachable"
          BY <1>1, <2>1, <4>1, <4>2, LoneKnows DEF Same
        <4>4. (IF op.cid = 0 THEN "absent" ELSE docker'[op.cid]) = "running"
          BY <1>1, <2>1, <4>1, <4>2, LoneKnows DEF ContainerOf, Same
        <4> HIDE DEF y
        <4>5. /\ y # "markStopped" /\ y # "markDestroyed" /\ y # "pause" /\ y # "unpause"
              /\ y # "markPaused" /\ y # "markResumed" /\ y \notin Untouched
          BY <4>2 DEF Untouched
        <4>6. Knows(op)'
          BY <4>3, <4>4, <4>5, Zenon DEF Knows, y
        <4>7. QED
          BY <3>2, <4>6 DEF HandsOn
      <3>3. QED
        BY <3>1, <3>2
    <2>2. clean' => clean \/ doing[a].solo
      BY <1>1, Zenon
    <2>3. QED
      BY <1>4, <2>1, <2>2, GoesOnAlone
  <1>5. QED
    BY <1>1, <1>3, <1>4

(* A move to one last step that keeps the operation as it was.             *)
LEMMA ToAlone ==
    ASSUME TypeOK, Alone, NEW a \in Actors, ~ Free(a), NEW op, Moved(a, op), Same(op, doing[a]),
           UNCHANGED <<row, docker, clean>>, op.steps # << >>,
           Step(a) \notin {"create", "markCreated", "markError"},
           Head(op.steps) \in {"markStopped", "client", "markHealthy", "markFailed", "giveUp",
                               "markRestarting"},
           (doing[a].solo /\ Head(op.steps) = "markStopped") => ContainerOf(a) \in {"exited", "absent"},
           (Lone(a) /\ clean) => op.onThrow # "markUnreachable" /\ Agrees
    PROVE  Alone'
  <1> DEFINE y == Head(op.steps)
  <1>1. PICK state : state = IF op.cid = 0 THEN "absent" ELSE docker'[op.cid]
    OBVIOUS
  <1>2. state = ContainerOf(a)
    BY <1>1 DEF ContainerOf, Same
  <1>3. ASSUME Lone(a) PROVE Knows(op)'
    <2>1. row'.id = op.id /\ row'.cid = op.cid
      BY <1>3, LoneKnows DEF Same
    <2>2. y = "markStopped" => state \in {"exited", "absent"}
      BY <1>2, <1>3 DEF Lone
    <2>3. clean' => op.onThrow # "markUnreachable" /\ Agrees'
      BY <1>3 DEF Agrees
    <2>4. /\ y \notin {"bridge", "ports", "markRunning", "markUp"} /\ y # "markDestroyed"
          /\ y # "pause" /\ y # "unpause" /\ y # "markPaused" /\ y # "markResumed"
      OBVIOUS
    <2> HIDE DEF y
    <2>5. QED
      BY <1>1, <2>1, <2>2, <2>3, <2>4, Zenon DEF Knows, y
  <1>4. doing[a].solo => HandsOn(op)
    BY <1>3, LoneIs DEF HandsOn
  <1>5. op.solo = doing[a].solo /\ (clean' => clean \/ doing[a].solo)
    BY Zenon DEF Same
  <1>6. QED
    BY <1>4, <1>5, StepAlone, Zenon

(* The inspection at boot: nothing is clean yet.                           *)
LEMMA VerifyAlone ==
    ASSUME TypeOK, Carrying, Alone, NEW a \in Actors, ~ Free(a), Verify(a)
    PROVE  Alone'
  <1>1. UNCHANGED <<row, docker, clean>> /\ Step(a) = "verify"
    BY VerifyEffect
  <1>2. doing[a].onThrow = "markUnreachable"
    BY <1>1 DEF Carrying, Carries, Free, Step
  <1>3. ~ clean
    BY <1>2, LoneIs, LoneKnows
  <1>4. ASSUME Throw(a) PROVE Alone'
    BY <1>1, <1>3, <1>4, ThrowsAlone
  <1>5. ASSUME NEW op, Moved(a, op), Same(op, doing[a]),
               \/ op.steps = <<"markStopped">> /\ ContainerOf(a) = "exited"
               \/ op.steps = <<"client">>
        PROVE  Alone'
    <2>1. op.steps # << >> /\ Head(op.steps) \in {"markStopped", "client"}
          /\ (Head(op.steps) = "markStopped" => ContainerOf(a) = "exited")
      BY <1>5
    <2>2. QED
      BY <1>1, <1>3, <1>5, <2>1, ToAlone
  <1>6. QED
    BY <1>4, <1>5, VerifyEffect

(* The health check.                                                       *)
LEMMA InspectAlone ==
    ASSUME TypeOK, Carrying, Alone, NEW a \in Actors, ~ Free(a), Inspect(a) \/ InspectFault(a)
    PROVE  Alone'
  <1>1. UNCHANGED <<row, docker, clean>> /\ Step(a) = "inspect"
    BY InspectEffect
  <1>2. Lone(a) /\ clean => Agrees /\ doing[a].onThrow # "markUnreachable"
    BY <1>1, LoneKnows DEF Untouched
  <1>3. ASSUME Moved(a, Idle) PROVE Alone'
    <2>1. doing[a].solo => HandsOn(Idle)
      <3>1. ASSUME doing[a].solo, clean PROVE Agrees'
        BY <1>1, <1>2, <3>1, LoneIs DEF Agrees
      <3>2. QED
        BY <1>1, <3>1, IdleCarries, Zenon DEF HandsOn
    <2>2. clean' => clean \/ doing[a].solo
      BY <1>1
    <2>3. QED
      BY <1>3, <2>1, <2>2, IdleCarries, StepAlone, Zenon
  <1>4. ASSUME NEW op, Moved(a, op), Same(op, doing[a]), op.onThrow \in {doing[a].onThrow, "markError"},
               op.steps \in {<<"markHealthy">>, <<"markFailed">>, <<"giveUp">>, RestartSteps}
        PROVE  Alone'
    <2>1. op.steps # << >> /\ Head(op.steps) \in {"markHealthy", "markFailed", "giveUp", "markRestarting"}
      BY <1>4 DEF RestartSteps
    <2>2. (Lone(a) /\ clean) => op.onThrow # "markUnreachable" /\ Agrees
      BY <1>2, <1>4
    <2>3. QED
      BY <1>1, <1>4, <2>1, <2>2, ToAlone
  <1>5. QED
    BY <1>3, <1>4, InspectEffect

(* Where nothing is clean and nothing runs alone, there is nothing to know. *)
LEMMA Overlapped ==
    ASSUME ~ clean', \A b \in Actors : doing'[b].steps # << >> => ~ doing'[b].solo
    PROVE  Alone'
  BY Zenon DEF Alone, AloneTellsTheTruth, Free

(* A fault: nothing is clean, and the operation alone no more.             *)
LEMMA FaultAlone ==
    ASSUME TypeOK, Carrying, Alone, NEW a \in Actors, ~ Free(a), Fault(a)
    PROVE  Alone'
  <1>1. PICK op : Moved(a, op) /\ (op.steps = << >> \/ op.solo = FALSE)
    BY FaultEffect
  <1>2. ~ clean'
    BY FaultEffect
  <1>3. doing'[a] = op /\ \A b \in Actors \ {a} : doing'[b] = doing[b]
    BY <1>1 DEF Moved, TypeOK
  <1>4. \A b \in Actors \ {a} : doing[b].steps # << >> => ~ doing[b].solo
    BY Zenon DEF Alone, Free
  <1>5. ASSUME NEW b \in Actors, doing'[b].steps # << >> PROVE ~ doing'[b].solo
    <2>1. CASE b = a
      BY <1>1, <1>3, <1>5, <2>1, Zenon
    <2>2. CASE b # a
      BY <1>3, <1>4, <1>5, <2>2, Zenon
    <2>3. QED
      BY <2>1, <2>2
  <1>6. QED
    BY <1>2, <1>5, Overlapped

(* So when the container dies.                                             *)
LEMMA DiesAlone ==
    ASSUME TypeOK, Carrying, Alone, ContainerDies
    PROVE  Alone'
  <1>1. \A b \in Actors : doing'[b].steps # << >> => doing'[b].solo = FALSE
    BY JoinedKeeps DEF ContainerDies
  <1>2. ~ clean'
    BY DEF ContainerDies
  <1>3. QED
    BY <1>1, <1>2, Overlapped, Zenon

(* What an operation knows when it has just read the row.                  *)
LEMMA BegunKnows ==
    ASSUME NEW op, Begun(op), UNCHANGED <<row, docker>>,
           clean' => Agrees' /\ op.onThrow # "markUnreachable"
    PROVE  Knows(op)'
  <1> DEFINE y == Head(op.steps)
  <1>1. /\ row'.id = op.id /\ row'.cid = op.cid
        /\ y \in {"markStopped", "markDestroyed"} => op.cid = 0
        /\ y = "pause" => row'.status = "RUNNING" /\ row'.cid # 0
        /\ y = "unpause" => row'.status = "PAUSED" /\ row'.cid # 0
        /\ y \notin {"bridge", "ports", "markRunning", "markUp", "markPaused", "markResumed"}
    BY DEF Begun
  <1>2. y # "markPaused" /\ y # "markResumed" /\ (y = "markStopped" => op.cid = 0)
        /\ (y = "markDestroyed" => op.cid = 0)
    BY <1>1
  <1>3. PICK state : state = IF op.cid = 0 THEN "absent" ELSE docker'[op.cid]
    OBVIOUS
  <1>4. op.cid = 0 => state = "absent" /\ state \in {"exited", "absent"}
    BY <1>3
  <1> HIDE DEF y
  <1>5. QED
    BY <1>1, <1>2, <1>3, <1>4, Zenon DEF Knows, y

(* An operation begins: alone if no other is in flight, else it makes the  *)
(* ones in flight overlapped.                                              *)
LEMMA TakeAlone ==
    ASSUME TypeOK, Carrying, Alone, NEW a \in Actors, NEW op, Begun(op), Take(a, op),
           op.solo = Quiet, op.onThrow # "markUnreachable"
    PROVE  Alone'
  <1>1. doing' = [Joined EXCEPT ![a] = op] /\ clean' = (clean /\ Quiet) /\ UNCHANGED <<row, docker>>
    BY DEF Take
  <1>2. doing'[a] = op /\ \A b \in Actors \ {a} : doing'[b] = Joined[b]
    BY <1>1, JoinedKeeps
  <1>3. CASE Quiet
    <2>1. \A b \in Actors \ {a} : doing'[b].steps = << >>
      BY <1>2, <1>3, JoinedKeeps DEF Quiet, Free
    <2>2. clean' => Agrees'
      <3>1. clean' => Agrees
        BY <1>1, <1>3, Zenon DEF Alone, AloneTellsTheTruth
      <3>2. Agrees => Agrees'
        BY <1>1 DEF Agrees
      <3>3. QED
        BY <3>1, <3>2
    <2>3. Knows(op)'
      BY <1>1, <2>2, BegunKnows
    <2>4. doing'[a].solo /\ Knows(doing[a])' /\ doing'[a].steps # << >>
      <3>1. op.solo /\ op.steps # << >>
        BY <1>3, Zenon DEF Begun
      <3>2. QED
        BY <1>2, <2>3, <3>1, Zenon DEF Knows
    <2>5. QED
      BY <2>1, <2>2, <2>4, Zenon DEF Alone, AloneTellsTheTruth, Free
  <1>4. CASE ~ Quiet
    <2>1. ~ clean' /\ ~ op.solo
      BY <1>1, <1>4, Zenon
    <2>2. ASSUME NEW b \in Actors, doing'[b].steps # << >> PROVE ~ doing'[b].solo
      <3>1. CASE b = a
        BY <1>2, <2>1, <3>1, Zenon
      <3>2. CASE b # a
        <4>1. Joined[b].solo = FALSE
          BY <1>2, <2>2, <3>2, JoinedKeeps
        <4>2. QED
          BY <1>2, <3>2, <4>1, Zenon
      <3>3. QED
        BY <3>1, <3>2
    <2>3. QED
      BY <2>1, <2>2, Overlapped
  <1>5. QED
    BY <1>3, <1>4

(* The boot: what recovery starts is alone, and nothing is clean.          *)
LEMMA CrashAlone ==
    ASSUME TypeOK, Crash
    PROVE  Alone'
  <1>1. PICK a \in Actors, op \in Recovery : doing' = [[b \in Actors |-> Idle] EXCEPT ![a] = op]
    BY DEF Crash
  <1>2. ~ clean' /\ UNCHANGED <<row, docker>>
    BY DEF Crash
  <1>3. doing'[a] = op /\ \A b \in Actors \ {a} : doing'[b].steps = << >>
    BY <1>1, IdleCarries
  <1>4. CASE op = Idle
    BY <1>2, <1>3, <1>4, IdleCarries, Overlapped
  <1>5. CASE Begun(op) /\ op.solo = TRUE
    <2>1. Knows(op)'
      BY <1>2, <1>5, BegunKnows
    <2>2. Knows(doing[a])' /\ doing'[a].solo
      BY <1>3, <1>5, <2>1, Zenon DEF Knows
    <2>3. QED
      BY <1>2, <1>3, <2>2, Zenon DEF Alone, AloneTellsTheTruth, Free
  <1>6. QED
    BY <1>4, <1>5, RecoveryIs

-------------------------------------------------------------------------------
(* Every step keeps it.                                                    *)
LEMMA AloneStep ==
    ASSUME TypeOK, Carrying, Alone, [Next]_vars
    PROVE  Alone'
  <1>1. ASSUME UNCHANGED <<row, docker, doing, clean>> PROVE Alone'
    <2>1. Agrees => Agrees'
      BY <1>1 DEF Agrees
    <2>2. ASSUME NEW a \in Actors PROVE Knows(doing[a]) => Knows(doing[a])'
      BY <1>1, <2>1, Zenon DEF Knows
    <2>3. ASSUME NEW a \in Actors
          PROVE  doing'[a] = doing[a]
      BY <1>1
    <2>4. (clean' => clean) /\ (clean => clean')
      BY <1>1
    <2>5. QED
      BY <2>1, <2>2, <2>3, <2>4, Zenon DEF Alone, AloneTellsTheTruth, Quiet, Free
  <1>2. ASSUME NEW a \in Actors, Ask(a) PROVE Alone'
    <2>1. PICK op : /\ Begun(op) /\ Take(a, op)
                    /\ op.solo = Quiet /\ op.onThrow \in {"none", "markError"}
      BY <1>2, AskEffect
    <2>2. QED
      BY <2>1, TakeAlone
  <1>3. ASSUME NEW a \in Actors, HealthCheck(a) PROVE Alone'
    <2>1. PICK op : /\ Begun(op) /\ Take(a, op)
                    /\ op.solo = Quiet /\ op.onThrow = "none"
      BY <1>3, HealthEffect
    <2>2. QED
      BY <2>1, TakeAlone
  <1>4. ASSUME NEW a \in Actors, Work(a) PROVE Alone'
    BY <1>4, WriteAlone, InsertAlone, CreateAlone, CallAlone, WaitAlone, VerifyAlone, InspectAlone
       DEF Work
  <1>5. ASSUME NEW a \in Actors, ~ Free(a), Fault(a) \/ InspectFault(a) PROVE Alone'
    BY <1>5, FaultAlone, InspectAlone
  <1>6. CASE Crash
    BY <1>6, CrashAlone
  <1>7. CASE ContainerDies
    BY <1>7, DiesAlone
  <1>8. CASE CoolOff \/ UNCHANGED vars
    BY <1>1, <1>8 DEF CoolOff, vars
  <1>9. QED
    BY <1>2, <1>3, <1>4, <1>5, <1>6, <1>7, <1>8, Zenon DEF Next

(* At the start there is no row.                                           *)
LEMMA InitAlone == Init => Alone
  BY IdleCarries DEF Init, Alone, AloneTellsTheTruth, Free, Agrees, NoRow

(* Whatever crashes, faults and overlaps came before, an operation that    *)
(* then runs alone leaves a row that tells the truth about its container   *)
(* (startWorkspace, stopWorkspace, destroyWorkspace, handleUnhealthy, ...). *)
THEOREM AloneTellsTheTruthHolds == Spec => []AloneTellsTheTruth
  <1> DEFINE Inv == TypeOK /\ Carrying /\ Alone
  <1>1. Init => Inv
    BY InitTyped, InitAlone
  <1>2. Inv /\ [Next]_vars => Inv'
    BY TypedStep, AloneStep
  <1>3. Inv => AloneTellsTheTruth
    BY DEF Alone
  <1>4. QED
    BY <1>1, <1>2, <1>3, PTL DEF Spec
====================================================================================
