------------------------ MODULE WorkflowSteps_proofs -------------------------
(***************************************************************************)
(* Theorems about WorkflowSteps, for every finite set of steps, every set  *)
(* of graphs, every way to treat errors and every number of retries.       *)
(***************************************************************************)
EXTENDS WorkflowSteps, TLAPS, SequenceTheorems, FiniteSetTheorems, WellFoundedInduction

(* The layers are a partition of the steps.                                *)
Partition(plan) ==
    /\ \A m, n \in DOMAIN plan : m # n => plan[m] \cap plan[n] = {}
    /\ \A s \in Steps : \E n \in DOMAIN plan : s \in plan[n]

(* Where a step stands depends on whether its layer's turn has come.       *)
Turns ==
    \A n \in DOMAIN layers : \A s \in layers[n] :
        /\ n < layer => pc[s] = "settled"
        /\ n = layer => pc[s] # "waiting"
        /\ n > layer => pc[s] = "waiting"

(* What a step has at each of its stations.                                *)
StepFits(s) ==
    /\ pc[s] \in {"waiting", "open", "ready"} => attempts[s] = 0
    /\ pc[s] = "backoff" => attempts[s] < Attempts(s)
    /\ pc[s] = "plugin" => live[s] > 0
    /\ pc[s] = "waiting" => row[s] = "none"
    /\ pc[s] = "settled" /\ s \notin swallowed => row[s] # "running"
    /\ pc[s] = "settled" /\ s \notin swallowed \cup fatal => Done(s)
    /\ s \in fatal => s \in layers[layer]

StepsFit == \A s \in Steps : StepFits(s)

OutcomeFits ==
    /\ Over => \A s \in layers[layer] : pc[s] = "settled"
    /\ Over /\ fatal = {} => layer = Len(layers)
    /\ status = "failed" => fatal # {}
    /\ status = "completed" => fatal = {}

IInv == TypeOK /\ Partition(layers) /\ Turns /\ StepsFit /\ OutcomeFits

-------------------------------------------------------------------------------
(* The layers of a graph: Kahn's rounds, and what they leave.              *)
LEMMA RoundsType ==
    ASSUME NEW graph
    PROVE  /\ Rounds(graph) \in Seq(SUBSET Steps)
           /\ \A m, n \in DOMAIN Rounds(graph) :
                m # n => Rounds(graph)[m] \cap Rounds(graph)[n] = {}
  <1> DEFINE busy == {n \in 1..Cardinality(Steps) : Queue(graph, n - 1) # {}}
  <1>1. Cardinality(busy) \in Nat
    <2>1. Cardinality(Steps) \in Nat
      BY StepsAssumption, FS_CardinalityType
    <2>2. IsFiniteSet(1..Cardinality(Steps))
      BY <2>1, FS_Interval
    <2>3. IsFiniteSet(busy)
      BY <2>2, FS_Subset
    <2> QED  BY <2>3, FS_CardinalityType
  <1>2. Rounds(graph) = [n \in 1..Cardinality(busy) |-> Queue(graph, n - 1)]
    BY DEF Rounds
  <1>3. \A n : Queue(graph, n) \subseteq Steps
    BY DEF Queue
  <1>4. ASSUME NEW m \in Nat, NEW n \in Nat, m < n
        PROVE  Queue(graph, m) \cap Queue(graph, n) = {}
    BY <1>4 DEF Queue
  <1>5. Rounds(graph) \in Seq(SUBSET Steps)
    <2> HIDE DEF busy
    <2> QED  BY <1>1, <1>2, <1>3, IsASeq
  <1>6. ASSUME NEW m \in DOMAIN Rounds(graph), NEW n \in DOMAIN Rounds(graph), m < n
        PROVE  Rounds(graph)[m] \cap Rounds(graph)[n] = {}
    <2> HIDE DEF busy
    <2>1. m \in 1..Cardinality(busy) /\ n \in 1..Cardinality(busy)
      BY <1>2, <1>6
    <2>2. m - 1 \in Nat /\ n - 1 \in Nat /\ m - 1 < n - 1
      BY <2>1, <1>1, <1>6
    <2> QED  BY <2>1, <2>2, <1>2, <1>4
  <1>7. \A m, n \in DOMAIN Rounds(graph) : m < n \/ n < m \/ m = n
    <2> HIDE DEF busy
    <2> QED  BY <1>1, <1>2
  <1> QED  BY <1>5, <1>6, <1>7

LEMMA LayersType ==
    ASSUME NEW graph
    PROVE  /\ ExecutionLayers(graph) \in Seq(SUBSET Steps)
           /\ 1 \in DOMAIN ExecutionLayers(graph)
           /\ Partition(ExecutionLayers(graph))
  <1> DEFINE rounds == Rounds(graph)
             left == Steps \ UNION {rounds[n] : n \in DOMAIN rounds}
  <1>1. /\ rounds \in Seq(SUBSET Steps)
        /\ \A m, n \in DOMAIN rounds : m # n => rounds[m] \cap rounds[n] = {}
    BY RoundsType
  <1>2. ExecutionLayers(graph) =
            IF graph = {} THEN <<Steps>>
            ELSE IF left = {} THEN rounds ELSE Append(rounds, left)
    BY DEF ExecutionLayers
  <1> HIDE DEF rounds
  <1>3. Len(rounds) \in Nat /\ DOMAIN rounds = 1..Len(rounds)
    BY <1>1, LenProperties
  <1>4. CASE graph = {}
    BY <1>2, <1>4 DEF Partition
  <1>5. CASE graph # {} /\ left = {}
    <2>1. \A s \in Steps : \E n \in DOMAIN rounds : s \in rounds[n]
      BY <1>5
    <2>2. 1 \in DOMAIN rounds
      BY <2>1, <1>3, StepsAssumption
    <2> QED  BY <1>1, <1>2, <1>5, <2>1, <2>2 DEF Partition
  <1>6. CASE graph # {} /\ left # {}
    <2>0. left \in SUBSET Steps
      OBVIOUS
    <2>1. \A n \in DOMAIN rounds : left \cap rounds[n] = {}
      OBVIOUS
    <2>2. \A s \in Steps : s \in left \/ \E n \in DOMAIN rounds : s \in rounds[n]
      OBVIOUS
    <2>3. ExecutionLayers(graph) = Append(rounds, left)
      BY <1>2, <1>6
    <2> HIDE DEF left
    <2>4. /\ Append(rounds, left) \in Seq(SUBSET Steps)
          /\ DOMAIN Append(rounds, left) = 1..(Len(rounds) + 1)
          /\ Append(rounds, left)[Len(rounds) + 1] = left
          /\ \A n \in 1..Len(rounds) : Append(rounds, left)[n] = rounds[n]
      BY <2>0, <1>1, <1>3, AppendProperties, LenProperties
    <2>5. \A n \in 1..(Len(rounds) + 1) : n \in 1..Len(rounds) \/ n = Len(rounds) + 1
      BY <1>3
    <2>6. 1..Len(rounds) \subseteq 1..(Len(rounds) + 1) /\ 1 \in 1..(Len(rounds) + 1)
      /\ Len(rounds) + 1 \in 1..(Len(rounds) + 1)
      BY <1>3
    <2>7. ASSUME NEW m \in 1..(Len(rounds) + 1), NEW n \in 1..(Len(rounds) + 1), m # n
          PROVE  Append(rounds, left)[m] \cap Append(rounds, left)[n] = {}
      BY <2>1, <2>4, <2>5, <2>7, <1>1, <1>3
    <2>8. \A s \in Steps : \E n \in 1..(Len(rounds) + 1) : s \in Append(rounds, left)[n]
      BY <2>2, <2>4, <2>6, <1>3
    <2>9. Partition(Append(rounds, left))
      BY <2>4, <2>7, <2>8 DEF Partition
    <2> QED  BY <2>3, <2>4, <2>6, <2>9
  <1> QED  BY <1>4, <1>5, <1>6

LEMMA InitIsFit == Init => IInv
  <1> SUFFICES ASSUME Init PROVE IInv
    OBVIOUS
  <1>1. /\ layers \in Seq(SUBSET Steps) /\ 1 \in DOMAIN layers /\ Partition(layers)
        /\ DOMAIN layers = 1..Len(layers)
    BY LayersType, LenProperties DEF Init
  <1>2. \A s \in Steps : Attempts(s) \in Nat
    BY OnErrorAssumption, MaxRetriesAssumption DEF Attempts
  <1>3. TypeOK
    <2>1. thrown \in BOOLEAN
      BY Zenon DEF Init
    <2>2. layers \in Seq(SUBSET Steps) /\ layer \in DOMAIN layers
      BY <1>1 DEF Init
    <2>3. attempts = [s \in Steps |-> 0] /\ live = [s \in Steps |-> 0]
      BY DEF Init
    <2>4. /\ attempts \in [Steps -> Nat] /\ live \in [Steps -> Nat]
          /\ \A s \in Steps : live[s] <= attempts[s] /\ attempts[s] <= Attempts(s)
      BY <2>3, <1>2
    <2>5. /\ pc \in [Steps -> {"open", "waiting"}] /\ row \in [Steps -> {"none"}]
          /\ succeeded \in [Steps -> BOOLEAN] /\ edges \in Graphs
          /\ fatal = {} /\ swallowed = {} /\ status = "running"
      BY Zenon DEF Init
    <2>6. /\ {"open", "waiting"} \subseteq {"waiting", "open", "ready", "plugin", "backoff",
                                           "record", "catch", "settled"}
          /\ {"none"} \subseteq {"none", "running", "completed", "failed", "skipped"}
      OBVIOUS
    <2> QED  BY <2>1, <2>2, <2>4, <2>5, <2>6 DEF TypeOK
  <1>4. Turns
    <2> SUFFICES ASSUME NEW n \in DOMAIN layers, NEW s \in layers[n]
                 PROVE  /\ n < layer => pc[s] = "settled"
                        /\ n = layer => pc[s] # "waiting"
                        /\ n > layer => pc[s] = "waiting"
      BY DEF Turns
    <2>1. s \in Steps /\ n \in Nat /\ n >= 1
      BY <1>1, ElementOfSeq
    <2>2. n # 1 => s \notin layers[1]
      BY <1>1 DEF Partition
    <2> QED  BY <2>1, <2>2 DEF Init
  <1>5. StepsFit
    BY DEF Init, StepsFit, StepFits
  <1>6. OutcomeFits
    <2>1. ~ Over /\ status = "running"
      BY Zenon DEF Init, Over
    <2> QED  BY <2>1 DEF OutcomeFits
  <1> QED  BY <1>1, <1>3, <1>4, <1>5, <1>6 DEF IInv

-------------------------------------------------------------------------------
(* What every step of the run's steps leaves alone: the other steps.       *)
Others(s) ==
    \A t \in Steps \ {s} :
        /\ pc'[t] = pc[t] /\ row'[t] = row[t]
        /\ attempts'[t] = attempts[t] /\ live'[t] = live[t]
        /\ t \in fatal' <=> t \in fatal
        /\ t \in swallowed' <=> t \in swallowed

LEMMA AttemptsType == \A s \in Steps : Attempts(s) \in Nat /\ Attempts(s) > 0
  BY OnErrorAssumption, MaxRetriesAssumption DEF Attempts

(* A step on the move belongs to the layer whose turn it is.               *)
LEMMA Moving ==
    ASSUME IInv, NEW s \in Steps, pc[s] \notin {"waiting", "settled"}
    PROVE  s \in layers[layer] /\ ~ Over
  <1>1. PICK n \in DOMAIN layers : s \in layers[n]
    BY DEF IInv, Partition
  <1>2. n \in Nat /\ layer \in Nat
    BY LenProperties DEF IInv, TypeOK
  <1>3. n = layer
    BY <1>1, <1>2 DEF IInv, Turns
  <1> QED  BY <1>1, <1>3 DEF IInv, OutcomeFits

LEMMA MoveIsLocal ==
    ASSUME IInv, NEW s \in Steps, StepMoves(s),
           UNCHANGED <<edges, layers, layer, status, thrown>>
    PROVE  /\ TypeOK'
           /\ StepFits(s)'
           /\ Others(s)
           /\ pc[s] \notin {"waiting", "settled"}
           /\ pc'[s] # "waiting"
  <1>1. TypeOK /\ StepFits(s) /\ Attempts(s) \in Nat /\ Attempts(s) > 0
    BY AttemptsType DEF IInv, StepsFit
  <1>2. pc[s] \notin {"waiting", "settled"} => s \in layers[layer]
    BY Moving
  <1> USE <1>1, <1>2 DEF TypeOK, StepFits, Others, Done, Attempts, Goto
  <1>3. CASE Open(s)
    BY <1>3 DEF Open, Write, Swallow
  <1>4. CASE Skip(s)
    BY <1>4 DEF Skip, Write
  <1>5. CASE MissingPlugin(s)
    BY <1>5 DEF MissingPlugin, Write
  <1>6. CASE Throw(s)
    BY <1>6 DEF Throw
  <1>7. CASE Invoke(s)
    BY <1>7 DEF Invoke
  <1>8. ASSUME NEW success \in BOOLEAN, Answer(s, success) PROVE
           /\ TypeOK' /\ StepFits(s)' /\ Others(s)
           /\ pc[s] \notin {"waiting", "settled"} /\ pc'[s] # "waiting"
    BY <1>8 DEF Answer
  <1>9. CASE Crash(s)
    BY <1>9 DEF Crash, NextAttempt
  <1>10. CASE TimeOut(s)
    BY <1>10 DEF TimeOut, NextAttempt
  <1>11. CASE Record(s)
    BY <1>11 DEF Record, Settle, Write
  <1>12. CASE Catch(s)
    BY <1>12 DEF Catch, Settle, Write, Swallow
  <1> QED
    BY <1>3, <1>4, <1>5, <1>6, <1>7, <1>8, <1>9, <1>10, <1>11, <1>12 DEF StepMoves

LEMMA MoveKeepsInv ==
    ASSUME IInv, NEW s \in Steps, StepMoves(s),
           UNCHANGED <<edges, layers, layer, status, thrown>>
    PROVE  IInv'
  <1>1. /\ TypeOK' /\ StepFits(s)' /\ Others(s)
        /\ pc[s] \notin {"waiting", "settled"} /\ pc'[s] # "waiting"
    BY MoveIsLocal
  <1>2. s \in layers[layer] /\ ~ Over /\ ~ Over'
    BY <1>1, Moving DEF Over
  <1>3. Partition(layers)'
    BY DEF IInv, Partition
  <1>4. Turns'
    <2> SUFFICES ASSUME NEW n \in DOMAIN layers, NEW t \in layers[n]
                 PROVE  /\ n < layer => pc'[t] = "settled"
                        /\ n = layer => pc'[t] # "waiting"
                        /\ n > layer => pc'[t] = "waiting"
      BY DEF Turns
    <2>1. /\ n < layer => pc[t] = "settled"
          /\ n = layer => pc[t] # "waiting"
          /\ n > layer => pc[t] = "waiting"
      BY DEF IInv, Turns
    <2>2. t \in Steps /\ n \in Nat /\ layer \in Nat
      BY LenProperties, ElementOfSeq DEF IInv, TypeOK
    <2>3. CASE t = s
      BY <2>1, <2>2, <2>3, <1>1
    <2>4. CASE t # s
      BY <2>1, <2>2, <2>4, <1>1 DEF Others
    <2> QED  BY <2>3, <2>4
  <1>5. ASSUME NEW t \in Steps PROVE StepFits(t)'
    <2>1. CASE t = s
      BY <2>1, <1>1
    <2>2. CASE t # s
      BY <2>2, <1>1 DEF IInv, StepsFit, StepFits, Others, Done
    <2> QED  BY <2>1, <2>2
  <1>6. OutcomeFits'
    BY <1>2 DEF OutcomeFits, Over
  <1> QED  BY <1>1, <1>3, <1>4, <1>5, <1>6 DEF IInv, StepsFit

LEMMA EndLateKeepsInv ==
    ASSUME IInv, NEW s \in Steps, EndLate(s),
           UNCHANGED <<edges, layers, layer, status, thrown>>
    PROVE  IInv'
  <1>1. TypeOK /\ StepsFit
    BY DEF IInv
  <1>2. /\ live' \in [Steps -> Nat] /\ live'[s] <= live[s]
        /\ live'[s] > (IF pc[s] = "plugin" THEN 0 ELSE -1)
        /\ \A t \in Steps \ {s} : live'[t] = live[t]
    BY <1>1 DEF EndLate, TypeOK
  <1>3. /\ \A t \in Steps : live'[t] <= attempts[t]
        /\ \A t \in Steps : pc[t] = "plugin" => live'[t] > 0
    <2> SUFFICES ASSUME NEW t \in Steps
                 PROVE  live'[t] <= attempts[t] /\ (pc[t] = "plugin" => live'[t] > 0)
      OBVIOUS
    <2>1. /\ live[t] <= attempts[t] /\ live[t] \in Nat /\ attempts[t] \in Nat
          /\ live'[t] \in Nat
          /\ pc[t] = "plugin" => live[t] > 0
      BY <1>1, <1>2 DEF TypeOK, StepsFit, StepFits
    <2>2. CASE t = s
      BY <2>1, <2>2, <1>2
    <2>3. CASE t # s
      BY <2>1, <2>3, <1>2
    <2> QED  BY <2>2, <2>3
  <1>4. /\ pc' = pc /\ row' = row /\ succeeded' = succeeded /\ attempts' = attempts
        /\ fatal' = fatal /\ swallowed' = swallowed
    BY DEF EndLate
  <1>5. TypeOK'
    BY <1>1, <1>2, <1>3, <1>4 DEF TypeOK, Attempts
  <1>6. StepsFit'
    BY <1>1, <1>3, <1>4 DEF StepsFit, StepFits, Done, Attempts
  <1>7. Partition(layers)' /\ Turns' /\ OutcomeFits'
    BY <1>4 DEF IInv, Partition, Turns, OutcomeFits, Over
  <1> QED  BY <1>5, <1>6, <1>7 DEF IInv

LEMMA EndLayerKeepsInv == ASSUME IInv, EndLayer PROVE IInv'
  <1>1. /\ TypeOK /\ Partition(layers) /\ Turns /\ StepsFit
        /\ layers' = layers /\ edges' = edges /\ ~ Over
        /\ row' = row /\ succeeded' = succeeded /\ attempts' = attempts
        /\ live' = live /\ fatal' = fatal /\ swallowed' = swallowed
        /\ \A s \in layers[layer] : pc[s] = "settled"
    BY DEF IInv, EndLayer, Advance, Settled
  <1>2. /\ layer \in Nat /\ Len(layers) \in Nat /\ layer <= Len(layers)
        /\ DOMAIN layers = 1..Len(layers)
        /\ \A n \in DOMAIN layers : layers[n] \subseteq Steps
    <2>1. layers \in Seq(SUBSET Steps) /\ layer \in DOMAIN layers
      BY <1>1 DEF TypeOK
    <2>2. Len(layers) \in Nat /\ DOMAIN layers = 1..Len(layers)
      BY <2>1, LenProperties
    <2>3. \A n \in 1..Len(layers) : layers[n] \in SUBSET Steps
      BY <2>1, ElementOfSeq
    <2> QED  BY <2>1, <2>2, <2>3
  <1>3. fatal \subseteq layers[layer]
    BY <1>1 DEF TypeOK, StepsFit, StepFits
  <1>4. Partition(layers)'
    BY <1>1 DEF Partition
  <1>5. CASE /\ UNCHANGED <<layer, pc>>
             /\ fatal \cap layers[layer] # {} \/ layer = Len(layers)
             /\ \/ status' = "failed" /\ fatal \cap layers[layer] # {} /\ thrown' = thrown
                \/ status' = "completed" /\ fatal \cap layers[layer] = {} /\ thrown' = thrown
                \/ status' = status /\ thrown' = TRUE
    <2>1. /\ fatal = {} => layer = Len(layers)
          /\ status' = "failed" => fatal # {}
          /\ status' = "completed" => fatal = {}
      BY <1>1, <1>3, <1>5 DEF Over
    <2>2. TypeOK'
      BY <1>1, <1>5 DEF TypeOK
    <2>3. Turns' /\ StepsFit'
      BY <1>1, <1>5 DEF Turns, StepsFit, StepFits, Done
    <2>4. OutcomeFits'
      BY <2>1, <1>1, <1>5 DEF OutcomeFits
    <2> QED  BY <2>2, <2>3, <2>4, <1>4 DEF IInv
  <1>6. CASE /\ fatal \cap layers[layer] = {} /\ layer # Len(layers)
             /\ layer' = layer + 1 /\ UNCHANGED <<status, thrown>>
             /\ pc' = [s \in Steps |-> IF s \in layers[layer + 1] THEN "open" ELSE pc[s]]
    <2>0. layer + 1 \in DOMAIN layers
      <3>1. layer \in Nat /\ Len(layers) \in Nat /\ layer <= Len(layers)
        BY <1>2
      <3>2. layer # Len(layers)
        BY <1>6
      <3>3. layer + 1 \in 1..Len(layers)
        BY <3>1, <3>2
      <3> QED  BY <3>3, <1>2
    <2>1. fatal = {} /\ layer + 1 \in DOMAIN layers
      BY <2>0, <1>3, <1>6
    <2>2. \A s \in layers[layer + 1] : s \in Steps /\ pc[s] = "waiting"
      BY <2>1, <1>1, <1>2 DEF Turns
    <2>3. TypeOK'
      BY <2>1, <1>1, <1>6 DEF TypeOK
    <2>4. Turns'
      <3> SUFFICES ASSUME NEW n \in DOMAIN layers, NEW s \in layers[n]
                   PROVE  /\ n < layer + 1 => pc'[s] = "settled"
                          /\ n = layer + 1 => pc'[s] # "waiting"
                          /\ n > layer + 1 => pc'[s] = "waiting"
        BY <1>1, <1>6 DEF Turns
      <3>1. s \in Steps /\ n \in Nat
        BY <1>2
      <3>2. n # layer + 1 => s \notin layers[layer + 1]
        BY <2>1, <1>1 DEF Partition
      <3>3. /\ n < layer + 1 => pc[s] = "settled"
            /\ n > layer + 1 => pc[s] = "waiting"
        <4>1. n < layer + 1 => n < layer \/ n = layer
          BY <3>1, <1>2
        <4>2. n > layer + 1 => n > layer
          BY <3>1, <1>2
        <4> QED  BY <4>1, <4>2, <1>1 DEF Turns
      <3>4. n = layer + 1 \/ n # layer + 1
        OBVIOUS
      <3>5. ~ (n < layer + 1 /\ n = layer + 1) /\ ~ (n > layer + 1 /\ n = layer + 1)
        BY <3>1, <1>2
      <3> QED  BY <3>1, <3>2, <3>3, <3>5, <1>6
    <2>5. StepsFit'
      <3> SUFFICES ASSUME NEW s \in Steps PROVE StepFits(s)'
        BY DEF StepsFit
      <3>1. StepFits(s)
        BY <1>1 DEF StepsFit
      <3>2. CASE s \in layers[layer + 1]
        BY <3>1, <3>2, <2>1, <2>2, <1>1, <1>6 DEF StepFits
      <3>3. CASE s \notin layers[layer + 1]
        BY <3>1, <3>3, <2>1, <1>1, <1>6 DEF StepFits, Done
      <3> QED  BY <3>2, <3>3
    <2>6. OutcomeFits'
      BY <1>1, <1>6 DEF OutcomeFits, Over
    <2> QED  BY <2>3, <2>4, <2>5, <2>6, <1>4 DEF IInv
  <1>7. CASE EndRun("failed") /\ fatal \cap layers[layer] # {}
    BY <1>7, <1>5 DEF EndRun
  <1>8. CASE EndRun("completed") /\ fatal \cap layers[layer] = {} /\ layer = Len(layers)
    BY <1>8, <1>5 DEF EndRun
  <1>9. CASE NextLayer /\ fatal \cap layers[layer] = {} /\ layer # Len(layers)
    BY <1>9, <1>6 DEF NextLayer
  <1> QED  BY <1>7, <1>8, <1>9 DEF EndLayer, Advance

-------------------------------------------------------------------------------
(* IInv is an invariant of the steps of a run.                             *)
THEOREM Invariance == Spec => []IInv
  <1>1. Init => IInv
    BY InitIsFit
  <1>2. IInv /\ [Next]_vars => IInv'
    <2> SUFFICES ASSUME IInv, [Next]_vars PROVE IInv'
      OBVIOUS
    <2>1. ASSUME NEW s \in Steps, StepMoves(s),
                 UNCHANGED <<edges, layers, layer, status, thrown>>
          PROVE  IInv'
      BY <2>1, MoveKeepsInv
    <2>2. ASSUME NEW s \in Steps, EndLate(s),
                 UNCHANGED <<edges, layers, layer, status, thrown>>
          PROVE  IInv'
      BY <2>2, EndLateKeepsInv
    <2>3. CASE EndLayer
      BY <2>3, EndLayerKeepsInv
    <2>4. CASE UNCHANGED vars
      BY <2>4 DEF vars, step, IInv, TypeOK, Partition, Turns, StepsFit, StepFits,
                  OutcomeFits, Over, Done
    <2> QED  BY <2>1, <2>2, <2>3, <2>4 DEF Next
  <1> QED  BY <1>1, <1>2, PTL DEF Spec

(* Every variable keeps its type, and no step calls its plugin more often  *)
(* than its retries allow, whatever the graph (executeStepWithRetry).      *)
THEOREM TypeCorrect == Spec => []TypeOK
  <1>1. IInv => TypeOK
    BY DEF IInv
  <1> QED  BY <1>1, Invariance, PTL

(* When the run has its outcome, or the write of it threw, no step of it   *)
(* is under way, and only a failure leaves steps out (the loop over the    *)
(* layers).                                                                *)
THEOREM OutcomeIsLastHolds == Spec => []OutcomeIsLast
  <1>1. IInv => OutcomeIsLast
    <2> SUFFICES ASSUME IInv, Over, NEW s \in Steps
                 PROVE  /\ pc[s] \in {"settled", "waiting"}
                        /\ pc[s] = "waiting" => status # "completed" /\ fatal # {}
                        /\ row[s] = "running" => s \in swallowed
      BY DEF OutcomeIsLast
    <2>1. PICK n \in DOMAIN layers : s \in layers[n]
      BY DEF IInv, Partition
    <2>2. n \in Nat /\ layer \in Nat /\ n <= Len(layers) /\ Len(layers) \in Nat
      BY LenProperties DEF IInv, TypeOK
    <2>3. pc[s] \in {"settled", "waiting"} /\ (pc[s] = "waiting" => n > layer)
      BY <2>1, <2>2 DEF IInv, Turns, OutcomeFits
    <2>4. pc[s] = "waiting" => status # "completed" /\ fatal # {}
      BY <2>2, <2>3 DEF IInv, OutcomeFits
    <2>5. row[s] = "running" => s \in swallowed
      BY <2>3 DEF IInv, StepsFit, StepFits
    <2> QED  BY <2>3, <2>4, <2>5 DEF IInv, TypeOK, OutcomeFits
  <1> QED  BY <1>1, Invariance, PTL

(* Once a step has failed for good, the steps of later layers are never    *)
(* started (the check after each layer).                                   *)
THEOREM FailureCutsOffHolds == Spec => []FailureCutsOff
  <1>1. IInv => FailureCutsOff
    <2> SUFFICES ASSUME IInv, NEW m \in DOMAIN layers, NEW n \in DOMAIN layers, m < n,
                        fatal \cap layers[m] # {}, NEW s \in layers[n]
                 PROVE  pc[s] = "waiting"
      BY DEF FailureCutsOff
    <2>1. fatal \subseteq layers[layer] /\ layer \in DOMAIN layers
      BY DEF IInv, TypeOK, StepsFit, StepFits
    <2>2. m = layer
      BY <2>1 DEF IInv, Partition
    <2>3. m \in Nat /\ n \in Nat
      BY LenProperties DEF IInv, TypeOK
    <2> QED  BY <2>2, <2>3 DEF IInv, Turns
  <1> QED  BY <1>1, Invariance, PTL

(* In a completed run every step whose failure the loop over the layers    *)
(* could see is completed, skipped, or failed where that was allowed       *)
(* (before completeRun).                                                   *)
THEOREM CompletedMeansDoneIfSeenHolds == Spec => []CompletedMeansDoneIfSeen
  <1>1. IInv => CompletedMeansDoneIfSeen
    <2> SUFFICES ASSUME IInv, status = "completed", NEW s \in Steps \ swallowed
                 PROVE  Done(s)
      BY DEF CompletedMeansDoneIfSeen
    <2>1. PICK n \in DOMAIN layers : s \in layers[n]
      BY DEF IInv, Partition
    <2>2. n \in Nat /\ layer \in Nat /\ n <= layer
      BY LenProperties DEF IInv, TypeOK, OutcomeFits, Over
    <2>3. pc[s] = "settled" /\ fatal = {}
      BY <2>1, <2>2 DEF IInv, Turns, OutcomeFits, Over
    <2> QED  BY <2>3 DEF IInv, StepsFit, StepFits
  <1> QED  BY <1>1, Invariance, PTL

-------------------------------------------------------------------------------
(* The order of the layers. Recursion is reasoned about by a least counter- *)
(* example.                                                                *)

(* A non-empty set of numbers has a least one.                             *)
LEMMA Least ==
    ASSUME NEW T \in SUBSET Nat, T # {}
    PROVE  \E m \in T : \A n \in T : m <= n
  <1>1. PICK m \in T : \A n \in T : ~ (<<n, m>> \in OpToRel(<, Nat))
    BY NatLessThanWellFounded, WFMin, T # {}
  <1>2. \A n \in T : ~ (n < m)
    BY <1>1 DEF OpToRel
  <1> QED  BY <1>2

(* InDegree's recursion, for the rounds up to n.                           *)
Left(graph, n, f, t) == Cardinality({s \in Steps : <<s, t>> \in graph /\ (n > 0 => f[n - 1][s] # 0)})
Counts(graph, n, f) == f = [k \in 0..n |-> [t \in Steps |-> Left(graph, k, f, t)]]

(* It has a solution, for any number of steps.                             *)
LEMMA CountsExist ==
    ASSUME NEW graph, NEW n \in Nat
    PROVE  \E f : Counts(graph, n, f)
  <1> DEFINE Bad == {k \in Nat : ~ \E f : Counts(graph, k, f)}
  <1>1. SUFFICES ASSUME Bad # {} PROVE FALSE
    OBVIOUS
  <1>2. PICK m \in Bad : \A k \in Bad : m <= k
    BY <1>1, Least
  <1>3. CASE m = 0
    <2> DEFINE f == [k \in 0..0 |-> [t \in Steps |-> Cardinality({s \in Steps : <<s, t>> \in graph})]]
    <2>1. \A t : Left(graph, 0, f, t) = Cardinality({s \in Steps : <<s, t>> \in graph})
      <3> SUFFICES ASSUME NEW t
                   PROVE  Left(graph, 0, f, t) = Cardinality({s \in Steps : <<s, t>> \in graph})
        OBVIOUS
      <3> HIDE DEF f
      <3>1. {s \in Steps : <<s, t>> \in graph /\ (0 > 0 => f[0 - 1][s] # 0)}
              = {s \in Steps : <<s, t>> \in graph}
        OBVIOUS
      <3> QED  BY <3>1 DEF Left
    <2>2. f[0] = [t \in Steps |-> Left(graph, 0, f, t)]
      BY <2>1
    <2>3. f = [k \in 0..0 |-> f[k]]
      OBVIOUS
    <2> HIDE DEF f
    <2>4. Counts(graph, 0, f)
      BY <2>2, <2>3 DEF Counts
    <2> QED  BY <1>3, <2>4
  <1>4. CASE m # 0
    <2>1. m \in Nat /\ m - 1 \in Nat /\ m - 1 \notin Bad
      BY <1>2, <1>4
    <2>2. PICK g : Counts(graph, m - 1, g)
      BY <2>1
    <2>3. g = [k \in 0..(m - 1) |-> [t \in Steps |-> Left(graph, k, g, t)]]
      BY <2>2, Zenon DEF Counts
    <2> DEFINE f == [k \in 0..m |-> IF k < m THEN g[k] ELSE [t \in Steps |-> Left(graph, m, g, t)]]
    <2>4. \A k \in 0..(m - 1) : f[k] = g[k]
      BY <2>1
    <2>5. f[m] = [t \in Steps |-> Left(graph, m, g, t)]
      BY <2>1
    <2>6. f = [k \in 0..m |-> f[k]]
      OBVIOUS
    <2> HIDE DEF f
    <2>7. ASSUME NEW k \in 0..m, NEW t PROVE Left(graph, k, f, t) = Left(graph, k, g, t)
      <3>1. k > 0 => f[k - 1] = g[k - 1]
        BY <2>1, <2>4
      <3>2. {s \in Steps : <<s, t>> \in graph /\ (k > 0 => f[k - 1][s] # 0)}
              = {s \in Steps : <<s, t>> \in graph /\ (k > 0 => g[k - 1][s] # 0)}
        BY <3>1
      <3> QED  BY <3>2 DEF Left
    <2>8. ASSUME NEW k \in 0..m PROVE f[k] = [t \in Steps |-> Left(graph, k, f, t)]
      <3>1. CASE k = m
        BY <2>5, <2>7, <3>1
      <3>2. CASE k # m
        <4>1. k \in 0..(m - 1)
          BY <2>1, <3>2
        <4> QED  BY <2>3, <2>4, <2>7, <4>1
      <3> QED  BY <3>1, <3>2
    <2>9. Counts(graph, m, f)
      BY <2>6, <2>8 DEF Counts
    <2> QED  BY <2>9
  <1> QED  BY <1>3, <1>4

(* InDegree is that solution.                                              *)
LEMMA InDegreeUnfold ==
    ASSUME NEW graph
    PROVE  InDegree(graph) = CHOOSE f : Counts(graph, Cardinality(Steps), f)
  BY Zenon DEF InDegree, Counts, Left

(* The steps that are free at round n.                                     *)
Zero(graph, n) == {t \in Steps : InDegree(graph)[n][t] = 0}

(* A step is free at a round when its sources were free the round before.  *)
LEMMA ZeroIs ==
    ASSUME NEW graph, NEW n \in 0..Cardinality(Steps)
    PROVE  Zero(graph, n) =
             {t \in Steps : \A s \in Steps : <<s, t>> \in graph => n > 0 /\ s \in Zero(graph, n - 1)}
  <1>1. Cardinality(Steps) \in Nat
    BY StepsAssumption, FS_CardinalityType
  <1>2. PICK f : f = InDegree(graph) /\ Counts(graph, Cardinality(Steps), f)
    BY <1>1, CountsExist, InDegreeUnfold
  <1>3. f[n] = [t \in Steps |-> Left(graph, n, f, t)]
    <2>1. f = [k \in 0..Cardinality(Steps) |-> [t \in Steps |-> Left(graph, k, f, t)]]
      BY <1>2, Zenon DEF Counts
    <2> QED  BY <2>1
  <1>4. ASSUME NEW t \in Steps
        PROVE  f[n][t] = 0 <=> \A s \in Steps : <<s, t>> \in graph => n > 0 /\ s \in Zero(graph, n - 1)
    <2> DEFINE B == {s \in Steps : <<s, t>> \in graph /\ (n > 0 => f[n - 1][s] # 0)}
    <2>1. f[n][t] = Cardinality(B)
      BY <1>3 DEF Left
    <2>2. B \in SUBSET Steps
      OBVIOUS
    <2>3. B = {} <=> \A s \in Steps : <<s, t>> \in graph => n > 0 /\ s \in Zero(graph, n - 1)
      BY <1>2 DEF Zero
    <2> HIDE DEF B
    <2>4. IsFiniteSet(B)
      BY <2>2, StepsAssumption, FS_Subset
    <2>5. Cardinality(B) = 0 <=> B = {}
      BY <2>4, FS_EmptySet
    <2> QED  BY <2>1, <2>3, <2>5
  <1> QED  BY <1>2, <1>4 DEF Zero

(* A queue: what is free at its round, and was not before.                 *)
LEMMA QueueIs ==
    ASSUME NEW graph, NEW n \in Nat
    PROVE  Queue(graph, n) = {t \in Zero(graph, n) : \A m \in 0..(n - 1) : t \notin Zero(graph, m)}
  BY DEF Queue, Zero

(* A step that is free at some round joins the queue of a round no later.  *)
LEMMA FreeIsQueued ==
    ASSUME NEW graph, NEW n \in Nat, NEW t \in Zero(graph, n)
    PROVE  \E m \in 0..n : t \in Queue(graph, m)
  <1> DEFINE T == {m \in Nat : t \in Zero(graph, m)}
  <1>1. PICK m \in T : \A k \in T : m <= k
    BY Least
  <1>2. m \in Nat /\ m <= n /\ t \in Zero(graph, m) /\ \A k \in 0..(m - 1) : t \notin Zero(graph, k)
    BY <1>1
  <1>3. t \in Queue(graph, m)
    BY <1>2, QueueIs
  <1> QED  BY <1>2, <1>3

(* What is free at a round is free at the next.                            *)
LEMMA ZeroGrows ==
    ASSUME NEW graph, NEW n \in Nat, n + 1 <= Cardinality(Steps)
    PROVE  Zero(graph, n) \subseteq Zero(graph, n + 1)
  <1> DEFINE Bad == {k \in Nat : k + 1 <= Cardinality(Steps)
                                   /\ ~ (Zero(graph, k) \subseteq Zero(graph, k + 1))}
  <1>0. Cardinality(Steps) \in Nat
    BY StepsAssumption, FS_CardinalityType
  <1>1. SUFFICES ASSUME Bad # {} PROVE FALSE
    OBVIOUS
  <1>2. PICK m \in Bad : \A k \in Bad : m <= k
    BY <1>1, Least
  <1>3. PICK t \in Zero(graph, m) : t \notin Zero(graph, m + 1)
    BY <1>2
  <1>4. m \in 0..Cardinality(Steps) /\ m + 1 \in 0..Cardinality(Steps) /\ (m + 1) - 1 = m /\ m + 1 > 0
    BY <1>0, <1>2
  <1>5. t \in Steps /\ \A s \in Steps : <<s, t>> \in graph => m > 0 /\ s \in Zero(graph, m - 1)
    BY <1>3, <1>4, ZeroIs
  <1>6. PICK s \in Steps : <<s, t>> \in graph /\ s \notin Zero(graph, m)
    <2>1. Zero(graph, m + 1) = {u \in Steps : \A s \in Steps : <<s, u>> \in graph => m + 1 > 0 /\ s \in Zero(graph, m)}
      BY <1>4, ZeroIs
    <2> QED  BY <1>3, <1>4, <1>5, <2>1
  <1>7. m > 0 /\ s \in Zero(graph, m - 1)
    BY <1>5, <1>6
  <1>8. m - 1 \in Nat /\ (m - 1) + 1 = m /\ m <= Cardinality(Steps) /\ m - 1 \in Bad
    BY <1>0, <1>4, <1>6, <1>7
  <1> QED  BY <1>2, <1>8

(* ... and at all rounds after it.                                         *)
LEMMA ZeroUpTo ==
    ASSUME NEW graph, NEW n \in 0..Cardinality(Steps), NEW m \in 0..n
    PROVE  Zero(graph, m) \subseteq Zero(graph, n)
  <1> DEFINE Bad == {k \in Nat : k <= Cardinality(Steps) /\ m <= k /\ ~ (Zero(graph, m) \subseteq Zero(graph, k))}
  <1>0. Cardinality(Steps) \in Nat
    BY StepsAssumption, FS_CardinalityType
  <1>1. SUFFICES ASSUME Bad # {} PROVE FALSE
    BY <1>0
  <1>2. PICK k \in Bad : \A j \in Bad : k <= j
    BY <1>1, Least
  <1>3. k # m
    BY <1>2
  <1>4. k - 1 \in Nat /\ (k - 1) + 1 = k /\ m <= k - 1 /\ k <= Cardinality(Steps) /\ k - 1 <= Cardinality(Steps)
    BY <1>0, <1>2, <1>3
  <1>5. k - 1 \notin Bad
    BY <1>2, <1>4
  <1>6. Zero(graph, m) \subseteq Zero(graph, k - 1)
    BY <1>4, <1>5
  <1>7. Zero(graph, k - 1) \subseteq Zero(graph, k)
    <2>1. Zero(graph, k - 1) \subseteq Zero(graph, (k - 1) + 1)
      BY <1>4, ZeroGrows
    <2> QED  BY <1>4, <2>1
  <1> QED  BY <1>2, <1>6, <1>7

(* Once a queue is empty, so are those after it.                           *)
LEMMA EmptyStays ==
    ASSUME NEW graph, NEW n \in Nat, n + 1 <= Cardinality(Steps), Queue(graph, n) = {}
    PROVE  Queue(graph, n + 1) = {}
  <1>0. Cardinality(Steps) \in Nat
    BY StepsAssumption, FS_CardinalityType
  <1>1. SUFFICES ASSUME NEW t \in Queue(graph, n + 1) PROVE FALSE
    OBVIOUS
  <1>2. /\ n \in 0..Cardinality(Steps) /\ n + 1 \in 0..Cardinality(Steps) /\ (n + 1) - 1 = n
        /\ n \in 0..((n + 1) - 1) /\ n + 1 \in Nat
    BY <1>0
  <1>3. t \in Zero(graph, n + 1) /\ t \notin Zero(graph, n)
    BY <1>1, <1>2, QueueIs
  <1>4. /\ \A s \in Steps : <<s, t>> \in graph => s \in Zero(graph, n)
        /\ t \in Steps
    <2>1. Zero(graph, n + 1) = {u \in Steps : \A s \in Steps : <<s, u>> \in graph => n + 1 > 0 /\ s \in Zero(graph, n)}
      BY <1>2, ZeroIs
    <2> QED  BY <1>3, <2>1
  <1>5. PICK s \in Steps : <<s, t>> \in graph /\ ~ (n > 0 /\ s \in Zero(graph, n - 1))
    BY <1>2, <1>3, <1>4, ZeroIs
  <1>6. s \in Zero(graph, n)
    BY <1>4, <1>5
  <1>7. PICK m \in 0..n : s \in Queue(graph, m)
    BY <1>6, FreeIsQueued
  <1>8. m # n
    BY <1>7
  <1>9. m \in Nat /\ m \in 0..(n - 1) /\ n - 1 \in 0..Cardinality(Steps) /\ n > 0
    BY <1>0, <1>7, <1>8
  <1>10. s \in Zero(graph, m)
    BY <1>7, <1>9, QueueIs
  <1>11. s \in Zero(graph, n - 1)
    BY <1>9, <1>10, ZeroUpTo
  <1> QED  BY <1>5, <1>9, <1>11

(* Before a full queue all queues are full.                                *)
LEMMA FullBefore ==
    ASSUME NEW graph, NEW n \in 0..Cardinality(Steps), Queue(graph, n) # {}, NEW m \in 0..n
    PROVE  Queue(graph, m) # {}
  <1> DEFINE Bad == {k \in Nat : k <= n /\ m <= k /\ Queue(graph, k) # {}}
  <1>0. Cardinality(Steps) \in Nat
    BY StepsAssumption, FS_CardinalityType
  <1>1. n \in Bad
    BY <1>0
  <1>2. PICK k \in Bad : \A j \in Bad : k <= j
    BY <1>1, Least
  <1>3. CASE k = m
    BY <1>2, <1>3
  <1>4. CASE k # m
    <2>1. k - 1 \in Nat /\ (k - 1) + 1 = k /\ m <= k - 1 /\ k - 1 <= n /\ k <= Cardinality(Steps) /\ ~ (k <= k - 1)
      BY <1>0, <1>2, <1>4
    <2>2. Queue(graph, k - 1) = {}
      BY <1>2, <2>1
    <2>3. Queue(graph, (k - 1) + 1) = {}
      BY <2>1, <2>2, EmptyStays
    <2> QED  BY <1>2, <2>1, <2>3
  <1> QED  BY <1>3, <1>4

(* Rounds stops at the first empty queue.                                  *)
LEMMA RoundsAre ==
    ASSUME NEW graph
    PROVE  \E k \in 0..Cardinality(Steps) :
             /\ Rounds(graph) = [n \in 1..k |-> Queue(graph, n - 1)]
             /\ k = Cardinality({n \in 1..Cardinality(Steps) : Queue(graph, n - 1) # {}})
             /\ Rounds(graph) \in Seq(SUBSET Steps) /\ Len(Rounds(graph)) = k
  <1> DEFINE N == Cardinality(Steps)
             busy == {n \in 1..N : Queue(graph, n - 1) # {}}
             k == Cardinality(busy)
  <1>1. N \in Nat
    BY StepsAssumption, FS_CardinalityType
  <1>2. Rounds(graph) = [n \in 1..k |-> Queue(graph, n - 1)]
    BY DEF Rounds
  <1>3. Rounds(graph) \in Seq(SUBSET Steps)
    BY RoundsType
  <1> HIDE DEF N
  <1>4. IsFiniteSet(1..N) /\ Cardinality(1..N) = N
    BY <1>1, FS_Interval
  <1>5. busy \in SUBSET (1..N)
    OBVIOUS
  <1>6. IsFiniteSet(busy) /\ Cardinality(busy) <= N
    <2> HIDE DEF busy
    <2> QED  BY <1>4, <1>5, FS_Subset
  <1>7. k \in Nat /\ k <= N
    <2> HIDE DEF busy
    <2> QED  BY <1>6, FS_CardinalityType
  <1>8. Len(Rounds(graph)) = k
    <2> HIDE DEF k
    <2> QED  BY <1>2, <1>3, <1>7, LenProperties
  <1>9. PICK j : j = k
    OBVIOUS
  <1>10. j \in 0..N
    <2> HIDE DEF k
    <2> QED  BY <1>1, <1>7, <1>9
  <1>11. /\ Rounds(graph) = [n \in 1..j |-> Queue(graph, n - 1)]
         /\ j = Cardinality({n \in 1..N : Queue(graph, n - 1) # {}})
         /\ Len(Rounds(graph)) = j
    BY <1>2, <1>8, <1>9
  <1> QED  BY <1>3, <1>10, <1>11 DEF N

(* As many steps as there are full queues, and more.                       *)
LEMMA QueuesAreSteps ==
    ASSUME NEW graph, NEW k \in 0..Cardinality(Steps), Queue(graph, k) # {}
    PROVE  k + 1 <= Cardinality(Steps)
  <1>0. Cardinality(Steps) \in Nat
    BY StepsAssumption, FS_CardinalityType
  <1> DEFINE f == [j \in 0..k |-> CHOOSE t : t \in Queue(graph, j)]
  <1>1. \A j \in 0..k : f[j] \in Queue(graph, j)
    BY FullBefore
  <1>2. \A j \in 0..k : Queue(graph, j) \subseteq Steps
    BY DEF Queue
  <1>3. f \in [0..k -> Steps]
    BY <1>1, <1>2
  <1>4. ASSUME NEW i \in 0..k, NEW j \in 0..k, i < j PROVE f[i] # f[j]
    <2>1. i \in Nat /\ j \in Nat /\ i \in 0..(j - 1)
      BY <1>0, <1>4
    <2>2. f[i] \in Zero(graph, i) /\ f[j] \notin Zero(graph, i)
      <3> HIDE DEF f
      <3> QED  BY <1>1, <2>1, QueueIs
    <2> QED  BY <2>2
  <1>5. f \in Injection(0..k, Steps)
    <2> HIDE DEF f
    <2>1. \A i, j \in 0..k : f[i] = f[j] => i = j
      BY <1>0, <1>4
    <2> QED  BY <1>3, <2>1 DEF Injection, IsInjective
  <1>6. Cardinality(0..k) <= Cardinality(Steps)
    <2> HIDE DEF f
    <2> QED  BY <1>5, StepsAssumption, FS_Injection
  <1>7. Cardinality(0..k) = k + 1
    <2>1. 0 \in Int /\ k \in Int /\ ~ (0 > k)
      BY <1>0
    <2> QED  BY <2>1, FS_Interval
  <1> QED  BY <1>6, <1>7

(* A step that no round takes has a source that no round takes.            *)
LEMMA RestHasSources ==
    ASSUME NEW graph,
           NEW u \in Steps, \A n \in DOMAIN Rounds(graph) : u \notin Rounds(graph)[n]
    PROVE  \E s \in Steps : /\ <<s, u>> \in graph
                            /\ \A n \in DOMAIN Rounds(graph) : s \notin Rounds(graph)[n]
  <1> DEFINE N == Cardinality(Steps)
             rounds == Rounds(graph)
             busy == {n \in 1..N : Queue(graph, n - 1) # {}}
  <1>0. N \in Nat
    BY StepsAssumption, FS_CardinalityType
  <1>1. PICK k \in 0..N : rounds = [n \in 1..k |-> Queue(graph, n - 1)] /\ k = Cardinality(busy)
    BY RoundsAre
  <1> HIDE DEF rounds, N
  <1>2. SUFFICES ASSUME \A s \in Steps : <<s, u>> \in graph => \E n \in DOMAIN rounds : s \in rounds[n]
                 PROVE  FALSE
    BY DEF rounds
  <1>3. ASSUME NEW s \in Steps, <<s, u>> \in graph
        PROVE  k > 0 /\ s \in Zero(graph, k - 1)
    <2>1. PICK n \in 1..k : s \in Queue(graph, n - 1)
      BY <1>1, <1>2, <1>3
    <2>2. n - 1 \in Nat /\ k - 1 \in 0..N /\ n - 1 \in 0..(k - 1) /\ k > 0
      BY <1>0, <1>1
    <2>3. s \in Zero(graph, n - 1)
      BY <2>1, <2>2, QueueIs
    <2> QED  BY <2>2, <2>3, ZeroUpTo DEF N
  <1>4. u \in Zero(graph, k)
    <2> HIDE DEF busy
    <2> QED  BY <1>3, ZeroIs DEF N
  <1>5. k \in Nat
    BY <1>0
  <1>6. PICK m \in 0..k : u \in Queue(graph, m)
    BY <1>4, <1>5, FreeIsQueued
  <1>7. m = k
    <2> SUFFICES ASSUME m # k PROVE FALSE
      OBVIOUS
    <2>1. m + 1 \in 1..k /\ (m + 1) - 1 = m
      BY <1>5
    <2>2. u \in rounds[m + 1]
      <3> HIDE DEF busy
      <3> QED  BY <1>1, <1>6, <2>1
    <2>3. m + 1 \in DOMAIN rounds
      <3> HIDE DEF busy
      <3> QED  BY <1>1, <2>1
    <2> QED  BY <2>2, <2>3 DEF rounds
  <1>8. k + 1 <= N
    BY <1>6, <1>7, QueuesAreSteps DEF N
  <1>9. 1..(k + 1) \in SUBSET busy
    <2> SUFFICES ASSUME NEW n \in 1..(k + 1) PROVE n \in busy
      OBVIOUS
    <2>1. n \in 1..N /\ n - 1 \in 0..k
      BY <1>0, <1>5, <1>8
    <2>2. Queue(graph, n - 1) # {}
      BY <1>6, <1>7, <2>1, FullBefore DEF N
    <2> QED  BY <2>1, <2>2
  <1>10. IsFiniteSet(busy)
    <2>1. IsFiniteSet(1..N) /\ busy \in SUBSET (1..N)
      BY <1>0, FS_Interval
    <2> HIDE DEF busy
    <2> QED  BY <2>1, FS_Subset
  <1>11. Cardinality(1..(k + 1)) <= k
    <2> HIDE DEF busy
    <2> QED  BY <1>1, <1>9, <1>10, FS_Subset
  <1>12. Cardinality(1..(k + 1)) = k + 1
    <2>1. 1 \in Int /\ k + 1 \in Int /\ ~ (1 > k + 1)
      BY <1>5
    <2> QED  BY <2>1, FS_Interval
  <1> QED  BY <1>5, <1>11, <1>12

(* A step on a cycle of the graph, or behind one.                          *)
Cyclic(graph, t) == \E Z \in SUBSET Steps : t \in Z /\ \A u \in Z : \E s \in Z : <<s, u>> \in graph

(* The sources of a step are in layers before its own.                     *)
Ordered(graph, plan) ==
    \A n \in DOMAIN plan : \A t \in plan[n] : \A s \in Steps :
        <<s, t>> \in graph /\ ~ Cyclic(graph, t) => \E m \in DOMAIN plan : m < n /\ s \in plan[m]

(* The sources of a step in a round are in rounds before.                  *)
LEMMA RoundsOrdered ==
    ASSUME NEW graph, NEW n \in DOMAIN Rounds(graph), NEW t \in Rounds(graph)[n],
           NEW s \in Steps, <<s, t>> \in graph
    PROVE  \E m \in DOMAIN Rounds(graph) : m < n /\ s \in Rounds(graph)[m]
  <1>0. Cardinality(Steps) \in Nat
    BY StepsAssumption, FS_CardinalityType
  <1>1. PICK k \in 0..Cardinality(Steps) : Rounds(graph) = [j \in 1..k |-> Queue(graph, j - 1)]
    BY RoundsAre
  <1>2. n \in 1..k /\ t \in Queue(graph, n - 1)
    BY <1>1
  <1>3. n - 1 \in Nat /\ n - 1 \in 0..Cardinality(Steps) /\ k \in Nat
    BY <1>0, <1>2
  <1>4. t \in Zero(graph, n - 1)
    BY <1>2, <1>3, QueueIs
  <1>5. n - 1 > 0 /\ s \in Zero(graph, (n - 1) - 1)
    BY <1>3, <1>4, ZeroIs
  <1>6. (n - 1) - 1 \in Nat
    BY <1>3, <1>5
  <1>7. PICK m \in 0..((n - 1) - 1) : s \in Queue(graph, m)
    BY <1>5, <1>6, FreeIsQueued
  <1>8. m + 1 \in 1..k /\ m + 1 < n /\ (m + 1) - 1 = m
    BY <1>2, <1>3, <1>6
  <1> QED  BY <1>1, <1>7, <1>8

(* So it is with the layers, the one of what no round takes included.      *)
LEMMA LayersOrdered ==
    ASSUME NEW graph
    PROVE  Ordered(graph, ExecutionLayers(graph))
  <1> DEFINE rounds == Rounds(graph)
             left == Steps \ UNION {rounds[n] : n \in DOMAIN rounds}
  <1>1. ExecutionLayers(graph) =
            IF graph = {} THEN <<Steps>>
            ELSE IF left = {} THEN rounds ELSE Append(rounds, left)
    BY DEF ExecutionLayers
  <1>2. rounds \in Seq(SUBSET Steps)
    BY RoundsType
  <1>3. ASSUME NEW n \in DOMAIN rounds, NEW t \in rounds[n], NEW s \in Steps, <<s, t>> \in graph
        PROVE  \E m \in DOMAIN rounds : m < n /\ s \in rounds[m]
    BY <1>3, RoundsOrdered
  <1>4. ASSUME NEW t \in left PROVE Cyclic(graph, t)
    <2>1. \A u \in left : \E s \in left : <<s, u>> \in graph
      <3> SUFFICES ASSUME NEW u \in left PROVE \E s \in left : <<s, u>> \in graph
        OBVIOUS
      <3>1. u \in Steps /\ \A n \in DOMAIN rounds : u \notin rounds[n]
        OBVIOUS
      <3>2. PICK s \in Steps : <<s, u>> \in graph /\ \A n \in DOMAIN rounds : s \notin rounds[n]
        BY <3>1, RestHasSources
      <3> QED  BY <3>2
    <2>2. left \in SUBSET Steps
      OBVIOUS
    <2> HIDE DEF left
    <2> QED  BY <1>4, <2>1, <2>2 DEF Cyclic
  <1>5. Len(rounds) \in Nat /\ DOMAIN rounds = 1..Len(rounds)
    BY <1>2, LenProperties
  <1>6. left \in SUBSET Steps
    OBVIOUS
  <1> HIDE DEF rounds, left
  <1>7. CASE graph = {}
    BY <1>7 DEF Ordered
  <1>8. CASE graph # {} /\ left = {}
    <2>1. ExecutionLayers(graph) = rounds
      BY <1>1, <1>8
    <2> QED  BY <1>3, <2>1 DEF Ordered
  <1>9. CASE graph # {} /\ left # {}
    <2> DEFINE plan == Append(rounds, left)
    <2>1. ExecutionLayers(graph) = plan
      BY <1>1, <1>9
    <2>2. /\ DOMAIN plan = 1..(Len(rounds) + 1)
          /\ plan[Len(rounds) + 1] = left
          /\ \A n \in 1..Len(rounds) : plan[n] = rounds[n]
      BY <1>2, <1>5, <1>6, AppendProperties, LenProperties
    <2> HIDE DEF plan
    <2>3. ASSUME NEW n \in DOMAIN plan, NEW t \in plan[n], NEW s \in Steps, <<s, t>> \in graph,
                 ~ Cyclic(graph, t)
          PROVE  \E m \in DOMAIN plan : m < n /\ s \in plan[m]
      <3>1. n # Len(rounds) + 1
        BY <1>4, <2>2, <2>3
      <3>2. n \in DOMAIN rounds /\ plan[n] = rounds[n]
        BY <1>5, <2>2, <3>1
      <3>3. PICK m \in DOMAIN rounds : m < n /\ s \in rounds[m]
        BY <1>3, <2>3, <3>2
      <3>4. m \in DOMAIN plan /\ plan[m] = rounds[m]
        BY <1>5, <2>2, <3>3
      <3> QED  BY <3>3, <3>4
    <2> QED  BY <2>1, <2>3 DEF Ordered
  <1> QED  BY <1>7, <1>8, <1>9

(* A step leaves the line only when the steps it depends on are settled,   *)
(* unless it is on a cycle or behind one: for every graph. (The layers of  *)
(* buildExecutionLayers, and the loop over them.)                          *)
THEOREM SourcesSettledHolds == Spec => []SourcesSettled
  <1> DEFINE Inv == Ordered(edges, layers) /\ edges \subseteq Steps \X Steps
  <1>1. Init => Inv
    BY LayersOrdered, GraphsAssumption DEF Init
  <1>2. Inv /\ [Next]_vars => Inv'
    <2> SUFFICES ASSUME Inv, [Next]_vars PROVE Inv'
      OBVIOUS
    <2>1. UNCHANGED <<edges, layers>>
      BY DEF Next, EndLayer, Advance, EndRun, NextLayer, vars
    <2> QED  BY <2>1 DEF Ordered, Cyclic
  <1>3. IInv /\ Inv => SourcesSettled
    <2> SUFFICES ASSUME IInv, Inv, NEW e \in edges, pc[e[2]] # "waiting", ~ Unordered(e[2])
                 PROVE  pc[e[1]] = "settled"
      BY DEF SourcesSettled
    <2>1. e[1] \in Steps /\ e[2] \in Steps /\ e = <<e[1], e[2]>>
      OBVIOUS
    <2>2. PICK n \in DOMAIN layers : e[2] \in layers[n]
      BY <2>1 DEF IInv, Partition
    <2>3. ~ Cyclic(edges, e[2])
      BY DEF Unordered, Cyclic
    <2>4. PICK m \in DOMAIN layers : m < n /\ e[1] \in layers[m]
      BY <2>1, <2>2, <2>3 DEF Ordered
    <2>5. m \in Nat /\ n \in Nat /\ layer \in Nat
      BY LenProperties DEF IInv, TypeOK
    <2>6. ~ (n > layer)
      BY <2>2 DEF IInv, Turns
    <2> QED  BY <2>4, <2>5, <2>6 DEF IInv, Turns
  <1> QED  BY <1>1, <1>2, <1>3, Invariance, PTL DEF Spec
==============================================================================
