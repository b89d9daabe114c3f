-------------------------- MODULE BuildSpecRun_proofs --------------------------
(***************************************************************************)
(* Proofs about build specs, for every set of specs, every number of       *)
(* attempts and every set of faults: what a call that failed leaves        *)
(* behind, what a rollback may take, what the status of a run says, and    *)
(* which workflows go live.                                                *)
(*                                                                         *)
(* What the pipeline of a spec is (Plan) matters only for the last: the    *)
(* other proofs use only what a single step does. The handles of an        *)
(* attempt (made) cover the rows it made, and are its own; a run that has  *)
(* ended is out of reach of every worker that has not lost its job while   *)
(* it was alive.                                                           *)
(***************************************************************************)
EXTENDS BuildSpecRun, FunctionTheorems, SequenceTheorems, WellFoundedInduction, TLAPS

--------------------------------------------------------------------------------
(* The plan of a spec. The recursion of FlattenSeq is reasoned about by a  *)
(* least counterexample.                                                   *)

(* A non-empty set of numbers has a least one.                             *)
LEMMA Least ==
  ASSUME NEW T \in SUBSET Nat, T # {}
  PROVE  \E m \in T : \A n \in T : m <= n
<1>1. PICK m \in T : \A n \in T : ~ (<<n, m>> \in OpToRel(<, Nat))
  BY NatLessThanWellFounded, WFMin, T # {}
<1>2. \A n \in T : ~ (n < m)
  BY <1>1 DEF OpToRel
<1> QED
  BY <1>2

(* FlattenSeq's recursion, for the first n sequences.                      *)
Joined(s, n, f) == f = [i \in 1..n |-> IF i = 1 THEN s[i] ELSE f[i - 1] \o s[i]]

(* It has a solution, for any number of sequences.                         *)
LEMMA JoinedExists ==
  ASSUME NEW s, NEW n \in Nat
  PROVE  \E f : Joined(s, n, f)
<1> DEFINE Bad == {k \in Nat : ~ \E f : Joined(s, k, f)}
<1>1. SUFFICES ASSUME Bad # {} PROVE FALSE
  OBVIOUS
<1>2. PICK m \in Bad : \A k \in Bad : m <= k
  BY <1>1, Least
<1>3. CASE m = 0
  <2> DEFINE f == [i \in 1..0 |-> 0]
  <2>1. Joined(s, 0, f)
    BY DEF Joined
  <2> QED
    BY <1>3, <2>1
<1>4. CASE m # 0
  <2>1. m \in Nat /\ m - 1 \in Nat /\ m - 1 \notin Bad
    BY <1>2, <1>4
  <2>2. PICK g : Joined(s, m - 1, g)
    BY <2>1
  <2>3. g = [i \in 1..(m - 1) |-> IF i = 1 THEN s[i] ELSE g[i - 1] \o s[i]]
    BY <2>2, Zenon DEF Joined
  <2> DEFINE last == IF m = 1 THEN s[m] ELSE g[m - 1] \o s[m]
             f == [i \in 1..m |-> IF i < m THEN g[i] ELSE last]
  <2>4. \A i \in 1..(m - 1) : f[i] = g[i]
    BY <2>1
  <2>5. f[m] = last
    BY <2>1, <1>4
  <2>6. f = [i \in 1..m |-> f[i]]
    OBVIOUS
  <2> HIDE DEF f
  <2>7. ASSUME NEW i \in 1..m
        PROVE  f[i] = IF i = 1 THEN s[i] ELSE f[i - 1] \o s[i]
    <3>1. i # 1 => i - 1 \in 1..(m - 1) /\ f[i - 1] = g[i - 1]
      BY <2>1, <2>4
    <3>2. CASE i = m
      BY <2>5, <3>1, <3>2
    <3>3. CASE i # m
      <4>1. i \in 1..(m - 1)
        BY <2>1, <3>3
      <4>2. f[i] = g[i] /\ g[i] = IF i = 1 THEN s[i] ELSE g[i - 1] \o s[i]
        BY <2>3, <2>4, <4>1
      <4> QED
        BY <3>1, <4>2
    <3> QED
      BY <3>2, <3>3
  <2>8. Joined(s, m, f)
    BY <2>6, <2>7 DEF Joined
  <2> QED
    BY <2>8
<1> QED
  BY <1>3, <1>4

(* FlattenSeq is that solution at the last of them.                        *)
LEMMA FlattenUnfold ==
  ASSUME NEW s, Len(s) # 0
  PROVE  FlattenSeq(s) = (CHOOSE f : Joined(s, Len(s), f))[Len(s)]
BY Zenon DEF FlattenSeq, Joined

(* Sequences of S, one after the other, are a sequence of S.               *)
LEMMA FlattenType ==
  ASSUME NEW S, NEW n \in Nat, NEW s, s = [i \in 1..n |-> s[i]], \A i \in 1..n : s[i] \in Seq(S)
  PROVE  FlattenSeq(s) \in Seq(S)
<1>1. s \in Seq(Seq(S)) /\ Len(s) = n
  <2>1. [i \in 1..n |-> s[i]] \in Seq(Seq(S)) /\ Len([i \in 1..n |-> s[i]]) = n
    OBVIOUS
  <2> QED
    BY <2>1
<1>2. CASE n = 0
  <2>1. s = << >>
    BY <1>1, <1>2, EmptySeq
  <2>2. FlattenSeq(s) = << >>
    BY <1>1, <1>2, <2>1 DEF FlattenSeq
  <2> QED
    BY <2>2
<1>3. CASE n # 0
  <2>1. PICK f : Joined(s, n, f) /\ FlattenSeq(s) = f[n]
    BY <1>1, <1>3, JoinedExists, FlattenUnfold
  <2>2. \A i \in 1..n : f[i] = IF i = 1 THEN s[i] ELSE f[i - 1] \o s[i]
    <3>1. f = [i \in 1..n |-> IF i = 1 THEN s[i] ELSE f[i - 1] \o s[i]]
      BY <2>1, Zenon DEF Joined
    <3> QED
      BY <3>1
  <2> DEFINE Bad == {i \in 1..n : f[i] \notin Seq(S)}
  <2>3. Bad = {}
    <3>1. SUFFICES ASSUME Bad # {} PROVE FALSE
      OBVIOUS
    <3>2. PICK m \in Bad : \A k \in Bad : m <= k
      <4>1. Bad \in SUBSET Nat
        OBVIOUS
      <4> HIDE DEF Bad
      <4> QED
        BY <3>1, <4>1, Least
    <3>3. m # 1
      BY <2>2, <3>2
    <3>4. m - 1 \in 1..n /\ m - 1 \notin Bad
      BY <3>2, <3>3
    <3>5. f[m - 1] \in Seq(S) /\ s[m] \in Seq(S) /\ f[m] = f[m - 1] \o s[m]
      BY <2>2, <3>2, <3>3, <3>4
    <3>6. f[m] \in Seq(S)
      BY <3>5, ConcatProperties
    <3> QED
      BY <3>2, <3>6
  <2> QED
    BY <1>3, <2>1, <2>3
<1> QED
  BY <1>2, <1>3

(* The steps before the smoke tests, and all steps.                        *)
Quiet == {"ensureDefault", "project", "checkCredentials", "createGateway", "attachGateway",
          "adoptGateway", "createCatalog", "installCatalog", "findInstall", "install",
          "createWorkflow", "wireWorkflow", "createResource"}
QuietSteps == [do: Quiet, ref: Nat]
AnyStep == [do: Quiet \cup {"smokeTest", "activate"}, ref: Nat]

(* The parts of a plan.                                                    *)
LEMMA PartsAreQuiet ==
  ASSUME NEW s \in Specs
  PROVE  /\ ProjectSteps(s) \in Seq(QuietSteps) /\ GatewaySteps(s) \in Seq(QuietSteps)
         /\ PluginSteps(s) \in Seq(QuietSteps) /\ WorkflowSteps(s) \in Seq(QuietSteps)
<1>1. /\ s.gateways \in Seq({"new", "existing"}) /\ s.plugins \in Seq({"generated", "store"})
      /\ s.workflows \in Nat
  BY SpecsAssumption
<1>2. \A i \in Nat, do \in Quiet : Step(do, i) \in QuietSteps
  BY DEF Step, QuietSteps
<1>3. /\ \A x, y \in QuietSteps : <<x, y>> \in Seq(QuietSteps) /\ <<x>> \in Seq(QuietSteps)
      /\ \A w, x, y, z \in QuietSteps : <<w, x, y, z>> \in Seq(QuietSteps)
  OBVIOUS
<1>0. ProjectSteps(s) \in Seq(QuietSteps)
  <2>1. Step("ensureDefault", 0) \in QuietSteps /\ Step("project", 0) \in QuietSteps
    BY <1>2 DEF Quiet
  <2> QED
    BY <1>3, <2>1 DEF ProjectSteps
<1>4. GatewaySteps(s) \in Seq(QuietSteps)
  <2> DEFINE n == Len(s.gateways)
             part == [i \in 1..n |-> IF s.gateways[i] = "new"
                                     THEN <<Step("checkCredentials", i), Step("ensureDefault", i),
                                            Step("createGateway", i), Step("attachGateway", i)>>
                                     ELSE <<Step("adoptGateway", i)>>]
  <2>1. n \in Nat /\ DOMAIN s.gateways = 1..n
    BY <1>1, LenProperties
  <2>2. GatewaySteps(s) = FlattenSeq(part)
    BY <2>1 DEF GatewaySteps
  <2>3. part = [i \in 1..n |-> part[i]]
    OBVIOUS
  <2>4. ASSUME NEW i \in 1..n PROVE part[i] \in Seq(QuietSteps)
    <3>1. i \in Nat
      BY <2>1
    <3>2. /\ Step("checkCredentials", i) \in QuietSteps /\ Step("ensureDefault", i) \in QuietSteps
          /\ Step("createGateway", i) \in QuietSteps /\ Step("attachGateway", i) \in QuietSteps
          /\ Step("adoptGateway", i) \in QuietSteps
      BY <1>2, <3>1 DEF Quiet
    <3> QED
      BY <1>3, <3>2
  <2> HIDE DEF part, n
  <2> QED
    BY <2>1, <2>2, <2>3, <2>4, FlattenType
<1>5. PluginSteps(s) \in Seq(QuietSteps)
  <2> DEFINE n == Len(s.plugins)
             part == [i \in 1..n |-> IF s.plugins[i] = "generated"
                                     THEN <<Step("createCatalog", i), Step("installCatalog", i)>>
                                     ELSE <<Step("findInstall", i), Step("install", i)>>]
  <2>1. n \in Nat /\ DOMAIN s.plugins = 1..n
    BY <1>1, LenProperties
  <2>2. PluginSteps(s) = FlattenSeq(part)
    BY <2>1 DEF PluginSteps
  <2>3. part = [i \in 1..n |-> part[i]]
    OBVIOUS
  <2>4. ASSUME NEW i \in 1..n PROVE part[i] \in Seq(QuietSteps)
    <3>1. i \in Nat
      BY <2>1
    <3>2. /\ Step("createCatalog", i) \in QuietSteps /\ Step("installCatalog", i) \in QuietSteps
          /\ Step("findInstall", i) \in QuietSteps /\ Step("install", i) \in QuietSteps
      BY <1>2, <3>1 DEF Quiet
    <3> QED
      BY <1>3, <3>2
  <2> HIDE DEF part, n
  <2> QED
    BY <2>1, <2>2, <2>3, <2>4, FlattenType
<1>6. WorkflowSteps(s) \in Seq(QuietSteps)
  <2> DEFINE part == [i \in 1..s.workflows |-> <<Step("createWorkflow", i), Step("wireWorkflow", i)>>]
  <2>1. WorkflowSteps(s) = FlattenSeq(part)
    BY DEF WorkflowSteps
  <2>2. part = [i \in 1..s.workflows |-> part[i]]
    OBVIOUS
  <2>3. ASSUME NEW i \in 1..s.workflows PROVE part[i] \in Seq(QuietSteps)
    <3>1. i \in Nat
      BY <1>1
    <3>2. Step("createWorkflow", i) \in QuietSteps /\ Step("wireWorkflow", i) \in QuietSteps
      BY <1>2, <3>1 DEF Quiet
    <3> QED
      BY <1>3, <3>2
  <2> HIDE DEF part
  <2> QED
    BY <1>1, <2>1, <2>2, <2>3, FlattenType
<1> QED
  BY <1>0, <1>4, <1>5, <1>6

(* Every workflow is tested before any is activated.                       *)
LEMMA PlanTestsFirst ==
  ASSUME NEW s \in Specs
  PROVE  /\ Plan(s) \in Seq(AnyStep) /\ Len(Plan(s)) > 0
         /\ \A i \in DOMAIN Plan(s) : Plan(s)[i].do = "activate" =>
                \E j \in 1..(i - 1) : Plan(s)[j].do = "smokeTest"
<1> DEFINE quiet == ProjectSteps(s) \o GatewaySteps(s) \o PluginSteps(s) \o WorkflowSteps(s)
                        \o Repeat("createResource", s.resources)
           test == Step("smokeTest", 0)
           live == Repeat("activate", s.workflows)
<1>1. s.workflows \in Nat /\ s.resources \in Nat
  BY SpecsAssumption
<1>2. ProjectSteps(s) \in Seq(QuietSteps)
  BY PartsAreQuiet
<1>3. Repeat("createResource", s.resources) \in Seq(QuietSteps)
  <2>1. \A i \in 1..s.resources : Step("createResource", i) \in QuietSteps
    BY <1>1 DEF Step, QuietSteps, Quiet
  <2> QED
    BY <1>1, <2>1, IsASeq DEF Repeat
<1>4. quiet \in Seq(QuietSteps)
  BY <1>2, <1>3, PartsAreQuiet, ConcatProperties
<1>5. test \in AnyStep /\ test.do = "smokeTest"
  BY DEF Step, AnyStep
<1>6. live \in Seq(AnyStep)
  <2>1. \A i \in 1..s.workflows : Step("activate", i) \in AnyStep
    BY <1>1 DEF Step, AnyStep
  <2> QED
    BY <1>1, <2>1, IsASeq DEF Repeat
<1>7. Plan(s) = (quiet \o <<test>>) \o live
  BY DEF Plan
<1> HIDE DEF quiet, test, live
<1>8. QuietSteps \subseteq AnyStep /\ \A x \in QuietSteps : x.do # "activate"
  BY DEF QuietSteps, AnyStep, Quiet
<1>9. quiet \in Seq(AnyStep)
  BY <1>4, <1>8, SeqMonotonic
<1>10. <<test>> \in Seq(AnyStep) /\ Len(<<test>>) = 1 /\ <<test>>[1] = test
  BY <1>5
<1> DEFINE n == Len(quiet)
           tested == quiet \o <<test>>
<1>11. n \in Nat /\ DOMAIN quiet = 1..n /\ \A i \in 1..n : quiet[i] \in QuietSteps
  BY <1>4, LenProperties, ElementOfSeq
<1>12. /\ tested \in Seq(AnyStep) /\ Len(tested) = n + 1
       /\ \A i \in 1..(n + 1) : tested[i] = IF i <= n THEN quiet[i] ELSE <<test>>[i - n]
  BY <1>9, <1>10, ConcatProperties
<1>13. Plan(s) = tested \o live
  BY <1>7
<1> HIDE DEF n, tested
<1>14. Len(live) \in Nat
  BY <1>6, LenProperties
<1>15. /\ Plan(s) \in Seq(AnyStep) /\ Len(Plan(s)) = n + 1 + Len(live)
       /\ \A i \in 1..(n + 1 + Len(live)) :
            Plan(s)[i] = IF i <= n + 1 THEN tested[i] ELSE live[i - (n + 1)]
  <2>1. Plan(s) \in Seq(AnyStep) /\ Len(Plan(s)) = Len(tested) + Len(live)
        /\ \A i \in 1..(Len(tested) + Len(live)) :
             Plan(s)[i] = IF i <= Len(tested) THEN tested[i] ELSE live[i - Len(tested)]
    BY <1>6, <1>12, <1>13, ConcatProperties
  <2> QED
    BY <1>12, <2>1
<1>16. Plan(s)[n + 1].do = "smokeTest"
  <2>1. n + 1 \in 1..(n + 1) /\ n + 1 \in 1..(n + 1 + Len(live)) /\ ~ (n + 1 <= n) /\ (n + 1) - n = 1
    BY <1>11, <1>14
  <2> QED
    BY <1>5, <1>10, <1>12, <1>15, <2>1
<1>17. ASSUME NEW i \in DOMAIN Plan(s), Plan(s)[i].do = "activate"
       PROVE  \E j \in 1..(i - 1) : Plan(s)[j].do = "smokeTest"
  <2>1. i \in 1..(n + 1 + Len(live))
    BY <1>15, LenProperties
  <2>2. CASE i <= n
    <3>1. Plan(s)[i] = quiet[i] /\ i \in 1..n
      BY <1>11, <1>12, <1>14, <1>15, <2>1, <2>2
    <3> QED
      BY <1>8, <1>11, <1>17, <3>1
  <2>3. CASE i = n + 1
    BY <1>16, <1>17, <2>3
  <2>4. CASE i > n + 1
    <3>1. n + 1 \in 1..(i - 1)
      BY <1>11, <1>14, <2>1, <2>4
    <3> QED
      BY <1>16, <3>1
  <2> QED
    BY <1>11, <1>14, <2>1, <2>2, <2>3, <2>4
<1> QED
  BY <1>11, <1>14, <1>15, <1>17

--------------------------------------------------------------------------------
(* The invariants                                                          *)

(* Every row that may come to exist: the user's and the attempts'.         *)
RefsOf(s) == {Plans[s][n].ref : n \in DOMAIN Plans[s]} \cup {0, 1}
AllRows(s) == UserRows(s) \cup {Row(k, n, a) : k \in Kinds, n \in RefsOf(s), a \in Attempts}

TryOf(rows) ==
    [pc: Pcs, at: Nat, made: SUBSET rows, seen: rows \cup {None}, tested: BOOLEAN,
     why: {"none", "smoke", "error"}, end: Ends, hurt: BOOLEAN]

Shape ==
    /\ try \in [Attempts -> TryOf(AllRows(spec))]
    /\ DOMAIN db \subseteq AllRows(spec)

(* The outcome of an attempt: it has one when it has ended, and but for a  *)
(* fault an attempt that did not apply has no handle left.                 *)
Outcome(t) ==
    /\ t.pc = "ended" <=> t.end # "none"
    /\ t.pc = "idle" => t.made = {}
    /\ t.end \notin {"none", "applied"} => t.made = {} \/ t.hurt

(* The handles of an attempt: its own rows, all of them but for a default  *)
(* project unless a fault struck, and never a project when the spec names  *)
(* the user's.                                                             *)
Handles(a) ==
    /\ \A r \in try[a].made : r.by = a /\ (spec.ownProject => r.kind # "project")
    /\ ~try[a].hurt => \A r \in DOMAIN db : r.by = a => r \in try[a].made \cup {DefaultBy(a)}

UserKept == spec.ownProject => UserRows(spec) \subseteq DOMAIN db

(* As long as an attempt is alone, what it made is there until it rolls    *)
(* back.                                                                   *)
GoesOn(t) == t.pc = "apply" \/ t.end = "applied"
Only(a) == \A b \in Attempts \ {a} : try[b] = Untried
Complete(a) == Only(a) /\ GoesOn(try[a]) => try[a].made \subseteq DOMAIN db

ApplyInv ==
    /\ Shape
    /\ \A a \in Attempts : Outcome(try[a]) /\ Handles(a) /\ Complete(a)
    /\ UserKept

(* Where workers stand: one that is at work has the job of a run that has  *)
(* not ended, and an attempt is under way only under its worker.           *)
AtWork == {"marking", "applying", "failing"}
WorkerInv ==
    /\ worker \in [Attempts -> WorkerPcs]
    /\ job \in [state: JobStates, by: Attempts \cup {None}, stalls: Nat]
    /\ \A a \in Attempts :
          /\ ~overlap /\ worker[a] \in AtWork => Holds(a) /\ run \notin Ended
          /\ try[a].pc \in {"apply", "undo"} => worker[a] \in {"applying", "dead"}
          /\ worker[a] = "failing" => try[a].hurt

(* An outcome of the run is the outcome of an attempt.                     *)
StatusInv ==
    /\ run \in Statuses
    /\ run = "APPLIED" => \E a \in Attempts : try[a].end = "applied"
    /\ run = "ROLLED_BACK" => \E a \in Attempts : try[a].end = "rolled-back"
    /\ run = "VALIDATION_FAILED" => \E a \in Attempts : try[a].end = "validation-failed"
    /\ run = "FAILED" => \E a \in Attempts : try[a].end = "threw" \/ try[a].hurt

(* Where an attempt is in its plan, and what it has behind it: with the    *)
(* smoke tests behind it, it passed them or keeps a failure.               *)
Placed(t) ==
    t.pc = "apply" =>
        /\ t.at \in DOMAIN Plans[spec]
        /\ (\E j \in 1..(t.at - 1) : Plans[spec][j].do = "smokeTest") => t.tested \/ spec.keepOnFailure
LiveInv ==
    /\ spec \in Specs
    /\ \A a \in Attempts : Placed(try[a])
    /\ \A w \in active : w.by \in Attempts /\ (try[w.by].tested \/ spec.keepOnFailure)

IInv == ApplyInv /\ WorkerInv /\ StatusInv

-------------------------------------------------------------------------------
(* A step of an attempt                                                    *)

(* What a step of attempt a makes of the rows, t being where it then is:   *)
(* a row of its own is added, with a handle unless a fault strikes or it   *)
(* is a default project; no row comes or goes; or rows go that it has      *)
(* handles of, and with a project what is in it.                           *)
Grows(a, t) ==
    \E r \in AllRows(spec) :
        /\ r.by = a
        /\ DOMAIN db' = DOMAIN db \cup {r}
        /\ \/ t.made = try[a].made \cup {r} /\ (spec.ownProject => r.kind # "project")
           \/ t.made = try[a].made /\ t.hurt /\ ~GoesOn(t)
           \/ t.made = try[a].made /\ r = DefaultBy(a)
Stays(a, t) ==
    /\ DOMAIN db' = DOMAIN db
    /\ t.made = try[a].made \/ (t.made = {} /\ t.hurt)
Shrinks(a, t) ==
    /\ ~GoesOn(t)
    /\ \E gone \in SUBSET try[a].made :
          /\ t.made = try[a].made \ gone
          /\ DOMAIN db' = DOMAIN db \ Taken(gone)

Moved(a, t) ==
    /\ spec' = spec
    /\ try' = [try EXCEPT ![a] = t]
    /\ t \in TryOf(AllRows(spec))
    /\ Outcome(t) /\ t.pc \in {"apply", "undo", "ended"}
    /\ try[a].hurt => t.hurt
    /\ GoesOn(t) => GoesOn(try[a])
    /\ Grows(a, t) \/ Stays(a, t) \/ Shrinks(a, t)

(* Advance goes on or applies, with the same handles.                      *)
LEMMA AdvanceFacts ==
  ASSUME NEW a \in Attempts, NEW M, try[a] \in TryOf(M), try[a].pc = "apply", Outcome(try[a])
  PROVE  /\ Advance(a) \in TryOf(M)
         /\ Advance(a).made = try[a].made /\ Advance(a).hurt = try[a].hurt
         /\ Advance(a).seen = try[a].seen
         /\ Advance(a).pc \in {"apply", "ended"}
         /\ Advance(a).pc = "ended" <=> Advance(a).end # "none"
         /\ Advance(a).end \in {"none", "applied"}
<1>1. try[a].at + 1 \in Nat /\ try[a].end = "none"
  BY DEF TryOf, Outcome
<1>2. [try[a] EXCEPT !.at = @ + 1] \in TryOf(M)
  BY <1>1 DEF TryOf
<1>3. [try[a] EXCEPT !.pc = "ended", !.end = "applied"] \in TryOf(M)
  BY DEF TryOf, Pcs, Ends
<1> QED
  BY <1>1, <1>2, <1>3 DEF Advance, TryOf

(* Unwind keeps the handles, and ends only when there are none.            *)
LEMMA UnwindFacts ==
  ASSUME NEW M, NEW t \in TryOf(M), t.end = "none", NEW why \in {"none", "smoke", "error"}
  PROVE  /\ Unwind(t, why) \in TryOf(M)
         /\ Unwind(t, why).made = t.made /\ Unwind(t, why).hurt = t.hurt
         /\ Outcome(Unwind(t, why)) /\ Unwind(t, why).pc \in {"undo", "ended"}
         /\ ~GoesOn(Unwind(t, why))
<1>1. [t EXCEPT !.pc = "undo", !.why = why] \in TryOf(M)
  BY DEF TryOf, Pcs
<1>2. [t EXCEPT !.pc = "ended", !.why = why,
              !.end = IF why = "smoke" THEN "rolled-back" ELSE "threw"] \in TryOf(M)
  BY DEF TryOf, Pcs, Ends
<1> QED
  BY <1>1, <1>2 DEF Unwind, TryOf, Outcome, GoesOn

(* A statement that makes a row moves its attempt.                         *)
LEMMA CreateMoves ==
  ASSUME NEW a \in Attempts, Shape, Outcome(try[a]), try[a].pc = "apply",
         NEW r \in AllRows(spec), NEW project, r.by = a, spec.ownProject => r.kind # "project",
         Create(a, r, project)
  PROVE  \E t : Moved(a, t)
<1> DEFINE M == AllRows(spec)
           kept == [Advance(a) EXCEPT !.made = @ \cup {r}, !.seen = None]
           hurt == [try[a] EXCEPT !.hurt = TRUE]
           lost == Unwind(hurt, "error")
<1>1. try[a] \in TryOf(M)
  BY DEF Shape
<1>2. DOMAIN db' = DOMAIN db \cup {r} /\ spec' = spec
  BY DEF Create, Insert
<1>3. CASE Become(a, kept)
  <2>1. /\ Advance(a) \in TryOf(M) /\ Advance(a).made = try[a].made
        /\ Advance(a).hurt = try[a].hurt /\ Advance(a).pc \in {"apply", "ended"}
        /\ Advance(a).pc = "ended" <=> Advance(a).end # "none"
        /\ Advance(a).end \in {"none", "applied"}
    BY <1>1, AdvanceFacts
  <2>2. kept \in TryOf(M) /\ kept.made = try[a].made \cup {r} /\ kept.hurt = try[a].hurt
        /\ kept.pc = Advance(a).pc /\ kept.end = Advance(a).end
    <3> HIDE DEF M
    <3>1. M = AllRows(spec)
      BY DEF M
    <3> QED
      BY <2>1, <3>1 DEF TryOf
  <2> HIDE DEF kept
  <2>3. Outcome(kept) /\ kept.pc \in {"apply", "undo", "ended"}
    BY <2>1, <2>2 DEF Outcome
  <2>4. Moved(a, kept)
    BY <1>2, <1>3, <2>2, <2>3 DEF Moved, Become, Grows, GoesOn
  <2> QED
    BY <2>4
<1>4. CASE Become(a, lost)
  <2>1. hurt \in TryOf(M) /\ hurt.end = "none" /\ hurt.made = try[a].made /\ hurt.hurt = TRUE
    BY <1>1 DEF TryOf, Outcome
  <2>2. /\ lost \in TryOf(M) /\ lost.made = hurt.made /\ lost.hurt = hurt.hurt
        /\ Outcome(lost) /\ lost.pc \in {"undo", "ended"} /\ ~GoesOn(lost)
    <3> HIDE DEF hurt
    <3> QED
      BY <2>1, UnwindFacts DEF lost
  <2> HIDE DEF lost, hurt
  <2>3. Moved(a, lost)
    BY <1>2, <1>4, <2>1, <2>2 DEF Moved, Become, Grows
  <2> QED
    BY <2>3
<1> QED
  BY <1>3, <1>4 DEF Create

(* A statement that makes no row and goes on moves its attempt.            *)
LEMMA GoingOnMoves ==
  ASSUME NEW a \in Attempts, Shape, Outcome(try[a]), try[a].pc = "apply",
         NEW t, Become(a, t), DOMAIN db' = DOMAIN db, spec' = spec,
         t \in TryOf(AllRows(spec)), t.made = try[a].made, t.hurt = try[a].hurt,
         t.pc = Advance(a).pc, t.end = Advance(a).end
  PROVE  Moved(a, t)
<1>1. try[a] \in TryOf(AllRows(spec))
  BY DEF Shape
<1>2. /\ Advance(a).pc \in {"apply", "ended"}
      /\ Advance(a).pc = "ended" <=> Advance(a).end # "none"
      /\ Advance(a).end \in {"none", "applied"}
  BY <1>1, AdvanceFacts
<1> QED
  BY <1>2 DEF Moved, Become, Stays, Outcome, GoesOn

(* A rollback that begins, or is not needed, moves its attempt.            *)
LEMMA UnwindingMoves ==
  ASSUME NEW a \in Attempts, Shape, NEW t \in TryOf(AllRows(spec)), t.end = "none",
         NEW why \in {"none", "smoke", "error"}, Become(a, Unwind(t, why)),
         DOMAIN db' = DOMAIN db, spec' = spec,
         t.made = try[a].made \/ (t.made = {} /\ t.hurt), try[a].hurt => t.hurt
  PROVE  Moved(a, Unwind(t, why))
<1>1. /\ Unwind(t, why) \in TryOf(AllRows(spec))
      /\ Unwind(t, why).made = t.made /\ Unwind(t, why).hurt = t.hurt
      /\ Outcome(Unwind(t, why)) /\ Unwind(t, why).pc \in {"undo", "ended"}
      /\ ~GoesOn(Unwind(t, why))
  BY UnwindFacts
<1> QED
  BY <1>1 DEF Moved, Become, Stays

LEMMA OwnRow ==
  ASSUME NEW a \in Attempts, Placed(try[a]), try[a].pc = "apply", NEW k \in Kinds
  PROVE  /\ Row(k, Now(a).ref, a) \in AllRows(spec) /\ Row(k, 0, a) \in AllRows(spec)
         /\ \A n : Row(k, n, a).by = a /\ Row(k, n, a).kind = k
<1>1. try[a].at \in DOMAIN Plans[spec]
  BY DEF Placed
<1>2. Now(a).ref \in RefsOf(spec) /\ 0 \in RefsOf(spec)
  BY <1>1 DEF Now, RefsOf
<1> QED
  BY <1>2 DEF AllRows, Row

LEMMA MoveMoves ==
  ASSUME NEW a \in Attempts, Shape, Outcome(try[a]), try[a].pc = "apply", NEW r, Move(a, r)
  PROVE  \E t : Moved(a, t)
<1> DEFINE t == [Advance(a) EXCEPT !.seen = None]
<1>1. try[a] \in TryOf(AllRows(spec))
  BY DEF Shape
<1>2. /\ Advance(a) \in TryOf(AllRows(spec)) /\ Advance(a).made = try[a].made
      /\ Advance(a).hurt = try[a].hurt
  BY <1>1, AdvanceFacts
<1>3. /\ t \in TryOf(AllRows(spec)) /\ t.made = try[a].made /\ t.hurt = try[a].hurt
      /\ t.pc = Advance(a).pc /\ t.end = Advance(a).end
  BY <1>2 DEF TryOf
<1>4. Become(a, t) /\ DOMAIN db' = DOMAIN db /\ spec' = spec
  BY DEF Move, MoveTo
<1> HIDE DEF t
<1> QED
  BY <1>3, <1>4, GoingOnMoves

LEMMA PlainMoves ==
  ASSUME NEW a \in Attempts, Shape, Outcome(try[a]), try[a].pc = "apply",
         Become(a, Advance(a)), DOMAIN db' = DOMAIN db, spec' = spec
  PROVE  \E t : Moved(a, t)
<1>1. try[a] \in TryOf(AllRows(spec))
  BY DEF Shape
<1>2. /\ Advance(a) \in TryOf(AllRows(spec)) /\ Advance(a).made = try[a].made
      /\ Advance(a).hurt = try[a].hurt
  BY <1>1, AdvanceFacts
<1> QED
  BY <1>2, GoingOnMoves

LEMMA FindInstallMoves ==
  ASSUME NEW a \in Attempts, Shape, Outcome(try[a]), FindInstall(a)
  PROVE  \E t : Moved(a, t)
<1>1. PICK r \in AllRows(spec) \cup {None} : Become(a, [Advance(a) EXCEPT !.seen = r])
  BY DEF FindInstall, InstallsOf, Shape
<1> DEFINE t == [Advance(a) EXCEPT !.seen = r]
<1>2. try[a].pc = "apply" /\ DOMAIN db' = DOMAIN db /\ spec' = spec
  BY DEF FindInstall, At
<1>3. /\ Advance(a) \in TryOf(AllRows(spec)) /\ Advance(a).made = try[a].made
      /\ Advance(a).hurt = try[a].hurt
  BY <1>2, AdvanceFacts DEF Shape
<1>4. /\ t \in TryOf(AllRows(spec)) /\ t.made = try[a].made /\ t.hurt = try[a].hurt
      /\ t.pc = Advance(a).pc /\ t.end = Advance(a).end
  BY <1>3 DEF TryOf
<1> HIDE DEF t
<1>5. Become(a, t)
  BY <1>1 DEF t
<1> QED
  BY <1>2, <1>4, <1>5, GoingOnMoves

(* A default project is a row that may come to exist.                      *)
LEMMA DefaultRow ==
  ASSUME NEW a \in Attempts
  PROVE  DefaultBy(a) \in AllRows(spec) /\ DefaultBy(a).by = a
BY DEF DefaultBy, AllRows, RefsOf, Row, Kinds

(* A project that is found is remembered.                                  *)
LEMMA SeesMoves ==
  ASSUME NEW a \in Attempts, Shape, Outcome(try[a]), try[a].pc = "apply",
         NEW p \in DOMAIN db, Become(a, [Advance(a) EXCEPT !.seen = p]),
         DOMAIN db' = DOMAIN db, spec' = spec
  PROVE  \E t : Moved(a, t)
<1> DEFINE t == [Advance(a) EXCEPT !.seen = p]
<1>1. try[a] \in TryOf(AllRows(spec)) /\ p \in AllRows(spec)
  BY DEF Shape
<1>2. /\ Advance(a) \in TryOf(AllRows(spec)) /\ Advance(a).made = try[a].made
      /\ Advance(a).hurt = try[a].hurt
  BY <1>1, AdvanceFacts
<1>3. /\ t \in TryOf(AllRows(spec)) /\ t.made = try[a].made /\ t.hurt = try[a].hurt
      /\ t.pc = Advance(a).pc /\ t.end = Advance(a).end
  BY <1>1, <1>2 DEF TryOf
<1>4. Become(a, t)
  OBVIOUS
<1> HIDE DEF t
<1> QED
  BY <1>3, <1>4, GoingOnMoves

LEMMA FindDefaultMoves ==
  ASSUME NEW a \in Attempts, Shape, Outcome(try[a]), FindDefault(a)
  PROVE  \E t : Moved(a, t)
<1>1. try[a].pc = "apply" /\ db' = db /\ spec' = spec
  BY DEF FindDefault, At
<1>2. CASE Become(a, [try[a] EXCEPT !.seen = DefaultBy(a)])
  <2> DEFINE t == [try[a] EXCEPT !.seen = DefaultBy(a)]
  <2>1. try[a] \in TryOf(AllRows(spec)) /\ DefaultBy(a) \in AllRows(spec)
    BY DefaultRow DEF Shape
  <2>2. /\ t \in TryOf(AllRows(spec)) /\ t.made = try[a].made /\ t.hurt = try[a].hurt
        /\ t.pc = try[a].pc /\ t.end = try[a].end
    BY <2>1 DEF TryOf
  <2>3. Become(a, t)
    BY <1>2
  <2> HIDE DEF t
  <2>4. Outcome(t) /\ Stays(a, t) /\ (GoesOn(t) => GoesOn(try[a]))
    BY <1>1, <2>2 DEF Outcome, Stays, GoesOn
  <2> QED
    BY <1>1, <2>2, <2>3, <2>4 DEF Moved, Become
<1>3. CASE \E p \in DefaultProjects : Become(a, [Advance(a) EXCEPT !.seen = p])
  BY <1>1, <1>3, SeesMoves DEF DefaultProjects
<1> QED
  BY <1>2, <1>3 DEF FindDefault

(* The default project is made, with its answer or without, or another is  *)
(* found.                                                                  *)
LEMMA MakeDefaultMoves ==
  ASSUME NEW a \in Attempts, Shape, Outcome(try[a]), MakeDefault(a)
  PROVE  \E t : Moved(a, t)
<1>1. try[a].pc = "apply" /\ spec' = spec /\ try[a] \in TryOf(AllRows(spec))
  BY DEF MakeDefault, At, Shape
<1> DEFINE r == DefaultBy(a)
           hurt == [try[a] EXCEPT !.hurt = TRUE]
           lost == Unwind(hurt, "error")
<1>2. r \in AllRows(spec) /\ r.by = a /\ r = DefaultBy(a)
  BY DefaultRow
<1> HIDE DEF r
<1>3. CASE db' = Insert(r, r) /\ Become(a, Advance(a))
  <2>1. DOMAIN db' = DOMAIN db \cup {r}
    BY <1>3 DEF Insert
  <2>2. /\ Advance(a) \in TryOf(AllRows(spec)) /\ Advance(a).made = try[a].made
        /\ Advance(a).hurt = try[a].hurt /\ Advance(a).pc \in {"apply", "ended"}
        /\ Advance(a).pc = "ended" <=> Advance(a).end # "none"
        /\ Advance(a).end \in {"none", "applied"}
    BY <1>1, AdvanceFacts
  <2>3. Grows(a, Advance(a))
    BY <1>2, <2>1, <2>2 DEF Grows
  <2>4. Outcome(Advance(a)) /\ GoesOn(try[a])
    BY <1>1, <2>2 DEF Outcome, GoesOn
  <2> QED
    BY <1>1, <1>3, <2>2, <2>3, <2>4 DEF Moved, Become
<1>4. CASE db' = Insert(r, r) /\ Become(a, lost)
  <2>1. DOMAIN db' = DOMAIN db \cup {r}
    BY <1>4 DEF Insert
  <2>2. /\ hurt \in TryOf(AllRows(spec)) /\ hurt.end = "none" /\ hurt.made = try[a].made
        /\ hurt.hurt = TRUE
    BY <1>1 DEF TryOf, Outcome
  <2>3. /\ lost \in TryOf(AllRows(spec)) /\ lost.made = hurt.made /\ lost.hurt = hurt.hurt
        /\ Outcome(lost) /\ lost.pc \in {"undo", "ended"} /\ ~GoesOn(lost)
    <3> HIDE DEF hurt
    <3> QED
      BY <2>2, UnwindFacts DEF lost
  <2> HIDE DEF lost, hurt
  <2>4. Grows(a, lost)
    BY <1>2, <2>1, <2>2, <2>3 DEF Grows
  <2> QED
    BY <1>1, <1>4, <2>2, <2>3, <2>4 DEF Moved, Become
<1>5. CASE db' = db /\ \E p \in DefaultProjects : Become(a, [Advance(a) EXCEPT !.seen = p])
  BY <1>1, <1>5, SeesMoves DEF DefaultProjects
<1> QED
  BY <1>3, <1>4, <1>5 DEF MakeDefault, r, lost, hurt

LEMMA SmokeTestMoves ==
  ASSUME NEW a \in Attempts, Shape, Outcome(try[a]), SmokeTest(a)
  PROVE  \E t : Moved(a, t)
<1>1. try[a].pc = "apply" /\ DOMAIN db' = DOMAIN db /\ spec' = spec
  BY DEF SmokeTest, At
<1>2. try[a] \in TryOf(AllRows(spec)) /\ try[a].end = "none"
  BY <1>1 DEF Shape, TryOf, Outcome
<1>3. CASE Become(a, Advance(a))
  BY <1>1, <1>3, PlainMoves
<1>4. CASE Become(a, Unwind(try[a], "smoke"))
  BY <1>1, <1>2, <1>4, UnwindingMoves
<1>5. CASE Become(a, [Advance(a) EXCEPT !.tested = TRUE])
  <2> DEFINE t == [Advance(a) EXCEPT !.tested = TRUE]
  <2>1. /\ Advance(a) \in TryOf(AllRows(spec)) /\ Advance(a).made = try[a].made
        /\ Advance(a).hurt = try[a].hurt
    BY <1>1, <1>2, AdvanceFacts
  <2>2. /\ t \in TryOf(AllRows(spec)) /\ t.made = try[a].made /\ t.hurt = try[a].hurt
        /\ t.pc = Advance(a).pc /\ t.end = Advance(a).end
    BY <2>1 DEF TryOf
  <2> HIDE DEF t
  <2>3. Become(a, t)
    BY <1>5 DEF t
  <2> QED
    BY <1>1, <2>2, <2>3, GoingOnMoves
<1> QED
  BY <1>3, <1>4, <1>5 DEF SmokeTest

(* One statement of the rollback.                                          *)
LEMMA UndoStageMoves ==
  ASSUME NEW a \in Attempts, Shape, Outcome(try[a]), UndoStage(a)
  PROVE  \E t : Moved(a, t)
<1> DEFINE left == [try[a] EXCEPT !.made = @ \ Doomed(a)]
           t == Unwind(left, try[a].why)
<1>1. /\ try[a] \in TryOf(AllRows(spec)) /\ try[a].end = "none"
      /\ try[a].why \in {"none", "smoke", "error"}
  BY DEF UndoStage, Shape, TryOf, Outcome
<1>2. /\ left \in TryOf(AllRows(spec)) /\ left.end = "none"
      /\ left.made = try[a].made \ Doomed(a) /\ left.hurt = try[a].hurt
  BY <1>1 DEF TryOf
<1>3. /\ t \in TryOf(AllRows(spec)) /\ t.made = try[a].made \ Doomed(a) /\ t.hurt = try[a].hurt
      /\ Outcome(t) /\ t.pc \in {"undo", "ended"} /\ ~GoesOn(t)
  <2> HIDE DEF left
  <2> QED
    BY <1>1, <1>2, UnwindFacts
<1>4. /\ Become(a, t) /\ spec' = spec
      /\ DOMAIN db' = DOMAIN db \ Taken(Doomed(a)) /\ Doomed(a) \in SUBSET try[a].made
  <2>1. Doomed(a) \in SUBSET try[a].made
    BY DEF Doomed
  <2> QED
    BY <2>1 DEF UndoStage, Without
<1> HIDE DEF t, left
<1>5. Shrinks(a, t)
  BY <1>3, <1>4 DEF Shrinks
<1> QED
  BY <1>3, <1>4, <1>5 DEF Moved, Become

LEMMA UndoThrowsMoves ==
  ASSUME NEW a \in Attempts, Shape, Outcome(try[a]), UndoThrows(a)
  PROVE  \E t : Moved(a, t)
<1> DEFINE hurt == [try[a] EXCEPT !.hurt = TRUE]
           bare == [hurt EXCEPT !.made = {}]
           threw == [hurt EXCEPT !.pc = "ended", !.end = "threw"]
<1>1. /\ try[a] \in TryOf(AllRows(spec)) /\ try[a].end = "none"
      /\ try[a].why \in {"none", "smoke", "error"}
      /\ DOMAIN db' = DOMAIN db /\ spec' = spec
  BY DEF UndoThrows, Shape, TryOf, Outcome
<1>2. hurt \in TryOf(AllRows(spec)) /\ hurt.made = try[a].made /\ hurt.hurt = TRUE /\ hurt.end = "none"
  BY <1>1 DEF TryOf
<1>3. bare \in TryOf(AllRows(spec)) /\ bare.made = {} /\ bare.hurt = TRUE /\ bare.end = "none"
  BY <1>2 DEF TryOf
<1>4. /\ threw \in TryOf(AllRows(spec)) /\ threw.made = try[a].made /\ threw.hurt = TRUE
      /\ threw.end = "threw" /\ threw.pc = "ended"
  BY <1>2 DEF TryOf, Pcs, Ends
<1>5. \/ Become(a, Unwind(bare, try[a].why))
      \/ Become(a, Unwind(try[a], "error"))
      \/ Become(a, threw)
  BY DEF UndoThrows
<1> HIDE DEF bare, threw
<1>6. CASE Become(a, Unwind(bare, try[a].why))
  BY <1>1, <1>3, <1>6, UnwindingMoves
<1>7. CASE Become(a, Unwind(try[a], "error"))
  BY <1>1, <1>7, UnwindingMoves
<1>8. CASE Become(a, threw)
  <2>1. Outcome(threw) /\ ~GoesOn(threw)
    BY <1>4 DEF Outcome, GoesOn
  <2> QED
    BY <1>1, <1>4, <1>8, <2>1 DEF Moved, Become, Stays
<1> QED
  BY <1>5, <1>6, <1>7, <1>8

(* Every step of applyBuildSpec.                                           *)
LEMMA ApplyStepMoves ==
  ASSUME NEW a \in Attempts, Shape, Outcome(try[a]), Placed(try[a]), ApplyStep(a)
  PROVE  \E t : Moved(a, t)
<1> DEFINE own(k) == Row(k, Now(a).ref, a)
<1>0. try[a].pc = "apply" =>
        \A k \in Kinds : /\ own(k) \in AllRows(spec) /\ Row(k, 0, a) \in AllRows(spec)
                         /\ own(k).by = a /\ own(k).kind = k
                         /\ Row(k, 0, a).by = a
  BY OwnRow
<1>1. {"project", "gateway", "catalog", "install", "workflow", "resource"} = Kinds
  BY DEF Kinds
<1>2. CASE ResolveProject(a)
  <2>1. try[a].pc = "apply"
    BY <1>2 DEF ResolveProject, At
  <2>2. CASE spec.ownProject
    BY <1>2, <2>1, <2>2, PlainMoves DEF ResolveProject
  <2>3. CASE ~spec.ownProject
    <3>1. Create(a, Row("project", 0, a), ProjectOf(a))
      BY <1>2, <2>3 DEF ResolveProject, ProjectOf
    <3> QED
      BY <1>0, <1>1, <2>1, <2>3, <3>1, CreateMoves
  <2> QED
    BY <2>2, <2>3
<1>3. CASE CreateGateway(a)
  <2>1. try[a].pc = "apply" /\ Create(a, own("gateway"), try[a].seen)
    BY <1>3 DEF CreateGateway, At
  <2> HIDE DEF own
  <2> QED
    BY <1>0, <1>1, <2>1, CreateMoves
<1>4. CASE AttachGateway(a) \/ AdoptGateway(a)
  <2>1. try[a].pc = "apply" /\ \E r : Move(a, r)
    BY <1>4 DEF AttachGateway, AdoptGateway, At
  <2> QED
    BY <2>1, MoveMoves
<1>5. CASE FindInstall(a)
  BY <1>5, FindInstallMoves
<1>6. CASE Install(a)
  <2>1. try[a].pc = "apply"
    BY <1>6 DEF Install, At
  <2>2. Move(a, try[a].seen) \/ Create(a, own("install"), ProjectOf(a))
    BY <1>6 DEF Install
  <2> HIDE DEF own
  <2> QED
    BY <1>0, <1>1, <2>1, <2>2, CreateMoves, MoveMoves
<1>7. CASE CreateCatalog(a)
  <2>1. try[a].pc = "apply" /\ Create(a, own("catalog"), own("catalog"))
    BY <1>7 DEF CreateCatalog, At
  <2> HIDE DEF own
  <2> QED
    BY <1>0, <1>1, <2>1, CreateMoves
<1>8. CASE InstallCatalog(a)
  <2>1. try[a].pc = "apply" /\ Create(a, own("install"), ProjectOf(a))
    BY <1>8 DEF InstallCatalog, At
  <2> HIDE DEF own
  <2> QED
    BY <1>0, <1>1, <2>1, CreateMoves
<1>9. CASE CreateWorkflow(a)
  <2>1. try[a].pc = "apply" /\ Create(a, own("workflow"), ProjectOf(a))
    BY <1>9 DEF CreateWorkflow, At
  <2> HIDE DEF own
  <2> QED
    BY <1>0, <1>1, <2>1, CreateMoves
<1>10. CASE CreateResource(a)
  <2>1. try[a].pc = "apply" /\ Create(a, own("resource"), ProjectOf(a))
    BY <1>10 DEF CreateResource, At
  <2> HIDE DEF own
  <2> QED
    BY <1>0, <1>1, <2>1, CreateMoves
<1>11. CASE CheckCredentials(a) \/ WireWorkflow(a) \/ Activate(a)
  <2>1. try[a].pc = "apply" /\ Become(a, Advance(a)) /\ DOMAIN db' = DOMAIN db /\ spec' = spec
    BY <1>11 DEF CheckCredentials, WireWorkflow, Activate, At
  <2> QED
    BY <2>1, PlainMoves
<1>12. CASE SmokeTest(a)
  BY <1>12, SmokeTestMoves
<1>13. CASE UndoStage(a)
  BY <1>13, UndoStageMoves
<1>14. CASE StepThrows(a)
  <2>1. /\ try[a] \in TryOf(AllRows(spec)) /\ try[a].end = "none"
        /\ Become(a, Unwind(try[a], "error")) /\ DOMAIN db' = DOMAIN db /\ spec' = spec
    BY <1>14 DEF StepThrows, Shape, TryOf, Outcome
  <2> QED
    BY <2>1, UnwindingMoves
<1>15. CASE UndoThrows(a)
  BY <1>15, UndoThrowsMoves
<1>16. CASE FindDefault(a) \/ MakeDefault(a)
  BY <1>16, FindDefaultMoves, MakeDefaultMoves
<1> QED
  BY <1>16, <1>2, <1>3, <1>4, <1>5, <1>6, <1>7, <1>8, <1>9, <1>10, <1>11, <1>12, <1>13, <1>14, <1>15
     DEF ApplyStep, Pipeline

-------------------------------------------------------------------------------
(* The rows: ApplyInv is inductive                                         *)

LEMMA UserRowsFacts ==
  ASSUME NEW s
  PROVE  UserRows(s) \subseteq AllRows(s) /\ \A r \in UserRows(s) : r.by = User
BY DEF AllRows, UserRows, Home, Row

LEMMA ApplyInit_Inv == ApplyInit => ApplyInv
<1> SUFFICES ASSUME ApplyInit PROVE ApplyInv
  OBVIOUS
<1>1. /\ Untried \in TryOf(AllRows(spec)) /\ Outcome(Untried) /\ Untried.made = {}
      /\ ~GoesOn(Untried)
  BY DEF Untried, TryOf, Pcs, Ends, Outcome, GoesOn
<1>2. try = [a \in Attempts |-> Untried] /\ DOMAIN db = UserRows(spec)
  BY DEF ApplyInit
<1>3. Shape /\ UserKept
  BY <1>1, <1>2, UserRowsFacts DEF Shape, UserKept
<1>4. \A a \in Attempts : Outcome(try[a]) /\ Handles(a) /\ Complete(a)
  BY <1>1, <1>2, UserRowsFacts, UserAssumption DEF Handles, Complete
<1> QED
  BY <1>3, <1>4 DEF ApplyInv

(* A step of an attempt preserves it.                                      *)
LEMMA MovedInv ==
  ASSUME ApplyInv, NEW a \in Attempts, NEW t, Moved(a, t)
  PROVE  ApplyInv'
<1>1. /\ spec' = spec /\ try' = [try EXCEPT ![a] = t] /\ t \in TryOf(AllRows(spec))
      /\ Outcome(t) /\ t.pc \in {"apply", "undo", "ended"} /\ (try[a].hurt => t.hurt)
      /\ (GoesOn(t) => GoesOn(try[a])) /\ (Grows(a, t) \/ Stays(a, t) \/ Shrinks(a, t))
  BY DEF Moved
<1>2. /\ try'[a] = t /\ \A b \in Attempts \ {a} : try'[b] = try[b]
      /\ try' \in [Attempts -> TryOf(AllRows(spec))]
  BY <1>1 DEF ApplyInv, Shape
<1>3. \A b \in Attempts : Handles(b)
  BY DEF ApplyInv
<1>4. Shape'
  BY <1>1, <1>2 DEF ApplyInv, Shape, Grows, Stays, Shrinks
<1>5. \A b \in Attempts : Outcome(try[b])'
  BY <1>1, <1>2 DEF ApplyInv, Outcome
<1>6. Handles(a)'
  <2>1. CASE Grows(a, t)
    BY <1>1, <1>2, <1>3, <2>1 DEF Handles, Grows
  <2>2. CASE Stays(a, t)
    BY <1>1, <1>2, <1>3, <2>2 DEF Handles, Stays
  <2>3. CASE Shrinks(a, t)
    BY <1>1, <1>2, <1>3, <2>3 DEF Handles, Shrinks, Taken
  <2> QED
    BY <1>1, <2>1, <2>2, <2>3
<1>7. ASSUME NEW b \in Attempts \ {a} PROVE Handles(b)'
  <2>1. \A r \in DOMAIN db' : r \in DOMAIN db \/ r.by = a
    BY <1>1 DEF Grows, Stays, Shrinks
  <2> QED
    BY <1>1, <1>2, <1>3, <2>1 DEF Handles
<1>8. Complete(a)'
  <2> SUFFICES ASSUME Only(a)', GoesOn(t) PROVE t.made \subseteq DOMAIN db'
    BY <1>2 DEF Complete, GoesOn
  <2>1. Only(a) /\ GoesOn(try[a])
    BY <1>1, <1>2 DEF Only
  <2>2. try[a].made \subseteq DOMAIN db
    BY <2>1 DEF ApplyInv, Complete
  <2> QED
    BY <1>1, <2>2 DEF Grows, Stays, Shrinks
<1>9. ASSUME NEW b \in Attempts \ {a} PROVE Complete(b)'
  <2>1. t # Untried
    BY <1>1 DEF Untried
  <2> QED
    BY <1>2, <2>1 DEF Complete, Only
<1>10. UserKept'
  <2>1. CASE Grows(a, t) \/ Stays(a, t)
    BY <1>1, <2>1 DEF ApplyInv, UserKept, Grows, Stays
  <2>2. ASSUME Shrinks(a, t), spec.ownProject PROVE UserRows(spec) \subseteq DOMAIN db'
    <3>1. PICK gone \in SUBSET try[a].made : DOMAIN db' = DOMAIN db \ Taken(gone)
      BY <2>2 DEF Shrinks
    <3>2. \A r \in gone : r.by = a /\ r.kind # "project"
      BY <1>3, <2>2 DEF Handles
    <3>3. Taken(gone) = gone
      BY <3>2 DEF Taken
    <3>4. \A r \in UserRows(spec) : r \notin gone
      BY <3>2, UserRowsFacts, UserAssumption
    <3> QED
      BY <2>2, <3>1, <3>3, <3>4 DEF ApplyInv, UserKept
  <2> QED
    BY <1>1, <2>1, <2>2 DEF UserKept
<1> QED
  BY <1>4, <1>5, <1>6, <1>7, <1>8, <1>9, <1>10 DEF ApplyInv

(* So does a step that only says where an attempt stands.                  *)
LEMMA HeldInv ==
  ASSUME ApplyInv, NEW a \in Attempts, NEW t \in TryOf(AllRows(spec)),
         Become(a, t), spec' = spec, db' = db, Outcome(t), t # Untried,
         t.made = try[a].made, try[a].hurt => t.hurt,
         GoesOn(t) => GoesOn(try[a]) \/ t.made = {}
  PROVE  ApplyInv'
<1>1. /\ try'[a] = t /\ \A b \in Attempts \ {a} : try'[b] = try[b]
      /\ try' \in [Attempts -> TryOf(AllRows(spec))]
  BY DEF ApplyInv, Shape, Become
<1>2. Shape' /\ UserKept'
  BY <1>1 DEF ApplyInv, Shape, UserKept
<1>3. \A b \in Attempts : Outcome(try[b])'
  BY <1>1 DEF ApplyInv, Outcome
<1>4. \A b \in Attempts : Handles(b)'
  BY <1>1 DEF ApplyInv, Handles
<1>5. Complete(a)'
  BY <1>1 DEF ApplyInv, Complete, Only, GoesOn
<1>6. \A b \in Attempts \ {a} : Complete(b)'
  BY <1>1 DEF Complete, Only
<1> QED
  BY <1>2, <1>3, <1>4, <1>5, <1>6 DEF ApplyInv

LEMMA BeginInv ==
  ASSUME ApplyInv, NEW a \in Attempts, Begin(a)
  PROVE  ApplyInv' /\ try' = [try EXCEPT ![a] = try'[a]] /\ try'[a].hurt = try[a].hurt
         /\ try[a].end = "none"
<1> DEFINE invalid == [try[a] EXCEPT !.pc = "ended", !.end = "validation-failed"]
           dry == [try[a] EXCEPT !.pc = "ended", !.end = "applied"]
           first == [try[a] EXCEPT !.pc = "apply", !.at = 1]
<1>1. /\ try \in [Attempts -> TryOf(AllRows(spec))] /\ try[a].pc = "idle" /\ try[a].end = "none"
      /\ try[a].made = {} /\ spec' = spec /\ db' = db
  BY DEF ApplyInv, Shape, Outcome, Begin
<1>2. PICK t \in {invalid, dry, first} : Become(a, t)
  BY DEF Begin
<1> DEFINE Fits(u) == /\ u \in TryOf(AllRows(spec)) /\ u.made = try[a].made /\ u.hurt = try[a].hurt
                      /\ u.pc \in {"ended", "apply"} /\ Outcome(u)
<1>3. Fits(t)
  <2>1. try[a] \in TryOf(AllRows(spec))
    BY <1>1
  <2>2. Fits(invalid)
    BY <1>1, <2>1 DEF TryOf, Pcs, Ends, Outcome
  <2>3. Fits(dry)
    BY <1>1, <2>1 DEF TryOf, Pcs, Ends, Outcome
  <2>4. Fits(first)
    BY <1>1, <2>1 DEF TryOf, Pcs, Ends, Outcome
  <2> QED
    BY <2>2, <2>3, <2>4
<1>4. t # Untried
  BY <1>3 DEF Untried
<1>5. ApplyInv'
  BY <1>1, <1>2, <1>3, <1>4, HeldInv
<1> QED
  BY <1>1, <1>2, <1>3, <1>5 DEF Become

LEMMA RecordThrowsInv ==
  ASSUME ApplyInv, NEW a \in Attempts, RecordThrows(a)
  PROVE  /\ ApplyInv' /\ try' = [try EXCEPT ![a] = try'[a]]
         /\ try'[a].hurt /\ try'[a].pc = try[a].pc /\ try'[a].end = try[a].end
<1> DEFINE t == [try[a] EXCEPT !.hurt = TRUE]
<1>1. /\ try \in [Attempts -> TryOf(AllRows(spec))] /\ spec' = spec /\ db' = db /\ Become(a, t)
  BY DEF ApplyInv, Shape, RecordThrows
<1>2. /\ t \in TryOf(AllRows(spec)) /\ t.made = try[a].made /\ t.hurt = TRUE
      /\ t.pc = try[a].pc /\ t.end = try[a].end
  BY <1>1 DEF TryOf
<1> HIDE DEF t
<1>3. Outcome(t) /\ (GoesOn(t) => GoesOn(try[a])) /\ t # Untried
  BY <1>2 DEF ApplyInv, Outcome, GoesOn, Untried
<1> QED
  BY <1>1, <1>2, <1>3, HeldInv DEF Become

LEMMA DieInv ==
  ASSUME ApplyInv, NEW a \in Attempts, Die(a)
  PROVE  /\ ApplyInv' /\ try' = [try EXCEPT ![a] = try'[a]]
         /\ try'[a].hurt /\ try'[a].pc = "dead" /\ try'[a].end = try[a].end
<1> DEFINE t == [try[a] EXCEPT !.pc = "dead", !.hurt = TRUE]
<1>1. /\ try \in [Attempts -> TryOf(AllRows(spec))] /\ spec' = spec /\ db' = db /\ Become(a, t)
      /\ try[a].pc \in {"apply", "undo"}
  BY DEF ApplyInv, Shape, Die
<1>2. /\ t \in TryOf(AllRows(spec)) /\ t.made = try[a].made /\ t.hurt = TRUE
      /\ t.pc = "dead" /\ t.end = try[a].end
  BY <1>1 DEF TryOf, Pcs
<1> HIDE DEF t
<1>3. Outcome(t) /\ ~GoesOn(t) /\ t # Untried
  BY <1>1, <1>2 DEF ApplyInv, Outcome, GoesOn, Untried
<1> QED
  BY <1>1, <1>2, <1>3, HeldInv DEF Become

-------------------------------------------------------------------------------
(* The workers and the run: IInv is inductive                              *)

LEMMA Init_IInv == Init => IInv
<1> SUFFICES ASSUME Init PROVE IInv
  OBVIOUS
<1>1. ApplyInv
  BY ApplyInit_Inv DEF Init
<1>2. \A a \in Attempts : try[a].pc = "idle"
  BY DEF Init, ApplyInit, Untried
<1>3. WorkerInv /\ StatusInv
  BY <1>2 DEF Init, NoJob, JobStates, WorkerInv, WorkerPcs, AtWork, StatusInv, Statuses
<1> QED
  BY <1>1, <1>3 DEF IInv

LEMMA SameRows ==
  ASSUME ApplyInv, UNCHANGED applyVars
  PROVE  ApplyInv'
BY DEF ApplyInv, applyVars, Shape, Outcome, Handles, Complete, Only, GoesOn, UserKept

(* What has ended keeps its outcome, and what was hurt stays hurt.         *)
Lasting ==
    \A a \in Attempts : /\ try[a].end # "none" => try'[a].end = try[a].end
                        /\ try[a].hurt => try'[a].hurt

LEMMA SameRun ==
  ASSUME StatusInv, Lasting, run' = run
  PROVE  StatusInv'
BY DEF StatusInv, Lasting

(* The facts of a step in which only attempt a may change.                 *)
LEMMA MovedFacts ==
  ASSUME ApplyInv, NEW a \in Attempts, Placed(try[a]), ApplyStep(a)
  PROVE  /\ ApplyInv' /\ Lasting
         /\ \A b \in Attempts \ {a} : try'[b] = try[b]
         /\ try[a].pc \in {"apply", "undo"}
<1>1. Shape /\ Outcome(try[a]) /\ try[a].pc \in {"apply", "undo"}
  BY DEF ApplyInv, ApplyStep, Pipeline, StepThrows, UndoThrows, UndoStage, At, FindDefault,
         MakeDefault, ResolveProject, CheckCredentials, CreateGateway, AttachGateway,
         AdoptGateway, FindInstall, Install, CreateCatalog, InstallCatalog, CreateWorkflow,
         WireWorkflow, CreateResource, SmokeTest, Activate
<1>2. PICK t : Moved(a, t)
  BY <1>1, ApplyStepMoves
<1>3. ApplyInv'
  BY <1>2, MovedInv
<1>4. try' = [try EXCEPT ![a] = t] /\ (try[a].hurt => t.hurt) /\ try[a].end = "none"
  BY <1>1, <1>2 DEF Moved, Outcome
<1> QED
  BY <1>1, <1>3, <1>4 DEF Lasting, Shape

LEMMA PickInv ==
  ASSUME IInv, NEW a \in Attempts, Pick(a)
  PROVE  IInv'
<1>1. ApplyInv'
  BY SameRows DEF IInv, Pick
<1>2. StatusInv'
  BY SameRun DEF IInv, Pick, Lasting, applyVars
<1>3. WorkerInv'
  <2>1. worker' \in [Attempts -> WorkerPcs] /\ job' \in [state: JobStates, by: Attempts \cup {None}, stalls: Nat]
    BY DEF IInv, WorkerInv, Pick, Go, WorkerPcs, JobStates
  <2>2. \A b \in Attempts : ~Holds(b)
    BY DEF Pick, Holds
  <2>3. ASSUME NEW b \in Attempts
        PROVE  /\ (~overlap /\ worker[b] \in AtWork => Holds(b) /\ run \notin Ended)'
               /\ (try[b].pc \in {"apply", "undo"} => worker[b] \in {"applying", "dead"})'
               /\ (worker[b] = "failing" => try[b].hurt)'
    <3>1. CASE b = a
      <4>1. worker'[a] \in {"completed", "marking"} /\ (worker'[a] = "marking" => run \notin Ended)
        BY DEF IInv, WorkerInv, Pick, Go
      <4>2. Holds(a)'
        BY DEF IInv, WorkerInv, Pick, Holds
      <4>3. try[a].pc \notin {"apply", "undo"}
        BY DEF IInv, WorkerInv, Pick
      <4>4. try' = try /\ run' = run
        BY DEF Pick, applyVars
      <4>5. (~overlap /\ worker[a] \in AtWork => Holds(a) /\ run \notin Ended)'
        BY <4>1, <4>2, <4>4 DEF AtWork, Ended
      <4>6. /\ (try[a].pc \in {"apply", "undo"} => worker[a] \in {"applying", "dead"})'
            /\ (worker[a] = "failing" => try[a].hurt)'
        BY <4>1, <4>3, <4>4
      <4> QED
        BY <3>1, <4>5, <4>6
    <3>2. CASE b # a
      <4>1. worker'[b] = worker[b]
        BY <3>2 DEF Pick, Go
      <4> QED
        BY <2>2, <4>1 DEF IInv, WorkerInv, Pick, applyVars
    <3> QED
      BY <3>1, <3>2
  <2> QED
    BY <2>1, <2>3 DEF WorkerInv
<1> QED
  BY <1>1, <1>2, <1>3 DEF IInv

(* A step of the worker of attempt a: what is left to show of it.          *)
LEMMA WorkerSteps ==
  ASSUME IInv, NEW a \in Attempts, NEW pc \in WorkerPcs, Go(a, pc),
         UNCHANGED <<job, overlap>>,
         \A b \in Attempts \ {a} : try'[b] = try[b],
         ~overlap => Holds(a),
         ~overlap /\ pc \in AtWork => run' \notin Ended,
         try'[a].pc \in {"apply", "undo"} => pc \in {"applying", "dead"},
         pc = "failing" => try'[a].hurt
  PROVE  WorkerInv'
<1>1. worker' \in [Attempts -> WorkerPcs] /\ worker'[a] = pc
      /\ \A b \in Attempts \ {a} : worker'[b] = worker[b]
  BY DEF Go, IInv, WorkerInv
<1>2. ~overlap => \A b \in Attempts \ {a} : worker[b] \notin AtWork
  BY DEF IInv, WorkerInv, Holds
<1> QED
  BY <1>1, <1>2 DEF IInv, WorkerInv, Holds

LEMMA CreateQueuedRunInv ==
  ASSUME IInv, CreateQueuedRun
  PROVE  IInv'
<1>1. ApplyInv'
  BY SameRows DEF IInv, CreateQueuedRun
<1>2. StatusInv'
  BY DEF CreateQueuedRun, StatusInv, Statuses
<1>3. WorkerInv'
  BY DEF IInv, CreateQueuedRun, WorkerInv, applyVars, Holds, Ended
<1> QED
  BY <1>1, <1>2, <1>3 DEF IInv

LEMMA EnqueueInv ==
  ASSUME IInv, Enqueue
  PROVE  IInv'
<1>1. ApplyInv' /\ StatusInv'
  BY SameRows, SameRun DEF IInv, Enqueue, Lasting, applyVars
<1>2. job' \in [state: JobStates, by: Attempts \cup {None}, stalls: Nat]
  BY DEF IInv, Enqueue, WorkerInv, JobStates
<1>3. WorkerInv'
  BY <1>2 DEF IInv, Enqueue, WorkerInv, applyVars, Holds
<1> QED
  BY <1>1, <1>3 DEF IInv

LEMMA MarkRunRunningInv ==
  ASSUME IInv, NEW a \in Attempts, MarkRunRunning(a)
  PROVE  IInv'
<1>1. /\ worker[a] = "marking" /\ UNCHANGED <<job, overlap>> /\ (~overlap => Holds(a) /\ run \notin Ended)
      /\ try[a].pc \notin {"apply", "undo"} /\ ApplyInv
  BY DEF IInv, WorkerInv, MarkRunRunning, AtWork
<1>2. CASE run' = "RUNNING" /\ Begin(a) /\ Go(a, "applying")
  <2>1. ApplyInv' /\ \A b \in Attempts \ {a} : try'[b] = try[b]
    BY <1>1, <1>2, BeginInv DEF ApplyInv, Shape
  <2>2. WorkerInv'
    BY <1>1, <1>2, <2>1, WorkerSteps DEF WorkerPcs, Ended
  <2>3. StatusInv'
    BY <1>2 DEF StatusInv, Statuses
  <2> QED
    BY <2>1, <2>2, <2>3 DEF IInv
<1>3. CASE RecordThrows(a) /\ Go(a, "failed") /\ run' = run
  <2>1. /\ ApplyInv' /\ \A b \in Attempts \ {a} : try'[b] = try[b]
        /\ try'[a].hurt /\ try'[a].pc = try[a].pc /\ try'[a].end = try[a].end
    BY <1>1, <1>3, RecordThrowsInv DEF ApplyInv, Shape
  <2>2. WorkerInv'
    BY <1>1, <1>3, <2>1, WorkerSteps DEF WorkerPcs, AtWork
  <2>3. StatusInv'
    BY <1>3, <2>1, SameRun DEF IInv, Lasting
  <2> QED
    BY <2>1, <2>2, <2>3 DEF IInv
<1> QED
  BY <1>2, <1>3 DEF MarkRunRunning

LEMMA WorkApplyInv ==
  ASSUME IInv, NEW a \in Attempts, Placed(try[a]), WorkApply(a)
  PROVE  IInv'
<1>1. /\ worker[a] = "applying" /\ ApplyStep(a) /\ UNCHANGED <<run, job, worker, overlap>>
  BY DEF WorkApply
<1>2. /\ ApplyInv' /\ Lasting /\ \A b \in Attempts \ {a} : try'[b] = try[b]
  BY <1>1, MovedFacts DEF IInv
<1>3. StatusInv'
  BY <1>1, <1>2, SameRun DEF IInv
<1>4. WorkerInv'
  BY <1>1, <1>2 DEF IInv, WorkerInv, Holds
<1> QED
  BY <1>2, <1>3, <1>4 DEF IInv

LEMMA CompleteRunInv ==
  ASSUME IInv, NEW a \in Attempts, CompleteRun(a)
  PROVE  IInv'
<1>1. /\ worker[a] = "applying" /\ UNCHANGED <<job, overlap>> /\ (~overlap => Holds(a) /\ run \notin Ended)
      /\ try[a].pc = "ended" /\ try[a].end \notin {"none", "threw"} /\ try[a].end \in Ends
  BY DEF IInv, WorkerInv, ApplyInv, Shape, TryOf, Outcome, CompleteRun, Returned, AtWork
<1>2. CASE run' = StatusForResult(try[a].end) /\ Go(a, "completed") /\ UNCHANGED applyVars
  <2>1. ApplyInv' /\ try' = try
    BY <1>2, SameRows DEF IInv, applyVars
  <2>2. WorkerInv'
    BY <1>1, <1>2, <2>1, WorkerSteps DEF WorkerPcs, AtWork
  <2>3. \/ try[a].end = "applied" /\ run' = "APPLIED"
        \/ try[a].end = "rolled-back" /\ run' = "ROLLED_BACK"
        \/ try[a].end = "validation-failed" /\ run' = "VALIDATION_FAILED"
    BY <1>1, <1>2 DEF StatusForResult, Ends
  <2>4. StatusInv'
    BY <2>1, <2>3 DEF StatusInv, Statuses, Ended
  <2> QED
    BY <2>1, <2>2, <2>4 DEF IInv
<1>3. CASE RecordThrows(a) /\ Go(a, "failing") /\ run' = run
  <2>1. /\ ApplyInv' /\ \A b \in Attempts \ {a} : try'[b] = try[b]
        /\ try'[a].hurt /\ try'[a].pc = try[a].pc /\ try'[a].end = try[a].end
    BY <1>3, RecordThrowsInv DEF IInv, ApplyInv, Shape
  <2>2. WorkerInv'
    BY <1>1, <1>3, <2>1, WorkerSteps DEF WorkerPcs
  <2>3. StatusInv'
    BY <1>3, <2>1, SameRun DEF IInv, Lasting
  <2> QED
    BY <2>1, <2>2, <2>3 DEF IInv
<1> QED
  BY <1>2, <1>3 DEF CompleteRun

LEMMA FailRunInv ==
  ASSUME IInv, NEW a \in Attempts, FailRun(a)
  PROVE  IInv'
<1>1. /\ worker[a] \in {"failing", "applying"} /\ UNCHANGED <<job, overlap>> /\ Go(a, "failed")
      /\ (~overlap => Holds(a)) /\ (try[a].hurt \/ try[a].end = "threw")
      /\ try[a].pc \notin {"apply", "undo"}
  BY DEF IInv, WorkerInv, FailRun, Returned, AtWork
<1>2. CASE run' = "FAILED" /\ UNCHANGED applyVars
  <2>1. ApplyInv' /\ try' = try
    BY <1>2, SameRows DEF IInv, applyVars
  <2>2. WorkerInv'
    BY <1>1, <2>1, WorkerSteps DEF WorkerPcs, AtWork
  <2>3. StatusInv'
    BY <1>1, <1>2, <2>1 DEF StatusInv, Statuses, Ended
  <2> QED
    BY <2>1, <2>2, <2>3 DEF IInv
<1>3. CASE RecordThrows(a) /\ run' = run
  <2>1. /\ ApplyInv' /\ \A b \in Attempts \ {a} : try'[b] = try[b]
        /\ try'[a].hurt /\ try'[a].pc = try[a].pc /\ try'[a].end = try[a].end
    BY <1>3, RecordThrowsInv DEF IInv, ApplyInv, Shape
  <2>2. WorkerInv'
    BY <1>1, <2>1, WorkerSteps DEF WorkerPcs, AtWork
  <2>3. StatusInv'
    BY <1>3, <2>1, SameRun DEF IInv, Lasting
  <2> QED
    BY <2>1, <2>2, <2>3 DEF IInv
<1> QED
  BY <1>1, <1>2, <1>3 DEF FailRun

LEMMA AcknowledgeInv ==
  ASSUME IInv, NEW a \in Attempts, Acknowledge(a)
  PROVE  IInv'
<1>1. ApplyInv' /\ StatusInv' /\ try' = try
  BY SameRows, SameRun DEF IInv, Acknowledge, Lasting, applyVars
<1>2. /\ worker[a] \in {"completed", "failed"} /\ run' = run /\ overlap' = overlap
      /\ worker' \in [Attempts -> WorkerPcs] /\ worker'[a] = "done"
      /\ \A b \in Attempts \ {a} : worker'[b] = worker[b]
  BY DEF IInv, WorkerInv, WorkerPcs, Acknowledge, Go
<1>3. job' \in [state: JobStates, by: Attempts \cup {None}, stalls: Nat]
  BY <1>2 DEF IInv, WorkerInv, Acknowledge, JobStates
<1>4. \A b \in Attempts \ {a} : Holds(b) => job' = job
  BY DEF Acknowledge, Holds
<1>5. WorkerInv'
  BY <1>1, <1>2, <1>3, <1>4 DEF IInv, WorkerInv, Holds, AtWork
<1> QED
  BY <1>1, <1>5 DEF IInv

LEMMA WorkerDiesInv ==
  ASSUME IInv, NEW a \in Attempts, WorkerDies(a)
  PROVE  IInv'
<1>1. /\ worker' \in [Attempts -> WorkerPcs] /\ worker'[a] = "dead"
      /\ \A b \in Attempts \ {a} : worker'[b] = worker[b]
      /\ UNCHANGED <<run, job, overlap>>
  BY DEF IInv, WorkerInv, WorkerPcs, WorkerDies, Go
<1>2. ApplyInv' /\ Lasting /\ \A b \in Attempts \ {a} : try'[b] = try[b]
  <2>1. CASE Die(a)
    BY <2>1, DieInv DEF IInv, ApplyInv, Shape, Lasting
  <2>2. CASE UNCHANGED applyVars
    BY <2>2, SameRows DEF IInv, Lasting, applyVars
  <2> QED
    BY <2>1, <2>2 DEF WorkerDies
<1>3. StatusInv'
  BY <1>1, <1>2, SameRun DEF IInv
<1>4. WorkerInv'
  BY <1>1, <1>2 DEF IInv, WorkerInv, Holds, AtWork
<1> QED
  BY <1>2, <1>3, <1>4 DEF IInv

(* A job that stalls without overlap was that of a dead worker: no other   *)
(* worker is at work.                                                      *)
LEMMA StallInv ==
  ASSUME IInv, NEW a \in Attempts, Stall(a)
  PROVE  IInv'
<1>1. ApplyInv' /\ StatusInv' /\ try' = try
  BY SameRows, SameRun DEF IInv, Stall, Lasting, applyVars
<1>2. /\ run' = run /\ worker' = worker /\ (~overlap' => ~overlap /\ worker[a] \notin AtWork)
  BY DEF Stall, Alive, AtWork
<1>3. job' \in [state: JobStates, by: Attempts \cup {None}, stalls: Nat]
  <2>1. job \in [state: JobStates, by: Attempts \cup {None}, stalls: Nat]
    BY DEF IInv, WorkerInv
  <2>2. [state |-> "waiting", by |-> None, stalls |-> job.stalls + 1]
            \in [state: JobStates, by: Attempts \cup {None}, stalls: Nat]
    BY <2>1 DEF JobStates
  <2>3. [job EXCEPT !.state = "failed", !.by = None]
            \in [state: JobStates, by: Attempts \cup {None}, stalls: Nat]
    BY <2>1 DEF JobStates
  <2> QED
    BY <2>2, <2>3 DEF Stall
<1>4. ~overlap' => \A b \in Attempts : worker'[b] \notin AtWork
  BY <1>2 DEF IInv, WorkerInv, Holds, Stall
<1>5. WorkerInv'
  BY <1>1, <1>2, <1>3, <1>4 DEF IInv, WorkerInv
<1> QED
  BY <1>1, <1>5 DEF IInv

LEMMA StepInv == IInv /\ LiveInv /\ [Next]_vars => IInv'
<1> SUFFICES ASSUME IInv, LiveInv, [Next]_vars PROVE IInv'
  OBVIOUS
<1>1. CASE CreateQueuedRun \/ Enqueue
  BY <1>1, CreateQueuedRunInv, EnqueueInv
<1>2. ASSUME NEW a \in Attempts, Pick(a) \/ Work(a) \/ WorkerDies(a) \/ Stall(a) PROVE IInv'
  <2>1. Placed(try[a])
    BY DEF LiveInv
  <2> QED
    BY <1>2, <2>1, PickInv, MarkRunRunningInv, WorkApplyInv, CompleteRunInv, FailRunInv, AcknowledgeInv,
       WorkerDiesInv, StallInv DEF Work
<1>3. CASE UNCHANGED vars
  <2>1. ApplyInv' /\ StatusInv'
    BY <1>3, SameRows, SameRun DEF IInv, vars, Lasting, applyVars
  <2>2. WorkerInv'
    BY <1>3 DEF IInv, vars, applyVars, WorkerInv, Holds
  <2> QED
    BY <2>1, <2>2 DEF IInv
<1> QED
  BY <1>1, <1>2, <1>3 DEF Next

--------------------------------------------------------------------------------
(* Only what was tested is live                                            *)

(* The next step of a plan: the smoke tests may be what is left behind.    *)
LEMMA AdvancePlaced ==
  ASSUME LiveInv, NEW a \in Attempts, NEW M, try[a] \in TryOf(M), try[a].pc = "apply",
         NEW t, t.pc = Advance(a).pc, t.at = Advance(a).at,
         try[a].tested => t.tested,
         Now(a).do = "smokeTest" => t.tested \/ spec.keepOnFailure
  PROVE  Placed(t)
<1>1. /\ Plans[spec] = Plan(spec) /\ Plan(spec) \in Seq(AnyStep)
      /\ Len(Plan(spec)) \in Nat /\ DOMAIN Plan(spec) = 1..Len(Plan(spec))
  BY PlanTestsFirst, LenProperties DEF LiveInv, Plans
<1>2. try[a].at \in DOMAIN Plans[spec] /\ try[a].at \in Nat
  BY <1>1 DEF LiveInv, Placed
<1>3. SUFFICES ASSUME t.pc = "apply" PROVE Placed(t)
  BY DEF Placed
<1>4. try[a].at < Len(Plans[spec]) /\ t.at = try[a].at + 1
  BY <1>3 DEF Advance, TryOf
<1>5. t.at \in DOMAIN Plans[spec]
  BY <1>1, <1>2, <1>4
<1>6. ASSUME NEW j \in 1..(t.at - 1), Plans[spec][j].do = "smokeTest"
      PROVE  t.tested \/ spec.keepOnFailure
  <2>1. j = try[a].at \/ j \in 1..(try[a].at - 1)
    BY <1>2, <1>4
  <2> QED
    BY <1>6, <2>1 DEF LiveInv, Placed, Now
<1> QED
  BY <1>5, <1>6 DEF Placed

(* An attempt becomes t.                                                   *)
LEMMA OneMoves ==
  ASSUME LiveInv, NEW a \in Attempts, try' = [try EXCEPT ![a] = try'[a]], DOMAIN try = Attempts,
         spec' = spec, Placed(try'[a]), try[a].tested => try'[a].tested,
         \A w \in active' : w \in active \/ (w.by = a /\ (try'[a].tested \/ spec.keepOnFailure))
  PROVE  LiveInv'
<1>1. \A b \in Attempts : Placed(try'[b])
  BY DEF LiveInv
<1>2. \A b \in Attempts : try[b].tested => try'[b].tested
  OBVIOUS
<1>3. \A w \in active' : w.by \in Attempts /\ (try'[w.by].tested \/ spec.keepOnFailure)
  BY <1>2 DEF LiveInv
<1> QED
  BY <1>1, <1>3 DEF LiveInv, Placed

(* An attempt goes on, or stops.                                           *)
LEMMA GoesLive ==
  ASSUME LiveInv, Shape, NEW a \in Attempts, try[a].pc = "apply", NEW t, Become(a, t),
         spec' = spec, active' \subseteq active, t.pc = Advance(a).pc, t.at = Advance(a).at,
         t.tested = try[a].tested, Now(a).do # "smokeTest"
  PROVE  LiveInv'
<1>1. try[a] \in TryOf(AllRows(spec)) /\ try' = [try EXCEPT ![a] = t] /\ try'[a] = t /\ DOMAIN try = Attempts
  BY DEF Shape, Become
<1>2. Placed(t)
  BY <1>1, AdvancePlaced
<1> QED
  BY <1>1, <1>2, OneMoves

LEMMA StopsLive ==
  ASSUME LiveInv, Shape, NEW a \in Attempts, NEW t, Become(a, t),
         spec' = spec, active' \subseteq active, t.pc # "apply", t.tested = try[a].tested
  PROVE  LiveInv'
<1>1. try' = [try EXCEPT ![a] = t] /\ try'[a] = t /\ DOMAIN try = Attempts
  BY DEF Shape, Become
<1>2. Placed(t)
  BY DEF Placed
<1> QED
  BY <1>1, <1>2, OneMoves

(* What an attempt that fails becomes.                                     *)
LEMMA UnwindStops ==
  ASSUME NEW M, NEW t \in TryOf(M), NEW why
  PROVE  Unwind(t, why).pc # "apply" /\ Unwind(t, why).tested = t.tested
BY DEF Unwind, TryOf

(* The kinds of step a plan has: making a row, going on, finding, moving.  *)
LEMMA CreateLive ==
  ASSUME LiveInv, Shape, NEW a \in Attempts, try[a].pc = "apply", NEW r, NEW project,
         Create(a, r, project), Now(a).do # "smokeTest"
  PROVE  LiveInv'
<1>1. try[a] \in TryOf(AllRows(spec)) /\ spec' = spec /\ active' \subseteq active
  BY DEF Shape, Create
<1>2. CASE Become(a, [Advance(a) EXCEPT !.made = @ \cup {r}, !.seen = None])
  <2> DEFINE t == [Advance(a) EXCEPT !.made = @ \cup {r}, !.seen = None]
  <2>1. t.pc = Advance(a).pc /\ t.at = Advance(a).at /\ t.tested = try[a].tested
    BY <1>1 DEF Advance, TryOf
  <2>2. Become(a, t)
    BY <1>2
  <2> HIDE DEF t
  <2> QED
    BY <1>1, <2>1, <2>2, GoesLive
<1>3. CASE Become(a, Unwind([try[a] EXCEPT !.hurt = TRUE], "error"))
  <2> DEFINE h == [try[a] EXCEPT !.hurt = TRUE]
  <2>1. h \in TryOf(AllRows(spec)) /\ h.tested = try[a].tested
    BY <1>1 DEF TryOf
  <2>2. Become(a, Unwind(h, "error"))
    BY <1>3
  <2> HIDE DEF h
  <2>3. Unwind(h, "error").pc # "apply" /\ Unwind(h, "error").tested = try[a].tested
    BY <2>1, UnwindStops
  <2> QED
    BY <1>1, <2>2, <2>3, StopsLive
<1> QED
  BY <1>2, <1>3 DEF Create

LEMMA PlainLive ==
  ASSUME LiveInv, Shape, NEW a \in Attempts, try[a].pc = "apply", Become(a, Advance(a)),
         spec' = spec, active' \subseteq active, Now(a).do # "smokeTest"
  PROVE  LiveInv'
<1>1. Advance(a).tested = try[a].tested
  BY DEF Advance, Shape, TryOf
<1> QED
  BY <1>1, GoesLive

LEMMA SeenLive ==
  ASSUME LiveInv, Shape, NEW a \in Attempts, try[a].pc = "apply", NEW r,
         Become(a, [Advance(a) EXCEPT !.seen = r]),
         spec' = spec, active' \subseteq active, Now(a).do # "smokeTest"
  PROVE  LiveInv'
<1> DEFINE t == [Advance(a) EXCEPT !.seen = r]
<1>1. t.pc = Advance(a).pc /\ t.at = Advance(a).at /\ t.tested = try[a].tested
  BY DEF Advance, Shape, TryOf
<1>2. Become(a, t)
  OBVIOUS
<1> HIDE DEF t
<1> QED
  BY <1>1, <1>2, GoesLive

LEMMA MoveLive ==
  ASSUME LiveInv, Shape, NEW a \in Attempts, try[a].pc = "apply", NEW r, Move(a, r),
         Now(a).do # "smokeTest"
  PROVE  LiveInv'
BY SeenLive DEF Move

(* A default project is found, or made, or neither yet.                    *)
LEMMA FindDefaultLive ==
  ASSUME LiveInv, Shape, NEW a \in Attempts, FindDefault(a)
  PROVE  LiveInv'
<1>1. /\ try[a].pc = "apply" /\ Now(a).do # "smokeTest" /\ spec' = spec /\ active' \subseteq active
      /\ try[a] \in TryOf(AllRows(spec)) /\ DOMAIN try = Attempts
  BY DEF FindDefault, At, Shape
<1>2. CASE \E p : Become(a, [Advance(a) EXCEPT !.seen = p])
  BY <1>1, <1>2, SeenLive
<1>3. CASE Become(a, [try[a] EXCEPT !.seen = DefaultBy(a)])
  <2> DEFINE t == [try[a] EXCEPT !.seen = DefaultBy(a)]
  <2>1. t.pc = try[a].pc /\ t.at = try[a].at /\ t.tested = try[a].tested
    BY <1>1 DEF TryOf
  <2>2. try' = [try EXCEPT ![a] = t] /\ try'[a] = t
    BY <1>1, <1>3 DEF Become
  <2> HIDE DEF t
  <2>3. Placed(t)
    BY <2>1 DEF LiveInv, Placed
  <2> QED
    BY <1>1, <2>1, <2>2, <2>3, OneMoves
<1> QED
  BY <1>2, <1>3 DEF FindDefault

LEMMA MakeDefaultLive ==
  ASSUME LiveInv, Shape, NEW a \in Attempts, MakeDefault(a)
  PROVE  LiveInv'
<1>1. /\ try[a].pc = "apply" /\ Now(a).do # "smokeTest" /\ spec' = spec /\ active' \subseteq active
      /\ try[a] \in TryOf(AllRows(spec))
  BY DEF MakeDefault, At, Shape
<1>2. CASE Become(a, Advance(a))
  BY <1>1, <1>2, PlainLive
<1>3. CASE \E p : Become(a, [Advance(a) EXCEPT !.seen = p])
  BY <1>1, <1>3, SeenLive
<1>4. CASE Become(a, Unwind([try[a] EXCEPT !.hurt = TRUE], "error"))
  <2> DEFINE h == [try[a] EXCEPT !.hurt = TRUE]
  <2>1. h \in TryOf(AllRows(spec)) /\ h.tested = try[a].tested
    BY <1>1 DEF TryOf
  <2>2. Become(a, Unwind(h, "error"))
    BY <1>4
  <2> HIDE DEF h
  <2>3. Unwind(h, "error").pc # "apply" /\ Unwind(h, "error").tested = try[a].tested
    BY <2>1, UnwindStops
  <2> QED
    BY <1>1, <2>2, <2>3, StopsLive
<1> QED
  BY <1>2, <1>3, <1>4 DEF MakeDefault

(* The smoke tests pass, or fail and are kept, or end the attempt.         *)
LEMMA SmokeTestLive ==
  ASSUME LiveInv, Shape, NEW a \in Attempts, SmokeTest(a)
  PROVE  LiveInv'
<1>1. /\ try[a] \in TryOf(AllRows(spec)) /\ spec' = spec /\ active' = active
      /\ try[a].pc = "apply" /\ DOMAIN try = Attempts
  BY DEF Shape, SmokeTest, At
<1>2. CASE Become(a, [Advance(a) EXCEPT !.tested = TRUE])
  <2> DEFINE t == [Advance(a) EXCEPT !.tested = TRUE]
  <2>1. t.pc = Advance(a).pc /\ t.at = Advance(a).at /\ t.tested = TRUE
    BY <1>1 DEF Advance, TryOf
  <2>2. try' = [try EXCEPT ![a] = t] /\ try'[a] = t
    BY <1>1, <1>2 DEF Become
  <2> HIDE DEF t
  <2>3. Placed(t)
    BY <1>1, <2>1, AdvancePlaced
  <2> QED
    BY <1>1, <2>1, <2>2, <2>3, OneMoves
<1>3. CASE spec.keepOnFailure /\ Become(a, Advance(a))
  <2>1. try' = [try EXCEPT ![a] = Advance(a)] /\ try'[a] = Advance(a)
    BY <1>1, <1>3 DEF Become
  <2>2. Advance(a).tested = try[a].tested
    BY <1>1 DEF Advance, TryOf
  <2>3. Placed(Advance(a))
    BY <1>1, <1>3, <2>2, AdvancePlaced
  <2> QED
    BY <1>1, <2>1, <2>2, <2>3, OneMoves
<1>4. CASE Become(a, Unwind(try[a], "smoke"))
  <2>1. Unwind(try[a], "smoke").pc # "apply" /\ Unwind(try[a], "smoke").tested = try[a].tested
    BY <1>1, UnwindStops
  <2> QED
    BY <1>1, <1>4, <2>1, StopsLive
<1> QED
  BY <1>2, <1>3, <1>4 DEF SmokeTest

(* The one step that makes a workflow live comes after the smoke tests.    *)
LEMMA ActivateLive ==
  ASSUME LiveInv, Shape, NEW a \in Attempts, Activate(a)
  PROVE  LiveInv'
<1>1. /\ try[a] \in TryOf(AllRows(spec)) /\ spec' = spec /\ try[a].pc = "apply"
      /\ Now(a).do = "activate" /\ DOMAIN try = Attempts
      /\ active' = active \cup {Row("workflow", Now(a).ref, a)}
      /\ try' = [try EXCEPT ![a] = Advance(a)] /\ try'[a] = Advance(a)
  BY DEF Shape, Activate, At, Become
<1>2. Advance(a).tested = try[a].tested
  BY <1>1 DEF Advance, TryOf
<1>3. Placed(Advance(a))
  BY <1>1, <1>2, AdvancePlaced
<1>4. try[a].tested \/ spec.keepOnFailure
  <2>1. /\ Plans[spec] = Plan(spec) /\ try[a].at \in DOMAIN Plan(spec)
        /\ Plan(spec)[try[a].at].do = "activate"
    BY <1>1 DEF LiveInv, Placed, Plans, Now
  <2>2. PICK j \in 1..(try[a].at - 1) : Plan(spec)[j].do = "smokeTest"
    BY <2>1, PlanTestsFirst DEF LiveInv
  <2> QED
    BY <1>1, <2>1, <2>2 DEF LiveInv, Placed
<1>5. \A w \in active' : w \in active \/ w.by = a
  BY <1>1 DEF Row
<1> QED
  BY <1>1, <1>2, <1>3, <1>4, <1>5, OneMoves

(* The rollback, and what throws.                                          *)
LEMMA UndoStageLive ==
  ASSUME LiveInv, Shape, NEW a \in Attempts, UndoStage(a)
  PROVE  LiveInv'
<1> DEFINE t == [try[a] EXCEPT !.made = @ \ Doomed(a)]
<1>1. t \in TryOf(AllRows(spec)) /\ t.tested = try[a].tested
  BY DEF Shape, TryOf
<1>2. /\ Become(a, Unwind(t, try[a].why)) /\ spec' = spec /\ active' \subseteq active
  BY DEF UndoStage
<1> HIDE DEF t
<1>3. Unwind(t, try[a].why).pc # "apply" /\ Unwind(t, try[a].why).tested = try[a].tested
  BY <1>1, UnwindStops
<1> QED
  BY <1>2, <1>3, StopsLive

LEMMA UndoThrowsLive ==
  ASSUME LiveInv, Shape, NEW a \in Attempts, UndoThrows(a)
  PROVE  LiveInv'
<1> DEFINE h == [try[a] EXCEPT !.hurt = TRUE]
           t == [h EXCEPT !.made = {}]
           e == [h EXCEPT !.pc = "ended", !.end = "threw"]
<1>1. /\ try[a] \in TryOf(AllRows(spec)) /\ t \in TryOf(AllRows(spec)) /\ t.tested = try[a].tested
      /\ e.pc = "ended" /\ e.tested = try[a].tested
  BY DEF Shape, TryOf
<1>2. /\ \/ Become(a, Unwind(t, try[a].why))
         \/ Become(a, Unwind(try[a], "error"))
         \/ Become(a, e)
      /\ spec' = spec /\ active' \subseteq active
  BY DEF UndoThrows
<1> HIDE DEF h, t, e
<1>3. /\ Unwind(t, try[a].why).pc # "apply" /\ Unwind(t, try[a].why).tested = try[a].tested
      /\ Unwind(try[a], "error").pc # "apply" /\ Unwind(try[a], "error").tested = try[a].tested
  BY <1>1, UnwindStops
<1>4. CASE Become(a, Unwind(t, try[a].why))
  BY <1>2, <1>3, <1>4, StopsLive
<1>5. CASE Become(a, Unwind(try[a], "error"))
  BY <1>2, <1>3, <1>5, StopsLive
<1>6. CASE Become(a, e)
  BY <1>1, <1>2, <1>6, StopsLive
<1> QED
  BY <1>2, <1>4, <1>5, <1>6

LEMMA StepThrowsLive ==
  ASSUME LiveInv, Shape, NEW a \in Attempts, StepThrows(a)
  PROVE  LiveInv'
<1>1. try[a] \in TryOf(AllRows(spec)) /\ Become(a, Unwind(try[a], "error"))
      /\ spec' = spec /\ active' \subseteq active
  BY DEF Shape, StepThrows
<1>2. Unwind(try[a], "error").pc # "apply" /\ Unwind(try[a], "error").tested = try[a].tested
  BY <1>1, UnwindStops
<1> QED
  BY <1>1, <1>2, StopsLive

(* Every step of an attempt keeps LiveInv, and of the run.                 *)
LEMMA ApplyStepLive ==
  ASSUME LiveInv, Shape, NEW a \in Attempts, ApplyStep(a)
  PROVE  LiveInv'
<1>1. CASE ResolveProject(a)
  <2>1. try[a].pc = "apply" /\ Now(a).do # "smokeTest"
    BY <1>1 DEF ResolveProject, At
  <2> QED
    BY <1>1, <2>1, PlainLive, CreateLive DEF ResolveProject
<1>2. CASE CreateGateway(a)
  <2>1. try[a].pc = "apply" /\ Now(a).do # "smokeTest"
    BY <1>2 DEF CreateGateway, At
  <2> QED
    BY <1>2, <2>1, CreateLive DEF CreateGateway
<1>3. CASE AttachGateway(a)
  <2>1. try[a].pc = "apply" /\ Now(a).do # "smokeTest"
    BY <1>3 DEF AttachGateway, At
  <2> QED
    BY <1>3, <2>1, MoveLive DEF AttachGateway
<1>4. CASE AdoptGateway(a)
  <2>1. try[a].pc = "apply" /\ Now(a).do # "smokeTest"
    BY <1>4 DEF AdoptGateway, At
  <2> QED
    BY <1>4, <2>1, MoveLive DEF AdoptGateway
<1>5. CASE FindInstall(a)
  <2>1. /\ try[a].pc = "apply" /\ Now(a).do # "smokeTest" /\ spec' = spec /\ active' \subseteq active
        /\ \E r : Become(a, [Advance(a) EXCEPT !.seen = r])
    BY <1>5 DEF FindInstall, At
  <2> QED
    BY <2>1, SeenLive
<1>6. CASE Install(a)
  <2>1. try[a].pc = "apply" /\ Now(a).do # "smokeTest"
    BY <1>6 DEF Install, At
  <2> QED
    BY <1>6, <2>1, MoveLive, CreateLive DEF Install
<1>7. CASE CreateCatalog(a)
  <2>1. try[a].pc = "apply" /\ Now(a).do # "smokeTest"
    BY <1>7 DEF CreateCatalog, At
  <2> QED
    BY <1>7, <2>1, CreateLive DEF CreateCatalog
<1>8. CASE InstallCatalog(a)
  <2>1. try[a].pc = "apply" /\ Now(a).do # "smokeTest"
    BY <1>8 DEF InstallCatalog, At
  <2> QED
    BY <1>8, <2>1, CreateLive DEF InstallCatalog
<1>9. CASE CreateWorkflow(a)
  <2>1. try[a].pc = "apply" /\ Now(a).do # "smokeTest"
    BY <1>9 DEF CreateWorkflow, At
  <2> QED
    BY <1>9, <2>1, CreateLive DEF CreateWorkflow
<1>10. CASE WireWorkflow(a)
  <2>1. try[a].pc = "apply" /\ Now(a).do # "smokeTest"
    BY <1>10 DEF WireWorkflow, At
  <2> QED
    BY <1>10, <2>1, PlainLive DEF WireWorkflow
<1>11. CASE CreateResource(a)
  <2>1. try[a].pc = "apply" /\ Now(a).do # "smokeTest"
    BY <1>11 DEF CreateResource, At
  <2> QED
    BY <1>11, <2>1, CreateLive DEF CreateResource
<1>12. CASE CheckCredentials(a)
  <2>1. try[a].pc = "apply" /\ Now(a).do # "smokeTest"
    BY <1>12 DEF CheckCredentials, At
  <2> QED
    BY <1>12, <2>1, PlainLive DEF CheckCredentials
<1> QED
  BY <1>1, <1>2, <1>3, <1>4, <1>5, <1>6, <1>7, <1>8, <1>9, <1>10, <1>11, <1>12,
     FindDefaultLive, MakeDefaultLive, SmokeTestLive, ActivateLive, UndoStageLive, UndoThrowsLive, StepThrowsLive DEF ApplyStep, Pipeline

(* An attempt begins, before everything; faults do not move it on.         *)
LEMMA BeginLive ==
  ASSUME LiveInv, Shape, NEW a \in Attempts, Begin(a)
  PROVE  LiveInv'
<1> DEFINE invalid == [try[a] EXCEPT !.pc = "ended", !.end = "validation-failed"]
           dry == [try[a] EXCEPT !.pc = "ended", !.end = "applied"]
           t == [try[a] EXCEPT !.pc = "apply", !.at = 1]
<1>1. /\ try[a] \in TryOf(AllRows(spec)) /\ DOMAIN try = Attempts
      /\ invalid.pc = "ended" /\ invalid.tested = try[a].tested
      /\ dry.pc = "ended" /\ dry.tested = try[a].tested
      /\ t.at = 1 /\ t.tested = try[a].tested
  BY DEF Shape, TryOf
<1>2. /\ Become(a, invalid) \/ Become(a, dry) \/ Become(a, t)
      /\ spec' = spec /\ active' \subseteq active
  BY DEF Begin
<1> HIDE DEF invalid, dry, t
<1>3. CASE Become(a, invalid)
  BY <1>1, <1>2, <1>3, StopsLive
<1>4. CASE Become(a, dry)
  BY <1>1, <1>2, <1>4, StopsLive
<1>5. CASE Become(a, t)
  <2>1. try' = [try EXCEPT ![a] = t] /\ try'[a] = t
    BY <1>1, <1>5 DEF Become
  <2>2. 1 \in DOMAIN Plans[spec]
    BY PlanTestsFirst, LenProperties DEF LiveInv, Plans
  <2>3. Placed(t)
    BY <1>1, <2>2 DEF Placed
  <2> QED
    BY <1>1, <1>2, <2>1, <2>3, OneMoves
<1> QED
  BY <1>2, <1>3, <1>4, <1>5

LEMMA HurtLive ==
  ASSUME LiveInv, Shape, NEW a \in Attempts, RecordThrows(a) \/ Die(a)
  PROVE  LiveInv'
<1> DEFINE t == [try[a] EXCEPT !.hurt = TRUE]
           d == [try[a] EXCEPT !.pc = "dead", !.hurt = TRUE]
<1>1. /\ try[a] \in TryOf(AllRows(spec)) /\ DOMAIN try = Attempts
      /\ t.pc = try[a].pc /\ t.at = try[a].at /\ t.tested = try[a].tested
      /\ d.pc = "dead" /\ d.tested = try[a].tested
  BY DEF Shape, TryOf
<1>2. /\ Become(a, t) \/ Become(a, d)
      /\ spec' = spec /\ active' \subseteq active
  BY DEF RecordThrows, Die
<1> HIDE DEF t, d
<1>3. CASE Become(a, t)
  <2>1. try' = [try EXCEPT ![a] = t] /\ try'[a] = t
    BY <1>1, <1>3 DEF Become
  <2>2. Placed(t)
    BY <1>1 DEF LiveInv, Placed
  <2> QED
    BY <1>1, <1>2, <2>1, <2>2, OneMoves
<1>4. CASE Become(a, d)
  BY <1>1, <1>2, <1>4, StopsLive
<1> QED
  BY <1>2, <1>3, <1>4

LEMMA SameLive ==
  ASSUME LiveInv, UNCHANGED applyVars
  PROVE  LiveInv'
BY DEF LiveInv, Placed, applyVars

LEMMA LiveStep == Shape /\ LiveInv /\ [Next]_vars => LiveInv'
<1> SUFFICES ASSUME Shape, LiveInv, [Next]_vars PROVE LiveInv'
  OBVIOUS
<1>2. CASE CreateQueuedRun \/ Enqueue \/ UNCHANGED vars
  BY <1>2, SameLive DEF CreateQueuedRun, Enqueue, vars
<1>3. ASSUME NEW a \in Attempts, Pick(a) \/ Acknowledge(a) \/ Stall(a) PROVE LiveInv'
  BY <1>3, SameLive DEF Pick, Acknowledge, Stall
<1>4. ASSUME NEW a \in Attempts, MarkRunRunning(a) PROVE LiveInv'
  BY <1>4, BeginLive, HurtLive DEF MarkRunRunning
<1>5. ASSUME NEW a \in Attempts, WorkApply(a) PROVE LiveInv'
  BY <1>5, ApplyStepLive DEF WorkApply
<1>6. ASSUME NEW a \in Attempts, CompleteRun(a) \/ FailRun(a) PROVE LiveInv'
  BY <1>6, SameLive, HurtLive DEF CompleteRun, FailRun
<1>7. ASSUME NEW a \in Attempts, WorkerDies(a) PROVE LiveInv'
  BY <1>7, SameLive, HurtLive DEF WorkerDies
<1> QED
  BY <1>2, <1>3, <1>4, <1>5, <1>6, <1>7 DEF Next, Work

LEMMA Invariance == Spec => [](IInv /\ LiveInv)
<1>1. Init => LiveInv
  BY DEF Init, ApplyInit, LiveInv, Placed, Untried
<1>2. IInv => Shape
  BY DEF IInv, ApplyInv
<1> QED
  BY <1>1, <1>2, Init_IInv, StepInv, LiveStep, PTL DEF Spec

-------------------------------------------------------------------------------
(* What a user relies on                                                   *)

(* A call that did not apply the spec leaves none of the rows it made but  *)
(* for a default project, whatever step it failed at and whatever other    *)
(* attempts did meanwhile, unless a fault struck it (applyBuildSpec,       *)
(* rollbackAll, ensureDefaultProject).                                     *)
THEOREM NothingLeftBehindHolds == Spec => []NothingLeftBehind
<1>1. IInv => NothingLeftBehind
  BY DEF IInv, ApplyInv, Outcome, Handles, NothingLeftBehind, LeftBy
<1> QED
  BY <1>1, Invariance, PTL

(* With a project of the user no rollback takes a row the user had, the    *)
(* project and all that was in it before (rollbackAll).                    *)
THEOREM OwnProjectIsSafeHolds == Spec => []OwnProjectIsSafe
<1>1. IInv => OwnProjectIsSafe
  BY DEF IInv, ApplyInv, UserKept, OwnProjectIsSafe
<1> QED
  BY <1>1, Invariance, PTL

(* The status of the run is the outcome of an attempt; if only one attempt *)
(* was made, APPLIED means that all its rows are there, any other end that *)
(* none is but perhaps a default project (completeRun, failRun,            *)
(* statusForResult).                                                       *)
THEOREM StatusIsTrueHolds == Spec => []StatusIsTrue
<1>1. ASSUME IInv, NEW a \in Attempts, Alone(a), run = "APPLIED"
      PROVE  try[a].made \subseteq DOMAIN db
  <2>1. try[a].end = "applied"
    BY <1>1 DEF IInv, StatusInv, Alone, Untried
  <2> QED
    BY <1>1, <2>1 DEF IInv, ApplyInv, Complete, Only, GoesOn, Alone
<1>2. ASSUME IInv, NEW a \in Attempts, Alone(a), run \in Ended \ {"APPLIED"}, ~try[a].hurt
      PROVE  LeftBy(a) = {}
  <2>1. try[a].end \notin {"none", "applied"}
    BY <1>2 DEF IInv, StatusInv, Alone, Untried, Ended
  <2>2. try[a].made = {} /\ Handles(a)
    BY <1>2, <2>1 DEF IInv, ApplyInv, Outcome
  <2> QED
    BY <1>2, <2>2 DEF Handles, LeftBy
<1>3. IInv => StatusIsTrue
  BY <1>1, <1>2 DEF IInv, StatusInv, StatusIsTrue
<1> QED
  BY <1>3, Invariance, PTL

(* A run that has ended keeps its status, and nothing is applied for it    *)
(* again, as long as no worker lost the job while it was alive             *)
(* (getRun before markRunRunning in the worker).                           *)
THEOREM EndedIsFinalHolds == Spec => EndedIsFinal
<1>1. ASSUME IInv, [Next]_vars, ~overlap, run \in Ended PROVE run' = run /\ try' = try
  <2>1. \A a \in Attempts : worker[a] \notin AtWork
    BY <1>1 DEF IInv, WorkerInv
  <2>2. CASE CreateQueuedRun \/ Enqueue \/ UNCHANGED vars
    BY <1>1, <2>2 DEF CreateQueuedRun, Enqueue, vars, applyVars, Ended
  <2>3. ASSUME NEW a \in Attempts, Pick(a) \/ Acknowledge(a) \/ Stall(a) PROVE run' = run /\ try' = try
    BY <2>3 DEF Pick, Acknowledge, Stall, applyVars
  <2>4. ASSUME NEW a \in Attempts, MarkRunRunning(a) \/ WorkApply(a) \/ CompleteRun(a) \/ FailRun(a)
        PROVE  FALSE
    BY <2>1, <2>4 DEF MarkRunRunning, WorkApply, CompleteRun, FailRun, Returned, AtWork
  <2>5. ASSUME NEW a \in Attempts, WorkerDies(a) PROVE run' = run /\ try' = try
    <3>1. worker[a] \notin {"applying", "dead"} /\ try[a].pc \notin {"apply", "undo"}
      BY <1>1, <2>1, <2>5 DEF IInv, WorkerInv, WorkerDies, AtWork
    <3> QED
      BY <2>5, <3>1 DEF WorkerDies, Die, applyVars
  <2> QED
    BY <1>1, <2>2, <2>3, <2>4, <2>5 DEF Next, Work
<1>2. IInv /\ [Next]_vars => [~overlap /\ run \in Ended => run' = run /\ try' = try]_vars
  BY <1>1
<1> QED
  BY <1>2, Invariance, PTL DEF Spec, EndedIsFinal

(* A workflow is live only if the attempt that made it passed its smoke    *)
(* tests, or the caller keeps failures: for every spec, whatever other     *)
(* attempts do (the order of applyBuildSpec's statements).                 *)
THEOREM OnlyTestedActiveHolds == Spec => []OnlyTestedActive
<1>1. LiveInv => OnlyTestedActive
  BY DEF LiveInv, OnlyTestedActive
<1> QED
  BY <1>1, Invariance, PTL

-------------------------------------------------------------------------------
(* Types                                                                   *)

(* The rows that may come to exist are rows.                               *)
LEMMA RowsType ==
  ASSUME NEW s \in Specs
  PROVE  AllRows(s) \subseteq Rows
<1>1. \A k \in Kinds, n \in Nat, m \in Makers : Row(k, n, m) \in Rows
  BY DEF Row, Rows
<1>2. /\ Plans[s] = Plan(s) /\ Plan(s) \in Seq(AnyStep) /\ DOMAIN Plan(s) = 1..Len(Plan(s))
      /\ DOMAIN s.gateways \subseteq Nat /\ s.installed \subseteq Nat
  <2>1. s.gateways \in Seq({"new", "existing"}) /\ s.installed \in SUBSET Nat
    BY SpecsAssumption
  <2>2. DOMAIN s.gateways = 1..Len(s.gateways) /\ Len(s.gateways) \in Nat
    BY <2>1, LenProperties
  <2> QED
    BY <2>1, <2>2, PlanTestsFirst, LenProperties DEF Plans
<1>3. RefsOf(s) \subseteq Nat
  <2>1. \A n \in DOMAIN Plan(s) : Plan(s)[n] \in AnyStep
    BY <1>2, ElementOfSeq
  <2> QED
    BY <1>2, <2>1 DEF RefsOf, AnyStep
<1>4. UserRows(s) \subseteq Rows
  <2>1. User \in Makers /\ {"project", "gateway", "install"} \subseteq Kinds
    BY DEF Makers, Kinds
  <2>2. Home \in Rows
    BY <1>1, <2>1 DEF Home
  <2>3. \A g \in DOMAIN s.gateways : Row("gateway", g, User) \in Rows
    BY <1>1, <1>2, <2>1
  <2>4. \A p \in s.installed : Row("install", p, User) \in Rows
    BY <1>1, <1>2, <2>1
  <2> QED
    BY <2>2, <2>3, <2>4 DEF UserRows
<1>5. \A k \in Kinds, n \in RefsOf(s), a \in Attempts : Row(k, n, a) \in Rows
  BY <1>1, <1>3 DEF Makers
<1> QED
  BY <1>4, <1>5 DEF AllRows

(* Rows are in projects that are rows, and what is live exists.            *)
DbType == (\A r \in DOMAIN db : db[r] \in Rows) /\ active \subseteq DOMAIN db

(* A row made, a row moved, and every other step keep it so.               *)
LEMMA CreateType ==
  ASSUME DbType, NEW a \in Attempts, NEW r, NEW project \in Rows, Create(a, r, project)
  PROVE  DbType'
BY DEF DbType, Create, Insert

LEMMA MoveType ==
  ASSUME DbType, NEW a \in Attempts, NEW r, Move(a, r)
  PROVE  DbType'
<1>1. ProjectOf(a) \in Rows
  BY DEF ProjectOf, Home, Row, Rows, Kinds, Makers
<1> QED
  BY <1>1 DEF DbType, Move, MoveTo

LEMMA ApplyStepType ==
  ASSUME DbType, Shape, LiveInv, NEW a \in Attempts, ApplyStep(a)
  PROVE  DbType'
<1>1. ProjectOf(a) \in Rows /\ Home \in Rows
  BY DEF ProjectOf, Home, Row, Rows, Kinds, Makers
<1>2. CASE ResolveProject(a)
  <2>1. Create(a, ProjectOf(a), ProjectOf(a)) \/ UNCHANGED <<db, active>>
    BY <1>2 DEF ResolveProject
  <2> QED
    BY <1>1, <2>1, CreateType DEF DbType
<1>3. CASE CreateGateway(a)
  <2>1. try[a].seen \in Rows
    BY <1>3, RowsType DEF CreateGateway, Shape, LiveInv
  <2> QED
    BY <1>3, <2>1, CreateType DEF CreateGateway
<1>4. CASE AttachGateway(a) \/ AdoptGateway(a)
  BY <1>4, MoveType DEF AttachGateway, AdoptGateway
<1>5. CASE Install(a)
  BY <1>1, <1>5, MoveType, CreateType DEF Install
<1>6. CASE CreateCatalog(a)
  <2> DEFINE r == Row("catalog", Now(a).ref, a)
  <2>1. At(a, "createCatalog") /\ Create(a, r, r)
    BY <1>6 DEF CreateCatalog
  <2>2. r \in AllRows(spec)
    BY <2>1, OwnRow DEF At, Kinds, LiveInv
  <2>3. r \in Rows
    BY <2>2, RowsType DEF LiveInv
  <2> HIDE DEF r
  <2> QED
    BY <2>1, <2>3, CreateType
<1>7. CASE InstallCatalog(a) \/ CreateWorkflow(a) \/ CreateResource(a)
  BY <1>1, <1>7, CreateType DEF InstallCatalog, CreateWorkflow, CreateResource
<1>8. CASE UNCHANGED <<db, active>>
  BY <1>8 DEF DbType
<1>9. CASE Activate(a)
  BY <1>9 DEF Activate, DbType
<1>10. CASE UndoStage(a)
  BY <1>10 DEF UndoStage, DbType, Without
<1>11. CASE MakeDefault(a)
  <2>1. DefaultBy(a) \in Rows
    BY DefaultRow, RowsType DEF LiveInv
  <2>2. db' = Insert(DefaultBy(a), DefaultBy(a)) \/ db' = db
    BY <1>11 DEF MakeDefault
  <2>3. active' = active
    BY <1>11 DEF MakeDefault
  <2> QED
    BY <2>1, <2>2, <2>3 DEF DbType, Insert
<1> QED
  BY <1>2, <1>3, <1>4, <1>5, <1>6, <1>7, <1>8, <1>9, <1>10, <1>11
     DEF ApplyStep, Pipeline, FindDefault, CheckCredentials, FindInstall, WireWorkflow, SmokeTest, StepThrows, UndoThrows

(* The types that IInv does not state.                                     *)
TypeInv == DbType /\ overlap \in BOOLEAN /\ job.stalls \in 0..MaxStalls

(* Every step keeps the types.                                             *)
LEMMA TypeStep == IInv /\ LiveInv /\ TypeInv /\ [Next]_vars => TypeInv'
<1> SUFFICES ASSUME IInv, LiveInv, TypeInv, [Next]_vars PROVE TypeInv'
  OBVIOUS
<1>1. job \in [state: JobStates, by: Attempts \cup {None}, stalls: Nat]
  BY DEF IInv, WorkerInv
<1>2. CASE CreateQueuedRun \/ Enqueue \/ UNCHANGED vars
  BY <1>1, <1>2 DEF CreateQueuedRun, Enqueue, vars, applyVars, TypeInv, DbType
<1>3. ASSUME NEW a \in Attempts, Pick(a) PROVE TypeInv'
  BY <1>1, <1>3 DEF Pick, applyVars, TypeInv, DbType
<1>4. ASSUME NEW a \in Attempts, MarkRunRunning(a) PROVE TypeInv'
  BY <1>4 DEF MarkRunRunning, Begin, RecordThrows, TypeInv, DbType
<1>5. ASSUME NEW a \in Attempts, WorkApply(a) PROVE TypeInv'
  BY <1>5, ApplyStepType DEF WorkApply, TypeInv, IInv, ApplyInv
<1>6. ASSUME NEW a \in Attempts, CompleteRun(a) \/ FailRun(a) PROVE TypeInv'
  BY <1>6 DEF CompleteRun, FailRun, RecordThrows, applyVars, TypeInv, DbType
<1>7. ASSUME NEW a \in Attempts, Acknowledge(a) PROVE TypeInv'
  BY <1>1, <1>7 DEF Acknowledge, applyVars, TypeInv, DbType
<1>8. ASSUME NEW a \in Attempts, WorkerDies(a) PROVE TypeInv'
  BY <1>8 DEF WorkerDies, Die, applyVars, TypeInv, DbType
<1>9. ASSUME NEW a \in Attempts, Stall(a) PROVE TypeInv'
  <2>1. DbType' /\ overlap' \in BOOLEAN
    BY <1>9 DEF Stall, applyVars, TypeInv, DbType
  <2>2. job'.stalls \in 0..MaxStalls
    BY <1>1, <1>9, MaxStallsAssumption DEF Stall, TypeInv
  <2> QED
    BY <2>1, <2>2 DEF TypeInv
<1> QED
  BY <1>2, <1>3, <1>4, <1>5, <1>6, <1>7, <1>8, <1>9 DEF Next, Work

(* Every variable keeps its type: rows are of attempts or the user, those  *)
(* that are live exist, and a job stalls at most MaxStalls times.          *)
THEOREM TypeCorrect == Spec => []TypeOK
<1>1. Init => TypeInv
  <2> SUFFICES ASSUME Init PROVE TypeInv
    OBVIOUS
  <2>1. Home \in Rows
    BY DEF Home, Row, Rows, Kinds, Makers
  <2>2. DOMAIN db = UserRows(spec) /\ \A r \in UserRows(spec) : db[r] = IF r.kind = "project" THEN r ELSE Home
    BY DEF Init, ApplyInit
  <2>3. UserRows(spec) \subseteq Rows
    BY UserRowsFacts, RowsType DEF Init, ApplyInit
  <2>4. DbType
    BY <2>1, <2>2, <2>3 DEF Init, ApplyInit, DbType
  <2>5. overlap = FALSE /\ job.stalls = 0
    BY DEF Init, NoJob
  <2>6. 0 \in 0..MaxStalls
    BY MaxStallsAssumption
  <2> QED
    BY <2>4, <2>5, <2>6 DEF TypeInv
<1>2. IInv /\ LiveInv /\ TypeInv => TypeOK
  <2> SUFFICES ASSUME IInv, LiveInv, TypeInv PROVE TypeOK
    OBVIOUS
  <2>1. spec \in Specs /\ AllRows(spec) \subseteq Rows
    BY RowsType DEF LiveInv
  <2>2. TryOf(AllRows(spec)) \subseteq Try
    BY <2>1 DEF TryOf, Try
  <2>3. ApplyTypeOK
    BY <2>1, <2>2 DEF ApplyTypeOK, IInv, ApplyInv, Shape, TypeInv, DbType
  <2>4. job \in [state: JobStates, by: Attempts \cup {None}, stalls: 0..MaxStalls]
    BY DEF IInv, WorkerInv, TypeInv
  <2> QED
    BY <2>3, <2>4 DEF TypeOK, IInv, WorkerInv, StatusInv, TypeInv
<1> QED
  BY <1>1, <1>2, TypeStep, Invariance, PTL DEF Spec
================================================================================
