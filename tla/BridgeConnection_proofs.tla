------------------------ MODULE BridgeConnection_proofs ------------------------
(* The proofs that every variable keeps its type and that the agent serves   *)
(* one connection, for every number of instances, clients, calls and faults. *)
(*                                                                           *)
(* OneConnection is inductive but for the shape of a client, and a step      *)
(* threatens it in one of two ways: a client moves on, or is disconnected.   *)
EXTENDS BridgeConnection, FiniteSetTheorems, WellFoundedInduction, TLAPS

(* A client is a record with the two fields that matter here.                *)
IsClient(c) == {"phase", "cut"} \subseteq DOMAIN c /\ c = [f \in DOMAIN c |-> c[f]]

Shape ==
    /\ client = [k \in Clients |-> client[k]]
    /\ \A k \in Clients : IsClient(client[k])

(* The agent counts on a connection of the client.                           *)
Served(c) == c.phase \notin {"none", "dialing"} /\ c.cut = "no"

IInv == Shape /\ \A k \in Clients : Served(client[k]) => platform = k

LEMMA GoneIsNoClient == Gone \notin Clients
BY ConnectionAssumption DEF Gone, Clients

LEMMA NoClientFacts == IsClient(NoClient) /\ ~Served(NoClient)
BY DEF IsClient, Served, NoClient

(* One client becomes c, which is served only if it was: the agent's         *)
(* platform stays, or is that client's no more.                              *)
LEMMA OneMoves ==
  ASSUME IInv, NEW k \in Clients, NEW c, IsClient(c), client' = [client EXCEPT ![k] = c],
         \/ platform' = platform /\ (Served(c) => Served(client[k]))
         \/ platform' = PlatformWithout(k) /\ ~Served(c)
  PROVE  IInv'
<1>1. /\ client' = [j \in Clients |-> client'[j]] /\ client'[k] = c
      /\ \A j \in Clients \ {k} : client'[j] = client[j]
  BY DEF IInv, Shape
<1>2. Shape'
  BY <1>1 DEF IInv, Shape
<1>3. ASSUME NEW j \in Clients, Served(client'[j]) PROVE platform' = j
  <2>1. CASE j = k
    BY <1>1, <1>3, <2>1 DEF IInv
  <2>2. CASE j # k
    BY <1>1, <1>3, <2>2 DEF IInv, PlatformWithout
  <2> QED
    BY <2>1, <2>2
<1> QED
  BY <1>2, <1>3 DEF IInv

(* Clients that are served are as before, and not client k, which the        *)
(* platform may lose.                                                        *)
LEMMA OthersStay ==
  ASSUME IInv, NEW k,
         client' = [j \in Clients |-> client'[j]],
         \A j \in Clients : /\ IsClient(client'[j])
                            /\ Served(client'[j]) => client'[j] = client[j] /\ j # k,
         platform' \in {platform, PlatformWithout(k)}
  PROVE  IInv'
<1>1. ASSUME NEW j \in Clients, Served(client'[j]) PROVE platform' = j
  BY <1>1 DEF IInv, PlatformWithout
<1> QED
  BY <1>1 DEF IInv, Shape

(* A client that is made dials, and every other client is as in all.         *)
LEMMA CreateFacts ==
  ASSUME NEW i, NEW tokens, NEW all, Create(i, tokens, all), \A j \in Clients : IsClient(all[j])
  PROVE  /\ client' = [j \in Clients |-> client'[j]]
         /\ \A j \in Clients : /\ IsClient(client'[j])
                               /\ Served(client'[j]) => client'[j] = all[j]
<1> DEFINE ks == Smallest(Len(tokens), {k \in Clients : FreeClient(k)})
           made(k) == [NoClient EXCEPT !.home = i, !.destroyed = FALSE, !.first = TRUE,
                                       !.phase = "dialing", !.token = tokens[Place(k, ks)]]
<1>1. client' = [k \in Clients |-> IF k \in ks THEN made(k) ELSE all[k]]
  BY DEF Create
<1>2. ASSUME NEW k PROVE IsClient(made(k)) /\ ~Served(made(k))
  <2>1. made(k).phase = "dialing"
    BY DEF NoClient
  <2>2. IsClient(made(k))
    BY DEF IsClient, NoClient
  <2> QED
    BY <2>1, <2>2 DEF Served
<1> HIDE DEF ks, made
<1> QED
  BY <1>1, <1>2

LEMMA DisconnectedFacts ==
  ASSUME IInv, NEW k
  PROVE  \A j \in Clients : /\ IsClient(Disconnected(k)[j])
                            /\ Served(Disconnected(k)[j]) => Disconnected(k)[j] = client[j] /\ j # k
BY NoClientFacts DEF IInv, Shape, Disconnected

-------------------------------------------------------------------------------
LEMMA AnsweredInv ==
  ASSUME IInv, NEW c \in Callers, Answered(c)
  PROVE  IInv'
<1>1. CASE UNCHANGED <<client, platform>>
  BY <1>1 DEF IInv, Shape
<1>2. CASE Listen(c)
  <2> DEFINE seen == call[c].existing
  <2>1. CASE client' = client
    BY <1>1, <1>2, <2>1 DEF Listen, agent
  <2>2. CASE client' = [client EXCEPT ![seen].heirs = Append(@, call[c].token)]
    <3>1. CASE seen \in Clients
      <4> DEFINE new == [client[seen] EXCEPT !.heirs = Append(client[seen].heirs, call[c].token)]
      <4>1. client' = [client EXCEPT ![seen] = new] /\ platform' = platform
        BY <1>2, <2>2 DEF Listen, agent
      <4>2. IsClient(new) /\ (Served(new) => Served(client[seen]))
        BY <3>1 DEF IInv, Shape, IsClient, Served
      <4> HIDE DEF new, seen
      <4> QED
        BY <3>1, <4>1, <4>2, OneMoves
    <3>2. CASE seen \notin Clients
      <4>1. client' = client
        BY <2>2, <3>2 DEF IInv, Shape
      <4> QED
        BY <1>1, <1>2, <4>1 DEF Listen, agent
    <3> QED
      BY <3>1, <3>2
  <2> QED
    BY <1>2, <2>1, <2>2 DEF Listen
<1>3. CASE Make(c)
  <2>1. /\ Create(Home[c], <<call[c].token>>, Disconnected(map[Home[c]]))
        /\ platform' = PlatformWithout(map[Home[c]])
    BY <1>3 DEF Make
  <2> QED
    BY <2>1, CreateFacts, DisconnectedFacts, OthersStay
<1> QED
  BY <1>1, <1>2, <1>3 DEF Answered, Blocked, Join, agent

LEMMA RemoveClientInv ==
  ASSUME IInv, NEW i \in Instances, RemoveClient(i)
  PROVE  IInv'
<1>1. client' = Disconnected(map[i]) /\ platform' = PlatformWithout(map[i])
  BY DEF RemoveClient
<1>2. client' = [j \in Clients |-> client'[j]]
  BY <1>1 DEF Disconnected
<1> QED
  BY <1>1, <1>2, DisconnectedFacts, OthersStay

(* The platform there was is replaced, if the agent still counted on it.     *)
LEMMA AcceptInv ==
  ASSUME IInv, NEW k \in Clients, Accept(k)
  PROVE  IInv'
<1> DEFINE asked == [client[k] EXCEPT !.phase = "asked"]
           old(j) == [client[j] EXCEPT !.cut = "replaced"]
<1>1. /\ client' = [j \in Clients |-> IF j = k THEN asked
                                      ELSE IF j = platform /\ client[j].cut = "no" THEN old(j) ELSE client[j]]
      /\ platform' = k
  BY DEF Accept
<1>2. IsClient(asked)
  BY DEF IInv, Shape, IsClient
<1>3. \A j \in Clients : IsClient(old(j)) /\ ~Served(old(j))
  BY DEF IInv, Shape, IsClient, Served
<1> HIDE DEF asked, old
<1>4. Shape'
  BY <1>1, <1>2, <1>3 DEF IInv, Shape
<1>5. ASSUME NEW j \in Clients, Served(client'[j]) PROVE j = k
  <2> SUFFICES ASSUME j # k PROVE FALSE
    OBVIOUS
  <2>1. client'[j] = client[j] /\ ~(j = platform /\ client[j].cut = "no")
    BY <1>1, <1>3, <1>5
  <2> QED
    BY <1>5, <2>1 DEF IInv, Served
<1> QED
  BY <1>1, <1>4, <1>5 DEF IInv

LEMMA SocketStepInv ==
  ASSUME IInv, NEW k \in Clients, SocketStep(k) \/ FirstTimesOut(k) \/ LoseConnection(k)
  PROVE  IInv'
<1>1. IsClient(client[k])
  BY DEF IInv, Shape
<1>2. CASE Authenticate(k)
  <2> DEFINE new == [client[k] EXCEPT !.phase = IF client[k].token = token.agent THEN "answered" ELSE "refused"]
  <2>1. client' = [client EXCEPT ![k] = new] /\ platform' = platform /\ Served(client[k])
    BY <1>2 DEF Authenticate, agent, Served
  <2>2. IsClient(new)
    BY <1>1 DEF IsClient
  <2> HIDE DEF new
  <2> QED
    BY <2>1, <2>2, OneMoves
<1>3. CASE Connect(k)
  <2> DEFINE new == [client[k] EXCEPT !.phase = "live", !.attempts = 0, !.first = client[k].first /\ ~FirstTry(k)]
  <2>1. client' = [client EXCEPT ![k] = new] /\ platform' = platform /\ client[k].phase = "answered"
    BY <1>3 DEF Connect, agent, IInv, Shape
  <2>2. IsClient(new) /\ new.cut = client[k].cut
    BY <1>1 DEF IsClient
  <2> HIDE DEF new
  <2> QED
    BY <2>1, <2>2, OneMoves DEF Served
<1>4. CASE Unauthorized(k)
  <2> DEFINE new == [client[k] EXCEPT !.phase = "unheard", !.first = client[k].first /\ ~FirstTry(k)]
  <2>1. client' = [client EXCEPT ![k] = new] /\ platform' = platform /\ client[k].phase = "refused"
    BY <1>4 DEF Unauthorized, agent, IInv, Shape
  <2>2. IsClient(new) /\ new.cut = client[k].cut
    BY <1>1 DEF IsClient
  <2> HIDE DEF new
  <2> QED
    BY <2>1, <2>2, OneMoves DEF Served
<1>5. CASE Replaced(k)
  <2> DEFINE new == [NoClient EXCEPT !.home = client[k].home, !.first = client[k].first]
  <2>1. client' = [client EXCEPT ![k] = new] /\ platform' = platform
    BY <1>5 DEF Replaced, agent
  <2>2. IsClient(new) /\ ~Served(new)
    BY DEF IsClient, Served, NoClient
  <2> HIDE DEF new
  <2> QED
    BY <2>1, <2>2, OneMoves
<1>6. CASE LostAndRetried(k)
  <2>1. PICK told \in Told(k) :
          client' = [client EXCEPT ![k] = [@ EXCEPT !.phase = "none", !.cut = "no", !.timer = TRUE,
                                                    !.attempts = client[k].attempts + 1,
                                                    !.first = client[k].first /\ ~(told /\ FirstTry(k))]]
    BY <1>6 DEF LostAndRetried
  <2> DEFINE new == [client[k] EXCEPT !.phase = "none", !.cut = "no", !.timer = TRUE,
                                      !.attempts = client[k].attempts + 1,
                                      !.first = client[k].first /\ ~(told /\ FirstTry(k))]
  <2>2. client' = [client EXCEPT ![k] = new] /\ platform' = PlatformWithout(k)
    BY <1>6, <2>1 DEF LostAndRetried
  <2>3. IsClient(new) /\ ~Served(new)
    BY <1>1 DEF IsClient, Served
  <2> HIDE DEF new
  <2> QED
    BY <2>2, <2>3, OneMoves
<1>7. CASE LostForGood(k)
  <2> DEFINE lost == [client[k] EXCEPT !.phase = "none", !.cut = "no", !.heirs = << >>]
             all == [client EXCEPT ![k] = lost]
  <2>1. Create(client[k].home, client[k].heirs, all) /\ platform' = PlatformWithout(k)
    BY <1>7 DEF LostForGood, IInv, Shape
  <2>2. IsClient(lost) /\ ~Served(lost)
    BY <1>1 DEF IsClient, Served
  <2> HIDE DEF lost
  <2>3. all[k] = lost /\ \A j \in Clients \ {k} : all[j] = client[j]
    BY DEF IInv, Shape
  <2>4. \A j \in Clients : IsClient(all[j])
    BY <2>2, <2>3 DEF IInv, Shape
  <2> HIDE DEF all
  <2> QED
    BY <2>1, <2>2, <2>3, <2>4, CreateFacts, OthersStay
<1>8. CASE Reconnect(k)
  <2> DEFINE new == [client[k] EXCEPT !.timer = FALSE, !.phase = "dialing"]
  <2>1. client' = [client EXCEPT ![k] = new] /\ platform' = platform
    BY <1>8 DEF Reconnect, agent, IInv, Shape
  <2>2. IsClient(new) /\ ~Served(new)
    BY <1>1 DEF IsClient, Served
  <2> HIDE DEF new
  <2> QED
    BY <2>1, <2>2, OneMoves
<1>9. CASE FirstTimesOut(k)
  <2> DEFINE new == [client[k] EXCEPT !.first = FALSE]
  <2>1. client' = [client EXCEPT ![k] = new] /\ platform' = platform
    BY <1>9 DEF FirstTimesOut, agent
  <2>2. IsClient(new) /\ (Served(new) => Served(client[k]))
    BY <1>1 DEF IsClient, Served
  <2> HIDE DEF new
  <2> QED
    BY <2>1, <2>2, OneMoves
<1>10. CASE LoseConnection(k)
  <2> DEFINE new == [client[k] EXCEPT !.cut = "lost"]
  <2>1. client' = [client EXCEPT ![k] = new] /\ platform' = platform
    BY <1>10 DEF LoseConnection, agent
  <2>2. IsClient(new) /\ ~Served(new)
    BY <1>1 DEF IsClient, Served
  <2> HIDE DEF new
  <2> QED
    BY <2>1, <2>2, OneMoves
<1> QED
  BY <1>2, <1>3, <1>4, <1>5, <1>6, <1>7, <1>8, <1>9, <1>10, AcceptInv DEF SocketStep

LEMMA StepInv == IInv /\ [Next]_vars => IInv'
<1> SUFFICES ASSUME IInv, [Next]_vars PROVE IInv'
  OBVIOUS
<1>1. CASE UNCHANGED <<client, platform>>
  BY <1>1 DEF IInv, Shape
<1>2. CASE CloseOfPlatform
  BY <1>2, GoneIsNoClient DEF CloseOfPlatform, IInv, Shape, Served
<1>3. ASSUME \/ \E c \in Callers : Ask(c)
             \/ \E i \in Instances : Rotate(i)
             \/ CloseOfReplaced \/ Store \/ RotationFails \/ LoseLease
             \/ UNCHANGED vars
      PROVE  UNCHANGED <<client, platform>>
  BY <1>3 DEF Ask, Rotate, CloseOfReplaced, Store, RotationFails, LoseLease, vars, agent
<1> QED
  BY <1>1, <1>2, <1>3, AnsweredInv, RemoveClientInv, SocketStepInv DEF Next

(* The agent serves one connection: each that it has accepted, has not       *)
(* replaced and has not lost is its platformWs, whichever close events come  *)
(* late (wss.on('connection') and ws.on('close') of the agent).              *)
THEOREM OneConnectionHolds == Spec => []OneConnection
<1>1. Init => IInv
  BY NoClientFacts DEF Init, IInv, Shape
<1>2. IInv => OneConnection
  BY DEF IInv, Served, OneConnection
<1> QED
  BY <1>1, <1>2, StepInv, PTL DEF Spec

-------------------------------------------------------------------------------
(* Types. The clients that are made are the first that are free; that there  *)
(* are such is the one thing here that needs an argument.                    *)

LEMMA Least ==
  ASSUME NEW T \in SUBSET Nat, T # {}
  PROVE  \E m \in T : \A n \in T : m <= n
<1>1. PICK m \in T : \A n \in T : ~ (<<n, m>> \in OpToRel(<, Nat))
  BY NatLessThanWellFounded, WFMin, T # {}
<1>2. \A n \in T : ~ (n < m)
  BY <1>1 DEF OpToRel
<1> QED
  BY <1>2

IsSmallest(T, n, S) == Cardinality(T) = n /\ \A x \in T : \A y \in S \ T : x < y

(* A finite set of numbers has its n smallest.                               *)
LEMMA SmallestExist ==
  ASSUME NEW S \in SUBSET Nat, IsFiniteSet(S), NEW n \in Nat, Cardinality(S) >= n
  PROVE  Smallest(n, S) \in SUBSET S /\ IsSmallest(Smallest(n, S), n, S)
<1> DEFINE Bad == {k \in 0..n : ~ \E T \in SUBSET S : IsSmallest(T, k, S)}
<1>1. ASSUME Bad # {} PROVE FALSE
  <2>0. Bad \in SUBSET Nat
    OBVIOUS
  <2>1. PICK k \in Bad : \A j \in Bad : k <= j
    <3> HIDE DEF Bad
    <3> QED
      BY <1>1, <2>0, Least
  <2>2. k # 0
    <3>1. {} \in SUBSET S /\ IsSmallest({}, 0, S)
      BY FS_EmptySet DEF IsSmallest
    <3> QED
      BY <3>1
  <2>3. k - 1 \in 0..n /\ k - 1 \notin Bad
    BY <2>1, <2>2
  <2>4. PICK T \in SUBSET S : IsSmallest(T, k - 1, S)
    BY <2>3
  <2>5. IsFiniteSet(T) /\ Cardinality(T) = k - 1 /\ Cardinality(S) >= k
    <3>1. k <= n /\ k \in Nat /\ Cardinality(S) \in Nat
      BY <2>1, FS_CardinalityType
    <3>2. IsFiniteSet(T)
      BY FS_Subset
    <3> QED
      BY <2>4, <3>1, <3>2 DEF IsSmallest
  <2>6. S \ T # {} /\ S \ T \in SUBSET Nat
    <3>1. T # S
      BY <2>1, <2>5
    <3> QED
      BY <3>1
  <2>7. PICK m \in S \ T : \A y \in S \ T : m <= y
    BY <2>6, Least
  <2>8. Cardinality(T \cup {m}) = k
    <3>1. Cardinality(T \cup {m}) = Cardinality(T) + 1
      BY <2>5, <2>7, FS_AddElement
    <3> QED
      BY <2>1, <2>5, <3>1
  <2>9. \A x \in T \cup {m} : \A y \in S \ (T \cup {m}) : x < y
    BY <2>4, <2>6, <2>7 DEF IsSmallest
  <2> QED
    BY <2>1, <2>8, <2>9 DEF IsSmallest
<1>2. \E T \in SUBSET S : IsSmallest(T, n, S)
  <2>1. n \in 0..n
    OBVIOUS
  <2> QED
    BY <1>1, <2>1
<1> HIDE DEF Bad
<1> QED
  BY <1>2 DEF Smallest, IsSmallest

LEMMA PlaceType ==
  ASSUME NEW T \in SUBSET Nat, IsFiniteSet(T), NEW x \in T
  PROVE  Place(x, T) \in 1..Cardinality(T)
<1> DEFINE below == {y \in T : y <= x}
<1>1. below \in SUBSET T /\ x \in below
  OBVIOUS
<1> HIDE DEF below
<1>2. IsFiniteSet(below) /\ Cardinality(below) <= Cardinality(T)
  BY <1>1, FS_Subset
<1>3. Cardinality(below) \in Nat /\ Cardinality(T) \in Nat /\ Cardinality(below) # 0
  BY <1>1, <1>2, FS_CardinalityType, FS_EmptySet
<1> QED
  BY <1>2, <1>3 DEF Place, below

Client == [home : Instances \cup {Nobody}, token : Tokens, destroyed : BOOLEAN,
           attempts : 0..MaxAttempts, timer : BOOLEAN, first : BOOLEAN,
           heirs : Seq(Tokens), cut : {"no", "replaced", "lost"},
           phase : {"none", "dialing", "asked", "answered", "refused", "unheard", "live"}]
Call == [on : BOOLEAN, existing : 0..MaxClients, token : Tokens]

LEMMA Bounds ==
  /\ MaxClients \in Nat /\ MaxAttempts \in Nat /\ MaxFaults \in Nat /\ MaxRotations \in Nat
  /\ 0 \in Tokens /\ 0 \in 0..MaxAttempts /\ 0 \in 0..MaxClients
BY ConnectionAssumption DEF Tokens

LEMMA NoneTyped == NoClient \in Client /\ NoCall \in Call
BY Bounds DEF NoClient, NoCall, Client, Call

LEMMA CreateTyped ==
  ASSUME NEW i \in Instances \cup {Nobody}, NEW tokens \in Seq(Tokens),
         NEW all \in [Clients -> Client], Create(i, tokens, all)
  PROVE  /\ client' \in [Clients -> Client]
         /\ Len(tokens) # 0 => \E k \in Clients : FreeClient(k) /\ client'[k].first
<1> DEFINE free == {k \in Clients : FreeClient(k)}
           n == Len(tokens)
           ks == Smallest(n, free)
           made(k) == [NoClient EXCEPT !.home = i, !.destroyed = FALSE, !.first = TRUE,
                                       !.phase = "dialing", !.token = tokens[Place(k, ks)]]
<1>1. /\ client' = [k \in Clients |-> IF k \in ks THEN made(k) ELSE all[k]]
      /\ Cardinality(free) >= n
  BY DEF Create
<1>2. free \in SUBSET Nat /\ IsFiniteSet(free) /\ n \in Nat /\ free \in SUBSET Clients
  <2>1. IsFiniteSet(Clients)
    BY Bounds, FS_Interval DEF Clients
  <2>2. free \in SUBSET Clients /\ Clients \in SUBSET Nat /\ n \in Nat
    BY DEF Clients
  <2> HIDE DEF free, n
  <2> QED
    BY <2>1, <2>2, FS_Subset
<1>3. \A k \in free : FreeClient(k)
  OBVIOUS
<1> HIDE DEF free
<1>4. ks \in SUBSET free /\ Cardinality(ks) = n
  BY <1>1, <1>2, SmallestExist DEF IsSmallest
<1> HIDE DEF ks
<1>5. IsFiniteSet(ks) /\ ks \in SUBSET Nat
  BY <1>2, <1>4, FS_Subset
<1>6. ASSUME NEW k \in ks PROVE made(k) \in Client /\ made(k).first
  <2>1. Place(k, ks) \in 1..n
    BY <1>4, <1>5, PlaceType
  <2>2. tokens[Place(k, ks)] \in Tokens
    BY <2>1
  <2> QED
    BY <2>2, NoneTyped DEF Client, NoClient
<1> HIDE DEF made
<1>7. client' \in [Clients -> Client]
  BY <1>1, <1>6
<1>8. ASSUME n # 0 PROVE \E k \in Clients : FreeClient(k) /\ client'[k].first
  <2>1. PICK k \in ks : TRUE
    BY <1>4, <1>5, <1>8, FS_EmptySet
  <2>2. k \in Clients /\ FreeClient(k) /\ client'[k] = made(k)
    BY <1>1, <1>2, <1>3, <1>4, <2>1
  <2> QED
    BY <1>6, <2>1, <2>2
<1> QED
  BY <1>7, <1>8

(* What calls, maps and the platform become when a client goes.              *)
LEMMA PartsTyped ==
  ASSUME TypeOK, NEW k
  PROVE  /\ Disconnected(k) \in [Clients -> Client]
         /\ Unseen(k) \in [Callers -> Call]
         /\ k \in 0..MaxClients => PlatformWithout(k) \in 0..Gone
         /\ NoLongerPending(k) \in [Instances -> 0..MaxClients]
<1>1. /\ client \in [Clients -> Client] /\ call \in [Callers -> Call] /\ platform \in 0..Gone
      /\ pending \in [Instances -> 0..MaxClients]
  BY DEF TypeOK, Client, Call
<1>2. Disconnected(k) \in [Clients -> Client]
  BY <1>1, NoneTyped DEF Disconnected
<1>3. Unseen(k) \in [Callers -> Call]
  <2>1. \A c \in Callers : [call[c] EXCEPT !.existing = 0] \in Call
    BY <1>1, Bounds DEF Call
  <2> QED
    BY <1>1, <2>1 DEF Unseen
<1>4. PlatformWithout(k) \in 0..Gone
  BY <1>1, Bounds DEF PlatformWithout, Gone
<1>5. NoLongerPending(k) \in [Instances -> 0..MaxClients]
  BY <1>1, Bounds DEF NoLongerPending
<1> QED
  BY <1>2, <1>3, <1>4, <1>5

Typed ==
    /\ client \in [Clients -> Client]
    /\ map \in [Instances -> 0..MaxClients] /\ pending \in [Instances -> 0..MaxClients]
    /\ call \in [Callers -> Call]
    /\ lease \in Instances \cup {Nobody}
    /\ platform \in 0..Gone /\ late \in BOOLEAN
    /\ token \in [agent : Tokens, stored : Tokens, changing : BOOLEAN]
    /\ faults \in 0..MaxFaults

LEMMA TypeOKIsTyped == (TypeOK <=> Typed) /\ (TypeOK' <=> Typed')
BY DEF TypeOK, Typed, Client, Call

LEMMA FaultTyped == ASSUME Typed, Fault PROVE faults' \in 0..MaxFaults
BY Bounds DEF Typed, Fault

LEMMA CallsTyped ==
  ASSUME Typed, NEW c \in Callers, Ask(c) \/ Answered(c)
  PROVE  Typed'
<1> USE ConnectionAssumption
<1>1. Home[c] \in Instances /\ call[c] \in Call /\ map[Home[c]] \in 0..MaxClients
  BY DEF Typed
<1>2. Ended(c) \in [Callers -> Call]
  BY NoneTyped DEF Ended, Typed
<1>3. CASE Ask(c)
  <2>1. [on |-> TRUE, existing |-> map[Home[c]], token |-> token.stored] \in Call
    BY <1>1 DEF Typed, Call
  <2>2. call' \in [Callers -> Call]
    BY <1>3, <2>1 DEF Ask, Typed
  <2> QED
    BY <1>3, <2>2 DEF Ask, Typed, manager, agent
<1>4. CASE Blocked(c)
  BY <1>2, <1>4 DEF Blocked, Typed, manager, agent
<1>5. CASE lease' = Home[c] /\ Join(c)
  BY <1>1, <1>2, <1>5 DEF Join, Typed, manager, agent
<1>6. CASE lease' = Home[c] /\ Listen(c)
  <2> DEFINE seen == call[c].existing
             new == [client[seen] EXCEPT !.heirs = Append(client[seen].heirs, call[c].token)]
  <2>1. seen \in 0..MaxClients /\ seen # 0 /\ call[c].token \in Tokens
    BY <1>1, <1>6 DEF Listen, Call
  <2>2. client[seen] \in Client
    BY <2>1, Bounds DEF Typed, Clients
  <2>3. new \in Client
    <3>1. client[seen].heirs \in Seq(Tokens)
      BY <2>2 DEF Client
    <3>2. Append(client[seen].heirs, call[c].token) \in Seq(Tokens)
      BY <2>1, <3>1
    <3> HIDE DEF seen
    <3> QED
      BY <2>2, <3>2 DEF Client
  <2>4. client' = client \/ client' = [client EXCEPT ![seen] = new]
    BY <1>6 DEF Listen
  <2>5. client' \in [Clients -> Client]
    BY <2>3, <2>4 DEF Typed
  <2> QED
    BY <1>1, <1>2, <1>6, <2>5 DEF Listen, Typed, manager, agent
<1>7. CASE lease' = Home[c] /\ Make(c)
  <2> DEFINE i == Home[c]
             all == Disconnected(map[i])
             tokens == <<call[c].token>>
             k == CHOOSE k \in Clients : FreeClient(k) /\ client'[k].first
  <2>1. all \in [Clients -> Client] /\ Unseen(map[i]) \in [Callers -> Call]
        /\ PlatformWithout(map[i]) \in 0..Gone
    BY <1>1, PartsTyped, TypeOKIsTyped
  <2>2. tokens \in Seq(Tokens) /\ Len(tokens) # 0
    BY <1>1 DEF Call
  <2>3. Create(i, tokens, all)
    BY <1>7 DEF Make
  <2>4. client' \in [Clients -> Client] /\ \E j \in Clients : FreeClient(j) /\ client'[j].first
    <3>1. i \in Instances \cup {Nobody}
      BY <1>1
    <3> HIDE DEF all, tokens, i
    <3> QED
      BY <2>1, <2>2, <2>3, <3>1, CreateTyped
  <2> HIDE DEF all, tokens
  <2>5. k \in Clients
    BY <2>4
  <2>6. pending' = [pending EXCEPT ![i] = k] /\ map' = [map EXCEPT ![i] = 0]
    BY <1>7 DEF Make
  <2> HIDE DEF k
  <2>7. pending' \in [Instances -> 0..MaxClients] /\ map' \in [Instances -> 0..MaxClients]
    BY <2>5, <2>6, Bounds DEF Typed, Clients
  <2>8. call' \in [Callers -> Call] /\ platform' \in 0..Gone
    BY <1>7, <2>1, NoneTyped DEF Make
  <2> QED
    BY <1>1, <1>7, <2>4, <2>7, <2>8 DEF Make, Typed
<1> QED
  BY <1>3, <1>4, <1>5, <1>6, <1>7 DEF Answered

LEMMA InstancesTyped ==
  ASSUME Typed, NEW i \in Instances, RemoveClient(i) \/ Rotate(i)
  PROVE  Typed'
<1>1. CASE RemoveClient(i)
  <2>1. map[i] \in 0..MaxClients
    BY DEF Typed
  <2>2. /\ client' \in [Clients -> Client] /\ call' \in [Callers -> Call]
        /\ platform' \in 0..Gone
    BY <1>1, <2>1, PartsTyped, TypeOKIsTyped DEF RemoveClient
  <2>3. faults' \in 0..MaxFaults
    BY <1>1, FaultTyped DEF RemoveClient
  <2>4. map' \in [Instances -> 0..MaxClients]
    BY <1>1, Bounds DEF RemoveClient, Typed
  <2> QED
    BY <1>1, <2>2, <2>3, <2>4 DEF RemoveClient, Typed
<1>2. CASE Rotate(i)
  <2>1. token \in [agent : Tokens, stored : Tokens, changing : BOOLEAN] /\ token.agent < MaxRotations
    BY <1>2 DEF Rotate, Typed
  <2>2. token.agent + 1 \in Tokens
    BY <2>1, Bounds DEF Tokens
  <2>3. token' \in [agent : Tokens, stored : Tokens, changing : BOOLEAN]
    BY <1>2, <2>1, <2>2 DEF Rotate
  <2> QED
    BY <1>2, <2>3 DEF Rotate, Typed, manager, agent
<1> QED
  BY <1>1, <1>2

(* A client that changes on its own.                                         *)
LEMMA ClientTyped ==
  ASSUME Typed, NEW k \in Clients, NEW c \in Client, client' = [client EXCEPT ![k] = c]
  PROVE  client' \in [Clients -> Client]
BY DEF Typed

LEMMA AgentTyped ==
  ASSUME Typed, NEW k \in Clients, Accept(k) \/ Authenticate(k) \/ LoseConnection(k)
  PROVE  Typed'
<1>1. \A j \in Clients : client[j] \in Client
  BY DEF Typed
<1>2. CASE Accept(k)
  <2>1. \A j \in Clients : /\ [client[j] EXCEPT !.phase = "asked"] \in Client
                           /\ [client[j] EXCEPT !.cut = "replaced"] \in Client
    BY <1>1 DEF Client
  <2>2. client' \in [Clients -> Client]
    BY <1>1, <1>2, <2>1 DEF Accept
  <2>3. platform' \in 0..Gone
    BY <1>2, Bounds DEF Accept, Gone, Clients
  <2>4. late' \in BOOLEAN
    BY <1>2 DEF Accept, Typed
  <2> QED
    BY <1>2, <2>2, <2>3, <2>4 DEF Accept, Typed, manager
<1>3. CASE Authenticate(k)
  <2> DEFINE c == [client[k] EXCEPT !.phase = IF client[k].token = token.agent THEN "answered" ELSE "refused"]
  <2>1. c \in Client /\ client' = [client EXCEPT ![k] = c]
    BY <1>1, <1>3 DEF Client, Authenticate
  <2> HIDE DEF c
  <2> QED
    BY <1>3, <2>1, ClientTyped DEF Authenticate, Typed, manager, agent
<1>4. CASE LoseConnection(k)
  <2> DEFINE c == [client[k] EXCEPT !.cut = "lost"]
  <2>1. c \in Client /\ client' = [client EXCEPT ![k] = c]
    BY <1>1, <1>4 DEF Client, LoseConnection
  <2> HIDE DEF c
  <2>2. faults' \in 0..MaxFaults
    BY <1>4, FaultTyped DEF LoseConnection
  <2> QED
    BY <1>4, <2>1, <2>2, ClientTyped DEF LoseConnection, Typed, manager, agent
<1> QED
  BY <1>2, <1>3, <1>4

LEMMA ClientStepsTyped ==
  ASSUME Typed, NEW k \in Clients,
         \/ Connect(k) \/ Unauthorized(k) \/ Replaced(k) \/ LostAndRetried(k)
         \/ LostForGood(k) \/ Reconnect(k) \/ FirstTimesOut(k)
  PROVE  Typed'
<1>1. client[k] \in Client
  BY DEF Typed
<1>2. k \in 0..MaxClients
  BY Bounds DEF Clients
<1>3. /\ Unseen(k) \in [Callers -> Call] /\ PlatformWithout(k) \in 0..Gone
      /\ NoLongerPending(k) \in [Instances -> 0..MaxClients]
  BY <1>2, PartsTyped, TypeOKIsTyped
<1>4. FirstFailed(k) => /\ pending' \in [Instances -> 0..MaxClients]
                        /\ map' \in [Instances -> 0..MaxClients]
  BY <1>3 DEF FirstFailed, Typed
<1>5. CASE Connect(k)
  <2> DEFINE c == [client[k] EXCEPT !.phase = "live", !.attempts = 0, !.first = client[k].first /\ ~FirstTry(k)]
  <2>1. c \in Client /\ client' = [client EXCEPT ![k] = c]
    BY <1>1, <1>5, Bounds DEF Client, Connect, Typed
  <2> HIDE DEF c
  <2>2. map' \in [Instances -> 0..MaxClients] /\ pending' \in [Instances -> 0..MaxClients]
    BY <1>2, <1>3, <1>5 DEF Connect, Typed, manager
  <2> QED
    BY <1>5, <2>1, <2>2, ClientTyped DEF Connect, Typed, agent
<1>6. CASE Unauthorized(k)
  <2> DEFINE c == [client[k] EXCEPT !.phase = "unheard", !.first = client[k].first /\ ~FirstTry(k)]
  <2>1. c \in Client /\ client' = [client EXCEPT ![k] = c]
    BY <1>1, <1>6 DEF Client, Unauthorized, Typed
  <2> HIDE DEF c
  <2>2. map' \in [Instances -> 0..MaxClients] /\ pending' \in [Instances -> 0..MaxClients]
    BY <1>4, <1>6 DEF Unauthorized, Typed, manager
  <2> QED
    BY <1>6, <2>1, <2>2, ClientTyped DEF Unauthorized, Typed, agent
<1>7. CASE Replaced(k)
  <2> DEFINE c == [NoClient EXCEPT !.home = client[k].home, !.first = client[k].first]
  <2>1. c \in Client /\ client' = [client EXCEPT ![k] = c]
    BY <1>1, <1>7, NoneTyped DEF Client, Replaced, NoClient
  <2> HIDE DEF c
  <2>2. map' \in [Instances -> 0..MaxClients]
    BY <1>7, Bounds DEF Replaced, Typed
  <2> QED
    BY <1>3, <1>7, <2>1, <2>2, ClientTyped DEF Replaced, Typed, agent
<1>8. CASE LostAndRetried(k)
  <2>1. PICK told \in Told(k) :
          /\ client' = [client EXCEPT ![k] = [@ EXCEPT !.phase = "none", !.cut = "no", !.timer = TRUE,
                                                       !.attempts = client[k].attempts + 1,
                                                       !.first = client[k].first /\ ~(told /\ FirstTry(k))]]
          /\ IF told /\ FirstTry(k) THEN FirstFailed(k) ELSE UNCHANGED manager
    BY <1>8 DEF LostAndRetried
  <2> DEFINE c == [client[k] EXCEPT !.phase = "none", !.cut = "no", !.timer = TRUE,
                                    !.attempts = client[k].attempts + 1,
                                    !.first = client[k].first /\ ~(told /\ FirstTry(k))]
  <2>2. client[k].attempts + 1 \in 0..MaxAttempts
    <3>1. client[k].attempts < MaxAttempts
      BY <1>8 DEF LostAndRetried
    <3>2. client[k].attempts \in 0..MaxAttempts
      BY <1>1 DEF Client
    <3> QED
      BY <3>1, <3>2, Bounds
  <2>3. c \in Client /\ client' = [client EXCEPT ![k] = c]
    BY <1>1, <2>1, <2>2 DEF Client, Typed
  <2> HIDE DEF c
  <2>4. map' \in [Instances -> 0..MaxClients] /\ pending' \in [Instances -> 0..MaxClients]
    BY <1>4, <2>1 DEF Typed, manager
  <2> QED
    BY <1>3, <1>8, <2>3, <2>4, ClientTyped DEF LostAndRetried, Typed
<1>9. CASE LostForGood(k)
  <2> DEFINE lost == [client[k] EXCEPT !.phase = "none", !.cut = "no", !.heirs = << >>]
             all == [client EXCEPT ![k] = lost]
  <2>1. Create(client[k].home, client[k].heirs, all)
    BY <1>9 DEF LostForGood, Typed
  <2>2. lost \in Client
    <3>1. << >> \in Seq(Tokens)
      OBVIOUS
    <3> QED
      BY <1>1, <3>1 DEF Client
  <2>3. all \in [Clients -> Client]
    BY <2>2 DEF Typed
  <2> HIDE DEF all
  <2>4. client' \in [Clients -> Client]
    BY <1>1, <2>1, <2>3, CreateTyped DEF Client
  <2>5. map' \in [Instances -> 0..MaxClients]
    BY <1>9, Bounds DEF LostForGood, Typed
  <2> QED
    BY <1>3, <1>9, <2>4, <2>5 DEF LostForGood, Typed
<1>10. CASE Reconnect(k)
  <2> DEFINE c == [client[k] EXCEPT !.timer = FALSE, !.phase = "dialing"]
  <2>1. c \in Client /\ client' = [client EXCEPT ![k] = c]
    BY <1>1, <1>10 DEF Client, Reconnect, Typed
  <2> HIDE DEF c
  <2> QED
    BY <1>10, <2>1, ClientTyped DEF Reconnect, Typed, manager, agent
<1>11. CASE FirstTimesOut(k)
  <2> DEFINE c == [client[k] EXCEPT !.first = FALSE]
  <2>1. c \in Client /\ client' = [client EXCEPT ![k] = c]
    BY <1>1, <1>11 DEF Client, FirstTimesOut
  <2> HIDE DEF c
  <2>2. faults' \in 0..MaxFaults
    BY <1>11, FaultTyped DEF FirstTimesOut, Typed
  <2> QED
    BY <1>4, <1>11, <2>1, <2>2, ClientTyped DEF FirstTimesOut, Typed, agent
<1> QED
  BY <1>5, <1>6, <1>7, <1>8, <1>9, <1>10, <1>11

LEMMA NextTyped == Typed /\ [Next]_vars => Typed'
<1> SUFFICES ASSUME Typed, [Next]_vars PROVE Typed'
  OBVIOUS
<1>1. CASE UNCHANGED vars
  BY <1>1 DEF vars, Typed
<1>2. CASE CloseOfPlatform
  BY <1>2, Bounds DEF CloseOfPlatform, Typed, manager, Gone
<1>3. CASE CloseOfReplaced
  BY <1>3 DEF CloseOfReplaced, Typed, manager
<1>4. CASE Store
  <2>1. token' \in [agent : Tokens, stored : Tokens, changing : BOOLEAN]
    BY <1>4 DEF Store, Typed
  <2> QED
    BY <1>4, <2>1 DEF Store, Typed, manager, agent
<1>5. CASE LoseLease
  BY <1>5, FaultTyped DEF LoseLease, Typed, manager, agent
<1>6. CASE RotationFails
  <2>1. token' \in [agent : Tokens, stored : Tokens, changing : BOOLEAN]
    BY <1>6 DEF RotationFails, Typed
  <2> QED
    BY <1>6, <2>1, FaultTyped DEF RotationFails, Typed, manager, agent
<1> QED
  BY <1>1, <1>2, <1>3, <1>4, <1>5, <1>6, CallsTyped, InstancesTyped, AgentTyped, ClientStepsTyped
     DEF Next, SocketStep

(* Every variable keeps its type: a client made for a waiting call gets that *)
(* call's token, and a connection never begins unless a client is free       *)
(* (BridgeClientManager and the agent's connection handler).                 *)
THEOREM TypeCorrect == Spec => []TypeOK
<1>1. Init => Typed
  <2> SUFFICES ASSUME Init PROVE Typed
    OBVIOUS
  <2>1. client \in [Clients -> Client] /\ call \in [Callers -> Call]
    BY NoneTyped DEF Init
  <2>2. token \in [agent : Tokens, stored : Tokens, changing : BOOLEAN]
    BY Bounds DEF Init
  <2>3. 0 \in 0..Gone /\ 0 \in 0..MaxFaults
    BY Bounds DEF Gone
  <2> QED
    BY <2>1, <2>2, <2>3, Bounds DEF Init, Typed
<1>2. Typed => TypeOK
  BY TypeOKIsTyped
<1> QED
  BY <1>1, <1>2, NextTyped, PTL DEF Spec
===============================================================================
