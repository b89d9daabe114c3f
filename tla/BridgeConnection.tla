---------------------------- MODULE BridgeConnection ----------------------------
(* The connection between the platform and the agent in one workspace         *)
(* container: the clients each platform instance makes, the manager's map and *)
(* its pending connection, and the agent, which serves one platform at a time *)
(* and closes the last one (4002) when the next arrives.                      *)
(* A failed first connection leaves its client behind, and a client           *)
(* reconnects on its own, so that several may be dialing at once.             *)
(*                                                                            *)
(* The lease is a variable an instance takes, gives back or loses at any      *)
(* time; how it is kept in Redis is the subject of BridgeLease.               *)
EXTENDS Naturals, Sequences, FiniteSets

CONSTANTS
    Instances,     \* platform processes
    Callers,       \* calls of getClient in flight at once
    Home,          \* Home[c]: the instance a call is made in
    Nobody,        \* the holder of a free lease
    MaxClients,    \* bound: BridgeClient objects alive at once
    MaxAttempts,   \* WS_MAX_RECONNECT_ATTEMPTS
    MaxHeirs,      \* bound: calls waiting for one client to reconnect
    MaxFaults,     \* bound: lost connections and leases, late answers, removed clients, failed rotations
    MaxRotations   \* bound: rotations of the token

ASSUME ConnectionAssumption ==
    /\ Nobody \notin Instances
    /\ Home \in [Callers -> Instances]
    /\ {MaxClients, MaxAttempts, MaxHeirs, MaxFaults, MaxRotations} \subseteq Nat

VARIABLES
    client,     \* the BridgeClient objects, each with its socket
    map,        \* clients[i] of the manager, or 0
    pending,    \* pendingConnections[i], or 0
    call,       \* the calls of getClient that await the lease
    lease,      \* the instance that holds the lease
    platform,   \* the agent's platformWs: a client's socket, one its client has left, or 0
    late,       \* a connection the agent replaced has yet to close
    token,      \* the agent's token, the stored one, and whether they are being changed
    faults      \* how many of them there have been

manager == <<map, pending>>
agent == <<platform, late>>
vars == <<client, map, pending, call, lease, platform, late, token, faults>>

Clients == 1..MaxClients
Gone == MaxClients + 1
Tokens == 0..MaxRotations

(* phase: how far the connection is; cut: whether the agent has replaced it   *)
(* or it is lost, which the client has not yet seen.                          *)
NoClient == [home |-> Nobody, token |-> 0, destroyed |-> TRUE, attempts |-> 0, timer |-> FALSE,
             first |-> FALSE, heirs |-> << >>, phase |-> "none", cut |-> "no"]

\* existing: the client the call saw before its await, while it is not destroyed.
NoCall == [on |-> FALSE, existing |-> 0, token |-> 0]

Init ==
    /\ client = [k \in Clients |-> NoClient]
    /\ map = [i \in Instances |-> 0]
    /\ pending = [i \in Instances |-> 0]
    /\ call = [c \in Callers |-> NoCall]
    /\ lease = Nobody
    /\ platform = 0
    /\ late = FALSE
    /\ token = [agent |-> 0, stored |-> 0, changing |-> FALSE]
    /\ faults = 0

HasClient(i) == map[i] # 0 /\ ~client[map[i]].destroyed
Connected(i) == map[i] # 0 /\ client[map[i]].phase = "live"

Fault == faults < MaxFaults /\ faults' = faults + 1

\* A client can be used again once nothing can make it act.
FreeClient(k) ==
    /\ client[k].destroyed \/ client[k].attempts = MaxAttempts
    /\ ~client[k].timer /\ ~client[k].first /\ client[k].phase = "none"
    /\ \A i \in Instances : map[i] # k /\ pending[i] # k
    /\ \A c \in Callers : call[c].existing # k

\* The agent still counts a socket that client k has left.
PlatformWithout(k) == IF k # 0 /\ platform = k THEN Gone ELSE platform

\* disconnect of client k, if there is one: it will not reconnect.
Disconnected(k) == [j \in Clients |-> IF j = k THEN NoClient ELSE client[j]]
Unseen(k) == [c \in Callers |-> IF call[c].existing = k THEN [call[c] EXCEPT !.existing = 0] ELSE call[c]]

\* The n smallest of a set of numbers, and the place of one among them.
Smallest(n, S) ==
    CHOOSE T \in SUBSET S : Cardinality(T) = n /\ \A x \in T : \A y \in S \ T : x < y
Place(x, T) == Cardinality({y \in T : y <= x})

\* _createClient, once for each token: a new client dials.
Create(i, tokens, all) ==
    LET n == Len(tokens)
        free == {k \in Clients : FreeClient(k)}
        ks == Smallest(n, free)
    IN /\ Cardinality(free) >= n
       /\ client' = [k \in Clients |->
                       IF k \in ks THEN [NoClient EXCEPT !.home = i, !.destroyed = FALSE, !.first = TRUE,
                                                         !.phase = "dialing", !.token = tokens[Place(k, ks)]]
                       ELSE all[k]]

------------------------------------------------------------------------------
(* The manager.                                                               *)

\* getClient, up to its await: the caller brings the token it read.
Ask(c) ==
    LET i == Home[c]
    IN /\ ~call[c].on /\ ~Connected(i)
       /\ call' = [call EXCEPT ![c] = [on |-> TRUE, existing |-> map[i], token |-> token.stored]]
       /\ UNCHANGED <<client, manager, lease, agent, token, faults>>

\* The health check asks only where no client is left to reconnect.
HealthCheck(c) == ~HasClient(Home[c]) /\ Ask(c)

\* After the await: another instance holds the lease; or a connection is
\* pending, and the call joins it; or the client it saw may still reconnect,
\* and the call listens to it; or it makes a new client, after closing the one
\* that is in the map by then.
Ended(c) == [call EXCEPT ![c] = NoCall]

Blocked(c) ==
    /\ lease \notin {Home[c], Nobody}
    /\ call' = Ended(c)
    /\ UNCHANGED <<client, manager, lease, agent, token, faults>>

Join(c) ==
    /\ pending[Home[c]] # 0
    /\ call' = Ended(c)
    /\ UNCHANGED <<client, manager, agent, token, faults>>

Listen(c) ==
    LET seen == call[c].existing
    IN /\ pending[Home[c]] = 0 /\ seen # 0
       /\ call' = Ended(c)
       /\ client' = IF Len(client[seen].heirs) < MaxHeirs
                    THEN [client EXCEPT ![seen].heirs = Append(@, call[c].token)] ELSE client
       /\ UNCHANGED <<manager, agent, token, faults>>

Make(c) ==
    LET i == Home[c]
    IN /\ pending[i] = 0 /\ call[c].existing = 0
       /\ Create(i, <<call[c].token>>, Disconnected(map[i]))
       /\ call' = [Unseen(map[i]) EXCEPT ![c] = NoCall]
       /\ platform' = PlatformWithout(map[i])
       /\ pending' = [pending EXCEPT ![i] = CHOOSE k \in Clients : FreeClient(k) /\ client'[k].first]
       /\ map' = [map EXCEPT ![i] = 0]
       /\ UNCHANGED <<late, token, faults>>

Answered(c) ==
    /\ call[c].on
    /\ \/ Blocked(c)
       \/ /\ lease \in {Home[c], Nobody} /\ lease' = Home[c]
          /\ Join(c) \/ Listen(c) \/ Make(c)

\* removeClient, on a stop, restart or changed port; the lease is given back.
RemoveClient(i) ==
    /\ Fault
    /\ client' = Disconnected(map[i])
    /\ platform' = PlatformWithout(map[i])
    /\ map' = [map EXCEPT ![i] = 0]
    /\ call' = Unseen(map[i])
    /\ lease' = IF lease = i THEN Nobody ELSE lease
    /\ UNCHANGED <<pending, late, token>>

\* The promise of the first connect is pending on the socket it opened.
FirstTry(k) == client[k].first /\ client[k].attempts = 0 /\ client[k].phase # "live"

NoLongerPending(k) ==
    [i \in Instances |-> IF i = client[k].home /\ pending[i] = k THEN 0 ELSE pending[i]]

FirstFailedStaysPending(k) ==  \* Mutant: a failed connection stays in pendingConnections.
    UNCHANGED manager

\* The first connection of k has failed: nobody closes the client.
FirstFailed(k) == pending' = NoLongerPending(k) /\ UNCHANGED map

------------------------------------------------------------------------------
(* The agent.                                                                 *)

\* wss.on('connection'): the new connection replaces the current one before it
\* has authenticated.
Accept(k) ==
    /\ client[k].phase = "dialing" /\ client[k].cut = "no"
    /\ client' = [j \in Clients |->
                    IF j = k THEN [client[k] EXCEPT !.phase = "asked"]
                    ELSE IF j = platform /\ client[j].cut = "no"
                    THEN [client[j] EXCEPT !.cut = "replaced"] ELSE client[j]]
    /\ platform' = k
    /\ late' = (late \/ platform # 0)
    /\ UNCHANGED <<manager, call, lease, token, faults>>

\* The auth message, answered on a connection that is still open.
Authenticate(k) ==
    /\ client[k].phase = "asked" /\ client[k].cut = "no"
    /\ client' = [client EXCEPT ![k].phase =
                    IF client[k].token = token.agent THEN "answered" ELSE "refused"]
    /\ UNCHANGED <<manager, call, lease, agent, token, faults>>

\* ws.on('close') at the agent: of its platform, or of one it replaced.
CloseOfPlatform ==
    /\ \/ platform = Gone
       \/ platform \in Clients /\ client[platform].cut = "lost"
    /\ platform' = 0
    /\ UNCHANGED <<client, manager, call, lease, late, token, faults>>

CloseOfReplacedUnchecked ==  \* Mutant: the close of a replaced connection clears the next one.
    /\ late /\ late' \in BOOLEAN
    /\ platform' = 0
    /\ UNCHANGED <<client, manager, call, lease, token, faults>>

CloseOfReplaced ==
    /\ late /\ late' \in BOOLEAN
    /\ UNCHANGED <<client, manager, call, lease, platform, token, faults>>

------------------------------------------------------------------------------
(* The client.                                                                *)

\* The answer to the auth message: the client is connected, and if this was
\* its first connection the manager keeps it.
Connect(k) ==
    /\ client[k].phase = "answered" /\ client[k].cut # "lost"
    /\ client' = [client EXCEPT ![k].phase = "live", ![k].attempts = 0,
                                ![k].first = @ /\ ~FirstTry(k)]
    /\ IF FirstTry(k)
       THEN map' = [map EXCEPT ![client[k].home] = k] /\ pending' = NoLongerPending(k)
       ELSE UNCHANGED manager
    /\ UNCHANGED <<call, lease, agent, token, faults>>

\* An Unauthorized answer: connect fails, and the socket stays open.
Unauthorized(k) ==
    /\ client[k].phase = "refused" /\ client[k].cut # "lost"
    /\ client' = [client EXCEPT ![k].phase = "unheard", ![k].first = @ /\ ~FirstTry(k)]
    /\ IF FirstTry(k) THEN FirstFailed(k) ELSE UNCHANGED manager
    /\ UNCHANGED <<call, lease, agent, token, faults>>

\* The 15 seconds of a first connection are over; while its answer may still
\* come, that is a fault.
FirstTimesOut(k) ==
    /\ client[k].first
    /\ IF FirstTry(k) /\ client[k].phase # "none" /\ client[k].cut = "no" THEN Fault ELSE UNCHANGED faults
    /\ client' = [client EXCEPT ![k].first = FALSE]
    /\ FirstFailed(k)
    /\ UNCHANGED <<call, lease, agent, token>>

\* ws.on('close') with 4002, after what the agent sent before: the client is
\* finished, and leaves the map.
Replaced(k) ==
    /\ client[k].cut = "replaced" /\ client[k].phase \notin {"answered", "refused"}
    /\ client' = [client EXCEPT ![k] = [NoClient EXCEPT !.home = client[k].home, !.first = client[k].first]]
    /\ map' = [i \in Instances |-> IF map[i] = k THEN 0 ELSE map[i]]
    /\ call' = Unseen(k)
    /\ UNCHANGED <<pending, lease, agent, token, faults>>

\* A lost connection.  A first connect fails if an error comes before the
\* close, as it does while dialing, and else only by its timeout.
Told(k) == IF client[k].phase = "dialing" THEN {TRUE} ELSE BOOLEAN

\* A reconnect is scheduled, whoever has the lease.
LostAndRetried(k) ==
    /\ client[k].cut = "lost" /\ client[k].attempts < MaxAttempts
    /\ \E told \in Told(k) :
          /\ client' = [client EXCEPT ![k] = [@ EXCEPT !.phase = "none", !.cut = "no", !.timer = TRUE,
                                                       !.attempts = client[k].attempts + 1,
                                                       !.first = client[k].first /\ ~(told /\ FirstTry(k))]]
          /\ IF told /\ FirstTry(k) THEN FirstFailed(k) ELSE UNCHANGED manager
    /\ platform' = PlatformWithout(k)
    /\ UNCHANGED <<call, lease, late, token, faults>>

\* After the last attempt the manager forgets its client, whichever that is,
\* and every call that ever waited for this one makes a client of its own,
\* outside pendingConnections.
LostForGood(k) ==
    LET i == client[k].home
    IN /\ client[k].cut = "lost" /\ client[k].attempts = MaxAttempts
       /\ Create(i, client[k].heirs,
                 [client EXCEPT ![k].phase = "none", ![k].cut = "no", ![k].heirs = << >>])
       /\ map' = [map EXCEPT ![i] = 0]
       /\ platform' = PlatformWithout(k)
       /\ UNCHANGED <<pending, call, lease, late, token, faults>>

\* The reconnect timer: no lease is asked for.
Reconnect(k) ==
    /\ client[k].timer
    /\ client' = [client EXCEPT ![k].timer = FALSE, ![k].phase = "dialing"]
    /\ UNCHANGED <<manager, call, lease, agent, token, faults>>

------------------------------------------------------------------------------
(* The token, and faults.                                                     *)

\* rotateOne: the agent swaps its token at once; the platform stores the new
\* one when it gets the answer.
Rotate(i) ==
    /\ Connected(i) /\ client[map[i]].cut = "no"
    /\ ~token.changing /\ token.agent < MaxRotations
    /\ token' = [token EXCEPT !.agent = @ + 1, !.changing = TRUE]
    /\ UNCHANGED <<client, manager, call, lease, agent, faults>>

Store ==
    /\ token.changing
    /\ token' = [token EXCEPT !.stored = token.agent, !.changing = FALSE]
    /\ UNCHANGED <<client, manager, call, lease, agent, faults>>

\* The answer is lost, the row's update throws, or the process dies before it:
\* the agent has its new token all the same.
RotationFails ==
    /\ Fault
    /\ token.changing
    /\ token' = [token EXCEPT !.changing = FALSE]
    /\ UNCHANGED <<client, manager, call, lease, agent>>

LoseConnection(k) ==
    /\ Fault
    /\ client[k].phase # "none" /\ client[k].cut = "no"
    /\ client' = [client EXCEPT ![k].cut = "lost"]
    /\ UNCHANGED <<manager, call, lease, agent, token>>

LoseLease ==
    /\ Fault
    /\ lease # Nobody
    /\ lease' = Nobody
    /\ UNCHANGED <<client, manager, call, agent, token>>

------------------------------------------------------------------------------
SocketStep(k) ==
    \/ Accept(k) \/ Authenticate(k) \/ Connect(k) \/ Unauthorized(k)
    \/ Replaced(k) \/ LostAndRetried(k) \/ LostForGood(k)
    \/ Reconnect(k)

Next ==
    \/ \E c \in Callers : Ask(c) \/ Answered(c)
    \/ \E i \in Instances : RemoveClient(i) \/ Rotate(i)
    \/ \E k \in Clients : SocketStep(k) \/ FirstTimesOut(k) \/ LoseConnection(k)
    \/ CloseOfPlatform \/ CloseOfReplaced
    \/ Store \/ RotationFails \/ LoseLease

Spec == Init /\ [][Next]_vars

\* Messages arrive, timers fire, the lease answers, health checks go on; the
\* agent need not notice that a connection has closed.
Fairness ==
    /\ \A k \in Clients : WF_vars(SocketStep(k) \/ (FirstTimesOut(k) /\ UNCHANGED faults))
    /\ \A c \in Callers : WF_vars(Answered(c) \/ HealthCheck(c))
    /\ WF_vars(Store)

FairSpec == Spec /\ Fairness

------------------------------------------------------------------------------
(* Properties.                                                                *)

TypeOK ==
    /\ client \in [Clients -> [home : Instances \cup {Nobody}, token : Tokens, destroyed : BOOLEAN,
                               attempts : 0..MaxAttempts, timer : BOOLEAN, first : BOOLEAN,
                               heirs : Seq(Tokens), cut : {"no", "replaced", "lost"},
                               phase : {"none", "dialing", "asked", "answered", "refused", "unheard", "live"}]]
    /\ map \in [Instances -> 0..MaxClients] /\ pending \in [Instances -> 0..MaxClients]
    /\ call \in [Callers -> [on : BOOLEAN, existing : 0..MaxClients, token : Tokens]]
    /\ lease \in Instances \cup {Nobody}
    /\ platform \in 0..Gone /\ late \in BOOLEAN
    /\ token \in [agent : Tokens, stored : Tokens, changing : BOOLEAN]
    /\ faults \in 0..MaxFaults

\* The agent serves one connection: every connection it has accepted, has not
\* replaced and has not lost is its platformWs, though the close event of a
\* replaced one comes at any time later.
OneConnection ==
    \A k \in Clients :
        client[k].phase \notin {"none", "dialing"} /\ client[k].cut = "no" => platform = k

\* Whatever is lost, replaced or removed, some instance has a connected client
\* again, as long as health checks go on and the stored token is the agent's.
\* rotateOne logs that it keeps the current token when a rotation fails, which
\* the agent may not: then nobody who reads the stored token is let in, and
\* recovery is not claimed.
TokenIsStored == token.stored = token.agent
Recovers == []<>(TokenIsStored => \E i \in Instances : Connected(i))

\* The same, unless the token has been rotated away under a client that the
\* manager keeps.
HoldsOldToken(i) == HasClient(i) /\ client[map[i]].token # token.agent
RecoversUnlessRotated ==
    []<>(TokenIsStored => \E i \in Instances : Connected(i) \/ HoldsOldToken(i))
================================================================================
