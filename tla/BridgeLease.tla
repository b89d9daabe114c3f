----------------------------- MODULE BridgeLease -----------------------------
(***************************************************************************)
(* The leases that keep two servers from connecting to the agent of one    *)
(* workspace container: Redis holds one holder per container, and each     *)
(* server instance a local set of the leases it renews.                    *)
(*                                                                         *)
(* An instance is one process: it starts once, with a new identity, on a   *)
(* port. Two of one port may be alive at once, since a child process may   *)
(* survive its parent.                                                     *)
(*                                                                         *)
(* Granularity. An instance talks to Redis over one connection, which      *)
(* answers commands in the order it got them. A command takes effect when  *)
(* it is sent, and the code after its await is the handling of its reply,  *)
(* an action of its own. There is no clock: a lease expires once nobody    *)
(* refreshes it, and a timer fires at any time.                            *)
(***************************************************************************)
EXTENDS Integers, Sequences, SequencesExt

CONSTANTS
    Containers,    \* containers, the leases' keys
    Instances,     \* server processes
    Port,          \* Port[i]: the port of instance i
    Nobody,        \* the holder of a free lease
    Clients,       \* bound: <<i, c>> where a caller in i asks for container c
    MaxReplies,    \* bound: MaxReplies[i], the replies under way to i
    MaxRequests,   \* bound: the callers' calls of acquire and release
    Faults         \* bound: <<"redis", i>> where the commands of i may fail,
                   \* <<"exit", i>> where i may stop or crash

ASSUME NobodyAssumption == Nobody \notin Instances
ASSUME ClientsAssumption == Clients \subseteq Instances \X Containers

VARIABLES
    lease,       \* lease[c]: the holder Redis has for container c
    held,        \* held[i]: heldLeases of i, in insertion order
    replies,     \* replies[i]: replies to i that it has not handled
    life,        \* life[i]: where process i stands
    requests,    \* history: calls of acquire and release so far
    disturbed,   \* history: instances with overlapping renewals or failures
    raced        \* history: containers freed under the eyes of a thief

history == <<requests, disturbed, raced>>
vars == <<lease, held, replies, life, history>>

Holder == Instances \cup {Nobody}
Life == {"new", "up", "stopping", "gone"}

(* What a reply says, by the await that it ends:                           *)
(*   mine      SET, SET NX or EXPIRE of acquire: c goes into the set       *)
(*   taken     SET NX found a holder                                       *)
(*   holder    GET of acquire                                              *)
(*   released  the script of release                                       *)
(*   renewed   the pipeline of renewAll: ok[k] for the k-th lease of the set*)
(*   keys      KEYS of reclaimStaleLeases: rest is to be scanned           *)
(*   scanned   GET of reclaimStaleLeases                                   *)
(*   reclaimed SET of reclaimStaleLeases                                   *)
Reply ==
    [op: {"mine", "taken", "released"}, c: Containers]
    \cup [op: {"holder"}, c: Containers, by: Holder]
    \cup [op: {"renewed"}, ok: Seq(BOOLEAN)]
    \cup [op: {"keys"}, rest: SUBSET Containers]
    \cup [op: {"scanned"}, c: Containers, by: Holder, rest: SUBSET Containers]
    \cup [op: {"reclaimed"}, c: Containers, rest: SUBSET Containers]

HeldSet(i) == ToSet(held[i])
Pending(i) == ToSet(replies[i])

(* Mutant: a list instead of a set.                                        *)
InsertAgain(s, c) == Append(s, c)
Insert(s, c) == IF c \in ToSet(s) THEN s ELSE Append(s, c)

(* What is left of s, in its order; kept[n] is what is left of its first n.*)
Without(s, gone) ==
    LET kept[n \in 0..Len(s)] ==
            IF n = 0 THEN << >>
            ELSE IF s[n] \in gone THEN kept[n - 1] ELSE Append(kept[n - 1], s[n])
    IN  kept[Len(s)]

Takes(i, c) == lease' = [lease EXCEPT ![c] = i]
SamePortOther(i, j) == j \in Instances /\ j # i /\ Port[j] = Port[i]

Init ==
    /\ lease = [c \in Containers |-> Nobody]
    /\ held = [i \in Instances |-> << >>]
    /\ replies = [i \in Instances |-> << >>]
    /\ life = [i \in Instances |-> "new"]
    /\ requests = 0
    /\ disturbed = {}
    /\ raced = {}

Send(i, reply) ==
    /\ Len(replies[i]) < MaxReplies[i]
    /\ replies' = [replies EXCEPT ![i] = Append(@, reply)]
Awaits(i, op) ==
    /\ life[i] \in {"up", "stopping"}
    /\ replies[i] # << >>
    /\ Head(replies[i]).op = op
Handled(i) == replies' = [replies EXCEPT ![i] = Tail(@)]
Continue(i, reply) == replies' = [replies EXCEPT ![i] = Append(Tail(@), reply)]

(* A thief has seen a holder of c on its own port and is about to take c.  *)
Watched(c) ==
    \E i \in Instances : \E r \in Pending(i) :
        r.op \in {"holder", "scanned"} /\ r.c = c /\ SamePortOther(i, r.by)
Free(freed) ==
    /\ lease' = [c \in Containers |-> IF c \in freed THEN Nobody ELSE lease[c]]
    /\ raced' = raced \cup {c \in freed : Watched(c)}

Request(i) ==
    /\ life[i] = "up"
    /\ requests < MaxRequests
    /\ requests' = requests + 1
    /\ UNCHANGED <<held, life, disturbed>>

-------------------------------------------------------------------------------
(* start: the scan for leases of earlier processes on the port begins.     *)
Start(i) ==
    /\ life[i] = "new"
    /\ life' = [life EXCEPT ![i] = "up"]
    /\ LET keys == {c \in Containers : lease[c] # Nobody}
       IN  IF keys = {} THEN UNCHANGED replies
           ELSE Send(i, [op |-> "keys", rest |-> keys])
    /\ UNCHANGED <<lease, held, history>>

(* acquire, SET NX.                                                        *)
Acquire(i, c) ==
    /\ Request(i)
    /\ \/ /\ lease[c] = Nobody
          /\ Takes(i, c)
          /\ Send(i, [op |-> "mine", c |-> c])
       \/ /\ lease[c] # Nobody
          /\ Send(i, [op |-> "taken", c |-> c])
          /\ UNCHANGED lease
    /\ UNCHANGED raced

(* acquire, after SET NX found a holder: GET. *)
LookWho(i) ==
    /\ Awaits(i, "taken")
    /\ LET c == Head(replies[i]).c
       IN  Continue(i, [op |-> "holder", c |-> c, by |-> lease[c]])
    /\ UNCHANGED <<lease, held, life, history>>

(* Mutant: the holder's port is not compared.                              *)
DecideForAnyPort(i) ==
    /\ Awaits(i, "holder")
    /\ LET c == Head(replies[i]).c
       IN  /\ Takes(i, c)
           /\ Continue(i, [op |-> "mine", c |-> c])
    /\ UNCHANGED <<held, life, history>>

(* acquire, after GET: refresh one's own lease, steal that of another      *)
(* process on the port, or give up.                                        *)
Decide(i) ==
    /\ Awaits(i, "holder")
    /\ LET c == Head(replies[i]).c
           by == Head(replies[i]).by
       IN  \/ /\ by = i
              /\ Continue(i, [op |-> "mine", c |-> c])
              /\ UNCHANGED lease
           \/ /\ SamePortOther(i, by)
              /\ Takes(i, c)
              /\ Continue(i, [op |-> "mine", c |-> c])
           \/ /\ by # i /\ ~SamePortOther(i, by)
              /\ Handled(i)
              /\ UNCHANGED lease
    /\ UNCHANGED <<held, life, history>>

(* acquire, the end: the lease goes into the local set.                    *)
Hold(i) ==
    /\ Awaits(i, "mine")
    /\ held' = [held EXCEPT ![i] = Insert(@, Head(replies[i]).c)]
    /\ Handled(i)
    /\ UNCHANGED <<lease, life, history>>

(* release, the script: delete the key if it is one's own.                 *)
Release(i, c) ==
    /\ Request(i)
    /\ Send(i, [op |-> "released", c |-> c])
    /\ Free({c} \cap {d \in Containers : lease[d] = i})

(* release, the end.                                                       *)
Forget(i) ==
    /\ Awaits(i, "released")
    /\ held' = [held EXCEPT ![i] = Without(@, {Head(replies[i]).c})]
    /\ Handled(i)
    /\ UNCHANGED <<lease, life, history>>

(* renewAll, the pipeline: a result for each lease of the local set.       *)
Renew(i) ==
    /\ life[i] = "up"
    /\ held[i] # << >>
    /\ Send(i, [op |-> "renewed",
                ok |-> [k \in DOMAIN held[i] |-> lease[held[i][k]] = i]])
    /\ disturbed' =
         IF \E r \in Pending(i) : r.op \in {"released", "renewed"}
         THEN disturbed \cup {i} ELSE disturbed
    /\ UNCHANGED <<lease, held, life, requests, raced>>

(* Mutant: the entries of the pipeline's results are taken for results.    *)
LostNever(s, ok) == {}

(* The leases at the positions whose result is bad, in the set as it is    *)
(* when the results arrive.                                                *)
Lost(s, ok) == {s[k] : k \in {n \in DOMAIN s : n \in DOMAIN ok /\ ~ok[n]}}

(* renewAll, the end: forget what was lost.                                *)
Drop(i) ==
    /\ Awaits(i, "renewed")
    /\ held' = [held EXCEPT ![i] = Without(@, Lost(@, Head(replies[i]).ok))]
    /\ Handled(i)
    /\ UNCHANGED <<lease, life, history>>

(* reclaimStaleLeases: GET of the next key, if there is one.               *)
ScanNext(i, rest) ==
    \/ rest = {} /\ Handled(i)
    \/ \E c \in rest : Continue(i, [op |-> "scanned", c |-> c, by |-> lease[c],
                                    rest |-> rest \ {c}])

(* reclaimStaleLeases, after KEYS.                                         *)
Scan(i) ==
    /\ Awaits(i, "keys")
    /\ ScanNext(i, Head(replies[i]).rest)
    /\ UNCHANGED <<lease, held, life, history>>

(* reclaimStaleLeases, after GET: steal the lease of another process on    *)
(* the port, or go on to the next key.                                     *)
Reclaim(i) ==
    /\ Awaits(i, "scanned")
    /\ LET r == Head(replies[i])
       IN  \/ /\ SamePortOther(i, r.by)
              /\ Takes(i, r.c)
              /\ Continue(i, [op |-> "reclaimed", c |-> r.c, rest |-> r.rest])
           \/ /\ ~SamePortOther(i, r.by)
              /\ ScanNext(i, r.rest)
              /\ UNCHANGED lease
    /\ UNCHANGED <<held, life, history>>

(* Mutant: the reclaimed lease is not added to the local set.              *)
ReclaimedForgotten(i) ==
    /\ Awaits(i, "reclaimed")
    /\ ScanNext(i, Head(replies[i]).rest)
    /\ UNCHANGED <<lease, held, life, history>>

(* reclaimStaleLeases, after SET.                                          *)
Reclaimed(i) ==
    /\ Awaits(i, "reclaimed")
    /\ held' = [held EXCEPT ![i] = Insert(@, Head(replies[i]).c)]
    /\ ScanNext(i, Head(replies[i]).rest)
    /\ UNCHANGED <<lease, life, history>>

(* A command fails, or its reply is lost: acquire, release and the scan    *)
(* throw, and a renewal takes every lease it was about for lost.           *)
Fail(i) ==
    /\ <<"redis", i>> \in Faults
    /\ life[i] \in {"up", "stopping"}
    /\ replies[i] # << >>
    /\ LET r == Head(replies[i])
       IN  IF r.op = "renewed"
           THEN held' = [held EXCEPT ![i] =
                           Without(@, Lost(@, [k \in DOMAIN r.ok |-> FALSE]))]
           ELSE UNCHANGED held
    /\ Handled(i)
    /\ disturbed' = disturbed \cup {i}
    /\ UNCHANGED <<lease, life, requests, raced>>

-------------------------------------------------------------------------------
(* stop: the timer is cleared and every lease of the local set released,   *)
(* which nothing reads any more. Calls under way go on until the exit.     *)
Stop(i) ==
    /\ <<"exit", i>> \in Faults
    /\ life[i] = "up"
    /\ life' = [life EXCEPT ![i] = "stopping"]
    /\ Free({c \in HeldSet(i) : lease[c] = i})
    /\ held' = [held EXCEPT ![i] = << >>]
    /\ UNCHANGED <<replies, requests, disturbed>>

(* The process ends, after stop or by a crash.                             *)
Exit(i) ==
    /\ <<"exit", i>> \in Faults
    /\ life[i] \in {"up", "stopping"}
    /\ life' = [life EXCEPT ![i] = "gone"]
    /\ held' = [held EXCEPT ![i] = << >>]
    /\ replies' = [replies EXCEPT ![i] = << >>]
    /\ UNCHANGED <<lease, history>>

(* The holder keeps c from expiring: its timer renews it, every third of   *)
(* the time to live, or it has just set it and the reply is under way.     *)
Refreshes(i, c) ==
    /\ life[i] = "up"
    /\ \/ c \in HeldSet(i)
       \/ \E r \in Pending(i) : r.op \in {"mine", "reclaimed"} /\ r.c = c

(* The time to live ends.                                                  *)
Expire(c) ==
    /\ lease[c] # Nobody
    /\ ~Refreshes(lease[c], c)
    /\ Free({c})
    /\ UNCHANGED <<held, replies, life, requests, disturbed>>

Handle(i) ==
    \/ LookWho(i) \/ Decide(i) \/ Hold(i) \/ Forget(i) \/ Drop(i)
    \/ Scan(i) \/ Reclaim(i) \/ Reclaimed(i)

Next ==
    \/ \E i \in Instances :
         \/ Start(i) \/ Stop(i) \/ Exit(i) \/ Renew(i) \/ Handle(i) \/ Fail(i)
         \/ \E c \in Containers :
              <<i, c>> \in Clients /\ (Acquire(i, c) \/ Release(i, c))
    \/ \E c \in Containers : Expire(c)

(* Redis answers, and a live process's timer fires for ever. That a time   *)
(* to live ends is not needed.                                             *)
Fairness == \A i \in Instances : WF_vars(Handle(i)) /\ WF_vars(Renew(i))

Spec == Init /\ [][Next]_vars /\ Fairness

-------------------------------------------------------------------------------
(* Every variable has its type, and a local set has no lease twice.        *)
TypeOK ==
    /\ lease \in [Containers -> Holder]
    /\ held \in [Instances -> Seq(Containers)]
    /\ \A i \in Instances : \A k, n \in DOMAIN held[i] :
         held[i][k] = held[i][n] => k = n
    /\ replies \in [Instances -> Seq(Reply)]
    /\ life \in [Instances -> Life]
    /\ requests \in Nat
    /\ disturbed \subseteq Instances
    /\ raced \subseteq Containers

(* A live process that Redis names as the holder of a container renews the *)
(* lease, or is about to. This is what renewAll's comment promises, and it *)
(* is so of every process none of whose renewals was sent while the answer *)
(* to a release or to a renewal was under way, and for which Redis did not *)
(* fail: else the results are matched by position with a set that has      *)
(* changed in the meantime.                                                *)
QuietHolderRenews ==
    \A c \in Containers : \A i \in Instances \ disturbed :
        lease[c] = i /\ life[i] = "up" => Refreshes(i, c)

(* A server's lease is taken away only by a server of its own port, and it *)
(* comes free only by the server's own release or stop, or when the server *)
(* does not renew it: the servers of other ports are respected. A container*)
(* whose lease came free between a thief's look and its theft is excepted: *)
(* there the thief may take it from the next holder, whatever its port.    *)
OwnStep(j) == replies'[j] # replies[j] \/ life'[j] # life[j]
OtherPortsRespected ==
    [][\A c \in Containers \ raced : \A j \in Instances :
         lease[c] = j /\ lease'[c] # j
           => \/ SamePortOther(j, lease'[c])
              \/ lease'[c] = Nobody /\ (OwnStep(j) \/ ~Refreshes(j, c))]_vars

(* A server that believes in a lease that it has lost finds out: once the  *)
(* clients' calls have come to an end, a renewal drops whatever was stolen *)
(* or has expired, and the local sets of the live servers hold nothing but *)
(* what Redis has for them (renewAll).                                     *)
LossIsNoticed ==
    <>[](\A i \in Instances : \A c \in HeldSet(i) : life[i] = "up" => lease[c] = i)
==============================================================================
