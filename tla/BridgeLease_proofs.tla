------------------------- MODULE BridgeLease_proofs -------------------------
(* For every number of servers, containers, callers and replies under way: *)
(* nobody but a server of the same port takes a server's lease away, every *)
(* variable keeps its type, and a server renews the leases it holds, as    *)
(* long as its renewals and releases did not overlap.                      *)
EXTENDS BridgeLease, SequenceTheorems, WellFoundedInduction, TLAPS

(* Replies are sequences, of whatever, and name containers.                *)
RepliesType == \E S : replies \in [Instances -> Seq(S)]
ReplyFit(r) ==
    /\ r.op \in {"taken", "holder", "scanned"} => r.c \in Containers
    /\ r.op \in {"keys", "scanned", "reclaimed"} => r.rest \subseteq Containers
RepliesFit == \A i \in Instances : \A r \in Pending(i) : ReplyFit(r)

(* What a thief has seen is still so, up to the server within the port, as *)
(* long as the container was not freed meanwhile.                          *)
Looks(i, r) == r.op \in {"holder", "scanned"} /\ SamePortOther(i, r.by)
LooksFit ==
    \A i \in Instances : \A r \in Pending(i) :
        Looks(i, r) /\ r.c \notin raced =>
            lease[r.c] \in Instances /\ Port[lease[r.c]] = Port[i]

LeaseType == lease \in [Containers -> Holder]

IInv == LeaseType /\ RepliesType /\ RepliesFit /\ LooksFit

-------------------------------------------------------------------------------
(* The elements of the sequences that the queue of replies is built with.  *)
LEMMA AppendSet ==
    ASSUME NEW S, NEW s \in Seq(S), NEW r
    PROVE  /\ Append(s, r) \in Seq(S \cup {r})
           /\ ToSet(Append(s, r)) = ToSet(s) \cup {r}
           /\ Append(s, r) # s
PROOF
  <1>1. s \in Seq(S \cup {r})
    OBVIOUS
  <1>2. /\ Append(s, r) \in Seq(S \cup {r})
        /\ Len(Append(s, r)) = Len(s) + 1
        /\ \A k \in 1..Len(s) : Append(s, r)[k] = s[k]
        /\ Append(s, r)[Len(s) + 1] = r
    BY <1>1, AppendProperties
  <1>3. DOMAIN s = 1..Len(s) /\ DOMAIN Append(s, r) = 1..(Len(s) + 1) /\ Len(s) \in Nat
    BY <1>1, <1>2, LenProperties
  <1>4. ToSet(Append(s, r)) \subseteq ToSet(s) \cup {r}
    BY <1>2, <1>3 DEF ToSet
  <1>5. ToSet(s) \cup {r} \subseteq ToSet(Append(s, r))
    BY <1>2, <1>3 DEF ToSet
  <1>6. Append(s, r) # s
    <2>1. Len(Append(s, r)) = Len(s) + 1
      BY <1>2
    <2>2. Len(s) \in Nat
      BY <1>3
    <2>3. Len(s) + 1 # Len(s)
      BY <2>2
    <2> QED
      BY <2>1, <2>3
  <1>7. ToSet(Append(s, r)) = ToSet(s) \cup {r}
    BY <1>4, <1>5
  <1> QED
    BY <1>2, <1>6, <1>7

LEMMA TailSet ==
    ASSUME NEW S, NEW s \in Seq(S), s # << >>
    PROVE  /\ Tail(s) \in Seq(S)
           /\ ToSet(Tail(s)) \subseteq ToSet(s)
           /\ Head(s) \in ToSet(s)
PROOF
  <1>1. /\ Head(s) \in S /\ Tail(s) \in Seq(S) /\ Len(Tail(s)) = Len(s) - 1
        /\ \A k \in 1..Len(Tail(s)) : Tail(s)[k] = s[k + 1]
    BY HeadTailProperties
  <1>2. Len(s) \in Nat /\ Len(s) # 0 /\ DOMAIN s = 1..Len(s) /\ DOMAIN Tail(s) = 1..Len(Tail(s))
    BY <1>1, LenProperties, EmptySeq
  <1>3. Head(s) = s[1] /\ 1 \in DOMAIN s
    BY <1>2
  <1> QED
    BY <1>1, <1>2, <1>3 DEF ToSet

-------------------------------------------------------------------------------
(* How a step changes the replies under way to i: at most one is new.      *)
OneNew(i, r) ==
    /\ RepliesType'
    /\ \A j \in Instances : Pending(j)' \subseteq
         Pending(j) \cup (IF j = i THEN {r} ELSE {})
NoneNew ==
    /\ RepliesType'
    /\ \A j \in Instances : Pending(j)' \subseteq Pending(j)

LEMMA SendStep ==
    ASSUME RepliesType, NEW i \in Instances, NEW r, Send(i, r)
    PROVE  OneNew(i, r) /\ replies'[i] # replies[i]
PROOF
  <1>1. PICK S : replies \in [Instances -> Seq(S)]
    BY DEF RepliesType
  <1>2. replies' = [replies EXCEPT ![i] = Append(replies[i], r)]
    BY DEF Send
  <1>3. /\ Append(replies[i], r) \in Seq(S \cup {r})
        /\ ToSet(Append(replies[i], r)) = ToSet(replies[i]) \cup {r}
        /\ Append(replies[i], r) # replies[i]
    BY <1>1, AppendSet
  <1>4. \A j \in Instances : replies[j] \in Seq(S \cup {r})
    BY <1>1
  <1>5. replies' \in [Instances -> Seq(S \cup {r})]
    BY <1>1, <1>2, <1>3, <1>4
  <1>6. \A j \in Instances : replies'[j] = IF j = i THEN Append(replies[i], r) ELSE replies[j]
    BY <1>1, <1>2
  <1> QED
    BY <1>3, <1>5, <1>6 DEF OneNew, RepliesType, Pending

LEMMA ContinueStep ==
    ASSUME RepliesType, NEW i \in Instances, NEW r, Continue(i, r), replies[i] # << >>
    PROVE  OneNew(i, r)
PROOF
  <1>1. PICK S : replies \in [Instances -> Seq(S)]
    BY DEF RepliesType
  <1> DEFINE rest == Tail(replies[i])
  <1>2. rest \in Seq(S) /\ ToSet(rest) \subseteq ToSet(replies[i])
    BY <1>1, TailSet
  <1>3. replies' = [replies EXCEPT ![i] = Append(rest, r)]
    BY DEF Continue
  <1> HIDE DEF rest
  <1>4. /\ Append(rest, r) \in Seq(S \cup {r})
        /\ ToSet(Append(rest, r)) = ToSet(rest) \cup {r}
    BY <1>2, AppendSet
  <1>5. \A j \in Instances : replies[j] \in Seq(S \cup {r})
    BY <1>1
  <1>6. replies' \in [Instances -> Seq(S \cup {r})]
    BY <1>1, <1>3, <1>4, <1>5
  <1>7. \A j \in Instances : replies'[j] = IF j = i THEN Append(rest, r) ELSE replies[j]
    BY <1>1, <1>3
  <1> QED
    BY <1>2, <1>4, <1>6, <1>7 DEF OneNew, RepliesType, Pending

LEMMA HandledStep ==
    ASSUME RepliesType, NEW i \in Instances, Handled(i), replies[i] # << >>
    PROVE  NoneNew
PROOF
  <1>1. PICK S : replies \in [Instances -> Seq(S)]
    BY DEF RepliesType
  <1>2. Tail(replies[i]) \in Seq(S) /\ ToSet(Tail(replies[i])) \subseteq ToSet(replies[i])
    BY <1>1, TailSet
  <1>3. replies' \in [Instances -> Seq(S)]
    BY <1>1, <1>2 DEF Handled
  <1>4. \A j \in Instances : replies'[j] = IF j = i THEN Tail(replies[i]) ELSE replies[j]
    BY <1>1 DEF Handled
  <1> QED
    BY <1>2, <1>3, <1>4 DEF NoneNew, RepliesType, Pending

LEMMA HeadPending ==
    ASSUME RepliesType, NEW i \in Instances, replies[i] # << >>
    PROVE  Head(replies[i]) \in Pending(i)
PROOF BY TailSet DEF RepliesType, Pending

-------------------------------------------------------------------------------
(* How a step may treat leases and replies, and keep the invariant.        *)

(* No lease moves. A new reply with a look tells who holds the lease.      *)
LEMMA QuietStep ==
    ASSUME IInv, NEW i \in Instances, NEW r, OneNew(i, r), ReplyFit(r),
           r.op \in {"holder", "scanned"} => r.by = lease[r.c],
           UNCHANGED <<lease, raced>>
    PROVE  IInv'
PROOF
  <1>1. LeaseType' /\ RepliesType'
    BY DEF IInv, LeaseType, OneNew
  <1>2. RepliesFit'
    BY DEF IInv, RepliesFit, OneNew, ReplyFit
  <1>3. ASSUME NEW j \in Instances, NEW q \in Pending(j)', Looks(j, q), q.c \notin raced
        PROVE  lease[q.c] \in Instances /\ Port[lease[q.c]] = Port[j]
    <2>1. CASE q \in Pending(j)
      BY <1>3, <2>1 DEF IInv, LooksFit
    <2>2. CASE q = r /\ j = i
      BY <1>3, <2>2 DEF Looks, SamePortOther
    <2> QED
      BY <2>1, <2>2 DEF OneNew
  <1>4. LooksFit'
    BY <1>3 DEF LooksFit, Looks
  <1> QED
    BY <1>1, <1>2, <1>4 DEF IInv

LEMMA SilentStep ==
    ASSUME IInv, NoneNew, UNCHANGED <<lease, raced>>
    PROVE  IInv'
PROOF BY DEF IInv, LeaseType, RepliesFit, LooksFit, Looks, NoneNew, ReplyFit

(* A server takes a lease that is free, or that a peer has.                *)
LEMMA TakeStep ==
    ASSUME IInv, NEW i \in Instances, NEW c \in Containers, NEW r,
           OneNew(i, r), ReplyFit(r), r.op \notin {"holder", "scanned"},
           Takes(i, c), UNCHANGED raced,
           c \notin raced /\ lease[c] \in Instances => Port[lease[c]] = Port[i]
    PROVE  IInv'
PROOF
  <1>1. LeaseType' /\ \A d \in Containers : lease'[d] = IF d = c THEN i ELSE lease[d]
    BY DEF IInv, LeaseType, Takes, Holder
  <1>2. RepliesType' /\ RepliesFit'
    BY DEF IInv, RepliesFit, OneNew, ReplyFit
  <1>3. ASSUME NEW j \in Instances, NEW q \in Pending(j)', Looks(j, q), q.c \notin raced
        PROVE  lease'[q.c] \in Instances /\ Port[lease'[q.c]] = Port[j]
    <2>1. q \in Pending(j)
      BY <1>3 DEF OneNew, Looks
    <2>2. q.c \in Containers
      BY <2>1, <1>3 DEF IInv, RepliesFit, ReplyFit, Looks
    <2>3. lease[q.c] \in Instances /\ Port[lease[q.c]] = Port[j]
      BY <2>1, <1>3 DEF IInv, LooksFit
    <2> QED
      BY <1>1, <1>3, <2>2, <2>3
  <1>4. LooksFit'
    BY <1>3 DEF LooksFit, Looks
  <1> QED
    BY <1>1, <1>2, <1>4 DEF IInv

(* Leases come free, and the containers that a thief watches are noted.    *)
LEMMA FreeStep ==
    ASSUME IInv, NEW freed, Free(freed),
           NEW i \in Instances, NEW r, OneNew(i, r), ReplyFit(r),
           r.op \notin {"holder", "scanned"}
    PROVE  IInv'
PROOF
  <1>1. LeaseType' /\ \A d \in Containers \ freed : lease'[d] = lease[d]
    BY DEF IInv, LeaseType, Free, Holder
  <1>2. RepliesType' /\ RepliesFit'
    BY DEF IInv, RepliesFit, OneNew, ReplyFit
  <1>3. ASSUME NEW j \in Instances, NEW q \in Pending(j)', Looks(j, q), q.c \notin raced'
        PROVE  lease'[q.c] \in Instances /\ Port[lease'[q.c]] = Port[j]
    <2>1. q \in Pending(j)
      BY <1>3 DEF OneNew, Looks
    <2>2. q.c \in Containers
      BY <2>1, <1>3 DEF IInv, RepliesFit, ReplyFit, Looks
    <2>3. q.c \notin raced /\ q.c \notin freed
      BY <1>3, <2>1 DEF Free, Watched, Looks
    <2>4. lease[q.c] \in Instances /\ Port[lease[q.c]] = Port[j]
      BY <2>1, <2>3, <1>3 DEF IInv, LooksFit
    <2> QED
      BY <1>1, <2>2, <2>3, <2>4
  <1>4. LooksFit'
    BY <1>3 DEF LooksFit, Looks
  <1> QED
    BY <1>1, <1>2, <1>4 DEF IInv

(* The thief's look still holds when it takes the lease.                   *)
LEMMA TheftFromPeer ==
    ASSUME IInv, NEW i \in Instances, NEW r \in Pending(i), Looks(i, r)
    PROVE  /\ r.c \in Containers
           /\ r.c \notin raced => lease[r.c] \in Instances /\ Port[lease[r.c]] = Port[i]
PROOF BY DEF IInv, RepliesFit, ReplyFit, LooksFit, Looks

NoReply == [op |-> "mine", c |-> Nobody]

LEMMA NoneIsOne ==
    ASSUME NoneNew, NEW i \in Instances
    PROVE  OneNew(i, NoReply) /\ ReplyFit(NoReply) /\ NoReply.op = "mine"
PROOF BY DEF NoneNew, OneNew, NoReply, ReplyFit

LEMMA SameReplies ==
    ASSUME RepliesType, UNCHANGED replies
    PROVE  NoneNew
PROOF BY DEF NoneNew, RepliesType, Pending

(* The leases that a step of i may move, as OtherPortsRespected says it.   *)
Respects ==
    \A c \in Containers \ raced : \A j \in Instances :
        lease[c] = j /\ lease'[c] # j
          => \/ SamePortOther(j, lease'[c])
             \/ lease'[c] = Nobody /\ (OwnStep(j) \/ ~Refreshes(j, c))

(* A step that moves only one lease, to a server of its holder's port.     *)
LEMMA TakeRespects ==
    ASSUME LeaseType, NEW i \in Instances, NEW c \in Containers, Takes(i, c),
           c \notin raced /\ lease[c] \in Instances => Port[lease[c]] = Port[i]
    PROVE  Respects
PROOF
  <1>1. \A d \in Containers : lease'[d] = IF d = c THEN i ELSE lease[d]
    BY DEF LeaseType, Takes
  <1> QED
    BY <1>1 DEF Respects, SamePortOther

LEMMA OwnFreeRespects ==
    ASSUME LeaseType, NEW i \in Instances, NEW freed, Free(freed),
           \A c \in freed : lease[c] = i, OwnStep(i)
    PROVE  Respects
PROOF BY DEF LeaseType, Free, Respects

-------------------------------------------------------------------------------
LifeType == life \in [Instances -> Life]

LEMMA LifeStep == LifeType /\ [Next]_vars => LifeType'
PROOF BY DEF LifeType, Life, Next, Handle, Start, Acquire, Request, LookWho, Decide,
             Hold, Release, Forget, Renew, Drop, Scan, Reclaim, Reclaimed, Fail,
             Stop, Exit, Expire, vars

LEMMA InitIInv == Init => IInv /\ LifeType
PROOF
  <1> SUFFICES ASSUME Init PROVE IInv /\ LifeType
    OBVIOUS
  <1>4. LifeType
    BY DEF Init, LifeType, Life
  <1>1. LeaseType
    BY DEF Init, LeaseType, Holder
  <1>2. replies \in [Instances -> Seq({})]
    BY EmptySeq DEF Init
  <1>3. \A i \in Instances : Pending(i) = {}
    BY DEF Init, Pending, ToSet
  <1> QED
    BY <1>1, <1>2, <1>3, <1>4 DEF IInv, RepliesType, RepliesFit, LooksFit

(* Every step keeps the invariant and respects the other ports.            *)
LEMMA StepIInv ==
    IInv /\ LifeType /\ [Next]_vars => IInv' /\ (Respects \/ UNCHANGED vars)
PROOF
  <1> SUFFICES ASSUME IInv, LifeType, [Next]_vars
               PROVE  IInv' /\ (Respects \/ UNCHANGED vars)
    OBVIOUS
  <1> USE DEF history
  <1>0. LeaseType /\ RepliesType /\ RepliesFit
    BY DEF IInv
  <1>q. UNCHANGED lease => Respects
    BY DEF Respects
  <1>1. ASSUME NEW i \in Instances, Start(i)
        PROVE  IInv' /\ Respects
    <2> DEFINE keys == {c \in Containers : lease[c] # Nobody}
               r == [op |-> "keys", rest |-> keys]
    <2>1. UNCHANGED <<lease, raced>>
      BY <1>1 DEF Start
    <2>2. CASE keys = {}
      <3>1. NoneNew
        BY <1>0, <1>1, <2>2, SameReplies DEF Start
      <3> QED
        BY <2>1, <3>1, <1>q, SilentStep
    <2>3. CASE keys # {}
      <3>1. Send(i, r)
        BY <1>1, <2>3 DEF Start
      <3>2. ReplyFit(r) /\ r.op = "keys"
        BY DEF ReplyFit
      <3> HIDE DEF r
      <3>3. OneNew(i, r)
        BY <1>0, <3>1, SendStep
      <3> QED
        BY <2>1, <3>2, <3>3, <1>q, QuietStep
    <2> QED
      BY <2>2, <2>3
  <1>2. ASSUME NEW i \in Instances, NEW c \in Containers, Acquire(i, c)
        PROVE  IInv' /\ Respects
    <2> DEFINE mine == [op |-> "mine", c |-> c]
               taken == [op |-> "taken", c |-> c]
    <2>0. /\ ReplyFit(mine) /\ mine.op = "mine"
          /\ ReplyFit(taken) /\ taken.op = "taken"
      BY DEF ReplyFit
    <2>1. CASE lease[c] = Nobody /\ Takes(i, c) /\ Send(i, mine)
      <3> HIDE DEF mine
      <3>1. OneNew(i, mine)
        BY <1>0, <2>1, SendStep
      <3>2. lease[c] \notin Instances /\ UNCHANGED raced
        BY <1>2, <2>1, NobodyAssumption DEF Acquire
      <3>3. IInv'
        BY <2>0, <2>1, <3>1, <3>2, TakeStep
      <3> QED
        BY <1>0, <2>1, <3>2, <3>3, TakeRespects
    <2>2. CASE Send(i, taken) /\ UNCHANGED lease
      <3> HIDE DEF taken
      <3>1. OneNew(i, taken)
        BY <1>0, <2>2, SendStep
      <3> QED
        BY <1>2, <2>0, <2>2, <3>1, <1>q, QuietStep DEF Acquire
    <2> QED
      BY <1>2, <2>1, <2>2 DEF Acquire
  <1>3. ASSUME NEW i \in Instances, LookWho(i)
        PROVE  IInv' /\ Respects
    <2> DEFINE c == Head(replies[i]).c
               r == [op |-> "holder", c |-> c, by |-> lease[c]]
    <2>1. replies[i] # << >> /\ Continue(i, r) /\ UNCHANGED <<lease, raced>>
      BY <1>3 DEF LookWho, Awaits
    <2>2. c \in Containers
      BY <1>0, <1>3, <2>1, HeadPending DEF LookWho, Awaits, RepliesFit, ReplyFit
    <2>3. ReplyFit(r) /\ r.by = lease[r.c]
      BY <2>2 DEF ReplyFit
    <2> HIDE DEF r
    <2>4. OneNew(i, r)
      BY <1>0, <2>1, ContinueStep
    <2> QED
      BY <2>1, <2>3, <2>4, <1>q, QuietStep
  <1>4. ASSUME NEW i \in Instances, Decide(i)
        PROVE  IInv' /\ Respects
    <2> DEFINE h == Head(replies[i])
               r == [op |-> "mine", c |-> h.c]
    <2>1. replies[i] # << >> /\ h.op = "holder" /\ UNCHANGED raced
      BY <1>4 DEF Decide, Awaits
    <2>2. h \in Pending(i)
      BY <1>0, <2>1, HeadPending
    <2>3. ReplyFit(r) /\ r.op = "mine"
      BY DEF ReplyFit
    <2>4. CASE Continue(i, r) /\ UNCHANGED lease
      <3> HIDE DEF r
      <3>1. OneNew(i, r)
        BY <1>0, <2>1, <2>4, ContinueStep
      <3> QED
        BY <2>1, <2>3, <2>4, <3>1, <1>q, QuietStep
    <2>5. CASE SamePortOther(i, h.by) /\ Takes(i, h.c) /\ Continue(i, r)
      <3> HIDE DEF r
      <3>1. OneNew(i, r)
        BY <1>0, <2>1, <2>5, ContinueStep
      <3>2. /\ h.c \in Containers
            /\ h.c \notin raced => Port[lease[h.c]] = Port[i]
        BY <2>1, <2>2, <2>5, TheftFromPeer DEF Looks
      <3>3. IInv'
        BY <2>1, <2>3, <2>5, <3>1, <3>2, TakeStep
      <3> QED
        BY <1>0, <2>5, <3>2, <3>3, TakeRespects
    <2>6. CASE Handled(i) /\ UNCHANGED lease
      <3>1. NoneNew
        BY <1>0, <2>1, <2>6, HandledStep
      <3> QED
        BY <2>1, <2>6, <3>1, <1>q, SilentStep
    <2> QED
      BY <1>4, <2>4, <2>5, <2>6 DEF Decide
  <1>5. ASSUME NEW i \in Instances,
               Hold(i) \/ Forget(i) \/ Drop(i) \/ Fail(i)
        PROVE  IInv' /\ Respects
    <2>1. replies[i] # << >> /\ Handled(i) /\ UNCHANGED <<lease, raced>>
      BY <1>5 DEF Hold, Forget, Drop, Fail, Awaits
    <2>2. NoneNew
      BY <1>0, <2>1, HandledStep
    <2> QED
      BY <2>1, <2>2, <1>q, SilentStep
  <1>6. ASSUME NEW i \in Instances, NEW c \in Containers, Release(i, c)
        PROVE  IInv' /\ Respects
    <2> DEFINE r == [op |-> "released", c |-> c]
               freed == {c} \cap {d \in Containers : lease[d] = i}
    <2>1. Send(i, r) /\ Free(freed)
      BY <1>6 DEF Release
    <2>2. ReplyFit(r) /\ r.op = "released"
      BY DEF ReplyFit
    <2>3. \A d \in freed : lease[d] = i
      OBVIOUS
    <2> HIDE DEF r, freed
    <2>4. OneNew(i, r) /\ OwnStep(i)
      BY <1>0, <2>1, SendStep DEF OwnStep
    <2>5. IInv'
      BY <2>1, <2>2, <2>3, <2>4, FreeStep
    <2> QED
      BY <1>0, <2>1, <2>3, <2>4, <2>5, OwnFreeRespects
  <1>7. ASSUME NEW i \in Instances, Renew(i)
        PROVE  IInv' /\ Respects
    <2> DEFINE r == [op |-> "renewed",
                     ok |-> [k \in DOMAIN held[i] |-> lease[held[i][k]] = i]]
    <2>1. Send(i, r) /\ UNCHANGED <<lease, raced>>
      BY <1>7 DEF Renew
    <2>2. ReplyFit(r) /\ r.op = "renewed"
      BY DEF ReplyFit
    <2> HIDE DEF r
    <2>3. OneNew(i, r)
      BY <1>0, <2>1, SendStep
    <2> QED
      BY <2>1, <2>2, <2>3, <1>q, QuietStep
  <1>8. ASSUME NEW i \in Instances, NEW rest \in SUBSET Containers,
               replies[i] # << >>, ScanNext(i, rest), UNCHANGED <<lease, raced>>
        PROVE  IInv' /\ Respects
    <2>1. CASE Handled(i)
      <3>1. NoneNew
        BY <1>0, <1>8, <2>1, HandledStep
      <3> QED
        BY <1>8, <3>1, <1>q, SilentStep
    <2>2. ASSUME NEW c \in rest,
                 Continue(i, [op |-> "scanned", c |-> c, by |-> lease[c],
                              rest |-> rest \ {c}])
          PROVE  IInv' /\ Respects
      <3> DEFINE r == [op |-> "scanned", c |-> c, by |-> lease[c], rest |-> rest \ {c}]
      <3>1. ReplyFit(r) /\ r.by = lease[r.c]
        BY DEF ReplyFit
      <3>2. Continue(i, r)
        BY <2>2
      <3> HIDE DEF r
      <3>3. OneNew(i, r)
        BY <1>0, <1>8, <3>2, ContinueStep
      <3> QED
        BY <1>8, <3>1, <3>3, <1>q, QuietStep
    <2> QED
      BY <1>8, <2>1, <2>2 DEF ScanNext
  <1>9. ASSUME NEW i \in Instances, Scan(i) \/ Reclaimed(i)
        PROVE  IInv' /\ Respects
    <2> DEFINE rest == Head(replies[i]).rest
    <2>1. /\ replies[i] # << >> /\ Head(replies[i]).op \in {"keys", "reclaimed"}
          /\ ScanNext(i, rest) /\ UNCHANGED <<lease, raced>>
      BY <1>9 DEF Scan, Reclaimed, Awaits
    <2>2. rest \in SUBSET Containers
      BY <1>0, <2>1, HeadPending DEF RepliesFit, ReplyFit
    <2> QED
      BY <1>8, <2>1, <2>2
  <1>10. ASSUME NEW i \in Instances, Reclaim(i)
         PROVE  IInv' /\ Respects
    <2> DEFINE h == Head(replies[i])
               r == [op |-> "reclaimed", c |-> h.c, rest |-> h.rest]
    <2>1. replies[i] # << >> /\ h.op = "scanned" /\ UNCHANGED raced
      BY <1>10 DEF Reclaim, Awaits
    <2>2. h \in Pending(i)
      BY <1>0, <2>1, HeadPending
    <2>3. h.rest \in SUBSET Containers
      BY <1>0, <2>1, <2>2 DEF RepliesFit, ReplyFit
    <2>4. CASE SamePortOther(i, h.by) /\ Takes(i, h.c) /\ Continue(i, r)
      <3>1. ReplyFit(r) /\ r.op = "reclaimed"
        BY <2>3 DEF ReplyFit
      <3> HIDE DEF r
      <3>2. OneNew(i, r)
        BY <1>0, <2>1, <2>4, ContinueStep
      <3>3. /\ h.c \in Containers
            /\ h.c \notin raced => Port[lease[h.c]] = Port[i]
        BY <2>1, <2>2, <2>4, TheftFromPeer DEF Looks
      <3>4. IInv'
        BY <2>1, <2>4, <3>1, <3>2, <3>3, TakeStep
      <3> QED
        BY <1>0, <2>4, <3>3, <3>4, TakeRespects
    <2>5. CASE ScanNext(i, h.rest) /\ UNCHANGED lease
      BY <1>8, <2>1, <2>3, <2>5
    <2> QED
      BY <1>10, <2>4, <2>5 DEF Reclaim
  <1>11. ASSUME NEW i \in Instances, Stop(i)
         PROVE  IInv' /\ Respects
    <2> DEFINE freed == {c \in HeldSet(i) : lease[c] = i}
    <2>1. Free(freed) /\ UNCHANGED replies /\ OwnStep(i)
      <3>1. life'[i] # life[i]
        BY <1>11 DEF Stop, LifeType
      <3> QED
        BY <1>11, <3>1 DEF Stop, OwnStep
    <2>2. \A d \in freed : lease[d] = i
      OBVIOUS
    <2> HIDE DEF freed
    <2>3. NoneNew
      BY <1>0, <2>1, SameReplies
    <2>4. IInv'
      BY <2>1, <2>3, FreeStep, NoneIsOne
    <2> QED
      BY <1>0, <2>1, <2>2, <2>4, OwnFreeRespects
  <1>12. ASSUME NEW i \in Instances, Exit(i)
         PROVE  IInv' /\ Respects
    <2>1. UNCHANGED <<lease, raced>> /\ replies' = [replies EXCEPT ![i] = << >>]
      BY <1>12 DEF Exit
    <2>2. PICK S : replies \in [Instances -> Seq(S)]
      BY <1>0 DEF RepliesType
    <2>3. replies' \in [Instances -> Seq(S)]
      BY <2>1, <2>2, EmptySeq
    <2>4. \A j \in Instances : replies'[j] = IF j = i THEN << >> ELSE replies[j]
      BY <2>1, <2>2
    <2>5. ToSet(<< >>) = {}
      BY DEF ToSet
    <2>6. NoneNew
      BY <2>3, <2>4, <2>5 DEF NoneNew, RepliesType, Pending
    <2> QED
      BY <2>1, <2>6, <1>q, SilentStep
  <1>13. ASSUME NEW c \in Containers, Expire(c)
         PROVE  IInv' /\ Respects
    <2>1. /\ lease[c] \in Instances /\ ~Refreshes(lease[c], c)
          /\ Free({c}) /\ UNCHANGED replies
      BY <1>0, <1>13 DEF Expire, LeaseType, Holder
    <2>2. NoneNew
      BY <1>0, <2>1, SameReplies
    <2>3. IInv'
      BY <2>1, <2>2, FreeStep, NoneIsOne
    <2>4. \A d \in Containers : lease'[d] = IF d = c THEN Nobody ELSE lease[d]
      BY <1>0, <2>1 DEF Free, LeaseType
    <2> QED
      BY <2>1, <2>3, <2>4 DEF Respects
  <1>14. CASE UNCHANGED vars
    <2>1. UNCHANGED <<lease, replies, raced>>
      BY <1>14 DEF vars
    <2> QED
      BY <1>0, <1>14, <2>1, SameReplies, SilentStep
  <1> QED
    BY <1>1, <1>2, <1>3, <1>4, <1>5, <1>6, <1>7, <1>9, <1>10, <1>11, <1>12, <1>13, <1>14
    DEF Next, Handle

LEMMA InvariantHolds == Spec => [](IInv /\ LifeType)
PROOF
  <1>1. IInv /\ LifeType /\ [Next]_vars => (IInv /\ LifeType)'
    BY StepIInv, LifeStep
  <1> QED
    BY <1>1, InitIInv, PTL DEF Spec

(* A server's lease is taken away only by a server of its own port, and it *)
(* comes free only by its own release or stop, or when it is not renewed:  *)
(* OtherPortsRespected, for acquire, release, reclaimStaleLeases, renewAll *)
(* and stop of any servers.                                                *)
THEOREM OtherPortsRespectedHolds == Spec => OtherPortsRespected
PROOF
  <1>1. IInv /\ LifeType /\ [Next]_vars =>
          [\A c \in Containers \ raced : \A j \in Instances :
             lease[c] = j /\ lease'[c] # j
               => \/ SamePortOther(j, lease'[c])
                  \/ lease'[c] = Nobody /\ (OwnStep(j) \/ ~Refreshes(j, c))]_vars
    BY StepIInv DEF Respects
  <1> QED
    BY <1>1, InvariantHolds, PTL DEF Spec, OtherPortsRespected

-------------------------------------------------------------------------------
(* A non-empty set of numbers has a least one.                             *)
LEMMA Least ==
    ASSUME NEW T \in SUBSET Nat, T # {}
    PROVE  \E m \in T : \A n \in T : m <= n
PROOF
  <1>1. PICK m \in T : \A n \in T : ~ (<<n, m>> \in OpToRel(<, Nat))
    BY NatLessThanWellFounded, WFMin, T # {}
  <1>2. \A n \in T : ~ (n < m)
    BY <1>1 DEF OpToRel
  <1> QED
    BY <1>2

(* What is left of the first n of s, one after the other.                  *)
Kept(s, gone, n, f) ==
    f = [k \in 0..n |-> IF k = 0 THEN << >>
                        ELSE IF s[k] \in gone THEN f[k - 1] ELSE Append(f[k - 1], s[k])]

(* Without's recursion has a solution, for sequences of any length.        *)
LEMMA KeptExists ==
    ASSUME NEW s, NEW gone, NEW n \in Nat
    PROVE  \E f : Kept(s, gone, n, f)
PROOF
  <1> DEFINE Bad == {k \in Nat : ~ \E f : Kept(s, gone, k, f)}
  <1>1. SUFFICES ASSUME Bad # {} PROVE FALSE
    OBVIOUS
  <1>2. PICK m \in Bad : \A k \in Bad : m <= k
    BY <1>1, Least
  <1>3. CASE m = 0
    <2> DEFINE f == [k \in 0..0 |-> << >>]
    <2>1. Kept(s, gone, 0, f)
      BY DEF Kept
    <2> QED
      BY <1>3, <2>1
  <1>4. CASE m # 0
    <2>1. m - 1 \in Nat /\ m - 1 \notin Bad
      BY <1>2, <1>4
    <2>2. PICK g : Kept(s, gone, m - 1, g)
      BY <2>1
    <2> DEFINE last == IF s[m] \in gone THEN g[m - 1] ELSE Append(g[m - 1], s[m])
               f == [k \in 0..m |-> IF k < m THEN g[k] ELSE last]
    <2>3. \A k \in 0..(m - 1) : f[k] = g[k]
      BY <2>1
    <2>4. \A k \in 0..(m - 1) : g[k] = IF k = 0 THEN << >>
                                       ELSE IF s[k] \in gone THEN g[k - 1] ELSE Append(g[k - 1], s[k])
      BY <2>2, Zenon DEF Kept
    <2>5. ASSUME NEW k \in 0..m
          PROVE  f[k] = IF k = 0 THEN << >>
                        ELSE IF s[k] \in gone THEN f[k - 1] ELSE Append(f[k - 1], s[k])
      <3>1. CASE k = m
        <4>1. f[m] = last /\ f[m - 1] = g[m - 1]
          BY <2>1, <2>3
        <4> QED
          BY <1>4, <3>1, <4>1
      <3>2. CASE k < m
        <4>1. k \in 0..(m - 1) /\ (k # 0 => k - 1 \in 0..(m - 1))
          BY <2>1, <3>2
        <4>2. f[k] = g[k] /\ (k # 0 => f[k - 1] = g[k - 1])
          BY <2>3, <4>1
        <4> HIDE DEF f
        <4> QED
          BY <2>4, <4>1, <4>2
      <3> QED
        BY <2>1, <3>1, <3>2
    <2>6. f = [k \in 0..m |-> f[k]]
      OBVIOUS
    <2> HIDE DEF f
    <2>7. Kept(s, gone, m, f)
      BY <2>5, <2>6 DEF Kept
    <2> QED
      BY <2>7
  <1> QED
    BY <1>3, <1>4

(* Without is that solution at the end of the sequence.                    *)
LEMMA WithoutUnfold ==
    ASSUME NEW s, NEW gone
    PROVE  Without(s, gone) = (CHOOSE f : Kept(s, gone, Len(s), f))[Len(s)]
PROOF BY Zenon DEF Without, Kept

(* No element comes twice.                                                *)
Distinct(s) == \A k, n \in DOMAIN s : s[k] = s[n] => k = n

(* A sequence without repetitions, and a new element behind it.            *)
LEMMA AppendDistinct ==
    ASSUME NEW S, NEW s \in Seq(S), NEW e, Distinct(s), e \notin ToSet(s)
    PROVE  Distinct(Append(s, e))
PROOF
  <1>1. s \in Seq(S \cup {e})
    OBVIOUS
  <1>2. /\ DOMAIN s = 1..Len(s) /\ Len(s) \in Nat
        /\ DOMAIN Append(s, e) = 1..(Len(s) + 1)
        /\ \A k \in 1..Len(s) : Append(s, e)[k] = s[k]
        /\ Append(s, e)[Len(s) + 1] = e
    BY <1>1, AppendProperties, LenProperties
  <1>3. \A k \in DOMAIN s : s[k] # e
    BY DEF ToSet
  <1> DEFINE t == Append(s, e)
  <1> HIDE DEF t
  <1>4. ASSUME NEW k \in DOMAIN t, NEW n \in DOMAIN t, t[k] = t[n] PROVE k = n
    <2>1. (k \in DOMAIN s \/ k = Len(s) + 1) /\ (n \in DOMAIN s \/ n = Len(s) + 1)
      BY <1>2 DEF t
    <2> QED
      BY <1>2, <1>3, <1>4, <2>1 DEF t, Distinct
  <1> QED
    BY <1>4 DEF Distinct, t

(* Without keeps the other elements, and repeats none of them.             *)
LEMMA WithoutIs ==
    ASSUME NEW S, NEW s \in Seq(S), NEW gone
    PROVE  /\ Without(s, gone) \in Seq(S)
           /\ ToSet(Without(s, gone)) = ToSet(s) \ gone
           /\ Distinct(s) => Distinct(Without(s, gone))
PROOF
  <1>1. Len(s) \in Nat /\ DOMAIN s = 1..Len(s) /\ \A k \in 1..Len(s) : s[k] \in S
    BY LenProperties
  <1>2. PICK f : Kept(s, gone, Len(s), f) /\ Without(s, gone) = f[Len(s)]
    BY <1>1, KeptExists, WithoutUnfold
  <1>3. \A k \in 0..Len(s) : f[k] = IF k = 0 THEN << >>
                                    ELSE IF s[k] \in gone THEN f[k - 1] ELSE Append(f[k - 1], s[k])
    BY <1>2, Zenon DEF Kept
  <1> DEFINE Good(n) == /\ f[n] \in Seq(S)
                        /\ ToSet(f[n]) = {s[k] : k \in 1..n} \ gone
                        /\ Distinct(s) => Distinct(f[n])
             Bad == {n \in 0..Len(s) : ~ Good(n)}
  <1>4. Good(0)
    <2>1. f[0] = << >> /\ << >> \in Seq(S)
      BY <1>1, <1>3
    <2>2. ToSet(<< >>) = {} /\ Distinct(<< >>)
      BY DEF ToSet, Distinct
    <2> QED
      BY <2>1, <2>2
  <1>5. ASSUME NEW n \in 1..Len(s), Good(n - 1) PROVE Good(n)
    <2>1. n \in 0..Len(s) /\ n # 0 /\ s[n] \in S
      BY <1>1
    <2>2. f[n] = IF s[n] \in gone THEN f[n - 1] ELSE Append(f[n - 1], s[n])
      BY <1>3, <2>1
    <2>3. {s[k] : k \in 1..n} = {s[k] : k \in 1..(n - 1)} \cup {s[n]}
      <3>1. \A k : k \in 1..n <=> (k \in 1..(n - 1) \/ k = n)
        BY <1>1
      <3> QED
        BY <3>1
    <2>4. CASE s[n] \in gone
      BY <1>5, <2>2, <2>3, <2>4
    <2>5. CASE s[n] \notin gone
      <3> DEFINE t == f[n - 1]
      <3>1. t \in Seq(S) /\ ToSet(t) = {s[k] : k \in 1..(n - 1)} \ gone /\ (Distinct(s) => Distinct(t))
        BY <1>5
      <3>2. f[n] = Append(t, s[n])
        BY <2>2, <2>5
      <3> HIDE DEF t
      <3>3. /\ Append(t, s[n]) \in Seq(S \cup {s[n]}) /\ S \cup {s[n]} = S
            /\ ToSet(Append(t, s[n])) = ToSet(t) \cup {s[n]}
        BY <2>1, <3>1, AppendSet
      <3>4. ASSUME Distinct(s) PROVE Distinct(Append(t, s[n]))
        <4>1. ASSUME NEW k \in 1..(n - 1) PROVE s[k] # s[n]
          BY <1>1, <3>4 DEF Distinct
        <4>2. s[n] \notin ToSet(t)
          BY <3>1, <4>1
        <4> QED
          BY <3>1, <3>4, <4>2, AppendDistinct
      <3>5. ToSet(f[n]) = {s[k] : k \in 1..n} \ gone
        BY <2>3, <2>5, <3>1, <3>2, <3>3
      <3> QED
        BY <3>2, <3>3, <3>4, <3>5
    <2> QED
      BY <2>4, <2>5
  <1>6. Bad = {}
    <2>1. SUFFICES ASSUME Bad # {} PROVE FALSE
      OBVIOUS
    <2> HIDE DEF Good
    <2>0. Bad \in SUBSET Nat
      BY <1>1
    <2>2. PICK m \in Bad : \A k \in Bad : m <= k
      <3> HIDE DEF Bad
      <3> QED
        BY <2>0, <2>1, Least
    <2>3. m # 0
      BY <1>4
    <2>4. m \in 1..Len(s) /\ m - 1 \in 0..Len(s) /\ m - 1 \notin Bad
      BY <1>1, <2>2, <2>3
    <2> QED
      BY <1>5, <2>4
  <1>7. Good(Len(s))
    <2> HIDE DEF Good
    <2> QED
      BY <1>1, <1>6
  <1> QED
    BY <1>1, <1>2, <1>7 DEF ToSet

-------------------------------------------------------------------------------
(* Types. A local set is a sequence without repetitions.                   *)
HeldType == held \in [Instances -> Seq(Containers)] /\ \A i \in Instances : Distinct(held[i])
QueueType == replies \in [Instances -> Seq(Reply)]

(* The fields a reply of each kind has.                                    *)
LEMMA ReplyKinds ==
    ASSUME NEW r \in Reply
    PROVE  /\ r.op \in {"mine", "taken", "released", "holder", "scanned", "reclaimed"} => r.c \in Containers
           /\ r.op \in {"holder", "scanned"} => r.by \in Holder
           /\ r.op = "renewed" => r.ok \in Seq(BOOLEAN)
           /\ r.op \in {"keys", "scanned", "reclaimed"} => r.rest \in SUBSET Containers
PROOF BY DEF Reply

(* A reply is put behind the others.                                       *)
LEMMA SendType ==
    ASSUME QueueType, NEW i \in Instances, NEW r \in Reply, Send(i, r)
    PROVE  QueueType'
PROOF BY DEF QueueType, Send

(* A reply is taken off.                                                   *)
LEMMA HandledType ==
    ASSUME QueueType, NEW i \in Instances, replies[i] # << >>, Handled(i)
    PROVE  QueueType'
PROOF
  <1>1. replies[i] \in Seq(Reply)
    BY DEF QueueType
  <1>2. Tail(replies[i]) \in Seq(Reply)
    BY <1>1, HeadTailProperties
  <1> QED
    BY <1>2 DEF QueueType, Handled

(* A reply is taken off, and the next of its handler put behind.           *)
LEMMA ContinueType ==
    ASSUME QueueType, NEW i \in Instances, replies[i] # << >>, NEW r \in Reply, Continue(i, r)
    PROVE  QueueType'
PROOF
  <1>1. replies[i] \in Seq(Reply)
    BY DEF QueueType
  <1>2. Tail(replies[i]) \in Seq(Reply)
    BY <1>1, HeadTailProperties
  <1>3. Append(Tail(replies[i]), r) \in Seq(Reply)
    BY <1>2
  <1> QED
    BY <1>3 DEF QueueType, Continue

(* The reply being handled.                                                *)
LEMMA HeadType ==
    ASSUME QueueType, NEW i \in Instances, replies[i] # << >>
    PROVE  Head(replies[i]) \in Reply
PROOF BY HeadTailProperties DEF QueueType

(* Insert is Set.add: the element comes last unless it is there.           *)
LEMMA InsertIs ==
    ASSUME NEW S, NEW s \in Seq(S), NEW c \in S
    PROVE  /\ Insert(s, c) \in Seq(S)
           /\ ToSet(Insert(s, c)) = ToSet(s) \cup {c}
           /\ Distinct(s) => Distinct(Insert(s, c))
PROOF
  <1>1. CASE c \in ToSet(s)
    BY <1>1 DEF Insert
  <1>2. CASE c \notin ToSet(s)
    <2>1. Insert(s, c) = Append(s, c)
      BY <1>2 DEF Insert
    <2>2. Append(s, c) \in Seq(S) /\ ToSet(Append(s, c)) = ToSet(s) \cup {c}
      BY AppendSet
    <2> QED
      BY <1>2, <2>1, <2>2, AppendDistinct
  <1> QED
    BY <1>1, <1>2

(* One local set becomes t.                                                *)
LEMMA HeldStep ==
    ASSUME HeldType, NEW i \in Instances, NEW t \in Seq(Containers),
           Distinct(held[i]) => Distinct(t), held' = [held EXCEPT ![i] = t]
    PROVE  HeldType'
PROOF
  <1>1. \A j \in Instances : held'[j] = IF j = i THEN t ELSE held[j]
    BY DEF HeldType
  <1>2. held' \in [Instances -> Seq(Containers)]
    BY DEF HeldType
  <1>3. \A j \in Instances : Distinct(held'[j])
    BY <1>1 DEF HeldType
  <1> QED
    BY <1>2, <1>3 DEF HeldType, Distinct

(* No local set changes.                                                   *)
LEMMA HeldSame ==
    ASSUME HeldType, UNCHANGED held
    PROVE  HeldType'
PROOF BY DEF HeldType, Distinct

(* Leases that end leave leases, and containers that raced.                *)
LEMMA FreeType ==
    ASSUME LeaseType, raced \subseteq Containers, NEW freed \in SUBSET Containers, Free(freed)
    PROVE  LeaseType' /\ raced' \subseteq Containers
PROOF BY DEF Free, LeaseType, Holder

(* The type invariant, part by part.                                       *)
TypeInv ==
    /\ LeaseType /\ HeldType /\ QueueType /\ LifeType
    /\ requests \in Nat /\ disturbed \subseteq Instances /\ raced \subseteq Containers

(* TypeOK by the parts that the lemmas are about.                          *)
LEMMA TypeInvIs == TypeInv <=> TypeOK
PROOF BY DEF TypeInv, TypeOK, LeaseType, HeldType, QueueType, LifeType, Distinct

(* The scan of the startup goes on to its next container, or ends.         *)
LEMMA ScanType ==
    ASSUME TypeInv, NEW i \in Instances, replies[i] # << >>, NEW rest \in SUBSET Containers,
           ScanNext(i, rest)
    PROVE  QueueType'
PROOF
  <1>1. CASE Handled(i)
    BY <1>1, HandledType DEF TypeInv
  <1>2. ASSUME NEW c \in rest,
               Continue(i, [op |-> "scanned", c |-> c, by |-> lease[c], rest |-> rest \ {c}])
        PROVE  QueueType'
    <2> DEFINE r == [op |-> "scanned", c |-> c, by |-> lease[c], rest |-> rest \ {c}]
    <2>1. lease[c] \in Holder
      BY DEF TypeInv, LeaseType
    <2>2. r \in Reply
      BY <2>1 DEF Reply
    <2>3. Continue(i, r)
      BY <1>2
    <2> HIDE DEF r
    <2> QED
      BY <2>2, <2>3, ContinueType DEF TypeInv
  <1> QED
    BY <1>1, <1>2 DEF ScanNext

(* A call of a server changes none of its sets.                            *)
LEMMA RequestType ==
    ASSUME TypeInv, NEW i \in Instances, Request(i)
    PROVE  requests' \in Nat /\ HeldType' /\ LifeType' /\ disturbed' \subseteq Instances
PROOF
  <1>1. requests' = requests + 1 /\ UNCHANGED <<held, life, disturbed>>
    BY DEF Request
  <1>2. HeldType'
    BY <1>1, HeldSame DEF TypeInv
  <1> QED
    BY <1>1, <1>2 DEF TypeInv, LifeType

(* What the code after an await does keeps the types.                      *)
LEMMA HandleType ==
    ASSUME TypeInv, NEW i \in Instances, Handle(i)
    PROVE  TypeInv'
PROOF
  <1> DEFINE h == Head(replies[i])
             Rest == /\ LifeType' /\ requests' \in Nat /\ disturbed' \subseteq Instances
                     /\ raced' \subseteq Containers
  <1>1. replies[i] # << >> /\ Rest
    <2>1. replies[i] # << >> /\ UNCHANGED <<life, requests, disturbed, raced>>
      BY DEF Handle, LookWho, Decide, Hold, Forget, Drop, Scan, Reclaim, Reclaimed, Awaits, history
    <2> QED
      BY <2>1 DEF TypeInv, LifeType
  <1>2. h \in Reply
    BY <1>1, HeadType DEF TypeInv
  <1>3. UNCHANGED held => HeldType'
    BY HeldSame DEF TypeInv
  <1>4. UNCHANGED lease => LeaseType'
    BY DEF TypeInv, LeaseType
  <1>5. ASSUME NEW c \in Containers, Takes(i, c) PROVE LeaseType'
    BY <1>5 DEF Takes, TypeInv, LeaseType, Holder
  <1>6. ASSUME NEW c \in Containers, Continue(i, [op |-> "mine", c |-> c]) PROVE QueueType'
    <2> DEFINE r == [op |-> "mine", c |-> c]
    <2>1. r \in Reply
      BY DEF Reply
    <2>2. Continue(i, r)
      BY <1>6
    <2> HIDE DEF r
    <2> QED
      BY <1>1, <2>1, <2>2, ContinueType DEF TypeInv
  <1>7. Handled(i) => QueueType'
    BY <1>1, HandledType DEF TypeInv
  <1>8. CASE LookWho(i)
    <2> DEFINE r == [op |-> "holder", c |-> h.c, by |-> lease[h.c]]
    <2>1. h.c \in Containers
      BY <1>2, <1>8, ReplyKinds DEF LookWho, Awaits
    <2>2. r \in Reply
      BY <2>1 DEF TypeInv, LeaseType, Reply
    <2>3. Continue(i, r) /\ UNCHANGED <<lease, held>>
      BY <1>8 DEF LookWho
    <2> HIDE DEF r
    <2>4. QueueType'
      BY <1>1, <2>2, <2>3, ContinueType DEF TypeInv
    <2> QED
      BY <1>1, <1>3, <1>4, <2>3, <2>4 DEF TypeInv
  <1>9. CASE Decide(i)
    <2>1. h.c \in Containers
      BY <1>2, <1>9, ReplyKinds DEF Decide, Awaits
    <2>2. /\ UNCHANGED lease \/ Takes(i, h.c)
          /\ Continue(i, [op |-> "mine", c |-> h.c]) \/ Handled(i)
          /\ UNCHANGED held
      BY <1>9 DEF Decide
    <2> HIDE DEF h
    <2>3. LeaseType' /\ QueueType'
      BY <1>4, <1>5, <1>6, <1>7, <2>1, <2>2
    <2> QED
      BY <1>1, <1>3, <2>2, <2>3 DEF TypeInv
  <1>10. CASE Hold(i)
    <2>1. h.c \in Containers
      BY <1>2, <1>10, ReplyKinds DEF Hold, Awaits
    <2>2. held' = [held EXCEPT ![i] = Insert(held[i], h.c)] /\ Handled(i) /\ UNCHANGED lease
      BY <1>10 DEF Hold
    <2>3. Insert(held[i], h.c) \in Seq(Containers) /\ (Distinct(held[i]) => Distinct(Insert(held[i], h.c)))
      BY <2>1, InsertIs DEF TypeInv, HeldType
    <2>4. HeldType'
      BY <2>2, <2>3, HeldStep DEF TypeInv
    <2> QED
      BY <1>1, <1>4, <1>7, <2>2, <2>4 DEF TypeInv
  <1>11. CASE Forget(i) \/ Drop(i)
    <2>1. PICK gone : held' = [held EXCEPT ![i] = Without(held[i], gone)]
      BY <1>11 DEF Forget, Drop
    <2>2. Without(held[i], gone) \in Seq(Containers)
          /\ (Distinct(held[i]) => Distinct(Without(held[i], gone)))
      BY WithoutIs DEF TypeInv, HeldType
    <2>3. HeldType'
      BY <2>1, <2>2, HeldStep DEF TypeInv
    <2>4. Handled(i) /\ UNCHANGED lease
      BY <1>11 DEF Forget, Drop
    <2> QED
      BY <1>1, <1>4, <1>7, <2>3, <2>4 DEF TypeInv
  <1>12. CASE Scan(i)
    <2>1. h.rest \in SUBSET Containers
      BY <1>2, <1>12, ReplyKinds DEF Scan, Awaits
    <2>2. ScanNext(i, h.rest) /\ UNCHANGED <<lease, held>>
      BY <1>12 DEF Scan
    <2>3. QueueType'
      BY <1>1, <2>1, <2>2, ScanType
    <2> QED
      BY <1>1, <1>3, <1>4, <2>2, <2>3 DEF TypeInv
  <1>13. CASE Reclaim(i)
    <2>1. h.rest \in SUBSET Containers /\ h.c \in Containers
      BY <1>2, <1>13, ReplyKinds DEF Reclaim, Awaits
    <2> DEFINE r == [op |-> "reclaimed", c |-> h.c, rest |-> h.rest]
    <2>2. r \in Reply
      BY <2>1 DEF Reply
    <2>3. /\ UNCHANGED held
          /\ \/ Takes(i, h.c) /\ Continue(i, r)
             \/ ScanNext(i, h.rest) /\ UNCHANGED lease
      BY <1>13 DEF Reclaim
    <2> HIDE DEF r, h
    <2>4. Continue(i, r) => QueueType'
      BY <1>1, <2>2, ContinueType DEF TypeInv
    <2>5. ScanNext(i, h.rest) => QueueType'
      BY <1>1, <2>1, ScanType
    <2>6. LeaseType' /\ QueueType'
      BY <1>4, <1>5, <2>1, <2>3, <2>4, <2>5
    <2> QED
      BY <1>1, <1>3, <2>3, <2>6 DEF TypeInv
  <1>14. CASE Reclaimed(i)
    <2>1. h.rest \in SUBSET Containers /\ h.c \in Containers
      BY <1>2, <1>14, ReplyKinds DEF Reclaimed, Awaits
    <2>2. /\ held' = [held EXCEPT ![i] = Insert(held[i], h.c)]
          /\ ScanNext(i, h.rest) /\ UNCHANGED lease
      BY <1>14 DEF Reclaimed
    <2>3. Insert(held[i], h.c) \in Seq(Containers) /\ (Distinct(held[i]) => Distinct(Insert(held[i], h.c)))
      BY <2>1, InsertIs DEF TypeInv, HeldType
    <2>4. HeldType'
      BY <2>2, <2>3, HeldStep DEF TypeInv
    <2>5. QueueType'
      BY <1>1, <2>1, <2>2, ScanType
    <2> QED
      BY <1>1, <1>4, <2>2, <2>4, <2>5 DEF TypeInv
  <1> QED
    BY <1>8, <1>9, <1>10, <1>11, <1>12, <1>13, <1>14 DEF Handle

(* Every step keeps the types.                                             *)
LEMMA TypeStep ==
    TypeInv /\ [Next]_vars => TypeInv'
PROOF
  <1> SUFFICES ASSUME TypeInv, [Next]_vars PROVE TypeInv'
    OBVIOUS
  <1> USE DEF history
  <1>0. LifeType'
    BY LifeStep DEF TypeInv
  <1>h. UNCHANGED held => HeldType'
    BY HeldSame DEF TypeInv
  <1>l. UNCHANGED lease => LeaseType'
    BY DEF TypeInv, LeaseType
  <1>e. ASSUME NEW i \in Instances, held' = [held EXCEPT ![i] = << >>] PROVE HeldType'
    <2>1. << >> \in Seq(Containers) /\ Distinct(<< >>)
      BY EmptySeq DEF Distinct
    <2> QED
      BY <1>e, <2>1, HeldStep DEF TypeInv
  <1>1. ASSUME NEW i \in Instances, Start(i) PROVE TypeInv'
    <2> DEFINE keys == {c \in Containers : lease[c] # Nobody}
               r == [op |-> "keys", rest |-> keys]
    <2>1. r \in Reply
      BY DEF Reply
    <2>2. (UNCHANGED replies \/ Send(i, r)) /\ UNCHANGED <<lease, held, requests, disturbed, raced>>
      BY <1>1 DEF Start
    <2> HIDE DEF r
    <2>3. QueueType'
      BY <2>1, <2>2, SendType DEF TypeInv, QueueType
    <2> QED
      BY <1>0, <1>h, <1>l, <2>2, <2>3 DEF TypeInv
  <1>2. ASSUME NEW i \in Instances, NEW c \in Containers, Acquire(i, c) PROVE TypeInv'
    <2> DEFINE mine == [op |-> "mine", c |-> c]
               taken == [op |-> "taken", c |-> c]
    <2>1. mine \in Reply /\ taken \in Reply
      BY DEF Reply
    <2>2. /\ Request(i) /\ UNCHANGED raced
          /\ (Takes(i, c) /\ Send(i, mine)) \/ (Send(i, taken) /\ UNCHANGED lease)
      BY <1>2 DEF Acquire
    <2> HIDE DEF mine, taken
    <2>3. QueueType'
      BY <2>1, <2>2, SendType DEF TypeInv
    <2>4. LeaseType'
      BY <1>l, <2>2 DEF Takes, TypeInv, LeaseType, Holder
    <2> QED
      BY <2>2, <2>3, <2>4, RequestType DEF TypeInv
  <1>3. ASSUME NEW i \in Instances, NEW c \in Containers, Release(i, c) PROVE TypeInv'
    <2> DEFINE r == [op |-> "released", c |-> c]
               freed == {c} \cap {d \in Containers : lease[d] = i}
    <2>1. r \in Reply /\ freed \in SUBSET Containers
      BY DEF Reply
    <2>2. Request(i) /\ Send(i, r) /\ Free(freed)
      BY <1>3 DEF Release
    <2> HIDE DEF r, freed
    <2>3. QueueType'
      BY <2>1, <2>2, SendType DEF TypeInv
    <2>4. LeaseType' /\ raced' \subseteq Containers
      BY <2>1, <2>2, FreeType DEF TypeInv
    <2> QED
      BY <2>2, <2>3, <2>4, RequestType DEF TypeInv
  <1>4. ASSUME NEW i \in Instances, Renew(i) PROVE TypeInv'
    <2> DEFINE ok == [k \in DOMAIN held[i] |-> lease[held[i][k]] = i]
               r == [op |-> "renewed", ok |-> ok]
    <2>1. DOMAIN held[i] = 1..Len(held[i]) /\ Len(held[i]) \in Nat
      BY LenProperties DEF TypeInv, HeldType
    <2>2. ok \in Seq(BOOLEAN)
      <3>1. ok \in [1..Len(held[i]) -> BOOLEAN]
        BY <2>1
      <3> QED
        BY <2>1, <3>1, IsASeq
    <2>3. Send(i, r) /\ UNCHANGED <<lease, held, requests, raced>> /\ disturbed' \subseteq Instances
      BY <1>4 DEF Renew, TypeInv
    <2> HIDE DEF ok
    <2>4. r \in Reply
      BY <2>2 DEF Reply
    <2> HIDE DEF r
    <2>5. QueueType'
      BY <2>3, <2>4, SendType DEF TypeInv
    <2> QED
      BY <1>0, <1>h, <1>l, <2>3, <2>5 DEF TypeInv
  <1>5. ASSUME NEW i \in Instances, Fail(i) PROVE TypeInv'
    <2>1. /\ replies[i] # << >> /\ Handled(i) /\ UNCHANGED <<lease, requests, raced>>
          /\ disturbed' \subseteq Instances
      BY <1>5 DEF Fail, TypeInv
    <2>2. CASE UNCHANGED held
      BY <1>0, <1>h, <1>l, <2>1, <2>2, HandledType DEF TypeInv
    <2>3. ASSUME NEW gone, held' = [held EXCEPT ![i] = Without(held[i], gone)] PROVE TypeInv'
      <3>1. Without(held[i], gone) \in Seq(Containers)
            /\ (Distinct(held[i]) => Distinct(Without(held[i], gone)))
        BY WithoutIs DEF TypeInv, HeldType
      <3>2. HeldType'
        BY <2>3, <3>1, HeldStep DEF TypeInv
      <3> QED
        BY <1>0, <1>l, <2>1, <3>2, HandledType DEF TypeInv
    <2> QED
      BY <1>5, <2>2, <2>3 DEF Fail
  <1>6. ASSUME NEW i \in Instances, Stop(i) PROVE TypeInv'
    <2> DEFINE freed == {c \in HeldSet(i) : lease[c] = i}
    <2>1. freed \in SUBSET Containers
      BY DEF TypeInv, HeldType, HeldSet, ToSet
    <2>2. Free(freed) /\ UNCHANGED <<replies, requests, disturbed>> /\ held' = [held EXCEPT ![i] = << >>]
      BY <1>6 DEF Stop
    <2> HIDE DEF freed
    <2>3. LeaseType' /\ raced' \subseteq Containers
      BY <2>1, <2>2, FreeType DEF TypeInv
    <2> QED
      BY <1>0, <1>e, <2>2, <2>3 DEF TypeInv, QueueType
  <1>7. ASSUME NEW i \in Instances, Exit(i) PROVE TypeInv'
    <2>1. /\ replies' = [replies EXCEPT ![i] = << >>] /\ held' = [held EXCEPT ![i] = << >>]
          /\ UNCHANGED <<lease, requests, disturbed, raced>>
      BY <1>7 DEF Exit
    <2>2. QueueType'
      BY <2>1, EmptySeq DEF TypeInv, QueueType
    <2> QED
      BY <1>0, <1>e, <1>l, <2>1, <2>2 DEF TypeInv
  <1>8. ASSUME NEW c \in Containers, Expire(c) PROVE TypeInv'
    <2>1. Free({c}) /\ UNCHANGED <<held, replies, life, requests, disturbed>>
      BY <1>8 DEF Expire
    <2>2. LeaseType' /\ raced' \subseteq Containers
      BY <2>1, FreeType DEF TypeInv
    <2> QED
      BY <1>0, <1>h, <2>1, <2>2 DEF TypeInv, QueueType
  <1>9. CASE UNCHANGED vars
    BY <1>0, <1>h, <1>l, <1>9 DEF vars, TypeInv, QueueType
  <1> QED
    BY <1>1, <1>2, <1>3, <1>4, <1>5, <1>6, <1>7, <1>8, <1>9, HandleType DEF Next

(* So do the initial states.                                               *)
LEMMA InitTypeInv == Init => TypeInv
PROOF
  <1> SUFFICES ASSUME Init PROVE TypeInv
    OBVIOUS
  <1>1. << >> \in Seq(Containers) /\ << >> \in Seq(Reply) /\ Distinct(<< >>)
    BY EmptySeq DEF Distinct
  <1>2. HeldType /\ QueueType
    BY <1>1 DEF Init, HeldType, QueueType
  <1> QED
    BY <1>2, InitIInv DEF Init, TypeInv, IInv

(* Every variable keeps its type, and a local set never has a lease twice: *)
(* for every number of servers, containers, callers and replies under way. *)
THEOREM TypeCorrect == Spec => []TypeOK
PROOF
  <1>1. TypeInv => TypeOK
    BY TypeInvIs
  <1> QED
    BY <1>1, InitTypeInv, TypeStep, PTL DEF Spec

-------------------------------------------------------------------------------
(***************************************************************************)
(* Holders renew. Of one server: s are its replies under way, h its local  *)
(* set, L the containers that Redis says it holds. A lease it holds is in  *)
(* the set, or a reply that puts it there is under way; and so it stays    *)
(* when the replies before that one are handled:                           *)
(*  - behind the answer to a release comes whatever acquired the lease     *)
(*    again;                                                               *)
(*  - the answer to a renewal is about the set as it still is, but for     *)
(*    leases added at its end, and behind it comes whatever acquired again *)
(*    a lease that it takes for lost. Answers to releases and to other     *)
(*    renewals come only behind it: that is what a server that is not in   *)
(*    disturbed has.                                                       *)
(***************************************************************************)
Backs(r, c) == r.op \in {"mine", "reclaimed"} /\ r.c = c
BackedAfter(s, p, c) == \E q \in DOMAIN s : q > p /\ Backs(s[q], c)
Shifting == {"released", "renewed"}

ReleasesFit(s, L) ==
    \A p \in DOMAIN s : s[p].op = "released" /\ s[p].c \in L => BackedAfter(s, p, s[p].c)
RenewalsFit(s, h, L) ==
    \A p \in DOMAIN s : s[p].op = "renewed" =>
        /\ \A q \in DOMAIN s : q < p => s[q].op \notin Shifting
        /\ \A k \in DOMAIN s[p].ok :
             k \in DOMAIN h /\ (~ s[p].ok[k] /\ h[k] \in L => BackedAfter(s, p, h[k]))
LeasesFit(s, h, L) == \A c \in L : c \in ToSet(h) \/ BackedAfter(s, 0, c)

Fit(s, h, L) == ReleasesFit(s, L) /\ RenewalsFit(s, h, L) /\ LeasesFit(s, h, L)

(* Losing leases makes it no harder.                                       *)
LEMMA FitLess ==
    ASSUME NEW s, NEW h, NEW L, NEW M, Fit(s, h, L), M \subseteq L
    PROVE  Fit(s, h, M)
PROOF
  <1>1. ReleasesFit(s, M)
    BY DEF Fit, ReleasesFit
  <1>2. RenewalsFit(s, h, M)
    BY DEF Fit, RenewalsFit
  <1>3. LeasesFit(s, h, M)
    BY DEF Fit, LeasesFit
  <1> QED
    BY <1>1, <1>2, <1>3 DEF Fit

(* Nothing held, nothing under way.                                        *)
LEMMA FitEmpty ==
    ASSUME NEW h
    PROVE  Fit(<< >>, h, {})
PROOF BY DEF Fit, ReleasesFit, RenewalsFit, LeasesFit

(* A reply is sent.                                                        *)
LEMMA FitAppend ==
    ASSUME NEW S, NEW s \in Seq(S), NEW r, NEW h, NEW L, NEW M, Fit(s, h, L),
           \A c \in M : c \in L \/ Backs(r, c),
           r.op = "released" => r.c \notin M,
           r.op = "renewed" => /\ \A q \in DOMAIN s : s[q].op \notin Shifting
                               /\ \A k \in DOMAIN r.ok : k \in DOMAIN h /\ (~ r.ok[k] => h[k] \notin M)
    PROVE  Fit(Append(s, r), h, M)
PROOF
  <1> DEFINE t == Append(s, r)
  <1>1. s \in Seq(S \cup {r})
    OBVIOUS
  <1>2. /\ DOMAIN s = 1..Len(s) /\ Len(s) \in Nat /\ DOMAIN t = 1..(Len(s) + 1)
        /\ \A k \in 1..Len(s) : t[k] = s[k]
        /\ t[Len(s) + 1] = r
    BY <1>1, AppendProperties, LenProperties
  <1>3. PICK z : z = Len(s) + 1
    OBVIOUS
  <1> HIDE DEF t
  <1>4. /\ z \in DOMAIN t /\ t[z] = r
        /\ \A p \in DOMAIN t : p \in DOMAIN s \/ p = z
        /\ \A p \in DOMAIN s : p \in DOMAIN t /\ t[p] = s[p] /\ p < z
        /\ 0 < z
    BY <1>2, <1>3
  <1>5. ASSUME NEW p, NEW c, BackedAfter(s, p, c) PROVE BackedAfter(t, p, c)
    BY <1>4, <1>5 DEF BackedAfter
  <1>6. ASSUME NEW p \in DOMAIN s \cup {0}, NEW c, Backs(r, c) PROVE BackedAfter(t, p, c)
    BY <1>4, <1>6 DEF BackedAfter
  <1>7. ReleasesFit(t, M)
    <2> SUFFICES ASSUME NEW p \in DOMAIN t, t[p].op = "released", t[p].c \in M
                 PROVE  BackedAfter(t, p, t[p].c)
      BY DEF ReleasesFit
    <2>1. p \in DOMAIN s /\ t[p] = s[p]
      BY <1>4
    <2>2. CASE s[p].c \in L
      BY <1>5, <2>1, <2>2 DEF Fit, ReleasesFit
    <2>3. CASE Backs(r, s[p].c)
      BY <1>6, <2>1, <2>3
    <2> QED
      BY <2>1, <2>2, <2>3
  <1>8. RenewalsFit(t, h, M)
    <2> SUFFICES ASSUME NEW p \in DOMAIN t, t[p].op = "renewed"
                 PROVE  /\ \A q \in DOMAIN t : q < p => t[q].op \notin Shifting
                        /\ \A k \in DOMAIN t[p].ok :
                             k \in DOMAIN h /\ (~ t[p].ok[k] /\ h[k] \in M => BackedAfter(t, p, h[k]))
      BY DEF RenewalsFit
    <2>1. CASE p = z
      <3>1. \A q \in DOMAIN t : q < p => q \in DOMAIN s /\ t[q] = s[q]
        BY <1>2, <1>4, <2>1
      <3> QED
        BY <1>4, <2>1, <3>1
    <2>2. CASE p \in DOMAIN s
      <3>1. s[p].op = "renewed" /\ t[p] = s[p]
        BY <1>4, <2>2
      <3>2. \A q \in DOMAIN t : q < p => q \in DOMAIN s /\ t[q] = s[q]
        BY <1>2, <1>4, <2>2
      <3>3. \A q \in DOMAIN t : q < p => t[q].op \notin Shifting
        BY <2>2, <3>1, <3>2 DEF Fit, RenewalsFit
      <3>4. ASSUME NEW k \in DOMAIN s[p].ok
            PROVE  k \in DOMAIN h /\ (~ s[p].ok[k] /\ h[k] \in M => BackedAfter(t, p, h[k]))
        <4>1. k \in DOMAIN h /\ (~ s[p].ok[k] /\ h[k] \in L => BackedAfter(s, p, h[k]))
          BY <2>2, <3>1, <3>4 DEF Fit, RenewalsFit
        <4>2. BackedAfter(s, p, h[k]) => BackedAfter(t, p, h[k])
          BY <1>5
        <4>3. Backs(r, h[k]) => BackedAfter(t, p, h[k])
          BY <1>6, <2>2
        <4> QED
          BY <4>1, <4>2, <4>3
      <3> QED
        BY <3>1, <3>3, <3>4
    <2> QED
      BY <1>4, <2>1, <2>2
  <1>9. LeasesFit(t, h, M)
    <2> SUFFICES ASSUME NEW c \in M PROVE c \in ToSet(h) \/ BackedAfter(t, 0, c)
      BY DEF LeasesFit
    <2>1. CASE c \in L
      BY <1>5, <2>1 DEF Fit, LeasesFit
    <2>2. CASE Backs(r, c)
      BY <1>6, <2>2
    <2> QED
      BY <2>1, <2>2
  <1> QED
    BY <1>7, <1>8, <1>9 DEF Fit, t

(* The first reply is handled, and the set becomes g.                      *)
LEMMA FitTail ==
    ASSUME NEW S, NEW s \in Seq(S), s # << >>, NEW h, NEW g, NEW L, Fit(s, h, L),
           \/ Head(s).op \in Shifting
           \/ \A k \in DOMAIN h : k \in DOMAIN g /\ g[k] = h[k],
           \A c \in L : c \in ToSet(g) \/ BackedAfter(s, 1, c)
    PROVE  Fit(Tail(s), g, L)
PROOF
  <1> DEFINE t == Tail(s)
  <1>1. /\ t \in Seq(S) /\ Len(t) = Len(s) - 1
        /\ \A k \in 1..Len(t) : t[k] = s[k + 1]
    BY HeadTailProperties
  <1>2. Len(s) \in Nat /\ Len(s) # 0 /\ DOMAIN s = 1..Len(s) /\ DOMAIN t = 1..Len(t)
    BY <1>1, LenProperties, EmptySeq
  <1>3. Head(s) = s[1] /\ 1 \in DOMAIN s
    BY <1>2
  <1> HIDE DEF t
  <1>4. \A p \in DOMAIN t : p + 1 \in DOMAIN s /\ t[p] = s[p + 1] /\ 1 < p + 1 /\ p \in Nat
    BY <1>1, <1>2
  <1>5. ASSUME NEW p \in Nat, NEW c, BackedAfter(s, p + 1, c) PROVE BackedAfter(t, p, c)
    <2>1. PICK q \in DOMAIN s : q > p + 1 /\ Backs(s[q], c)
      BY <1>5 DEF BackedAfter
    <2>2. q - 1 \in DOMAIN t /\ q - 1 > p /\ t[q - 1] = s[q]
      BY <1>1, <1>2, <2>1
    <2> QED
      BY <2>1, <2>2 DEF BackedAfter
  <1>6. ReleasesFit(t, L)
    <2> SUFFICES ASSUME NEW p \in DOMAIN t, t[p].op = "released", t[p].c \in L
                 PROVE  BackedAfter(t, p, t[p].c)
      BY DEF ReleasesFit
    <2>1. BackedAfter(s, p + 1, s[p + 1].c)
      BY <1>4 DEF Fit, ReleasesFit
    <2> QED
      BY <1>4, <1>5, <2>1
  <1>7. RenewalsFit(t, g, L)
    <2> SUFFICES ASSUME NEW p \in DOMAIN t, t[p].op = "renewed"
                 PROVE  /\ \A q \in DOMAIN t : q < p => t[q].op \notin Shifting
                        /\ \A k \in DOMAIN t[p].ok :
                             k \in DOMAIN g /\ (~ t[p].ok[k] /\ g[k] \in L => BackedAfter(t, p, g[k]))
      BY DEF RenewalsFit
    <2>1. s[p + 1].op = "renewed" /\ p + 1 \in DOMAIN s /\ t[p] = s[p + 1] /\ p \in Nat
      BY <1>4
    <2>2. Head(s).op \notin Shifting
      BY <1>3, <1>4, <2>1 DEF Fit, RenewalsFit
    <2>3. ASSUME NEW q \in DOMAIN t, q < p PROVE t[q].op \notin Shifting
      <3>1. q + 1 \in DOMAIN s /\ t[q] = s[q + 1] /\ q + 1 < p + 1
        BY <1>4, <2>3
      <3> QED
        BY <2>1, <3>1 DEF Fit, RenewalsFit
    <2>4. ASSUME NEW k \in DOMAIN t[p].ok
          PROVE  k \in DOMAIN g /\ (~ t[p].ok[k] /\ g[k] \in L => BackedAfter(t, p, g[k]))
      <3>1. k \in DOMAIN h /\ (~ s[p + 1].ok[k] /\ h[k] \in L => BackedAfter(s, p + 1, h[k]))
        BY <2>1, <2>4 DEF Fit, RenewalsFit
      <3>2. k \in DOMAIN g /\ g[k] = h[k]
        BY <2>2, <3>1
      <3> QED
        BY <1>5, <2>1, <3>1, <3>2
    <2> QED
      BY <2>3, <2>4
  <1>8. LeasesFit(t, g, L)
    <2> SUFFICES ASSUME NEW c \in L PROVE c \in ToSet(g) \/ BackedAfter(t, 0, c)
      BY DEF LeasesFit
    <2>1. BackedAfter(s, 0 + 1, c) => BackedAfter(t, 0, c)
      BY <1>5
    <2> QED
      BY <2>1
  <1> QED
    BY <1>6, <1>7, <1>8 DEF Fit, t

(* What is backed at all is backed by the first reply or behind it.        *)
LEMMA BackedHead ==
    ASSUME NEW S, NEW s \in Seq(S), s # << >>, NEW c, BackedAfter(s, 0, c)
    PROVE  Backs(Head(s), c) \/ BackedAfter(s, 1, c)
PROOF
  <1>1. DOMAIN s = 1..Len(s) /\ Len(s) \in Nat /\ Head(s) = s[1]
    BY LenProperties
  <1>2. PICK q \in DOMAIN s : Backs(s[q], c)
    BY DEF BackedAfter
  <1>3. q = 1 \/ q > 1
    BY <1>1
  <1> QED
    BY <1>1, <1>2, <1>3 DEF BackedAfter

(* A reply is handled that changes no set.                                 *)
LEMMA FitPlain ==
    ASSUME NEW S, NEW s \in Seq(S), s # << >>, NEW h, NEW L, Fit(s, h, L),
           Head(s).op \notin {"mine", "reclaimed"}
    PROVE  Fit(Tail(s), h, L)
PROOF
  <1>1. \A c \in L : c \in ToSet(h) \/ BackedAfter(s, 1, c)
    BY BackedHead DEF Fit, LeasesFit, Backs
  <1> QED
    BY <1>1, FitTail

(* A reply is handled that puts a lease in the set.                        *)
LEMMA FitHold ==
    ASSUME NEW S, NEW s \in Seq(S), s # << >>, NEW T, NEW h \in Seq(T), NEW L, Fit(s, h, L),
           Head(s).op \in {"mine", "reclaimed"}, Head(s).c \in T
    PROVE  Fit(Tail(s), Insert(h, Head(s).c), L)
PROOF
  <1> DEFINE c == Head(s).c
             g == Insert(h, c)
  <1>1. ToSet(g) = ToSet(h) \cup {c}
    <2>1. c \in T
      OBVIOUS
    <2> HIDE DEF c
    <2> QED
      BY <2>1, InsertIs
  <1>2. \A k \in DOMAIN h : k \in DOMAIN g /\ g[k] = h[k]
    <2>1. CASE c \in ToSet(h)
      BY <2>1 DEF Insert
    <2>2. CASE c \notin ToSet(h)
      <3>1. g = Append(h, c)
        BY <2>2 DEF Insert
      <3>2. /\ DOMAIN h = 1..Len(h) /\ Len(h) \in Nat /\ DOMAIN Append(h, c) = 1..(Len(h) + 1)
            /\ \A k \in 1..Len(h) : Append(h, c)[k] = h[k]
        BY AppendProperties, LenProperties
      <3> QED
        BY <3>1, <3>2
    <2> QED
      BY <2>1, <2>2
  <1> HIDE DEF g
  <1>3. \A d \in L : d \in ToSet(g) \/ BackedAfter(s, 1, d)
    BY <1>1, BackedHead DEF Fit, LeasesFit, Backs
  <1>4. Fit(Tail(s), g, L)
    BY <1>2, <1>3, FitTail
  <1> QED
    BY <1>4 DEF g

(* The answer to a release is handled: the lease leaves the set.           *)
LEMMA FitForget ==
    ASSUME NEW S, NEW s \in Seq(S), s # << >>, NEW T, NEW h \in Seq(T), NEW L, Fit(s, h, L),
           Head(s).op = "released"
    PROVE  Fit(Tail(s), Without(h, {Head(s).c}), L)
PROOF
  <1> DEFINE c == Head(s).c
             g == Without(h, {c})
  <1>1. ToSet(g) = ToSet(h) \ {c}
    BY WithoutIs
  <1>2. Head(s) = s[1] /\ 1 \in DOMAIN s
    <2>1. DOMAIN s = 1..Len(s) /\ Len(s) \in Nat /\ Len(s) # 0
      BY LenProperties, EmptySeq
    <2> QED
      BY <2>1
  <1>3. c \in L => BackedAfter(s, 1, c)
    BY <1>2 DEF Fit, ReleasesFit
  <1> HIDE DEF g
  <1>4. \A d \in L : d \in ToSet(g) \/ BackedAfter(s, 1, d)
    BY <1>1, <1>3, BackedHead DEF Fit, LeasesFit, Backs
  <1>5. Fit(Tail(s), g, L)
    BY <1>4, FitTail DEF Shifting
  <1> QED
    BY <1>5 DEF g

(* The answer to a renewal is handled: what it says is lost leaves.        *)
LEMMA FitDrop ==
    ASSUME NEW S, NEW s \in Seq(S), s # << >>, NEW T, NEW h \in Seq(T), NEW L, Fit(s, h, L),
           Head(s).op = "renewed"
    PROVE  Fit(Tail(s), Without(h, Lost(h, Head(s).ok)), L)
PROOF
  <1> DEFINE lost == Lost(h, Head(s).ok)
             g == Without(h, lost)
  <1>1. ToSet(g) = ToSet(h) \ lost
    BY WithoutIs
  <1>2. Head(s) = s[1] /\ 1 \in DOMAIN s
    <2>1. DOMAIN s = 1..Len(s) /\ Len(s) \in Nat /\ Len(s) # 0
      BY LenProperties, EmptySeq
    <2> QED
      BY <2>1
  <1>3. ASSUME NEW d \in L, d \in lost PROVE BackedAfter(s, 1, d)
    <2>1. PICK k \in DOMAIN h : k \in DOMAIN Head(s).ok /\ ~ Head(s).ok[k] /\ d = h[k]
      BY <1>3 DEF Lost
    <2> QED
      BY <1>2, <2>1 DEF Fit, RenewalsFit
  <1> HIDE DEF g, lost
  <1>4. \A d \in L : d \in ToSet(g) \/ BackedAfter(s, 1, d)
    BY <1>1, <1>3, BackedHead DEF Fit, LeasesFit, Backs
  <1>5. Fit(Tail(s), g, L)
    BY <1>4, FitTail DEF Shifting
  <1> QED
    BY <1>5 DEF g, lost

-------------------------------------------------------------------------------
(* The containers that Redis says i holds.                                 *)
Leased(i) == {c \in Containers : lease[c] = i}

(* Every server fits, unless it is dead or its replies got in each other's *)
(* way. A new one has nothing.                                             *)
Own(i) ==
    /\ life[i] = "new" => Leased(i) = {} /\ replies[i] = << >>
    /\ life[i] = "up" /\ i \notin disturbed => Fit(replies[i], held[i], Leased(i))
RenewInv == \A i \in Instances : Own(i)

(* A server that a step is not about: it has its replies, its set and its  *)
(* life, and at most loses leases.                                         *)
LEMMA OtherOwn ==
    ASSUME NEW i \in Instances, Own(i), replies'[i] = replies[i], held'[i] = held[i],
           life'[i] = life[i], disturbed \subseteq disturbed', Leased(i)' \subseteq Leased(i)
    PROVE  Own(i)'
PROOF
  <1>1. ASSUME life[i] = "up", i \notin disturbed'
        PROVE  Fit(replies'[i], held'[i], Leased(i)')
    <2>1. Fit(replies[i], held[i], Leased(i))
      BY <1>1 DEF Own
    <2>2. Fit(replies[i], held[i], Leased(i)')
      BY <2>1, FitLess
    <2> QED
      BY <2>2
  <1>2. life[i] = "new" => Leased(i)' = {} /\ replies'[i] = << >>
    BY DEF Own
  <1> QED
    BY <1>1, <1>2 DEF Own

(* A step of i, which may get leases; the others at most lose some.        *)
LEMMA OneOwn ==
    ASSUME RenewInv, TypeInv, NEW i \in Instances,
           \A j \in Instances \ {i} : /\ replies'[j] = replies[j] /\ held'[j] = held[j]
                                      /\ life'[j] = life[j] /\ Leased(j)' \subseteq Leased(j),
           disturbed \subseteq disturbed',
           life'[i] # "new",
           life'[i] = "up" /\ i \notin disturbed' => Fit(replies'[i], held'[i], Leased(i)')
    PROVE  RenewInv'
PROOF
  <1>1. Own(i)'
    BY DEF Own
  <1>2. ASSUME NEW j \in Instances \ {i} PROVE Own(j)'
    BY <1>2, OtherOwn DEF RenewInv
  <1> QED
    BY <1>1, <1>2 DEF RenewInv

(* How leases move.                                                        *)
LEMMA TakesLeased ==
    ASSUME LeaseType, NEW i \in Instances, NEW c \in Containers, Takes(i, c)
    PROVE  /\ Leased(i)' = Leased(i) \cup {c}
           /\ \A j \in Instances \ {i} : Leased(j)' \subseteq Leased(j)
PROOF BY DEF LeaseType, Takes, Leased

(* Leases that end.                                                        *)
LEMMA FreeLeased ==
    ASSUME LeaseType, NEW freed, Free(freed)
    PROVE  \A j \in Instances : Leased(j)' = Leased(j) \ freed
PROOF BY NobodyAssumption DEF LeaseType, Free, Leased

(* No lease moves.                                                         *)
LEMMA SameLeased ==
    ASSUME UNCHANGED lease
    PROVE  \A j \in Instances : Leased(j)' = Leased(j)
PROOF BY DEF Leased

(* How the replies under way to i, and to the others, move.                *)
LEMMA QueueMoves ==
    ASSUME QueueType, NEW i \in Instances
    PROVE  /\ replies[i] \in Seq(Reply)
           /\ \A r : Send(i, r) => /\ replies'[i] = Append(replies[i], r)
                                   /\ \A j \in Instances \ {i} : replies'[j] = replies[j]
           /\ Handled(i) => /\ replies'[i] = Tail(replies[i])
                            /\ \A j \in Instances \ {i} : replies'[j] = replies[j]
           /\ \A r : Continue(i, r) => /\ replies'[i] = Append(Tail(replies[i]), r)
                                       /\ \A j \in Instances \ {i} : replies'[j] = replies[j]
           /\ replies[i] # << >> => Tail(replies[i]) \in Seq(Reply)
PROOF
  <1>1. replies[i] # << >> => Tail(replies[i]) \in Seq(Reply)
    BY HeadTailProperties DEF QueueType
  <1> QED
    BY <1>1 DEF QueueType, Send, Handled, Continue

(* The scan goes on, with the set as g.                                    *)
LEMMA ScanFit ==
    ASSUME QueueType, NEW i \in Instances, replies[i] # << >>, NEW g, NEW L,
           Fit(Tail(replies[i]), g, L), NEW rest, ScanNext(i, rest)
    PROVE  Fit(replies'[i], g, L) /\ \A j \in Instances \ {i} : replies'[j] = replies[j]
PROOF
  <1>1. CASE Handled(i)
    BY <1>1, QueueMoves
  <1>2. ASSUME NEW r, r.op = "scanned", Continue(i, r)
        PROVE  Fit(replies'[i], g, L) /\ \A j \in Instances \ {i} : replies'[j] = replies[j]
    <2>1. Fit(Append(Tail(replies[i]), r), g, L)
      BY <1>2, QueueMoves, FitAppend DEF Backs
    <2> QED
      BY <1>2, <2>1, QueueMoves
  <1>3. ASSUME NEW c \in rest,
               Continue(i, [op |-> "scanned", c |-> c, by |-> lease[c], rest |-> rest \ {c}])
        PROVE  Fit(replies'[i], g, L) /\ \A j \in Instances \ {i} : replies'[j] = replies[j]
    <2> DEFINE r == [op |-> "scanned", c |-> c, by |-> lease[c], rest |-> rest \ {c}]
    <2>1. r.op = "scanned" /\ Continue(i, r)
      BY <1>3
    <2> HIDE DEF r
    <2> QED
      BY <1>2, <2>1
  <1> QED
    BY <1>1, <1>3 DEF ScanNext

(* What the code after an await does keeps RenewInv.                       *)
LEMMA HandleRenews ==
    ASSUME TypeInv, RenewInv, NEW i \in Instances, Handle(i)
    PROVE  RenewInv'
PROOF
  <1> DEFINE s == replies[i]
             h == held[i]
             L == Leased(i)
             Others == \A j \in Instances \ {i} : replies'[j] = replies[j]
  <1>1. /\ s # << >> /\ UNCHANGED <<life, disturbed>> /\ life[i] \in {"up", "stopping"}
    BY DEF Handle, LookWho, Decide, Hold, Forget, Drop, Scan, Reclaim, Reclaimed, Awaits, history
  <1>2. /\ LeaseType /\ QueueType /\ s \in Seq(Reply) /\ h \in Seq(Containers)
        /\ Tail(s) \in Seq(Reply) /\ Head(s) \in Reply
    BY <1>1, QueueMoves, HeadType DEF TypeInv, HeldType
  <1>3. life[i] = "up" /\ i \notin disturbed => Fit(s, h, L)
    BY DEF RenewInv, Own
  <1> DEFINE Quiet == life[i] = "up" /\ i \notin disturbed
  <1>h. UNCHANGED held => \A j \in Instances : held'[j] = held[j]
    OBVIOUS
  <1>i. \A t : held' = [held EXCEPT ![i] = t] =>
           held'[i] = t /\ \A j \in Instances \ {i} : held'[j] = held[j]
    BY DEF TypeInv, HeldType
  <1>l. UNCHANGED lease => \A j \in Instances : Leased(j)' = Leased(j)
    BY SameLeased
  <1>f. ASSUME Quiet => Fit(replies'[i], held'[i], Leased(i)'), Others,
               \A j \in Instances \ {i} : held'[j] = held[j],
               \A j \in Instances \ {i} : Leased(j)' \subseteq Leased(j)
        PROVE  RenewInv'
    BY <1>1, <1>f, OneOwn
  <1>p. ASSUME Head(s).op \notin {"mine", "reclaimed"} PROVE Quiet => Fit(Tail(s), h, L)
    BY <1>1, <1>2, <1>3, <1>p, FitPlain
  <1> HIDE DEF Quiet
  <1>4. CASE LookWho(i)
    <2>1. Head(s).op = "taken" /\ UNCHANGED <<lease, held>>
      BY <1>4 DEF LookWho, Awaits
    <2>2. PICK r : r.op = "holder" /\ Continue(i, r)
      BY <1>4 DEF LookWho
    <2>3. Quiet => Fit(Append(Tail(s), r), h, L)
      BY <1>2, <1>p, <2>1, <2>2, FitAppend DEF Backs
    <2>4. replies'[i] = Append(Tail(s), r) /\ Others
      BY <1>2, <2>2, QueueMoves
    <2> QED
      BY <1>f, <1>h, <1>l, <2>1, <2>3, <2>4
  <1>5. CASE Decide(i)
    <2>1. Head(s).op = "holder" /\ UNCHANGED held
      BY <1>5 DEF Decide, Awaits
    <2>2. Head(s).c \in Containers
      BY <1>2, <2>1, ReplyKinds
    <2>3. PICK r : r = [op |-> "mine", c |-> Head(s).c]
      OBVIOUS
    <2>4. r.op = "mine" /\ r.c = Head(s).c
      BY <2>3
    <2>5. ASSUME Continue(i, r), NEW M, \A c \in M : c \in L \/ c = r.c
          PROVE  Others /\ (Quiet => Fit(replies'[i], h, M))
      <3>1. Quiet => Fit(Append(Tail(s), r), h, M)
        BY <1>2, <1>p, <2>1, <2>4, <2>5, FitAppend DEF Backs
      <3> QED
        BY <1>2, <2>5, <3>1, QueueMoves
    <2>6. CASE Continue(i, r) /\ UNCHANGED lease
      BY <1>f, <1>h, <1>l, <2>1, <2>5, <2>6
    <2>7. CASE Takes(i, Head(s).c) /\ Continue(i, r)
      <3>1. /\ Leased(i)' = L \cup {Head(s).c}
            /\ \A j \in Instances \ {i} : Leased(j)' \subseteq Leased(j)
        BY <1>2, <2>2, <2>7, TakesLeased
      <3>2. Others /\ (Quiet => Fit(replies'[i], h, L \cup {Head(s).c}))
        BY <2>4, <2>5, <2>7
      <3> QED
        BY <1>f, <1>h, <2>1, <3>1, <3>2
    <2>8. CASE Handled(i) /\ UNCHANGED lease
      <3>1. Others /\ (Quiet => Fit(replies'[i], h, L))
        BY <1>2, <1>p, <2>1, <2>8, QueueMoves
      <3> QED
        BY <1>f, <1>h, <1>l, <2>1, <2>8, <3>1
    <2> QED
      BY <1>5, <2>3, <2>6, <2>7, <2>8 DEF Decide
  <1>6. CASE Hold(i)
    <2>1. Head(s).op = "mine" /\ UNCHANGED lease /\ Handled(i)
      BY <1>6 DEF Hold, Awaits
    <2>2. Head(s).c \in Containers
      BY <1>2, <2>1, ReplyKinds
    <2>3. Quiet => Fit(Tail(s), Insert(h, Head(s).c), L)
      BY <1>1, <1>2, <1>3, <2>1, <2>2, FitHold DEF Quiet
    <2>4. held' = [held EXCEPT ![i] = Insert(h, Head(s).c)]
      BY <1>6 DEF Hold
    <2>5. replies'[i] = Tail(s) /\ Others
      BY <1>2, <2>1, QueueMoves
    <2> QED
      BY <1>f, <1>i, <1>l, <2>1, <2>3, <2>4, <2>5
  <1>7. CASE Forget(i)
    <2>1. Head(s).op = "released" /\ UNCHANGED lease /\ Handled(i)
      BY <1>7 DEF Forget, Awaits
    <2>2. Quiet => Fit(Tail(s), Without(h, {Head(s).c}), L)
      BY <1>1, <1>2, <1>3, <2>1, FitForget DEF Quiet
    <2>3. held' = [held EXCEPT ![i] = Without(h, {Head(s).c})]
      BY <1>7 DEF Forget
    <2>4. replies'[i] = Tail(s) /\ Others
      BY <1>2, <2>1, QueueMoves
    <2> QED
      BY <1>f, <1>i, <1>l, <2>1, <2>2, <2>3, <2>4
  <1>8. CASE Drop(i)
    <2>1. Head(s).op = "renewed" /\ UNCHANGED lease /\ Handled(i)
      BY <1>8 DEF Drop, Awaits
    <2>2. Quiet => Fit(Tail(s), Without(h, Lost(h, Head(s).ok)), L)
      BY <1>1, <1>2, <1>3, <2>1, FitDrop DEF Quiet
    <2>3. held' = [held EXCEPT ![i] = Without(h, Lost(h, Head(s).ok))]
      BY <1>8 DEF Drop
    <2>4. replies'[i] = Tail(s) /\ Others
      BY <1>2, <2>1, QueueMoves
    <2> QED
      BY <1>f, <1>i, <1>l, <2>1, <2>2, <2>3, <2>4
  <1>9. CASE Scan(i)
    <2>1. /\ Head(s).op = "keys" /\ UNCHANGED <<lease, held>>
          /\ ScanNext(i, Head(s).rest)
      BY <1>9 DEF Scan, Awaits
    <2>2. Quiet => Fit(replies'[i], h, L)
      BY <1>1, <1>2, <1>p, <2>1, ScanFit
    <2>3. Others
      BY <1>2, <2>1, QueueMoves DEF ScanNext
    <2> QED
      BY <1>f, <1>h, <1>l, <2>1, <2>2, <2>3
  <1>10. CASE Reclaim(i)
    <2>1. Head(s).op = "scanned" /\ UNCHANGED held
      BY <1>10 DEF Reclaim, Awaits
    <2>2. Head(s).c \in Containers
      BY <1>2, <2>1, ReplyKinds
    <2>3. PICK r : r = [op |-> "reclaimed", c |-> Head(s).c, rest |-> Head(s).rest]
      OBVIOUS
    <2>4. r.op = "reclaimed" /\ r.c = Head(s).c
      BY <2>3
    <2>5. CASE Takes(i, Head(s).c) /\ Continue(i, r)
      <3>1. /\ Leased(i)' = L \cup {Head(s).c}
            /\ \A j \in Instances \ {i} : Leased(j)' \subseteq Leased(j)
        BY <1>2, <2>2, <2>5, TakesLeased
      <3>2. Quiet => Fit(Append(Tail(s), r), h, L \cup {Head(s).c})
        BY <1>2, <1>p, <2>1, <2>4, FitAppend DEF Backs
      <3>3. replies'[i] = Append(Tail(s), r) /\ Others
        BY <1>2, <2>5, QueueMoves
      <3> QED
        BY <1>f, <1>h, <2>1, <3>1, <3>2, <3>3
    <2>6. CASE ScanNext(i, Head(s).rest) /\ UNCHANGED lease
      <3>1. Quiet => Fit(replies'[i], h, L)
        BY <1>1, <1>2, <1>p, <2>1, <2>6, ScanFit
      <3>2. Others
        BY <1>2, <2>6, QueueMoves DEF ScanNext
      <3> QED
        BY <1>f, <1>h, <1>l, <2>1, <2>6, <3>1, <3>2
    <2> QED
      BY <1>10, <2>3, <2>5, <2>6 DEF Reclaim
  <1>11. CASE Reclaimed(i)
    <2>1. Head(s).op = "reclaimed" /\ UNCHANGED lease /\ ScanNext(i, Head(s).rest)
      BY <1>11 DEF Reclaimed, Awaits
    <2>2. Head(s).c \in Containers
      BY <1>2, <2>1, ReplyKinds
    <2>3. Quiet => Fit(Tail(s), Insert(h, Head(s).c), L)
      BY <1>1, <1>2, <1>3, <2>1, <2>2, FitHold DEF Quiet
    <2>4. held' = [held EXCEPT ![i] = Insert(h, Head(s).c)]
      BY <1>11 DEF Reclaimed
    <2>5. Quiet => Fit(replies'[i], Insert(h, Head(s).c), L)
      BY <1>1, <1>2, <2>1, <2>3, ScanFit
    <2>6. Others
      BY <1>2, <2>1, QueueMoves DEF ScanNext
    <2> QED
      BY <1>f, <1>i, <1>l, <2>1, <2>4, <2>5, <2>6
  <1> QED
    BY <1>4, <1>5, <1>6, <1>7, <1>8, <1>9, <1>10, <1>11 DEF Handle

(* Every step keeps it.                                                    *)
LEMMA RenewStep ==
    TypeInv /\ RenewInv /\ [Next]_vars => RenewInv'
PROOF
  <1> SUFFICES ASSUME TypeInv, RenewInv, [Next]_vars PROVE RenewInv'
    OBVIOUS
  <1> USE DEF history
  <1>1. LeaseType /\ QueueType
    BY DEF TypeInv
  <1>l. UNCHANGED lease => \A j \in Instances : Leased(j)' = Leased(j)
    BY SameLeased
  <1>2. ASSUME NEW i \in Instances, life[i] = "up", i \notin disturbed
        PROVE  Fit(replies[i], held[i], Leased(i))
    BY <1>2 DEF RenewInv, Own
  <1>3. ASSUME NEW i \in Instances, Start(i) PROVE RenewInv'
    <2> DEFINE keys == {c \in Containers : lease[c] # Nobody}
    <2>1. PICK r : r = [op |-> "keys", rest |-> keys]
      OBVIOUS
    <2>2. /\ UNCHANGED replies \/ Send(i, r)
          /\ UNCHANGED <<lease, held, disturbed>> /\ life[i] = "new"
          /\ life' = [life EXCEPT ![i] = "up"]
      BY <1>3, <2>1 DEF Start
    <2>3. replies[i] = << >> /\ Leased(i) = {} /\ r.op = "keys"
      BY <2>1, <2>2 DEF RenewInv, Own
    <2>4. Fit(<< >>, held[i], {}) /\ << >> \in Seq(Reply)
      BY FitEmpty, EmptySeq
    <2>5. Fit(Append(<< >>, r), held[i], {})
      BY <2>3, <2>4, FitAppend
    <2>6. /\ replies'[i] \in {<< >>, Append(<< >>, r)}
          /\ \A j \in Instances \ {i} : replies'[j] = replies[j]
      BY <1>1, <2>2, <2>3, QueueMoves
    <2>7. Fit(replies'[i], held[i], Leased(i))
      BY <2>3, <2>4, <2>5, <2>6
    <2>8. life'[i] = "up" /\ \A j \in Instances \ {i} : life'[j] = life[j]
      BY <2>2 DEF TypeInv, LifeType
    <2> QED
      BY <1>l, <2>2, <2>6, <2>7, <2>8, OneOwn
  <1>4. ASSUME NEW i \in Instances, NEW c \in Containers, Acquire(i, c) PROVE RenewInv'
    <2>1. PICK mine, taken : mine = [op |-> "mine", c |-> c] /\ taken = [op |-> "taken", c |-> c]
      OBVIOUS
    <2>2. mine.op = "mine" /\ mine.c = c /\ taken.op = "taken"
      BY <2>1
    <2>3. /\ life[i] = "up" /\ UNCHANGED <<held, life, disturbed>>
          /\ \/ Takes(i, c) /\ Send(i, mine)
             \/ Send(i, taken) /\ UNCHANGED lease
      BY <1>4, <2>1 DEF Acquire, Request
    <2>4. CASE Takes(i, c) /\ Send(i, mine)
      <3>1. /\ Leased(i)' = Leased(i) \cup {c}
            /\ \A j \in Instances \ {i} : Leased(j)' \subseteq Leased(j)
        BY <1>1, <2>4, TakesLeased
      <3>2. i \notin disturbed => Fit(Append(replies[i], mine), held[i], Leased(i) \cup {c})
        BY <1>1, <1>2, <2>2, <2>3, QueueMoves, FitAppend DEF Backs
      <3>3. /\ replies'[i] = Append(replies[i], mine)
            /\ \A j \in Instances \ {i} : replies'[j] = replies[j]
        BY <1>1, <2>4, QueueMoves
      <3> QED
        BY <2>3, <3>1, <3>2, <3>3, OneOwn
    <2>5. CASE Send(i, taken) /\ UNCHANGED lease
      <3>1. i \notin disturbed => Fit(Append(replies[i], taken), held[i], Leased(i))
        BY <1>1, <1>2, <2>2, <2>3, QueueMoves, FitAppend DEF Backs
      <3>2. /\ replies'[i] = Append(replies[i], taken)
            /\ \A j \in Instances \ {i} : replies'[j] = replies[j]
        BY <1>1, <2>5, QueueMoves
      <3> QED
        BY <1>l, <2>3, <2>5, <3>1, <3>2, OneOwn
    <2> QED
      BY <2>3, <2>4, <2>5
  <1>5. ASSUME NEW i \in Instances, NEW c \in Containers, Release(i, c) PROVE RenewInv'
    <2> DEFINE freed == {c} \cap {d \in Containers : lease[d] = i}
    <2>1. PICK r : r = [op |-> "released", c |-> c]
      OBVIOUS
    <2>2. r.op = "released" /\ r.c = c
      BY <2>1
    <2>3. /\ life[i] = "up" /\ UNCHANGED <<held, life, disturbed>>
          /\ Send(i, r) /\ Free(freed)
      BY <1>5, <2>1 DEF Release, Request
    <2>4. c \notin Leased(i) \ freed
      BY DEF Leased
    <2> HIDE DEF freed
    <2>5. \A j \in Instances : Leased(j)' = Leased(j) \ freed
      BY <1>1, <2>3, FreeLeased
    <2>6. i \notin disturbed => Fit(Append(replies[i], r), held[i], Leased(i) \ freed)
      BY <1>1, <1>2, <2>2, <2>3, <2>4, QueueMoves, FitAppend
    <2>7. /\ replies'[i] = Append(replies[i], r)
          /\ \A j \in Instances \ {i} : replies'[j] = replies[j]
      BY <1>1, <2>3, QueueMoves
    <2> QED
      BY <2>3, <2>5, <2>6, <2>7, OneOwn
  <1>6. ASSUME NEW i \in Instances, Renew(i) PROVE RenewInv'
    <2> DEFINE ok == [k \in DOMAIN held[i] |-> lease[held[i][k]] = i]
    <2>1. PICK r : r = [op |-> "renewed", ok |-> ok]
      OBVIOUS
    <2>2. /\ life[i] = "up" /\ Send(i, r) /\ UNCHANGED <<lease, held, life>>
          /\ disturbed' = IF \E q \in Pending(i) : q.op \in Shifting
                          THEN disturbed \cup {i} ELSE disturbed
      BY <1>6, <2>1 DEF Renew, Shifting
    <2>3. /\ r.op = "renewed"
          /\ \A k \in DOMAIN r.ok : k \in DOMAIN held[i] /\ (~ r.ok[k] => held[i][k] \notin Leased(i))
      BY <2>1 DEF Leased
    <2> HIDE DEF ok
    <2>4. ASSUME i \notin disturbed' PROVE Fit(Append(replies[i], r), held[i], Leased(i))
      <3>1. i \notin disturbed /\ ~ \E q \in Pending(i) : q.op \in Shifting
        BY <2>2, <2>4
      <3>2. \A q \in DOMAIN replies[i] : replies[i][q].op \notin Shifting
        BY <3>1 DEF Pending, ToSet
      <3>3. Fit(replies[i], held[i], Leased(i)) /\ replies[i] \in Seq(Reply)
        BY <1>1, <1>2, <2>2, <3>1, QueueMoves
      <3> QED
        BY <2>3, <3>2, <3>3, FitAppend
    <2>5. /\ replies'[i] = Append(replies[i], r)
          /\ \A j \in Instances \ {i} : replies'[j] = replies[j]
      BY <1>1, <2>2, QueueMoves
    <2> QED
      BY <1>l, <2>2, <2>4, <2>5, OneOwn
  <1>7. ASSUME NEW i \in Instances, Fail(i) PROVE RenewInv'
    <2>1. /\ life[i] # "new" /\ Handled(i) /\ UNCHANGED <<lease, life>>
          /\ disturbed' = disturbed \cup {i}
      BY <1>7 DEF Fail
    <2>2. \A j \in Instances \ {i} : held'[j] = held[j]
      BY <1>7 DEF Fail, TypeInv, HeldType
    <2>3. \A j \in Instances \ {i} : replies'[j] = replies[j]
      BY <1>1, <2>1, QueueMoves
    <2> QED
      BY <1>l, <2>1, <2>2, <2>3, OneOwn
  <1>8. ASSUME NEW i \in Instances, Stop(i) PROVE RenewInv'
    <2> DEFINE freed == {c \in HeldSet(i) : lease[c] = i}
    <2>1. Free(freed) /\ UNCHANGED <<replies, disturbed>>
      BY <1>8 DEF Stop
    <2> HIDE DEF freed
    <2>2. \A j \in Instances : Leased(j)' \subseteq Leased(j)
      BY <1>1, <2>1, FreeLeased
    <2>3. /\ life'[i] = "stopping"
          /\ \A j \in Instances \ {i} : life'[j] = life[j] /\ held'[j] = held[j]
      BY <1>8 DEF Stop, TypeInv, LifeType, HeldType
    <2> QED
      BY <2>1, <2>2, <2>3, OneOwn
  <1>9. ASSUME NEW i \in Instances, Exit(i) PROVE RenewInv'
    <2>1. UNCHANGED <<lease, disturbed>>
      BY <1>9 DEF Exit
    <2>2. /\ life'[i] = "gone"
          /\ \A j \in Instances \ {i} : /\ life'[j] = life[j] /\ held'[j] = held[j]
                                        /\ replies'[j] = replies[j]
      BY <1>9 DEF Exit, TypeInv, LifeType, HeldType, QueueType
    <2> QED
      BY <1>l, <2>1, <2>2, OneOwn
  <1>10. ASSUME NEW c \in Containers, Expire(c) PROVE RenewInv'
    <2>1. Free({c}) /\ UNCHANGED <<held, replies, life, disturbed>>
      BY <1>10 DEF Expire
    <2>2. \A j \in Instances : Leased(j)' \subseteq Leased(j)
      BY <1>1, <2>1, FreeLeased
    <2> QED
      BY <2>1, <2>2, OtherOwn DEF RenewInv
  <1>11. CASE UNCHANGED vars
    <2>1. UNCHANGED <<lease, held, replies, life, disturbed>>
      BY <1>11 DEF vars
    <2> QED
      BY <1>l, <2>1, OtherOwn DEF RenewInv
  <1> QED
    BY <1>3, <1>4, <1>5, <1>6, <1>7, <1>8, <1>9, <1>10, <1>11, HandleRenews DEF Next

(* A live server that Redis names as the holder of a container renews the  *)
(* lease, or is about to (renewAll), unless its renewals overlapped with   *)
(* one another or with releases, or Redis failed it: for every number of   *)
(* servers, containers, callers and replies under way.                     *)
THEOREM QuietHolderRenewsHolds == Spec => []QuietHolderRenews
PROOF
  <1>1. Init => RenewInv
    BY NobodyAssumption DEF Init, RenewInv, Own, Leased
  <1>2. TypeInv /\ RenewInv => QuietHolderRenews
    <2> SUFFICES ASSUME TypeInv, RenewInv, NEW c \in Containers, NEW i \in Instances \ disturbed,
                        lease[c] = i, life[i] = "up"
                 PROVE  Refreshes(i, c)
      BY DEF QuietHolderRenews
    <2>1. c \in HeldSet(i) \/ BackedAfter(replies[i], 0, c)
      BY DEF RenewInv, Own, Fit, LeasesFit, Leased, HeldSet
    <2>2. CASE BackedAfter(replies[i], 0, c)
      BY <2>2 DEF BackedAfter, Backs, Refreshes, Pending, ToSet
    <2> QED
      BY <2>1, <2>2 DEF Refreshes
  <1> QED
    BY <1>1, <1>2, InitTypeInv, TypeStep, RenewStep, PTL DEF Spec
==============================================================================
