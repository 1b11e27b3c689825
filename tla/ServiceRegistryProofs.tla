----------------------- MODULE ServiceRegistryProofs -----------------------
(***************************************************************************)
(* For any number of instances and identities, however their events are    *)
(* delayed and wherever they crash: the registry lists who lives and was   *)
(* heard, forgets who is dead, never lists the service itself, and the     *)
(* service keeps the identity it announced.                                *)
(***************************************************************************)
EXTENDS ServiceRegistry, SequenceTheorems, WellFoundedInduction, TLAPS

(* The file holds the identity of the service whenever it is not being     *)
(* written, and the identity announced is the one in use, unless a crash   *)
(* has torn the file.                                                      *)
Running == {"truncate", "write", "ready", "up"}
IdentityOK ==
  /\ exists = FALSE => file = 0
  /\ step \in Running => exists = TRUE
  /\ step \in {"ready", "up"} => id # 0
  /\ step = "ready" \/ (step = "up" /\ file # 0) => file = id
  /\ step = "up" => announced = id
  /\ announced # 0 /\ torn = FALSE =>
       /\ exists = TRUE
       /\ ~Saving => file = announced
       /\ step \in Running => id = announced

(* A service that does not run knows nobody. *)
DownOK ==
  step # "up" =>
    /\ target = None
    /\ \A e \in EndPoints : services[e] = None /\ silent[e] = 0
    /\ \A p \in Peers : heard[p] = "no" /\ waits[p] = 0

(* Who an event is from, and that those of the service itself carry the    *)
(* identity it announced.                                                  *)
QueueOK ==
  \A k \in 1..Len(queue) : queue[k].kind \in Kinds =>
    \/ queue[k].id \in Peers /\ queue[k].at = EndPointOf[queue[k].id]
    \/ /\ queue[k].id \in 1..MaxIds /\ queue[k].at = EndPointOf[Me]
       /\ torn = FALSE => queue[k].id = announced

(* The end point of an event has been silent for no longer than the event  *)
(* is old.                                                                 *)
AliveOK == \A p \in up : silent[EndPointOf[p]] = 0
NewsOK ==
  \A k \in 1..Len(queue) :
    queue[k].kind \in Kinds /\ queue[k].id # id => silent[queue[k].at] <= queue[k].age

(* An entry that is due to be swept waits for an event, and the next of    *)
(* the service itself is on its way or will be before the period ends.     *)
Bound == MaxLag + MaxAge + 1
SweepComes(q, n) == \E k \in 1..Len(q) : q[k].kind \in Kinds /\ n <= Bound + q[k].age
EntryOK ==
  \A e \in EndPoints : services[e] # None =>
    IF services[e].age <= MaxAge THEN silent[e] <= MaxLag + services[e].age
    ELSE (quiet[Me] = 1 /\ silent[e] <= Bound) \/ SweepComes(queue, silent[e])
TargetOK == target # None => silent[target] <= MaxStale

(* An entry, or its absence after a LEAVE that was not the peer's own, is  *)
(* as old as the last sign of the peer that is still to be read.           *)
Signs == {"join", "keep-alive"}
Coming(q, p, n) ==
  \E k \in 1..Len(q) : q[k].kind \in Signs /\ q[k].id = p /\ n <= q[k].age + 1
LiveOK ==
  step = "up" => \A p \in up : heard[p] = "yes" =>
    /\ services[EndPointOf[p]] # None
    /\ \/ services[EndPointOf[p]].age <= quiet[p]
       \/ Coming(queue, p, services[EndPointOf[p]].age)
BackOK ==
  /\ \A p \in Peers : heard[p] = "yes" => waits[p] = 0
  /\ \A p \in up : heard[p] = "evicted" => waits[p] <= quiet[p] \/ Coming(queue, p, waits[p])

(* The inductive invariant. *)
Strong ==
  /\ RegistryTypeOK /\ IdentityOK /\ DownOK /\ QueueOK /\ AliveOK /\ NewsOK /\ EntryOK /\ TargetOK
  /\ LiveOK /\ BackOK /\ NotMyself /\ EvictedComesBack

----------------------------------------------------------------------------
(* Constants and events. *)

LEMMA Numbers ==
  /\ MaxAge \in Nat /\ MaxLag \in Nat /\ MaxQueue \in Nat /\ MaxIds \in Nat /\ MaxAge > MaxLag
  /\ Bound \in Nat /\ MaxStale \in Nat
  /\ Bound = MaxLag + MaxAge + 1 /\ MaxStale = Bound + MaxLag
BY RegistryAssumption DEF MaxStale, Bound

LEMMA Places ==
  /\ Me \in Instances /\ Peers \subseteq Instances /\ Me \notin Peers
  /\ EndPoints \subseteq Nat /\ \A i \in Instances : EndPointOf[i] \in EndPoints
  /\ \A p \in Peers : EndPointOf[p] # EndPointOf[Me] /\ p \notin Nat
BY RegistryAssumption DEF Instances, EndPoints

(* What an event consists of. *)
LEMMA EventIs ==
  ASSUME NEW ev \in Events
  PROVE  /\ ev.kind \in Kinds \cup {"garbage", "other"}
         /\ ev.age \in Nat /\ ev.age <= MaxLag
         /\ ev.kind \in Kinds => ev.id \in Ids /\ ev.at \in EndPoints
BY Numbers DEF Events, Kinds

LEMMA EventMade ==
  ASSUME NEW kind \in Kinds, NEW who \in Ids, NEW at \in EndPoints
  PROVE  /\ Event(kind, who, at) \in Events
         /\ Event(kind, who, at).kind = kind /\ Event(kind, who, at).id = who
         /\ Event(kind, who, at).at = at /\ Event(kind, who, at).age = 0
BY Numbers DEF Event, Events

LEMMA NoiseMade ==
  ASSUME NEW kind \in {"garbage", "other"}
  PROVE  [kind |-> kind, age |-> 0] \in Events
BY Numbers DEF Events

(* An event that is a period older. *)
LEMMA EventAges ==
  ASSUME NEW ev \in Events
  PROVE  /\ Older(ev) \in Events /\ Older(ev).kind = ev.kind
         /\ ev.kind \in Kinds => Older(ev).id = ev.id /\ Older(ev).at = ev.at
         /\ ev.age < MaxLag => Older(ev).age = ev.age + 1
<1>1. CASE ev \in [kind : Kinds, id : Ids, at : EndPoints, age : 0..MaxLag]
  BY <1>1, Numbers DEF Older, Events, Cap
<1>2. CASE ev \in [kind : {"garbage", "other"}, age : 0..MaxLag]
  BY <1>2, Numbers DEF Older, Events, Cap, Kinds
<1> QED
  BY <1>1, <1>2 DEF Events

(* The queue after an event was sent, after one was read, and after a      *)
(* period.                                                                 *)
LEMMA QueueGrows ==
  ASSUME NEW q \in Seq(Events), NEW ev \in Events
  PROVE  /\ Append(q, ev) \in Seq(Events) /\ Len(Append(q, ev)) = Len(q) + 1 /\ Len(q) \in Nat
         /\ \A k \in 1..Len(q) : Append(q, ev)[k] = q[k]
         /\ Append(q, ev)[Len(q) + 1] = ev
BY AppendProperties, LenProperties

LEMMA QueueShrinks ==
  ASSUME NEW q \in Seq(Events), q # <<>>
  PROVE  /\ Tail(q) \in Seq(Events) /\ Len(q) \in Nat /\ Len(q) >= 1 /\ Len(Tail(q)) = Len(q) - 1
         /\ Head(q) = q[1] /\ Head(q) \in Events
         /\ \A k \in 1..Len(Tail(q)) : k + 1 \in 1..Len(q) /\ Tail(q)[k] = q[k + 1]
         /\ \A k \in 1..Len(q) : k # 1 => k - 1 \in 1..Len(Tail(q)) /\ Tail(q)[k - 1] = q[k]
<1>1. Len(q) \in Nat /\ Len(q) # 0
  BY LenProperties, EmptySeq
<1>2. /\ Tail(q) \in Seq(Events) /\ Len(Tail(q)) = Len(q) - 1
      /\ \A k \in 1..(Len(q) - 1) : Tail(q)[k] = q[k + 1]
      /\ Head(q) = q[1] /\ Head(q) \in Events
  BY HeadTailProperties
<1> QED
  BY <1>1, <1>2

LEMMA QueueAges ==
  ASSUME NEW q \in Seq(Events), NEW r, r = [k \in 1..Len(q) |-> Older(q[k])]
  PROVE  /\ r \in Seq(Events) /\ Len(r) = Len(q) /\ Len(q) \in Nat
         /\ \A k \in 1..Len(q) : r[k] = Older(q[k]) /\ q[k] \in Events
<1>1. Len(q) \in Nat /\ \A k \in 1..Len(q) : q[k] \in Events
  BY LenProperties, ElementOfSeq
<1>2. \A k \in 1..Len(q) : Older(q[k]) \in Events
  BY <1>1, EventAges
<1>3. r \in [1..Len(q) -> Events]
  BY <1>2
<1>4. r \in Seq(Events)
  BY <1>1, <1>3, SeqDef
<1>5. DOMAIN r = 1..Len(q) /\ DOMAIN r = 1..Len(r) /\ Len(r) \in Nat
  BY <1>3, <1>4, LenProperties
<1>6. \A m, n \in Nat : 1..m = 1..n => m = n
  <2> SUFFICES ASSUME NEW m \in Nat, NEW n \in Nat, m < n PROVE 1..m # 1..n
    OBVIOUS
  <2>1. n \in 1..n /\ n \notin 1..m
    OBVIOUS
  <2> QED
    BY <2>1
<1>7. Len(r) = Len(q)
  BY <1>1, <1>5, <1>6
<1> QED
  BY <1>1, <1>4, <1>7

(* What is on its way stays so while events are sent, and while others are *)
(* read; with a period everything on its way is a period older.            *)
LEMMA ComesAfterSend ==
  ASSUME NEW q \in Seq(Events), NEW ev \in Events, NEW n \in Nat
  PROVE  /\ \A p : Coming(q, p, n) => Coming(Append(q, ev), p, n)
         /\ SweepComes(q, n) => SweepComes(Append(q, ev), n)
         /\ ev.kind \in Signs /\ n <= ev.age + 1 => Coming(Append(q, ev), ev.id, n)
         /\ ev.kind \in Kinds /\ n <= Bound + ev.age => SweepComes(Append(q, ev), n)
<1>1. /\ Len(Append(q, ev)) = Len(q) + 1 /\ Len(q) \in Nat
      /\ \A k \in 1..Len(q) : Append(q, ev)[k] = q[k] /\ k \in 1..Len(Append(q, ev))
      /\ Append(q, ev)[Len(q) + 1] = ev /\ Len(q) + 1 \in 1..Len(Append(q, ev))
  BY QueueGrows
<1>2. ASSUME NEW p, Coming(q, p, n) PROVE Coming(Append(q, ev), p, n)
  BY <1>1, <1>2 DEF Coming
<1>3. SweepComes(q, n) => SweepComes(Append(q, ev), n)
  BY <1>1 DEF SweepComes
<1>4. ev.kind \in Signs /\ n <= ev.age + 1 => Coming(Append(q, ev), ev.id, n)
  BY <1>1 DEF Coming
<1>5. ev.kind \in Kinds /\ n <= Bound + ev.age => SweepComes(Append(q, ev), n)
  BY <1>1 DEF SweepComes
<1> QED
  BY <1>2, <1>3, <1>4, <1>5

LEMMA ComesAfterRead ==
  ASSUME NEW q \in Seq(Events), q # <<>>, NEW n \in Nat
  PROVE  /\ \A p : Coming(q, p, n) =>
              \/ Coming(Tail(q), p, n)
              \/ Head(q).kind \in Signs /\ Head(q).id = p
         /\ SweepComes(q, n) => SweepComes(Tail(q), n) \/ Head(q).kind \in Kinds
<1>1. /\ Head(q) = q[1]
      /\ \A k \in 1..Len(q) : k # 1 => k - 1 \in 1..Len(Tail(q)) /\ Tail(q)[k - 1] = q[k]
  BY QueueShrinks
<1>2. ASSUME NEW p, Coming(q, p, n)
      PROVE  Coming(Tail(q), p, n) \/ (Head(q).kind \in Signs /\ Head(q).id = p)
  <2>1. PICK k \in 1..Len(q) : q[k].kind \in Signs /\ q[k].id = p /\ n <= q[k].age + 1
    BY <1>2 DEF Coming
  <2>2. CASE k = 1
    BY <1>1, <2>1, <2>2
  <2>3. CASE k # 1
    BY <1>1, <2>1, <2>3 DEF Coming
  <2> QED
    BY <2>2, <2>3
<1>3. ASSUME SweepComes(q, n) PROVE SweepComes(Tail(q), n) \/ Head(q).kind \in Kinds
  <2>1. PICK k \in 1..Len(q) : q[k].kind \in Kinds /\ n <= Bound + q[k].age
    BY <1>3 DEF SweepComes
  <2>2. CASE k = 1
    BY <1>1, <2>1, <2>2
  <2>3. CASE k # 1
    BY <1>1, <2>1, <2>3 DEF SweepComes
  <2> QED
    BY <2>2, <2>3
<1> QED
  BY <1>2, <1>3

LEMMA ComesAfterTick ==
  ASSUME NEW q \in Seq(Events), NEW r, r = [k \in 1..Len(q) |-> Older(q[k])],
         \A k \in 1..Len(q) : q[k].age < MaxLag, NEW n \in Nat
  PROVE  /\ \A p : Coming(q, p, n) => Coming(r, p, n + 1) /\ n <= MaxLag
         /\ SweepComes(q, n) => SweepComes(r, n + 1) /\ n < Bound + MaxLag
<1>1. /\ Len(r) = Len(q)
      /\ \A k \in 1..Len(q) : r[k] = Older(q[k]) /\ q[k] \in Events
  BY QueueAges
<1>2. \A k \in 1..Len(q) :
        /\ q[k].age \in Nat /\ r[k].age = q[k].age + 1 /\ r[k].kind = q[k].kind
        /\ q[k].kind \in Kinds => r[k].id = q[k].id
  BY <1>1, EventIs, EventAges
<1>3. ASSUME NEW p, Coming(q, p, n) PROVE Coming(r, p, n + 1) /\ n <= MaxLag
  <2>1. PICK k \in 1..Len(q) : q[k].kind \in Signs /\ q[k].id = p /\ n <= q[k].age + 1
    BY <1>3 DEF Coming
  <2>2. k \in 1..Len(r) /\ r[k].kind \in Signs /\ r[k].id = p /\ n + 1 <= r[k].age + 1
    BY <1>1, <1>2, <2>1 DEF Signs, Kinds
  <2>3. n <= MaxLag
    BY <1>2, <2>1, Numbers
  <2> QED
    BY <2>2, <2>3 DEF Coming
<1>4. ASSUME SweepComes(q, n) PROVE SweepComes(r, n + 1) /\ n < Bound + MaxLag
  <2>1. PICK k \in 1..Len(q) : q[k].kind \in Kinds /\ n <= Bound + q[k].age
    BY <1>4 DEF SweepComes
  <2>2. k \in 1..Len(r) /\ r[k].kind \in Kinds /\ n + 1 <= Bound + r[k].age
    BY <1>1, <1>2, <2>1, Numbers
  <2>3. n < Bound + MaxLag
    BY <1>2, <2>1, Numbers
  <2> QED
    BY <2>2, <2>3 DEF SweepComes
<1> QED
  BY <1>3, <1>4

----------------------------------------------------------------------------
(* Steps. *)

(* The steps of the start before JOIN touch the identity only. *)
LEMMA StartingFrame ==
  ASSUME Restart \/ Abort \/ Truncate \/ Write
  PROVE  /\ UNCHANGED <<world, services, target, heard, waits, announced, torn>>
         /\ step # "up" /\ step' # "up"
BY DEF Restart, Abort, Truncate, Write, world

(* A reload touches the file only. *)
LEMMA ReloadFrame ==
  ASSUME Reload
  PROVE  /\ UNCHANGED <<world, step, exists, id, services, target, heard, waits, drawn, announced, torn>>
         /\ step = "up" /\ (file' = id \/ file' = 0)
         /\ file = 0 => file' = id
BY DEF Reload, ReloadTruncates, ReloadWrites, Saving


(* What every peer may do: send an event of its own, or vanish. *)
LEMMA PeerFrame ==
  ASSUME RegistryTypeOK, NEW p \in Peers,
         PeerJoins(p) \/ PeerKeepsAlive(p) \/ PeerLeaves(p) \/ PeerVanishes(p)
  PROVE  /\ UNCHANGED <<me, waits>>
         /\ quiet' \in [Instances -> 0..1] /\ quiet'[p] = 0
         /\ \A i \in Instances : i # p => quiet'[i] = quiet[i]
         /\ \A x \in Peers : heard'[x] = heard[x] \/ heard'[x] = "no"
         /\ \A x \in up' \ up : x = p /\ heard'[p] = "no" /\ silent'[EndPointOf[p]] = 0
         /\ \A e \in EndPoints : silent'[e] = silent[e] \/ silent'[e] = 0
         /\ \/ queue' = queue /\ p \notin up'
            \/ \E kind \in Kinds :
                 /\ queue' = Append(queue, Event(kind, p, EndPointOf[p]))
                 /\ Len(queue) < MaxQueue
                 /\ silent'[EndPointOf[p]] = 0 \/ (p \in up /\ silent' = silent)
                 /\ p \in up' => kind \in Signs
<1>1. /\ p \in Instances /\ EndPointOf[p] \in EndPoints
      /\ quiet \in [Instances -> 0..1] /\ silent \in [EndPoints -> 0..(MaxStale + 1)]
      /\ heard \in [Peers -> {"no", "yes", "evicted"}]
  BY Places DEF RegistryTypeOK
<1>2. CASE PeerJoins(p)
  <2>1. UNCHANGED <<me, waits>> /\ quiet' = [quiet EXCEPT ![p] = 0]
    BY <1>2 DEF PeerJoins, Spoke
  <2>2. \A x \in Peers : heard'[x] = heard[x] \/ heard'[x] = "no"
    BY <1>2, <1>1 DEF PeerJoins
  <2>3. \A x \in up' \ up : x = p /\ heard'[p] = "no" /\ silent'[EndPointOf[p]] = 0
    BY <1>2, <1>1 DEF PeerJoins
  <2>4. \A e \in EndPoints : silent'[e] = silent[e] \/ silent'[e] = 0
    BY <1>2, <1>1 DEF PeerJoins
  <2>5. /\ queue' = Append(queue, Event("join", p, EndPointOf[p])) /\ Len(queue) < MaxQueue
        /\ silent'[EndPointOf[p]] = 0 \/ (p \in up /\ silent' = silent)
        /\ p \in up' => "join" \in Signs
    BY <1>2, <1>1 DEF PeerJoins, Send, Room, Kinds, Signs
  <2>6. \E kind \in Kinds :
           /\ queue' = Append(queue, Event(kind, p, EndPointOf[p])) /\ Len(queue) < MaxQueue
           /\ silent'[EndPointOf[p]] = 0 \/ (p \in up /\ silent' = silent)
           /\ p \in up' => kind \in Signs
    <3>1. "join" \in Kinds
      BY DEF Kinds
    <3> QED
      BY <2>5, <3>1
  <2>7. /\ quiet' \in [Instances -> 0..1] /\ quiet'[p] = 0
        /\ \A i \in Instances : i # p => quiet'[i] = quiet[i]
    BY <1>1, <2>1
  <2> QED
    BY <2>1, <2>2, <2>3, <2>4, <2>6, <2>7
<1>3. CASE PeerKeepsAlive(p)
  <2>1. UNCHANGED <<me, waits>> /\ quiet' = [quiet EXCEPT ![p] = 0]
    BY <1>3 DEF PeerKeepsAlive, Spoke
  <2>2. \A x \in Peers : heard'[x] = heard[x] \/ heard'[x] = "no"
    BY <1>3, <1>1 DEF PeerKeepsAlive
  <2>3. \A x \in up' \ up : x = p /\ heard'[p] = "no" /\ silent'[EndPointOf[p]] = 0
    BY <1>3, <1>1 DEF PeerKeepsAlive
  <2>4. \A e \in EndPoints : silent'[e] = silent[e] \/ silent'[e] = 0
    BY <1>3, <1>1 DEF PeerKeepsAlive
  <2>5. /\ queue' = Append(queue, Event("keep-alive", p, EndPointOf[p])) /\ Len(queue) < MaxQueue
        /\ silent'[EndPointOf[p]] = 0 \/ (p \in up /\ silent' = silent)
        /\ p \in up' => "keep-alive" \in Signs
    BY <1>3, <1>1 DEF PeerKeepsAlive, Send, Room, Kinds, Signs
  <2>6. \E kind \in Kinds :
           /\ queue' = Append(queue, Event(kind, p, EndPointOf[p])) /\ Len(queue) < MaxQueue
           /\ silent'[EndPointOf[p]] = 0 \/ (p \in up /\ silent' = silent)
           /\ p \in up' => kind \in Signs
    <3>1. "keep-alive" \in Kinds
      BY DEF Kinds
    <3> QED
      BY <2>5, <3>1
  <2>7. /\ quiet' \in [Instances -> 0..1] /\ quiet'[p] = 0
        /\ \A i \in Instances : i # p => quiet'[i] = quiet[i]
    BY <1>1, <2>1
  <2> QED
    BY <2>1, <2>2, <2>3, <2>4, <2>6, <2>7
<1>4. CASE PeerLeaves(p)
  <2>1. UNCHANGED <<me, waits>> /\ quiet' = [quiet EXCEPT ![p] = 0]
    BY <1>4 DEF PeerLeaves, Spoke
  <2>2. \A x \in Peers : heard'[x] = heard[x] \/ heard'[x] = "no"
    BY <1>4, <1>1 DEF PeerLeaves
  <2>3. \A x \in up' \ up : x = p /\ heard'[p] = "no" /\ silent'[EndPointOf[p]] = 0
    BY <1>4, <1>1 DEF PeerLeaves
  <2>4. \A e \in EndPoints : silent'[e] = silent[e] \/ silent'[e] = 0
    BY <1>4, <1>1 DEF PeerLeaves
  <2>5. /\ queue' = Append(queue, Event("leave", p, EndPointOf[p])) /\ Len(queue) < MaxQueue
        /\ silent'[EndPointOf[p]] = 0 \/ (p \in up /\ silent' = silent)
        /\ p \in up' => "leave" \in Signs
    BY <1>4, <1>1 DEF PeerLeaves, Send, Room, Kinds, Signs
  <2>6. \E kind \in Kinds :
           /\ queue' = Append(queue, Event(kind, p, EndPointOf[p])) /\ Len(queue) < MaxQueue
           /\ silent'[EndPointOf[p]] = 0 \/ (p \in up /\ silent' = silent)
           /\ p \in up' => kind \in Signs
    <3>1. "leave" \in Kinds
      BY DEF Kinds
    <3> QED
      BY <2>5, <3>1
  <2>7. /\ quiet' \in [Instances -> 0..1] /\ quiet'[p] = 0
        /\ \A i \in Instances : i # p => quiet'[i] = quiet[i]
    BY <1>1, <2>1
  <2> QED
    BY <2>1, <2>2, <2>3, <2>4, <2>6, <2>7
<1>5. CASE PeerVanishes(p)
  <2>1. UNCHANGED <<me, waits>> /\ quiet' = [quiet EXCEPT ![p] = 0]
    BY <1>5 DEF PeerVanishes, Spoke
  <2>2. \A x \in Peers : heard'[x] = heard[x] \/ heard'[x] = "no"
    BY <1>5, <1>1 DEF PeerVanishes
  <2>3. \A x \in up' \ up : x = p /\ heard'[p] = "no" /\ silent'[EndPointOf[p]] = 0
    BY <1>5, <1>1 DEF PeerVanishes
  <2>4. \A e \in EndPoints : silent'[e] = silent[e] \/ silent'[e] = 0
    BY <1>5, <1>1 DEF PeerVanishes
  <2>5. queue' = queue /\ p \notin up'
    BY <1>5, <1>1 DEF PeerVanishes, Send, Room, Kinds, Signs
  <2> QED
    BY <1>1, <2>1, <2>2, <2>3, <2>4, <2>5 DEF Kinds
<1> QED
  BY <1>2, <1>3, <1>4, <1>5

(* The own events of the service, and what is not an event of the bus.     *)
LEMMA SayFrame ==
  ASSUME RegistryTypeOK, IdentityOK, Join \/ KeepAlive \/ Noise
  PROVE  /\ UNCHANGED <<up, silent, exists, file, id, services, target, heard, waits, drawn, torn>>
         /\ Len(queue) < MaxQueue
         /\ quiet' \in [Instances -> 0..1] /\ \A p \in Peers : quiet'[p] = quiet[p]
         /\ step' = step \/ (step = "ready" /\ step' = "up")
         /\ \/ quiet' = quiet /\ announced' = announced /\ step' = step
               /\ \E kind \in {"garbage", "other"} : queue' = Append(queue, [kind |-> kind, age |-> 0])
            \/ quiet'[Me] = 0 /\ id # 0 /\ step' = "up"
               /\ \E kind \in Signs : queue' = Append(queue, Event(kind, id, EndPointOf[Me]))
<1> USE Places DEF RegistryTypeOK, Send, Room, Spoke
<1>1. CASE Join
  BY <1>1 DEF Join, Signs, IdentityOK
<1>2. CASE KeepAlive
  BY <1>2 DEF KeepAlive, Signs, IdentityOK, me
<1>3. CASE Noise
  BY <1>3 DEF Noise, me
<1> QED
  BY <1>1, <1>2, <1>3

(* BusMessageReceived, entry by entry. *)
Effect(ev, e) ==
  IF ev.kind \in Signs /\ ev.id # id /\ ev.at = e THEN [id |-> ev.id, age |-> 0]
  ELSE IF ev.kind = "leave" /\ ev.id # id /\ ev.at = e THEN None
  ELSE IF ev.kind # "garbage" /\ services[e] # None /\ services[e].age > MaxAge THEN None
  ELSE services[e]
LEMMA ReadEffect ==
  ASSUME RegistryTypeOK, BusMessageReceived, NEW e \in EndPoints
  PROVE  services'[e] = Effect(Head(queue), e)
<1> DEFINE ev == Head(queue)
<1>1. ev \in Events /\ services' = IF ev.kind = "garbage" THEN services ELSE Sweep(Updated(services, ev))
  BY QueueShrinks DEF BusMessageReceived, RegistryTypeOK
<1>2. services \in [EndPoints -> [id : Ids, age : 0..(MaxAge + 1)] \cup {None}]
  BY DEF RegistryTypeOK
<1>3. /\ ev.kind \in Kinds \cup {"garbage", "other"}
      /\ ev.kind \in Kinds => ev.at \in EndPoints /\ ev.id \in Ids
  BY <1>1, EventIs
<1> HIDE DEF ev
<1>4. CASE ev.kind = "garbage"
  BY <1>1, <1>4 DEF Effect, Signs, ev
<1>5. CASE ev.kind = "other"
  BY <1>1, <1>2, <1>5 DEF Effect, Signs, ev, Sweep, Updated
<1>6. CASE ev.kind = "leave"
  BY <1>1, <1>2, <1>3, <1>6 DEF Effect, Signs, ev, Sweep, Updated, Heard
<1>7. CASE ev.kind \in Signs
  <2>1. Updated(services, ev) =
          IF ev.id = id THEN services ELSE [services EXCEPT ![ev.at] = [id |-> ev.id, age |-> 0]]
    BY <1>7 DEF Updated, Heard, Signs
  <2>2. CASE ev.id = id
    BY <1>1, <1>2, <1>3, <1>7, <2>1, <2>2 DEF Effect, Signs, ev, Sweep
  <2>3. CASE ev.id # id
    <3>1. [id |-> ev.id, age |-> 0].age = 0 /\ ~(0 > MaxAge)
      BY Numbers
    <3> QED
      BY <1>1, <1>2, <1>3, <1>7, <2>1, <2>3, <3>1 DEF Effect, Signs, ev, Sweep
  <2> QED
    BY <2>2, <2>3
<1> QED
  BY <1>3, <1>4, <1>5, <1>6, <1>7 DEF Kinds, Signs

(* An entry just heard is an entry. *)
LEMMA EntryMade ==
  ASSUME NEW who \in Ids
  PROVE  /\ [id |-> who, age |-> 0] \in [id : Ids, age : 0..(MaxAge + 1)]
         /\ [id |-> who, age |-> 0] # None
         /\ [id |-> who, age |-> 0].id = who /\ [id |-> who, age |-> 0].age = 0
BY RegistryAssumption

----------------------------------------------------------------------------
(* Types. *)

(* The first entry is the least of a set of numbers. *)
LEMMA FirstListed == Listed # {} => Min(Listed) \in Listed
<1> SUFFICES ASSUME Listed # {} PROVE Min(Listed) \in Listed
  OBVIOUS
<1>1. Listed \subseteq Nat
  BY Places DEF Listed
<1> DEFINE R == OpToRel(<, Nat)
<1>2. IsWellFoundedOn(R, Nat)
  BY NatLessThanWellFounded
<1> HIDE DEF R
<1>3. PICK m \in Listed : \A k \in Listed : ~ (<<k, m>> \in R)
  BY <1>1, <1>2, WFMin
<1>4. ASSUME NEW k \in Listed PROVE m <= k
  <2>1. <<k, m>> \in R <=> k < m
    BY <1>1 DEF R, OpToRel
  <2> QED
    BY <1>1, <1>3, <2>1
<1> QED
  BY <1>4 DEF Min

(* An identity that was read or drawn is one. *)
LEMMA OwnId == RegistryTypeOK /\ id # 0 => id \in 1..MaxIds /\ id \in Ids
<1> SUFFICES ASSUME RegistryTypeOK, id # 0 PROVE id \in 1..MaxIds /\ id \in Ids
  OBVIOUS
<1>1. id \in 0..MaxIds
  BY DEF RegistryTypeOK
<1>2. id \in 1..MaxIds
  BY <1>1, Numbers
<1> QED
  BY <1>2 DEF Ids

LEMMA TypeNext == RegistryTypeOK /\ IdentityOK /\ [Next]_vars => RegistryTypeOK'
<1> SUFFICES ASSUME RegistryTypeOK, IdentityOK, [Next]_vars PROVE RegistryTypeOK'
  OBVIOUS
<1>1. CASE Restart \/ Abort \/ Truncate \/ Write
  <2>1. /\ step \in {"off", "no registry", "truncate", "write", "ready", "up"} /\ exists \in BOOLEAN
        /\ file \in 0..MaxIds /\ id \in 0..MaxIds /\ drawn \in 0..MaxIds
    BY DEF RegistryTypeOK
  <2>2. /\ step' \in {"off", "no registry", "truncate", "write", "ready", "up"}
        /\ exists' \in BOOLEAN /\ file' \in 0..MaxIds /\ id' \in 0..MaxIds /\ drawn' \in 0..MaxIds
    <3>1. step' \in {"off", "no registry", "truncate", "write", "ready", "up"}
      BY <1>1 DEF Restart, Abort, Truncate, Write
    <3>2. exists' \in BOOLEAN
      BY <1>1, <2>1 DEF Restart, Abort, Truncate, Write
    <3>3. file' \in 0..MaxIds /\ id' \in 0..MaxIds /\ drawn' \in 0..MaxIds
      <4>1. CASE Restart
        BY <2>1, <4>1 DEF Restart
      <4>2. CASE Abort
        BY <2>1, <4>2 DEF Abort
      <4>3. CASE Truncate
        BY <2>1, <4>3, Numbers DEF Truncate
      <4>4. CASE Write
        BY <2>1, <4>4, Numbers DEF Write
      <4> QED
        BY <1>1, <4>1, <4>2, <4>3, <4>4
    <3> QED
      BY <3>1, <3>2, <3>3
  <2> QED
    BY <1>1, <2>2, StartingFrame DEF RegistryTypeOK, world
<1>2. CASE Join \/ KeepAlive \/ Noise
  <2>1. \A kind \in Signs : id # 0 => Event(kind, id, EndPointOf[Me]) \in Events
    <3>1. id # 0 => id \in Ids
      BY OwnId
    <3> QED
      BY <3>1, EventMade, Places DEF Kinds, Signs
  <2>2. queue' \in Seq(Events) /\ Len(queue') <= MaxQueue
    <3>1. ASSUME NEW ev \in Events, queue' = Append(queue, ev)
          PROVE  queue' \in Seq(Events) /\ Len(queue') <= MaxQueue
      <4>1. queue \in Seq(Events) /\ Len(queue) < MaxQueue
        BY <1>2, SayFrame DEF RegistryTypeOK
      <4>2. Len(queue') = Len(queue) + 1 /\ Len(queue) \in Nat /\ queue' \in Seq(Events)
        BY <3>1, <4>1, QueueGrows
      <4> QED
        BY <4>1, <4>2, Numbers
    <3> QED
      BY <1>2, <2>1, <3>1, SayFrame, NoiseMade
  <2>3. announced' \in 0..MaxIds /\ step' \in {"off", "no registry", "truncate", "write", "ready", "up"}
    BY <1>2 DEF Join, KeepAlive, Noise, me, RegistryTypeOK
  <2> QED
    BY <1>2, <2>2, <2>3, SayFrame DEF RegistryTypeOK
<1>3. CASE End
  <2>1. queue' \in Seq(Events) /\ Len(queue') <= MaxQueue
    <3>1. CASE queue' = queue
      BY <3>1 DEF RegistryTypeOK
    <3>2. CASE step = "up" /\ Send(Event("leave", id, EndPointOf[Me]))
      <4>1. Event("leave", id, EndPointOf[Me]) \in Events
        <5>1. id \in Ids
          BY <3>2, OwnId DEF IdentityOK
        <5> QED
          BY <5>1, EventMade, Places DEF Kinds
      <4> QED
        BY <3>2, <4>1, QueueGrows, Numbers DEF Send, Room, RegistryTypeOK
    <3> QED
      BY <1>3, <3>1, <3>2 DEF End
  <2> QED
    <3>1. /\ quiet \in [Instances -> 0..1] /\ up \subseteq Peers /\ exists \in BOOLEAN
          /\ file \in 0..MaxIds /\ drawn \in 0..MaxIds /\ announced \in 0..MaxIds
      BY DEF RegistryTypeOK
    <3>2. /\ quiet' \in [Instances -> 0..1] /\ silent' \in [EndPoints -> 0..(MaxStale + 1)]
          /\ step' = "off" /\ id' \in 0..MaxIds /\ target' = None /\ torn' \in BOOLEAN
          /\ UNCHANGED <<up, exists, file, drawn, announced>>
      <4>1. /\ step' = "off" /\ target' = None /\ quiet' = [quiet EXCEPT ![Me] = 0]
            /\ UNCHANGED <<up, exists, file, drawn, announced>>
        BY <1>3 DEF End, Spoke
      <4>4. quiet' \in [Instances -> 0..1]
        <5>1. quiet \in [Instances -> 0..1] /\ quiet' = [quiet EXCEPT ![Me] = 0]
          BY <3>1, <4>1
        <5> QED
          BY <5>1, Places
      <4>2. silent' \in [EndPoints -> 0..(MaxStale + 1)] /\ id' \in 0..MaxIds
        BY <1>3, Numbers DEF End
      <4>3. torn' \in BOOLEAN
        BY <1>3 DEF End
      <4> QED
        BY <4>1, <4>2, <4>3, <4>4
    <3>3. services' \in [EndPoints -> [id : Ids, age : 0..(MaxAge + 1)] \cup {None}]
      BY <1>3 DEF End, Nobody
    <3>4. heard' \in [Peers -> {"no", "yes", "evicted"}] /\ waits' \in [Peers -> 0..(MaxLag + 2)]
      BY <1>3, Numbers DEF End
    <3> QED
      BY <2>1, <3>1, <3>2, <3>3, <3>4 DEF RegistryTypeOK
<1>4. CASE BusMessageReceived
  <2> DEFINE ev == Head(queue)
  <2>1. queue # <<>> /\ queue' = Tail(queue) /\ Note(ev)
        /\ UNCHANGED <<up, quiet, silent, step, exists, file, id, target, drawn, announced, torn>>
    BY <1>4 DEF BusMessageReceived
  <2>2. queue' \in Seq(Events) /\ Len(queue') <= MaxQueue
    <3>1. queue \in Seq(Events) /\ Len(queue) <= MaxQueue
      BY DEF RegistryTypeOK
    <3>2. queue' \in Seq(Events) /\ Len(queue') = Len(queue) - 1 /\ Len(queue) \in Nat
      BY <2>1, <3>1, QueueShrinks
    <3> QED
      BY <3>1, <3>2, Numbers
  <2>3. ev \in Events
    BY <2>1, QueueShrinks DEF RegistryTypeOK
  <2>4. ASSUME NEW e \in EndPoints
        PROVE  services'[e] \in [id : Ids, age : 0..(MaxAge + 1)] \cup {None}
    <3>1. services'[e] = Effect(ev, e)
      BY <1>4, ReadEffect
    <3>2. ev.kind \in Signs => [id |-> ev.id, age |-> 0] \in [id : Ids, age : 0..(MaxAge + 1)]
      BY <2>3, EventIs, EntryMade DEF Signs, Kinds
    <3> QED
      BY <3>1, <3>2 DEF Effect, RegistryTypeOK
  <2>5. \E g : services' = [e \in EndPoints |-> g[e]]
    <3>1. services' = services \/ \E S : services' = Sweep(S)
      BY <1>4 DEF BusMessageReceived
    <3> QED
      BY <3>1 DEF Sweep, RegistryTypeOK
  <2>6. services' \in [EndPoints -> [id : Ids, age : 0..(MaxAge + 1)] \cup {None}]
    BY <2>4, <2>5
  <2>7. heard' \in [Peers -> {"no", "yes", "evicted"}]
    BY <2>1 DEF Note, RegistryTypeOK
  <2>8. waits' \in [Peers -> 0..(MaxLag + 2)]
    <3>1. waits \in [Peers -> 0..(MaxLag + 2)]
      BY DEF RegistryTypeOK
    <3>2. 0 \in 0..(MaxLag + 2)
      BY Numbers
    <3> QED
      BY <2>1, <3>1, <3>2 DEF Note
  <2> QED
    BY <2>1, <2>2, <2>6, <2>7, <2>8 DEF RegistryTypeOK
<1>5. CASE GetServices
  BY <1>5, FirstListed DEF GetServices, world, RegistryTypeOK, Listed
<1>6. CASE Do
  BY <1>6 DEF Do, world, RegistryTypeOK
<1>10. CASE Reload
  <2>1. file' \in 0..MaxIds
    BY <1>10, ReloadFrame, Numbers DEF RegistryTypeOK
  <2>2. UNCHANGED <<world, step, exists, id, services, target, heard, waits, drawn, announced, torn>>
    BY <1>10, ReloadFrame
  <2> QED
    BY <2>1, <2>2 DEF world, RegistryTypeOK
<1>7. ASSUME NEW p \in Peers, PeerJoins(p) \/ PeerKeepsAlive(p) \/ PeerLeaves(p) \/ PeerVanishes(p)
      PROVE  RegistryTypeOK'
  <2>1. queue' \in Seq(Events) /\ Len(queue') <= MaxQueue
    <3>1. CASE queue' = queue
      BY <3>1 DEF RegistryTypeOK
    <3>2. ASSUME NEW kind \in Kinds, queue' = Append(queue, Event(kind, p, EndPointOf[p])), Len(queue) < MaxQueue
          PROVE  queue' \in Seq(Events) /\ Len(queue') <= MaxQueue
      <4>1. Event(kind, p, EndPointOf[p]) \in Events
        BY EventMade, Places DEF Ids
      <4>2. queue \in Seq(Events)
        BY DEF RegistryTypeOK
      <4>3. Len(queue') = Len(queue) + 1 /\ Len(queue) \in Nat /\ queue' \in Seq(Events)
        BY <3>2, <4>1, <4>2, QueueGrows
      <4> QED
        BY <3>2, <4>3, Numbers
    <3> QED
      BY <1>7, <3>1, <3>2, PeerFrame
  <2>2. up' \subseteq Peers /\ silent' \in [EndPoints -> 0..(MaxStale + 1)]
        /\ heard' \in [Peers -> {"no", "yes", "evicted"}]
    <3>1. /\ up \subseteq Peers /\ silent \in [EndPoints -> 0..(MaxStale + 1)]
          /\ heard \in [Peers -> {"no", "yes", "evicted"}]
      BY DEF RegistryTypeOK
    <3>2. 0 \in 0..(MaxStale + 1)
      BY Numbers
    <3> QED
      BY <1>7, <3>1, <3>2 DEF PeerJoins, PeerKeepsAlive, PeerLeaves, PeerVanishes
  <2>3. UNCHANGED <<me, waits>> /\ quiet' \in [Instances -> 0..1]
    BY <1>7, PeerFrame
  <2> QED
    BY <2>1, <2>2, <2>3 DEF me, RegistryTypeOK
<1>8. CASE Tick
  <2>1. queue' \in Seq(Events) /\ Len(queue') <= MaxQueue
    BY <1>8, QueueAges DEF Tick, RegistryTypeOK
  <2>2. quiet' \in [Instances -> 0..1]
    BY <1>8 DEF Tick
  <2>3. silent' \in [EndPoints -> 0..(MaxStale + 1)]
    <3>0. silent \in [EndPoints -> 0..(MaxStale + 1)]
      BY DEF RegistryTypeOK
    <3>1. \A e \in EndPoints : silent[e] \in Nat
      BY <3>0, Numbers
    <3>2. \A n \in Nat : Cap(n + 1, MaxStale + 1) \in 0..(MaxStale + 1)
      BY Numbers DEF Cap
    <3> QED
      BY <1>8, <3>1, <3>2, Numbers DEF Tick
  <2>4. services' \in [EndPoints -> [id : Ids, age : 0..(MaxAge + 1)] \cup {None}]
    <3>1. \A n \in Nat : Cap(n + 1, MaxAge + 1) \in 0..(MaxAge + 1)
      BY Numbers DEF Cap
    <3>2. \A x \in [id : Ids, age : 0..(MaxAge + 1)] :
            [x EXCEPT !.age = Cap(@ + 1, MaxAge + 1)] \in [id : Ids, age : 0..(MaxAge + 1)]
      <4> SUFFICES ASSUME NEW x \in [id : Ids, age : 0..(MaxAge + 1)]
                   PROVE  [x EXCEPT !.age = Cap(@ + 1, MaxAge + 1)] \in [id : Ids, age : 0..(MaxAge + 1)]
        OBVIOUS
      <4>1. x.age \in Nat
        BY Numbers
      <4>2. Cap(x.age + 1, MaxAge + 1) \in 0..(MaxAge + 1)
        BY <3>1, <4>1
      <4> QED
        BY <4>2
    <3>3. \A e \in EndPoints : services[e] # None => services[e] \in [id : Ids, age : 0..(MaxAge + 1)]
      BY DEF RegistryTypeOK
    <3> QED
      BY <1>8, <3>2, <3>3 DEF Tick
  <2>5. waits' \in [Peers -> 0..(MaxLag + 2)]
    <3>0. waits \in [Peers -> 0..(MaxLag + 2)]
      BY DEF RegistryTypeOK
    <3>1. \A p \in Peers : waits[p] \in Nat
      BY <3>0, Numbers
    <3>2. \A n \in Nat : Cap(n + 1, MaxLag + 2) \in 0..(MaxLag + 2)
      BY Numbers DEF Cap
    <3> QED
      BY <1>8, <3>1, <3>2, Numbers DEF Tick
  <2> QED
    BY <1>8, <2>1, <2>2, <2>3, <2>4, <2>5 DEF Tick, RegistryTypeOK
<1>9. CASE UNCHANGED vars
  BY <1>9 DEF vars, world, me, RegistryTypeOK
<1> QED
  BY <1>1, <1>2, <1>3, <1>4, <1>5, <1>6, <1>7, <1>8, <1>9, <1>10 DEF Next, Starting

----------------------------------------------------------------------------
(* The identity and the queue. *)

LEMMA IdentityNext == RegistryTypeOK /\ IdentityOK /\ [Next]_vars => IdentityOK'
<1> SUFFICES ASSUME RegistryTypeOK, IdentityOK, [Next]_vars PROVE IdentityOK'
  OBVIOUS
<1>1. CASE Restart
  BY <1>1 DEF Restart, IdentityOK, Running, Saving
<1>2. CASE Abort
  BY <1>2 DEF Abort, IdentityOK, Running, Saving
<1>3. CASE Truncate
  BY <1>3 DEF Truncate, IdentityOK, Running, Saving
<1>4. CASE Write
  <2>1. CASE id # 0
    BY <1>4, <2>1 DEF Write, IdentityOK, Running, Saving
  <2>2. CASE id = 0
    <3>1. drawn + 1 # 0 /\ file' = 0
      BY <1>4, <2>2 DEF Write, RegistryTypeOK
    <3>2. step = "write" /\ step' = "truncate" /\ UNCHANGED <<exists, announced, torn>>
      BY <1>4, <2>2 DEF Write
    <3>3. announced = 0 \/ torn # FALSE
      BY <2>2, <3>2 DEF IdentityOK, Running, Saving
    <3> QED
      BY <3>1, <3>2, <3>3 DEF IdentityOK, Running, Saving
  <2> QED
    BY <2>1, <2>2
<1>5. CASE Join
  BY <1>5 DEF Join, IdentityOK, Running, Saving
<1>6. CASE End
  <2>1. CASE torn = FALSE /\ ~Saving
    BY <1>6, <2>1 DEF End, IdentityOK, Running, Saving
  <2>2. CASE ~(torn = FALSE /\ ~Saving)
    <3>1. torn' # FALSE
      BY <1>6, <2>2 DEF End, RegistryTypeOK
    <3> QED
      BY <1>6, <3>1 DEF End, IdentityOK, Running, Saving
  <2> QED
    BY <2>1, <2>2
<1>7. CASE UNCHANGED <<step, exists, file, id, announced, torn>>
  BY <1>7 DEF IdentityOK, Saving
<1>8. ASSUME NEW p \in Peers, PeerJoins(p) \/ PeerKeepsAlive(p) \/ PeerLeaves(p) \/ PeerVanishes(p)
      PROVE  IdentityOK'
  BY <1>7, <1>8 DEF PeerJoins, PeerKeepsAlive, PeerLeaves, PeerVanishes, me
<1>9. CASE KeepAlive \/ BusMessageReceived \/ GetServices \/ Do \/ Noise \/ Tick \/ UNCHANGED vars
  BY <1>7, <1>9 DEF KeepAlive, BusMessageReceived, GetServices, Do, Noise, Tick, me, vars
<1>10. CASE Reload
  <2>1. id # 0 /\ (torn = FALSE /\ announced # 0 => exists = TRUE /\ id = announced)
    BY <1>10, ReloadFrame DEF IdentityOK, Running
  <2> QED
    BY <1>10, <2>1, ReloadFrame DEF IdentityOK, Running, Saving
<1> QED
  BY <1>1, <1>2, <1>3, <1>4, <1>5, <1>6, <1>8, <1>9, <1>10 DEF Next, Starting

(* An identity that was announced changes only if a crash tore the file.   *)
LEMMA AnnouncedStays ==
  RegistryTypeOK /\ IdentityOK /\ [Next]_vars => (announced # 0 /\ announced' # announced => torn)
<1> SUFFICES ASSUME RegistryTypeOK, IdentityOK, [Next]_vars, announced # 0, announced' # announced,
                    torn = FALSE
             PROVE  FALSE
  BY DEF RegistryTypeOK
<1>1. CASE Join
  BY <1>1 DEF Join, IdentityOK, Running
<1>2. CASE Restart \/ Abort \/ Truncate \/ Write
  BY <1>2, StartingFrame
<1>3. ASSUME NEW p \in Peers, PeerJoins(p) \/ PeerKeepsAlive(p) \/ PeerLeaves(p) \/ PeerVanishes(p)
      PROVE  FALSE
  BY <1>3 DEF PeerJoins, PeerKeepsAlive, PeerLeaves, PeerVanishes, me
<1>4. CASE KeepAlive \/ End \/ BusMessageReceived \/ GetServices \/ Do \/ Reload \/ Noise \/ Tick \/ UNCHANGED vars
  BY <1>4, ReloadFrame DEF KeepAlive, End, BusMessageReceived, GetServices, Do, Noise, Tick, me, vars
<1> QED
  BY <1>1, <1>2, <1>3, <1>4 DEF Next, Starting

(* What a step may do to the queue: leave it, add an event, drop the first *)
(* or make all a period older.                                             *)
LEMMA QueueNext ==
  RegistryTypeOK /\ IdentityOK /\ QueueOK /\ [Next]_vars => QueueOK'
<1> SUFFICES ASSUME RegistryTypeOK, IdentityOK, QueueOK, [Next]_vars PROVE QueueOK'
  OBVIOUS
<1> DEFINE Whose(ev) ==
      ev.kind \in Kinds =>
        \/ ev.id \in Peers /\ ev.at = EndPointOf[ev.id]
        \/ /\ ev.id \in 1..MaxIds /\ ev.at = EndPointOf[Me]
           /\ torn = FALSE => ev.id = announced
    Still(ev) ==
      ev.kind \in Kinds =>
        \/ ev.id \in Peers /\ ev.at = EndPointOf[ev.id]
        \/ /\ ev.id \in 1..MaxIds /\ ev.at = EndPointOf[Me]
           /\ torn' = FALSE => ev.id = announced'
<1>1. queue \in Seq(Events) /\ torn \in BOOLEAN /\ announced \in 0..MaxIds
  BY DEF RegistryTypeOK
<1>2. \A k \in 1..Len(queue) : Whose(queue[k])
  BY DEF QueueOK
<1>3. torn' = FALSE => torn = FALSE
  <2>1. CASE End
    BY <1>1, <2>1 DEF End
  <2>2. CASE torn' = torn
    BY <2>2
  <2>3. CASE Restart \/ Abort \/ Truncate \/ Write
    BY <2>3, StartingFrame
  <2>4. CASE Join \/ KeepAlive \/ BusMessageReceived \/ GetServices \/ Do \/ Reload \/ Noise \/ Tick \/ UNCHANGED vars
    BY <2>2, <2>4, ReloadFrame DEF Join, KeepAlive, BusMessageReceived, GetServices, Do, Noise, Tick, me, vars
  <2>5. ASSUME NEW p \in Peers, PeerJoins(p) \/ PeerKeepsAlive(p) \/ PeerLeaves(p) \/ PeerVanishes(p)
        PROVE  torn' = torn
    BY <2>5 DEF PeerJoins, PeerKeepsAlive, PeerLeaves, PeerVanishes, me
  <2> QED
    BY <2>1, <2>2, <2>3, <2>4, <2>5 DEF Next, Starting
<1>4. ASSUME NEW ev \in Events, Whose(ev) PROVE Still(ev)
  <2>1. CASE torn' = FALSE /\ announced' # announced /\ announced # 0
    BY <1>3, <2>1, AnnouncedStays
  <2>2. CASE torn' = FALSE /\ announced = 0
    <3>1. torn = FALSE /\ 0 \notin 1..MaxIds
      BY <1>3, <2>2
    <3> QED
      BY <1>4, <2>2, <3>1
  <2> QED
    BY <1>3, <1>4, <2>1, <2>2
<1>5. \A k \in 1..Len(queue) : queue[k] \in Events
  BY <1>1, ElementOfSeq, LenProperties
<1>6. \A k \in 1..Len(queue) : Still(queue[k])
  BY <1>2, <1>4, <1>5
<1>7. ASSUME NEW ev \in Events, Still(ev), queue' = Append(queue, ev) PROVE QueueOK'
  <2>1. \A k \in 1..Len(queue') : queue'[k] = ev \/ (k \in 1..Len(queue) /\ queue'[k] = queue[k])
    BY <1>1, <1>7, QueueGrows
  <2> QED
    BY <1>6, <1>7, <2>1 DEF QueueOK
<1>8. CASE queue' = queue
  BY <1>6, <1>8 DEF QueueOK
<1>9. CASE queue # <<>> /\ queue' = Tail(queue)
  <2>1. \A k \in 1..Len(queue') : k + 1 \in 1..Len(queue) /\ queue'[k] = queue[k + 1]
    BY <1>1, <1>9, QueueShrinks
  <2> QED
    BY <1>6, <2>1 DEF QueueOK
<1>10. CASE Tick
  <2>1. /\ Len(queue') = Len(queue)
        /\ \A k \in 1..Len(queue) : queue'[k] = Older(queue[k])
    BY <1>1, <1>10, QueueAges DEF Tick
  <2>2. \A k \in 1..Len(queue) :
          /\ queue'[k].kind = queue[k].kind
          /\ queue[k].kind \in Kinds => queue'[k].id = queue[k].id /\ queue'[k].at = queue[k].at
    BY <1>5, <2>1, EventAges
  <2> QED
    BY <1>6, <2>1, <2>2 DEF QueueOK
<1> HIDE DEF Whose, Still
<1>11. ASSUME NEW kind \in Kinds, id # 0, announced' = id,
              queue' = Append(queue, Event(kind, id, EndPointOf[Me]))
       PROVE  QueueOK'
  <2>1. id \in 1..MaxIds /\ id \in Ids /\ EndPointOf[Me] \in EndPoints
    BY <1>11, OwnId, Places
  <2>2. /\ Event(kind, id, EndPointOf[Me]) \in Events
        /\ Event(kind, id, EndPointOf[Me]).id = id /\ Event(kind, id, EndPointOf[Me]).at = EndPointOf[Me]
    BY <2>1, EventMade
  <2> QED
    BY <1>7, <1>11, <2>1, <2>2 DEF Still
<1>12. CASE Restart \/ Abort \/ Truncate \/ Write
  BY <1>8, <1>12, StartingFrame DEF world
<1>13. CASE Join \/ KeepAlive
  <2>1. /\ id # 0 /\ announced' = id
        /\ \E kind \in Kinds : queue' = Append(queue, Event(kind, id, EndPointOf[Me]))
    <3>1. CASE Join
      BY <3>1 DEF Join, Send, IdentityOK, Kinds
    <3>2. CASE KeepAlive
      BY <3>2 DEF KeepAlive, Send, IdentityOK, me, Kinds
    <3> QED
      BY <1>13, <3>1, <3>2
  <2> QED
    BY <1>11, <2>1
<1>14. CASE End
  <2>1. CASE step = "up" /\ Send(Event("leave", id, EndPointOf[Me]))
    <3>1. id # 0 /\ announced' = id
      BY <1>14, <2>1 DEF End, IdentityOK
    <3> QED
      BY <1>11, <2>1, <3>1 DEF Send, Kinds
  <2> QED
    BY <1>8, <1>14, <2>1 DEF End
<1>15. CASE Noise
  <2>1. PICK kind \in {"garbage", "other"} : queue' = Append(queue, [kind |-> kind, age |-> 0])
    BY <1>15 DEF Noise, Send
  <2>2. [kind |-> kind, age |-> 0].kind \notin Kinds
    BY DEF Kinds
  <2> QED
    BY <1>7, <2>1, <2>2, NoiseMade DEF Still
<1>16. CASE BusMessageReceived
  BY <1>9, <1>16 DEF BusMessageReceived
<1>17. CASE GetServices \/ Do \/ Reload \/ UNCHANGED vars
  BY <1>8, <1>17, ReloadFrame DEF GetServices, Do, world, vars
<1>18. ASSUME NEW p \in Peers, PeerJoins(p) \/ PeerKeepsAlive(p) \/ PeerLeaves(p) \/ PeerVanishes(p)
       PROVE  QueueOK'
  <2>1. ASSUME NEW kind \in Kinds, queue' = Append(queue, Event(kind, p, EndPointOf[p]))
        PROVE  QueueOK'
    <3>1. p \in Ids /\ EndPointOf[p] \in EndPoints
      BY Places DEF Ids
    <3>2. /\ Event(kind, p, EndPointOf[p]) \in Events
          /\ Event(kind, p, EndPointOf[p]).id = p /\ Event(kind, p, EndPointOf[p]).at = EndPointOf[p]
      BY <3>1, EventMade
    <3> QED
      BY <1>7, <2>1, <3>2 DEF Still
  <2> QED
    BY <1>8, <1>18, <2>1, PeerFrame
<1> QED
  BY <1>10, <1>12, <1>13, <1>14, <1>15, <1>16, <1>17, <1>18 DEF Next, Starting

----------------------------------------------------------------------------
(* Ages and silence. *)

LEMMA Ages ==
  ASSUME RegistryTypeOK
  PROVE  /\ \A e \in EndPoints :
              /\ silent[e] \in Nat
              /\ services[e] # None => services[e].age \in Nat /\ services[e].id \in Ids
         /\ \A i \in Instances : quiet[i] = 0 \/ quiet[i] = 1
         /\ \A p \in Peers : waits[p] \in Nat
         /\ queue \in Seq(Events) /\ Len(queue) \in Nat
         /\ \A k \in 1..Len(queue) : queue[k] \in Events
<1>1. silent \in [EndPoints -> 0..(MaxStale + 1)] /\ waits \in [Peers -> 0..(MaxLag + 2)]
  BY DEF RegistryTypeOK
<1>2. \A e \in EndPoints : silent[e] \in Nat
  BY <1>1, Numbers
<1>3. \A p \in Peers : waits[p] \in Nat
  BY <1>1, Numbers
<1>4. ASSUME NEW e \in EndPoints, services[e] # None
      PROVE  services[e].age \in Nat /\ services[e].id \in Ids
  <2>1. services[e] \in [id : Ids, age : 0..(MaxAge + 1)]
    BY <1>4 DEF RegistryTypeOK
  <2> QED
    BY <2>1, Numbers
<1>5. \A i \in Instances : quiet[i] = 0 \/ quiet[i] = 1
  <2>1. quiet \in [Instances -> 0..1]
    BY DEF RegistryTypeOK
  <2> QED
    BY <2>1
<1>6. queue \in Seq(Events)
  BY DEF RegistryTypeOK
<1>7. Len(queue) \in Nat /\ \A k \in 1..Len(queue) : queue[k] \in Events
  BY <1>6, ElementOfSeq, LenProperties
<1> QED
  BY <1>2, <1>3, <1>4, <1>5, <1>6, <1>7

(* A period, end point by end point. *)
LEMMA TickEffect ==
  ASSUME RegistryTypeOK, Tick
  PROVE  /\ \A e \in EndPoints :
              /\ silent'[e] <= silent[e] + 1 /\ silent'[e] \in Nat
              /\ step = "off" \/ Alive(e) => silent'[e] = 0
              /\ services[e] = None => services'[e] = None
              /\ services[e] # None =>
                   /\ services'[e] # None /\ services'[e].id = services[e].id
                   /\ services'[e].age \in Nat
                   /\ services[e].age <= MaxAge => services'[e].age = services[e].age + 1
                   /\ services[e].age > MaxAge => services'[e].age = MaxAge + 1
         /\ \A p \in Peers :
              /\ waits'[p] \in Nat
              /\ p \in up /\ heard[p] = "evicted" => waits'[p] <= waits[p] + 1
              /\ ~(p \in up /\ heard[p] = "evicted") => waits'[p] = 0
<1>1. ASSUME NEW e \in EndPoints
      PROVE  /\ silent'[e] <= silent[e] + 1 /\ silent'[e] \in Nat
             /\ step = "off" \/ Alive(e) => silent'[e] = 0
  <2>1. silent'[e] = IF step = "off" \/ Alive(e) THEN 0 ELSE Cap(silent[e] + 1, MaxStale + 1)
    BY DEF Tick
  <2>2. silent[e] \in Nat
    BY Ages
  <2>3. Cap(silent[e] + 1, MaxStale + 1) \in Nat /\ Cap(silent[e] + 1, MaxStale + 1) <= silent[e] + 1
    BY <2>2, Numbers DEF Cap
  <2> QED
    BY <2>1, <2>2, <2>3
<1>2. ASSUME NEW e \in EndPoints, services[e] = None
      PROVE  services'[e] = None
  BY <1>2 DEF Tick
<1>3. ASSUME NEW e \in EndPoints, services[e] # None
      PROVE  /\ services'[e] # None /\ services'[e].id = services[e].id
             /\ services'[e].age \in Nat
             /\ services[e].age <= MaxAge => services'[e].age = services[e].age + 1
             /\ services[e].age > MaxAge => services'[e].age = MaxAge + 1
  <2>1. services[e] \in [id : Ids, age : 0..(MaxAge + 1)]
    BY <1>3 DEF RegistryTypeOK
  <2>2. services'[e] = [services[e] EXCEPT !.age = Cap(@ + 1, MaxAge + 1)]
    BY <1>3 DEF Tick
  <2>3. services[e].age \in Nat
    BY <1>3, Ages
  <2>4. /\ Cap(services[e].age + 1, MaxAge + 1) \in 0..(MaxAge + 1)
        /\ services[e].age <= MaxAge => Cap(services[e].age + 1, MaxAge + 1) = services[e].age + 1
        /\ services[e].age > MaxAge => Cap(services[e].age + 1, MaxAge + 1) = MaxAge + 1
    BY <2>3, Numbers DEF Cap
  <2>5. /\ services'[e] \in [id : Ids, age : 0..(MaxAge + 1)]
        /\ services'[e].id = services[e].id
        /\ services'[e].age = Cap(services[e].age + 1, MaxAge + 1)
    BY <2>1, <2>2, <2>4
  <2>6. services'[e] # None
    BY <2>5, RegistryAssumption
  <2> QED
    BY <2>4, <2>5, <2>6, Numbers
<1>4. ASSUME NEW p \in Peers
      PROVE  /\ waits'[p] \in Nat
             /\ p \in up /\ heard[p] = "evicted" => waits'[p] <= waits[p] + 1
             /\ ~(p \in up /\ heard[p] = "evicted") => waits'[p] = 0
  <2>1. waits'[p] = IF p \in up /\ heard[p] = "evicted" /\ services[EndPointOf[p]] = None
                      THEN Cap(waits[p] + 1, MaxLag + 2) ELSE 0
    BY DEF Tick
  <2>2. waits[p] \in Nat
    BY Ages
  <2>3. Cap(waits[p] + 1, MaxLag + 2) \in Nat /\ Cap(waits[p] + 1, MaxLag + 2) <= waits[p] + 1
    BY <2>2, Numbers DEF Cap
  <2> QED
    BY <2>1, <2>2, <2>3
<1> QED
  BY <1>1, <1>2, <1>3, <1>4

LEMMA DownNext == RegistryTypeOK /\ IdentityOK /\ DownOK /\ [Next]_vars => DownOK'
<1> SUFFICES ASSUME RegistryTypeOK, IdentityOK, DownOK, [Next]_vars, step' # "up" PROVE DownOK'
  BY DEF DownOK
<1>1. CASE Restart \/ Abort \/ Truncate \/ Write
  BY <1>1, StartingFrame DEF world, DownOK
<1>2. CASE Join \/ KeepAlive \/ Noise
  BY <1>2, SayFrame DEF DownOK
<1>3. CASE End
  BY <1>3 DEF End, Nobody, DownOK
<1>4. CASE BusMessageReceived \/ GetServices \/ Reload
  BY <1>4, ReloadFrame DEF BusMessageReceived, GetServices
<1>5. CASE Do
  BY <1>5 DEF Do, world, DownOK
<1>6. ASSUME NEW p \in Peers, PeerJoins(p) \/ PeerKeepsAlive(p) \/ PeerLeaves(p) \/ PeerVanishes(p)
      PROVE  DownOK'
  BY <1>6, PeerFrame DEF me, DownOK
<1>7. CASE Tick
  <2>1. step = "off" /\ UNCHANGED <<step, target, heard>>
    BY <1>7 DEF Tick
  <2>2. \A e \in EndPoints : services'[e] = None /\ silent'[e] = 0
    BY <1>7, <2>1, TickEffect DEF DownOK
  <2>3. \A p \in Peers : heard'[p] = "no" /\ waits'[p] = 0
    BY <1>7, <2>1, TickEffect DEF DownOK
  <2> QED
    BY <2>1, <2>2, <2>3 DEF DownOK
<1>8. CASE UNCHANGED vars
  BY <1>8 DEF vars, world, me, DownOK
<1> QED
  BY <1>1, <1>2, <1>3, <1>4, <1>5, <1>6, <1>7, <1>8 DEF Next, Starting

LEMMA AliveNext == RegistryTypeOK /\ IdentityOK /\ AliveOK /\ [Next]_vars => AliveOK'
<1> SUFFICES ASSUME RegistryTypeOK, IdentityOK, AliveOK, [Next]_vars PROVE AliveOK'
  OBVIOUS
<1>0. up \subseteq Peers /\ \A p \in Peers : EndPointOf[p] \in EndPoints
  BY Places DEF RegistryTypeOK
<1>1. CASE UNCHANGED <<up, silent>>
  BY <1>1 DEF AliveOK
<1>2. CASE End
  BY <1>0, <1>2 DEF End, AliveOK
<1>3. ASSUME NEW p \in Peers, PeerJoins(p) \/ PeerKeepsAlive(p) \/ PeerLeaves(p) \/ PeerVanishes(p)
      PROVE  AliveOK'
  <2> SUFFICES ASSUME NEW x \in up' PROVE silent'[EndPointOf[x]] = 0
    BY DEF AliveOK
  <2>1. CASE x \in up
    BY <1>0, <1>3, <2>1, PeerFrame DEF AliveOK
  <2>2. CASE x \notin up
    BY <1>3, <2>2, PeerFrame
  <2> QED
    BY <2>1, <2>2
<1>4. CASE Tick
  <2> SUFFICES ASSUME NEW x \in up' PROVE silent'[EndPointOf[x]] = 0
    BY DEF AliveOK
  <2>1. x \in up /\ EndPointOf[x] \in EndPoints /\ Alive(EndPointOf[x])
    BY <1>0, <1>4 DEF Tick, Alive
  <2> QED
    BY <1>4, <2>1, TickEffect
<1>5. CASE Restart \/ Abort \/ Truncate \/ Write
  BY <1>1, <1>5, StartingFrame DEF world
<1>6. CASE Join \/ KeepAlive \/ Noise
  BY <1>1, <1>6, SayFrame
<1>7. CASE BusMessageReceived \/ GetServices \/ Do \/ Reload \/ UNCHANGED vars
  BY <1>1, <1>7, ReloadFrame DEF BusMessageReceived, GetServices, Do, world, vars
<1> QED
  BY <1>2, <1>3, <1>4, <1>5, <1>6, <1>7 DEF Next, Starting

(* An event of a peer leaves at a moment when the peer runs. *)
LEMMA NewsNext ==
  RegistryTypeOK /\ IdentityOK /\ DownOK /\ DownOK' /\ AliveOK /\ NewsOK /\ [Next]_vars => NewsOK'
<1> SUFFICES ASSUME RegistryTypeOK, IdentityOK, DownOK, DownOK', AliveOK, NewsOK, [Next]_vars PROVE NewsOK'
  OBVIOUS
<1>0. /\ queue \in Seq(Events) /\ \A k \in 1..Len(queue) : queue[k] \in Events
      /\ \A e \in EndPoints : silent[e] \in Nat
  BY Ages
<1>1. \A k \in 1..Len(queue) :
        /\ queue[k].age \in Nat
        /\ queue[k].kind \in Kinds => queue[k].at \in EndPoints
  BY <1>0, EventIs
<1>2. CASE step' # "up" /\ queue' = queue
  BY <1>1, <1>2 DEF DownOK, NewsOK
<1>3. ASSUME NEW ev \in Events, queue' = Append(queue, ev), id' = id,
             ev.kind \in Kinds /\ ev.id # id => silent'[ev.at] = 0,
             \A e \in EndPoints : silent'[e] = silent[e] \/ silent'[e] = 0
      PROVE  NewsOK'
  <2>1. \A k \in 1..Len(queue') : queue'[k] = ev \/ (k \in 1..Len(queue) /\ queue'[k] = queue[k])
    BY <1>0, <1>3, QueueGrows
  <2>2. ev.age \in Nat
    BY EventIs
  <2> SUFFICES ASSUME NEW k \in 1..Len(queue'), queue'[k].kind \in Kinds, queue'[k].id # id
               PROVE  silent'[queue'[k].at] <= queue'[k].age
    BY <1>3 DEF NewsOK
  <2>3. CASE queue'[k] = ev
    BY <1>3, <2>2, <2>3
  <2>4. CASE k \in 1..Len(queue) /\ queue'[k] = queue[k]
    <3>1. queue[k].at \in EndPoints /\ silent[queue[k].at] <= queue[k].age /\ queue[k].age \in Nat
      BY <1>1, <2>4 DEF NewsOK
    <3> QED
      BY <1>0, <1>3, <2>4, <3>1
  <2> QED
    BY <2>1, <2>3, <2>4
<1>4. CASE UNCHANGED <<silent, id, queue>>
  BY <1>4 DEF NewsOK
<1>5. CASE Restart \/ Abort \/ Truncate \/ Write
  BY <1>2, <1>5, StartingFrame DEF world
<1>6. CASE Join \/ KeepAlive \/ Noise
  <2>1. ASSUME NEW kind \in {"garbage", "other"}, queue' = Append(queue, [kind |-> kind, age |-> 0])
        PROVE  NewsOK'
    <3>1. [kind |-> kind, age |-> 0].kind \notin Kinds
      BY DEF Kinds
    <3> QED
      BY <1>3, <1>6, <2>1, <3>1, NoiseMade, SayFrame
  <2>2. ASSUME NEW kind \in Signs, queue' = Append(queue, Event(kind, id, EndPointOf[Me])), id # 0
        PROVE  NewsOK'
    <3>1. Event(kind, id, EndPointOf[Me]) \in Events /\ Event(kind, id, EndPointOf[Me]).id = id
      <4>1. kind \in Kinds /\ id \in Ids /\ EndPointOf[Me] \in EndPoints
        BY <2>2, OwnId, Places DEF Signs, Kinds
      <4> QED
        BY <4>1, EventMade
    <3> QED
      BY <1>3, <1>6, <2>2, <3>1, SayFrame
  <2> QED
    BY <1>6, <2>1, <2>2, SayFrame
<1>7. CASE End
  <2>1. \A e \in EndPoints : silent'[e] = 0
    BY <1>7 DEF End
  <2>2. CASE queue' = queue
    BY <1>1, <2>1, <2>2 DEF NewsOK
  <2>3. CASE step = "up" /\ Send(Event("leave", id, EndPointOf[Me]))
    <3> DEFINE ev == Event("leave", id, EndPointOf[Me])
    <3>1. ev \in Events /\ queue' = Append(queue, ev)
      BY <2>3, EventMade, OwnId, Places DEF Kinds, Send, IdentityOK
    <3>2. \A k \in 1..Len(queue') : queue'[k] \in Events
      BY <1>0, <3>1, QueueGrows, ElementOfSeq
    <3>3. \A k \in 1..Len(queue') :
            queue'[k].age \in Nat /\ (queue'[k].kind \in Kinds => queue'[k].at \in EndPoints)
      BY <3>2, EventIs
    <3> QED
      BY <2>1, <3>3 DEF NewsOK
  <2> QED
    BY <1>7, <2>2, <2>3 DEF End
<1>8. CASE BusMessageReceived
  <2>1. queue # <<>> /\ queue' = Tail(queue) /\ UNCHANGED <<silent, id>>
    BY <1>8 DEF BusMessageReceived
  <2>2. \A k \in 1..Len(queue') : k + 1 \in 1..Len(queue) /\ queue'[k] = queue[k + 1]
    BY <1>0, <2>1, QueueShrinks
  <2> QED
    BY <2>1, <2>2 DEF NewsOK
<1>9. CASE GetServices \/ Do \/ Reload \/ UNCHANGED vars
  BY <1>4, <1>9, ReloadFrame DEF GetServices, Do, world, vars, me
<1>10. ASSUME NEW p \in Peers, PeerJoins(p) \/ PeerKeepsAlive(p) \/ PeerLeaves(p) \/ PeerVanishes(p)
       PROVE  NewsOK'
  <2>0. id' = id /\ \A e \in EndPoints : silent'[e] = silent[e] \/ silent'[e] = 0
    BY <1>10, PeerFrame DEF me
  <2>1. ASSUME NEW kind \in Kinds, queue' = Append(queue, Event(kind, p, EndPointOf[p])),
               silent'[EndPointOf[p]] = 0 \/ (p \in up /\ silent' = silent)
        PROVE  NewsOK'
    <3>1. p \in Ids /\ EndPointOf[p] \in EndPoints
      BY Places DEF Ids
    <3>2. Event(kind, p, EndPointOf[p]) \in Events /\ Event(kind, p, EndPointOf[p]).at = EndPointOf[p]
      BY <3>1, EventMade
    <3>3. silent'[EndPointOf[p]] = 0
      BY <2>1 DEF AliveOK
    <3> QED
      BY <1>3, <2>0, <2>1, <3>2, <3>3
  <2>2. CASE queue' = queue
    <3> SUFFICES ASSUME NEW k \in 1..Len(queue), queue[k].kind \in Kinds, queue[k].id # id
                 PROVE  silent'[queue[k].at] <= queue[k].age
      BY <2>0, <2>2 DEF NewsOK
    <3>1. queue[k].at \in EndPoints /\ silent[queue[k].at] <= queue[k].age /\ queue[k].age \in Nat
      BY <1>1 DEF NewsOK
    <3> QED
      BY <1>0, <2>0, <3>1
  <2> QED
    BY <1>10, <2>1, <2>2, PeerFrame
<1>11. CASE Tick
  <2>1. /\ Len(queue') = Len(queue) /\ id' = id
        /\ \A k \in 1..Len(queue) : queue'[k] = Older(queue[k])
    BY <1>0, <1>11, QueueAges DEF Tick
  <2> SUFFICES ASSUME NEW k \in 1..Len(queue), queue'[k].kind \in Kinds, queue'[k].id # id
               PROVE  silent'[queue'[k].at] <= queue'[k].age
    BY <2>1 DEF NewsOK
  <2>2. /\ queue'[k] \in Events /\ queue[k].kind \in Kinds
        /\ queue'[k].id = queue[k].id /\ queue'[k].at = queue[k].at
        /\ queue[k].age < MaxLag => queue'[k].age = queue[k].age + 1
    BY <1>0, <2>1, EventAges
  <2>3. queue[k].at \in EndPoints /\ queue'[k].age \in Nat /\ queue[k].age \in Nat
    BY <1>1, <2>2, EventIs
  <2>4. CASE step = "up"
    <3>1. queue[k].age < MaxLag
      BY <1>11, <2>4 DEF Tick
    <3>2. silent'[queue[k].at] <= silent[queue[k].at] + 1 /\ silent'[queue[k].at] \in Nat
      BY <1>11, <2>3, TickEffect
    <3>3. silent[queue[k].at] <= queue[k].age
      BY <2>2 DEF NewsOK
    <3> QED
      BY <1>0, <2>2, <2>3, <3>1, <3>2, <3>3
  <2>5. CASE step # "up"
    <3>1. silent'[queue[k].at] = 0
      BY <1>11, <2>3, <2>5, TickEffect DEF Tick
    <3> QED
      BY <2>2, <2>3, <3>1
  <2> QED
    BY <2>4, <2>5
<1> QED
  BY <1>5, <1>6, <1>7, <1>8, <1>9, <1>10, <1>11 DEF Next, Starting

----------------------------------------------------------------------------
(* Entries. *)

(* What is needed later is needed sooner as well. *)
LEMMA Sooner ==
  ASSUME NEW q \in Seq(Events), NEW m \in Nat, NEW n \in Nat, m <= n
  PROVE  /\ SweepComes(q, n) => SweepComes(q, m)
         /\ \A p : Coming(q, p, n) => Coming(q, p, m)
<1>1. \A k \in 1..Len(q) : q[k].age \in Nat
  BY EventIs, ElementOfSeq, LenProperties
<1>2. SweepComes(q, n) => SweepComes(q, m)
  BY <1>1, Numbers DEF SweepComes
<1>3. \A p : Coming(q, p, n) => Coming(q, p, m)
  BY <1>1 DEF Coming
<1> QED
  BY <1>2, <1>3

LEMMA EntryBound ==
  ASSUME RegistryTypeOK, EntryOK, NEW e \in EndPoints, services[e] # None
  PROVE  silent[e] <= MaxStale
<1>0. services[e].age \in Nat /\ silent[e] \in Nat
  BY Ages
<1>1. CASE services[e].age <= MaxAge
  BY <1>0, <1>1, Numbers DEF EntryOK
<1>2. CASE services[e].age > MaxAge /\ silent[e] <= Bound
  BY <1>0, <1>2, Numbers
<1>3. CASE SweepComes(queue, silent[e])
  <2>1. PICK k \in 1..Len(queue) : silent[e] <= Bound + queue[k].age
    BY <1>3 DEF SweepComes
  <2>2. queue[k].age \in Nat /\ queue[k].age <= MaxLag
    BY Ages, EventIs
  <2> QED
    BY <1>0, <2>1, <2>2, Numbers
<1> QED
  BY <1>0, <1>1, <1>2, <1>3, Numbers DEF EntryOK

LEMMA EntryNext ==
  RegistryTypeOK /\ IdentityOK /\ DownOK /\ NewsOK /\ EntryOK /\ [Next]_vars => EntryOK'
<1> SUFFICES ASSUME RegistryTypeOK, IdentityOK, DownOK, NewsOK, EntryOK, [Next]_vars,
                    NEW e \in EndPoints, services'[e] # None
             PROVE  IF services'[e].age <= MaxAge THEN silent'[e] <= MaxLag + services'[e].age
                    ELSE (quiet'[Me] = 1 /\ silent'[e] <= Bound) \/ SweepComes(queue', silent'[e])
  BY DEF EntryOK
<1>0. /\ queue \in Seq(Events) /\ silent[e] \in Nat
      /\ services[e] # None => services[e].age \in Nat
  BY Ages
<1>1. services[e] # None =>
        IF services[e].age <= MaxAge THEN silent[e] <= MaxLag + services[e].age
        ELSE (quiet[Me] = 1 /\ silent[e] <= Bound) \/ SweepComes(queue, silent[e])
  BY DEF EntryOK
<1>2. CASE UNCHANGED <<services, silent, queue, quiet>>
  BY <1>1, <1>2
<1>3. CASE Restart \/ Abort \/ Truncate \/ Write
  BY <1>2, <1>3, StartingFrame DEF world
<1>4. CASE Join \/ KeepAlive \/ Noise
  <2>1. services' = services /\ silent' = silent
    BY <1>4, SayFrame
  <2>2. ASSUME NEW ev \in Events, queue' = Append(queue, ev),
               quiet'[Me] = quiet[Me] \/ (ev.kind \in Kinds /\ ev.age = 0)
        PROVE  services[e].age > MaxAge =>
                 (quiet'[Me] = 1 /\ silent[e] <= Bound) \/ SweepComes(queue', silent[e])
    <3> SUFFICES ASSUME services[e].age > MaxAge
                 PROVE  (quiet'[Me] = 1 /\ silent[e] <= Bound) \/ SweepComes(queue', silent[e])
      OBVIOUS
    <3>1. (quiet[Me] = 1 /\ silent[e] <= Bound) \/ SweepComes(queue, silent[e])
      BY <1>0, <1>1, <2>1, Numbers
    <3>2. SweepComes(queue, silent[e]) => SweepComes(queue', silent[e])
      BY <1>0, <2>2, ComesAfterSend
    <3>3. silent[e] <= Bound /\ ev.kind \in Kinds /\ ev.age = 0 => SweepComes(queue', silent[e])
      <4>1. silent[e] <= Bound /\ ev.age = 0 => silent[e] <= Bound + ev.age
        BY <1>0, Numbers
      <4> QED
        BY <1>0, <2>2, <4>1, ComesAfterSend
    <3> QED
      BY <2>2, <3>1, <3>2, <3>3
  <2>3. \A kind \in {"garbage", "other"} : [kind |-> kind, age |-> 0] \in Events
    BY NoiseMade
  <2>4. id # 0 => \A kind \in Signs :
          /\ Event(kind, id, EndPointOf[Me]) \in Events
          /\ Event(kind, id, EndPointOf[Me]).kind \in Kinds /\ Event(kind, id, EndPointOf[Me]).age = 0
    <3> SUFFICES ASSUME id # 0, NEW kind \in Signs
                 PROVE  /\ Event(kind, id, EndPointOf[Me]) \in Events
                        /\ Event(kind, id, EndPointOf[Me]).kind \in Kinds
                        /\ Event(kind, id, EndPointOf[Me]).age = 0
      OBVIOUS
    <3>1. kind \in Kinds /\ id \in Ids /\ EndPointOf[Me] \in EndPoints
      BY OwnId, Places DEF Signs, Kinds
    <3> QED
      BY <3>1, EventMade
  <2>5. services[e].age > MaxAge =>
          (quiet'[Me] = 1 /\ silent[e] <= Bound) \/ SweepComes(queue', silent[e])
    BY <1>4, <2>2, <2>3, <2>4, SayFrame
  <2> QED
    BY <1>0, <1>1, <2>1, <2>5, Numbers
<1>5. CASE End
  BY <1>5 DEF End, Nobody
<1>6. CASE BusMessageReceived
  <2> DEFINE ev == Head(queue)
  <2>1. queue # <<>> /\ queue' = Tail(queue) /\ UNCHANGED <<quiet, silent>>
    BY <1>6 DEF BusMessageReceived
  <2>2. ev \in Events /\ ev = queue[1] /\ 1 \in 1..Len(queue)
    BY <1>0, <2>1, QueueShrinks
  <2>3. services'[e] = Effect(ev, e)
    BY <1>6, ReadEffect
  <2>4. CASE ev.kind \in Signs /\ ev.id # id /\ ev.at = e
    <3>1. services'[e] = [id |-> ev.id, age |-> 0]
      BY <2>3, <2>4 DEF Effect
    <3>2. ev.age \in Nat /\ ev.age <= MaxLag /\ ev.kind \in Kinds
      BY <2>2, <2>4, EventIs DEF Signs, Kinds
    <3>3. silent[e] <= ev.age
      BY <2>2, <2>4, <3>2 DEF NewsOK
    <3>4. services'[e].age = 0
      BY <3>1
    <3> QED
      BY <1>0, <2>1, <3>2, <3>3, <3>4, Numbers
  <2>5. CASE ~(ev.kind \in Signs /\ ev.id # id /\ ev.at = e)
    <3>1. services'[e] = services[e] /\ (ev.kind = "garbage" \/ ~(services[e].age > MaxAge))
      BY <2>3, <2>5 DEF Effect
    <3>2. CASE services[e].age <= MaxAge
      BY <1>1, <2>1, <3>1, <3>2
    <3>3. CASE services[e].age > MaxAge
      <4>1. ev.kind \notin Kinds
        BY <3>1, <3>3 DEF Kinds
      <4>2. SweepComes(queue, silent[e]) => SweepComes(queue', silent[e])
        BY <1>0, <2>1, <4>1, ComesAfterRead
      <4> QED
        BY <1>0, <1>1, <2>1, <3>1, <3>3, <4>2, Numbers
    <3> QED
      BY <1>0, <3>1, <3>2, <3>3, Numbers
  <2> QED
    BY <2>4, <2>5
<1>7. CASE GetServices \/ Do \/ Reload \/ UNCHANGED vars
  BY <1>2, <1>7, ReloadFrame DEF GetServices, Do, world, vars, me
<1>8. ASSUME NEW p \in Peers, PeerJoins(p) \/ PeerKeepsAlive(p) \/ PeerLeaves(p) \/ PeerVanishes(p)
      PROVE  IF services'[e].age <= MaxAge THEN silent'[e] <= MaxLag + services'[e].age
             ELSE (quiet'[Me] = 1 /\ silent'[e] <= Bound) \/ SweepComes(queue', silent'[e])
  <2>1. services' = services /\ quiet'[Me] = quiet[Me] /\ (silent'[e] = silent[e] \/ silent'[e] = 0)
    BY <1>8, PeerFrame, Places DEF me
  <2>2. SweepComes(queue, silent[e]) => SweepComes(queue', silent[e])
    <3>1. ASSUME NEW kind \in Kinds, queue' = Append(queue, Event(kind, p, EndPointOf[p]))
          PROVE  SweepComes(queue, silent[e]) => SweepComes(queue', silent[e])
      <4>1. Event(kind, p, EndPointOf[p]) \in Events
        BY EventMade, Places DEF Ids
      <4> QED
        BY <1>0, <3>1, <4>1, ComesAfterSend
    <3> QED
      BY <1>8, <3>1, PeerFrame
  <2>3. queue' \in Seq(Events)
    <3>1. ASSUME NEW kind \in Kinds, queue' = Append(queue, Event(kind, p, EndPointOf[p]))
          PROVE  queue' \in Seq(Events)
      <4>1. Event(kind, p, EndPointOf[p]) \in Events
        BY EventMade, Places DEF Ids
      <4> QED
        BY <1>0, <3>1, <4>1, QueueGrows
    <3> QED
      BY <1>0, <1>8, <3>1, PeerFrame
  <2>4. silent'[e] <= silent[e] /\ silent'[e] \in Nat
    BY <1>0, <2>1
  <2>5. SweepComes(queue', silent[e]) => SweepComes(queue', silent'[e])
    BY <1>0, <2>3, <2>4, Sooner
  <2> QED
    BY <1>0, <1>1, <2>1, <2>2, <2>4, <2>5, Numbers
<1>9. CASE Tick
  <2>1. services[e] # None /\ step = "up"
    BY <1>9, TickEffect DEF DownOK
  <2>2. /\ silent'[e] <= silent[e] + 1 /\ silent'[e] \in Nat /\ services'[e].age \in Nat
        /\ services[e].age <= MaxAge => services'[e].age = services[e].age + 1
        /\ services[e].age > MaxAge => services'[e].age = MaxAge + 1
    BY <1>9, <2>1, TickEffect
  <2>3. /\ quiet[Me] = 0 /\ quiet'[Me] = 1
        /\ \A k \in 1..Len(queue) : queue[k].age < MaxLag
        /\ queue' = [k \in 1..Len(queue) |-> Older(queue[k])]
    BY <1>9, <2>1, Places DEF Tick
  <2>4. CASE services[e].age <= MaxAge
    <3>1. silent[e] <= MaxLag + services[e].age /\ services[e].age \in Nat
      BY <1>0, <1>1, <2>1, <2>4
    <3>2. services'[e].age = services[e].age + 1 /\ silent'[e] <= MaxLag + services[e].age + 1
      <4>1. services'[e].age = services[e].age + 1
        BY <2>2, <2>4
      <4>2. \A a, b, c, d \in Nat : a <= b + 1 /\ b <= c + d => a <= c + d + 1
        OBVIOUS
      <4> QED
        BY <1>0, <2>2, <3>1, <4>1, <4>2, Numbers
    <3>3. CASE services[e].age + 1 <= MaxAge
      BY <2>2, <3>1, <3>2, <3>3, Numbers
    <3>4. CASE services[e].age = MaxAge
      BY <2>2, <2>3, <3>2, <3>4, Numbers
    <3> QED
      BY <2>4, <3>1, <3>3, <3>4, Numbers
  <2>5. CASE services[e].age > MaxAge
    <3>1. SweepComes(queue, silent[e])
      BY <1>0, <1>1, <2>1, <2>3, <2>5, Numbers
    <3>2. SweepComes(queue', silent[e] + 1)
      BY <1>0, <2>3, <3>1, ComesAfterTick
    <3>3. queue' \in Seq(Events)
      BY <1>0, <2>3, QueueAges
    <3>4. SweepComes(queue', silent'[e])
      BY <1>0, <2>2, <3>2, <3>3, Sooner
    <3> QED
      BY <2>2, <2>5, <3>4, Numbers
  <2> QED
    BY <1>0, <2>1, <2>4, <2>5, Numbers
<1> QED
  BY <1>3, <1>4, <1>5, <1>6, <1>7, <1>8, <1>9 DEF Next, Starting

LEMMA TargetNext ==
  RegistryTypeOK /\ IdentityOK /\ DownOK /\ EntryOK /\ TargetOK /\ [Next]_vars => TargetOK'
<1> SUFFICES ASSUME RegistryTypeOK, IdentityOK, DownOK, EntryOK, TargetOK, [Next]_vars, target' # None
             PROVE  silent'[target'] <= MaxStale
  BY DEF TargetOK
<1>1. CASE UNCHANGED <<target, silent>>
  BY <1>1 DEF TargetOK
<1>2. CASE Restart \/ Abort \/ Truncate \/ Write
  BY <1>1, <1>2, StartingFrame DEF world
<1>3. CASE Join \/ KeepAlive \/ Noise
  BY <1>1, <1>3, SayFrame
<1>4. CASE End \/ Do
  BY <1>4 DEF End, Do
<1>5. CASE BusMessageReceived \/ Reload \/ UNCHANGED vars
  BY <1>1, <1>5, ReloadFrame DEF BusMessageReceived, vars, world, me
<1>6. CASE GetServices
  <2>1. target' = Min(Listed) /\ Listed # {} /\ silent' = silent
    BY <1>6 DEF GetServices, world
  <2>2. target' \in EndPoints /\ services[target'] # None
    BY <2>1, FirstListed DEF Listed
  <2> QED
    BY <2>1, <2>2, EntryBound
<1>7. ASSUME NEW p \in Peers, PeerJoins(p) \/ PeerKeepsAlive(p) \/ PeerLeaves(p) \/ PeerVanishes(p)
      PROVE  silent'[target'] <= MaxStale
  <2>1. target' = target
    BY <1>7, PeerFrame DEF me
  <2>2. target \in EndPoints
    BY <2>1 DEF RegistryTypeOK
  <2>3. silent'[target] = silent[target] \/ silent'[target] = 0
    BY <1>7, <2>2, PeerFrame
  <2> QED
    BY <2>1, <2>3, Numbers DEF TargetOK
<1>8. CASE Tick
  BY <1>8 DEF Tick, DownOK
<1> QED
  BY <1>2, <1>3, <1>4, <1>5, <1>6, <1>7, <1>8 DEF Next, Starting

----------------------------------------------------------------------------
(* Those who live. *)

(* What BusMessageReceived makes of the history of a peer.                 *)
LEMMA NoteEffect ==
  ASSUME BusMessageReceived, NEW p \in Peers
  PROVE  LET ev == Head(queue)
             listed == services'[EndPointOf[p]] # None
         IN /\ waits'[p] = waits[p] \/ waits'[p] = 0
            /\ ev.kind \in Kinds /\ ev.id = p /\ listed => waits'[p] = 0
            /\ ev.kind \notin Kinds \/ ev.at # EndPointOf[p] => heard'[p] = heard[p]
            /\ ev.kind = "leave" /\ ev.at = EndPointOf[p] => heard'[p] # "yes"
            /\ ev.kind \in Signs /\ ev.id = p /\ ev.at = EndPointOf[p] /\ listed => heard'[p] = "yes"
            /\ ev.kind \in Signs /\ ~(ev.id = p /\ listed) => heard'[p] = heard[p]
            /\ ev.kind = "leave" /\ heard[p] = "no" => heard'[p] = "no"
<1> DEFINE ev == Head(queue)
           listed == services'[EndPointOf[p]] # None
<1>1. /\ heard'[p] =
            CASE ev.kind \notin Kinds \/ ev.at # EndPointOf[p] -> heard[p]
              [] OTHER ->
                 IF ev.kind = "leave"
                 THEN IF ev.id = p THEN "no" ELSE IF heard[p] = "yes" THEN "evicted" ELSE heard[p]
                 ELSE IF ev.id = p /\ listed THEN "yes" ELSE heard[p]
      /\ waits'[p] = IF ev.kind \in Kinds /\ ev.id = p /\ listed THEN 0 ELSE waits[p]
  BY DEF BusMessageReceived, Note
<1> HIDE DEF ev, listed
<1>2. CASE ev.kind \notin Kinds \/ ev.at # EndPointOf[p]
  <2>1. heard'[p] = heard[p]
    BY <1>1, <1>2
  <2> QED
    BY <1>1, <1>2, <2>1 DEF ev, listed, Kinds, Signs
<1>3. CASE ~(ev.kind \notin Kinds \/ ev.at # EndPointOf[p])
  <2>1. heard'[p] =
          IF ev.kind = "leave"
          THEN IF ev.id = p THEN "no" ELSE IF heard[p] = "yes" THEN "evicted" ELSE heard[p]
          ELSE IF ev.id = p /\ listed THEN "yes" ELSE heard[p]
    BY <1>1, <1>3
  <2> QED
    BY <1>1, <1>3, <2>1 DEF ev, listed, Kinds, Signs
<1> QED
  BY <1>2, <1>3

(* A sign of a peer that is read makes its entry new.                      *)
LEMMA OwnSignRead ==
  ASSUME RegistryTypeOK, QueueOK, BusMessageReceived, NEW p \in Peers,
         Head(queue).kind \in Signs, Head(queue).id = p
  PROVE  /\ Head(queue).at = EndPointOf[p] /\ Head(queue).id # id
         /\ services'[EndPointOf[p]] # None /\ services'[EndPointOf[p]].age = 0
<1> DEFINE ev == Head(queue)
<1>1. queue # <<>> /\ queue \in Seq(Events)
  BY DEF BusMessageReceived, RegistryTypeOK
<1>2. ev = queue[1] /\ 1 \in 1..Len(queue) /\ ev \in Events
  BY <1>1, QueueShrinks
<1>3. p \notin Nat /\ EndPointOf[p] \in EndPoints /\ p \in Ids
  BY Places DEF Ids
<1>4. ev.at = EndPointOf[p]
  BY <1>2, <1>3 DEF QueueOK, Signs, Kinds
<1>5. ev.id # id
  <2>1. id \in 0..MaxIds
    BY DEF RegistryTypeOK
  <2> QED
    BY <1>3, <2>1, Numbers
<1>6. services'[EndPointOf[p]] = [id |-> ev.id, age |-> 0]
  BY <1>3, <1>4, <1>5, ReadEffect DEF Effect
<1> QED
  BY <1>3, <1>4, <1>5, <1>6, EntryMade

(* No live entry is due to be swept. *)
LEMMA LiveAge ==
  ASSUME RegistryTypeOK, LiveOK, step = "up", NEW p \in up, heard[p] = "yes"
  PROVE  services[EndPointOf[p]].age <= MaxAge
<1> DEFINE e == EndPointOf[p]
<1>1. p \in Peers /\ p \in Instances /\ e \in EndPoints
  BY Places DEF RegistryTypeOK
<1>2. services[e] # None /\ services[e].age \in Nat /\ (quiet[p] = 0 \/ quiet[p] = 1)
  BY <1>1, Ages DEF LiveOK
<1>3. CASE services[e].age <= quiet[p]
  BY <1>2, <1>3, Numbers
<1>4. CASE Coming(queue, p, services[e].age)
  <2>1. PICK k \in 1..Len(queue) : services[e].age <= queue[k].age + 1
    BY <1>4 DEF Coming
  <2>2. queue[k].age \in Nat /\ queue[k].age <= MaxLag
    BY Ages, EventIs
  <2> QED
    BY <1>2, <2>1, <2>2, Numbers
<1> QED
  BY <1>3, <1>4 DEF LiveOK

LEMMA LiveNext ==
  RegistryTypeOK /\ IdentityOK /\ DownOK /\ QueueOK /\ LiveOK /\ [Next]_vars => LiveOK'
<1> SUFFICES ASSUME RegistryTypeOK, IdentityOK, DownOK, QueueOK, LiveOK, [Next]_vars,
                    step' = "up", NEW p \in up', heard'[p] = "yes"
             PROVE  /\ services'[EndPointOf[p]] # None
                    /\ \/ services'[EndPointOf[p]].age <= quiet'[p]
                       \/ Coming(queue', p, services'[EndPointOf[p]].age)
  BY DEF LiveOK
<1> DEFINE e == EndPointOf[p]
           Goal == /\ services'[e] # None
                   /\ services'[e].age <= quiet'[p] \/ Coming(queue', p, services'[e].age)
<1>0. queue \in Seq(Events)
  BY Ages
<1>1. up' \subseteq Peers
  BY TypeNext DEF RegistryTypeOK
<1>2. p \in Peers /\ p \in Instances /\ e \in EndPoints /\ p # Me
  BY <1>1, Places
<1>3. p \in up /\ heard[p] = "yes" /\ step = "up" =>
        /\ services[e] # None /\ services[e].age \in Nat
        /\ services[e].age <= quiet[p] \/ Coming(queue, p, services[e].age)
  BY <1>2, Ages DEF LiveOK
<1>4. quiet[p] = 0 \/ quiet[p] = 1
  BY <1>2, Ages
<1>5. step # "up" => heard[p] = "no"
  BY <1>2 DEF DownOK
<1>6. CASE UNCHANGED <<up, heard, step, services, quiet, queue>>
  BY <1>3, <1>6
<1>7. CASE Restart \/ Abort \/ Truncate \/ Write
  BY <1>7, StartingFrame
<1>8. CASE Join \/ KeepAlive \/ Noise
  <2>1. /\ p \in up /\ heard[p] = "yes" /\ step = "up"
        /\ services' = services /\ quiet'[p] = quiet[p]
    BY <1>2, <1>5, <1>8, SayFrame
  <2>2. ASSUME NEW ev \in Events, queue' = Append(queue, ev) PROVE Goal
    BY <1>0, <1>3, <2>1, <2>2, ComesAfterSend
  <2>3. id # 0 => \A kind \in Signs : Event(kind, id, EndPointOf[Me]) \in Events
    BY EventMade, OwnId, Places DEF Signs, Kinds
  <2> QED
    BY <1>8, <2>2, <2>3, NoiseMade, SayFrame
<1>9. CASE End
  BY <1>9 DEF End
<1>10. CASE BusMessageReceived
  <2> DEFINE ev == Head(queue)
  <2>1. queue # <<>> /\ queue' = Tail(queue) /\ UNCHANGED <<up, quiet, step>>
    BY <1>10 DEF BusMessageReceived
  <2>2. ev \in Events
    BY <1>0, <2>1, QueueShrinks
  <2>3. services'[e] = Effect(ev, e)
    BY <1>2, <1>10, ReadEffect
  <2>4. CASE ev.kind \in Signs /\ ev.id # id /\ ev.at = e
    <3>1. services'[e] = [id |-> ev.id, age |-> 0] /\ ev.id \in Ids
      BY <2>2, <2>3, <2>4, EventIs DEF Effect, Signs, Kinds
    <3> QED
      BY <1>4, <2>1, <3>1, EntryMade
  <2>5. CASE ~(ev.kind \in Signs /\ ev.id # id /\ ev.at = e)
    <3>1. ~(ev.kind \in Signs /\ ev.id = p)
      BY <1>2, <1>10, <2>5, OwnSignRead
    <3>2. ~(ev.kind = "leave" /\ ev.at = e)
      BY <1>2, <1>10, NoteEffect
    <3>3. heard[p] = "yes"
      BY <1>2, <1>10, <3>1, <3>2, NoteEffect DEF Kinds, Signs
    <3>4. services[e].age <= MaxAge /\ services[e] # None /\ services[e].age \in Nat
      BY <1>3, <2>1, <3>3, LiveAge
    <3>5. services'[e] = services[e]
      BY <2>3, <2>5, <3>2, <3>4, Numbers DEF Effect
    <3>6. Coming(queue, p, services[e].age) => Coming(queue', p, services[e].age)
      BY <1>0, <2>1, <3>1, <3>4, ComesAfterRead
    <3> QED
      BY <1>3, <2>1, <3>3, <3>4, <3>5, <3>6
  <2> QED
    BY <2>4, <2>5
<1>11. CASE GetServices \/ Do \/ Reload \/ UNCHANGED vars
  BY <1>6, <1>11, ReloadFrame DEF GetServices, Do, world, vars, me
<1>12. ASSUME NEW x \in Peers, PeerJoins(x) \/ PeerKeepsAlive(x) \/ PeerLeaves(x) \/ PeerVanishes(x)
       PROVE  Goal
  <2>1. services' = services /\ step' = step
    BY <1>12, PeerFrame DEF me
  <2>2. p \in up /\ heard[p] = "yes"
    BY <1>2, <1>12, PeerFrame
  <2>3. CASE queue' = queue /\ x \notin up'
    <3>1. quiet'[p] = quiet[p]
      BY <1>2, <1>12, <2>3, PeerFrame
    <3> QED
      BY <1>3, <2>1, <2>2, <2>3, <3>1
  <2>4. ASSUME NEW kind \in Kinds, queue' = Append(queue, Event(kind, x, EndPointOf[x])),
               x \in up' => kind \in Signs
        PROVE  Goal
    <3> DEFINE ev == Event(kind, x, EndPointOf[x])
    <3>0. x \in Ids /\ EndPointOf[x] \in EndPoints
      BY Places DEF Ids
    <3>1. ev \in Events /\ ev.kind = kind /\ ev.id = x /\ ev.age = 0
      BY <3>0, EventMade
    <3> HIDE DEF ev
    <3>2. Coming(queue, p, services[e].age) => Coming(queue', p, services[e].age)
      BY <1>0, <1>3, <2>1, <2>2, <2>4, <3>1, ComesAfterSend DEF ev
    <3>3. CASE x = p
      <4>1. services[e].age <= quiet[p] => services[e].age <= ev.age + 1
        BY <1>3, <1>4, <2>1, <2>2, <3>1
      <4>2. services[e].age <= quiet[p] => Coming(queue', p, services[e].age)
        BY <1>0, <1>3, <2>1, <2>2, <2>4, <3>1, <3>3, <4>1, ComesAfterSend DEF ev
      <4> QED
        BY <1>3, <2>1, <2>2, <3>2, <4>2
    <3>4. CASE x # p
      <4>1. quiet'[p] = quiet[p]
        BY <1>2, <1>12, <3>4, PeerFrame
      <4> QED
        BY <1>3, <2>1, <2>2, <3>2, <4>1
    <3> QED
      BY <3>3, <3>4
  <2> QED
    BY <1>12, <2>3, <2>4, PeerFrame
<1>13. CASE Tick
  <2>1. p \in up /\ heard[p] = "yes" /\ step = "up"
    BY <1>13 DEF Tick
  <2>2. /\ quiet[p] = 0 /\ quiet'[p] = 1
        /\ \A k \in 1..Len(queue) : queue[k].age < MaxLag
        /\ queue' = [k \in 1..Len(queue) |-> Older(queue[k])]
    BY <1>2, <1>13, <2>1 DEF Tick
  <2>3. services[e].age <= MaxAge /\ services[e] # None /\ services[e].age \in Nat
    BY <1>3, <2>1, LiveAge
  <2>4. services'[e] # None /\ services'[e].age = services[e].age + 1
    BY <1>2, <1>13, <2>3, TickEffect
  <2>5. Coming(queue, p, services[e].age) => Coming(queue', p, services[e].age + 1)
    BY <1>0, <2>2, <2>3, ComesAfterTick
  <2> QED
    BY <1>3, <2>1, <2>2, <2>3, <2>4, <2>5
<1> QED
  BY <1>7, <1>8, <1>9, <1>10, <1>11, <1>12, <1>13 DEF Next, Starting

LEMMA BackNext ==
  RegistryTypeOK /\ IdentityOK /\ DownOK /\ QueueOK /\ BackOK /\ [Next]_vars => BackOK'
<1> SUFFICES ASSUME RegistryTypeOK, IdentityOK, DownOK, QueueOK, BackOK, [Next]_vars PROVE BackOK'
  OBVIOUS
<1>p. up' \subseteq Peers
  BY TypeNext DEF RegistryTypeOK
<1> SUFFICES ASSUME NEW p \in Peers
             PROVE  /\ heard'[p] = "yes" => waits'[p] = 0
                    /\ p \in up' /\ heard'[p] = "evicted" =>
                         waits'[p] <= quiet'[p] \/ Coming(queue', p, waits'[p])
  BY <1>p DEF BackOK
<1> DEFINE Goal == /\ heard'[p] = "yes" => waits'[p] = 0
                   /\ p \in up' /\ heard'[p] = "evicted" =>
                        waits'[p] <= quiet'[p] \/ Coming(queue', p, waits'[p])
<1>0. queue \in Seq(Events) /\ waits[p] \in Nat
  BY Ages
<1>1. p \in Instances /\ EndPointOf[p] \in EndPoints /\ p # Me
  BY Places
<1>2. /\ heard[p] = "yes" => waits[p] = 0
      /\ p \in up /\ heard[p] = "evicted" => waits[p] <= quiet[p] \/ Coming(queue, p, waits[p])
  BY DEF BackOK
<1>3. (quiet[p] = 0 \/ quiet[p] = 1) /\ heard[p] \in {"no", "yes", "evicted"}
  BY <1>1, Ages DEF RegistryTypeOK
<1>4. step # "up" => heard[p] = "no"
  BY DEF DownOK
<1>5. CASE UNCHANGED <<up, heard, waits, quiet, queue>>
  BY <1>2, <1>5
<1>6. CASE Restart \/ Abort \/ Truncate \/ Write
  BY <1>5, <1>6, StartingFrame DEF world
<1>7. CASE Join \/ KeepAlive \/ Noise
  <2>1. UNCHANGED <<up, heard, waits>> /\ quiet'[p] = quiet[p]
    BY <1>7, SayFrame
  <2>2. ASSUME NEW ev \in Events, queue' = Append(queue, ev) PROVE Goal
    BY <1>0, <1>2, <2>1, <2>2, ComesAfterSend
  <2>3. id # 0 => \A kind \in Signs : Event(kind, id, EndPointOf[Me]) \in Events
    BY EventMade, OwnId, Places DEF Signs, Kinds
  <2> QED
    BY <1>7, <2>2, <2>3, NoiseMade, SayFrame
<1>8. CASE End
  BY <1>8 DEF End
<1>9. CASE BusMessageReceived
  <2> DEFINE ev == Head(queue)
  <2>1. queue # <<>> /\ queue' = Tail(queue) /\ UNCHANGED <<up, quiet>>
    BY <1>9 DEF BusMessageReceived
  <2>2. waits'[p] = waits[p] \/ waits'[p] = 0
    BY <1>9, NoteEffect
  <2>3. ev \in Events /\ ev.kind \in Kinds \cup {"garbage", "other"}
    BY <1>0, <2>1, QueueShrinks, EventIs
  <2>4. CASE ev.kind \in Signs /\ ev.id = p
    <3>1. heard'[p] = "yes" /\ waits'[p] = 0
      BY <1>9, <2>4, OwnSignRead, NoteEffect DEF Signs, Kinds
    <3> QED
      BY <3>1
  <2>5. CASE ~(ev.kind \in Signs /\ ev.id = p)
    <3>1. heard'[p] = "yes" => heard[p] = "yes"
      BY <1>9, <2>3, <2>5, NoteEffect DEF Signs, Kinds
    <3>2. heard'[p] = "evicted" => heard[p] # "no"
      BY <1>9, <2>3, <2>5, NoteEffect DEF Signs, Kinds
    <3>3. Coming(queue, p, waits[p]) => Coming(queue', p, waits[p])
      BY <1>0, <2>1, <2>5, ComesAfterRead
    <3>4. waits'[p] = 0 => waits'[p] <= quiet'[p]
      BY <1>3, <2>1
    <3> QED
      BY <1>2, <1>3, <2>1, <2>2, <3>1, <3>2, <3>3, <3>4
  <2> QED
    BY <2>4, <2>5
<1>10. CASE GetServices \/ Do \/ Reload \/ UNCHANGED vars
  BY <1>5, <1>10, ReloadFrame DEF GetServices, Do, world, vars
<1>11. ASSUME NEW x \in Peers, PeerJoins(x) \/ PeerKeepsAlive(x) \/ PeerLeaves(x) \/ PeerVanishes(x)
       PROVE  Goal
  <2>1. waits' = waits /\ (heard'[p] = heard[p] \/ heard'[p] = "no")
    BY <1>11, PeerFrame
  <2>2. p \in up' /\ heard'[p] = "evicted" => p \in up /\ heard[p] = "evicted"
    BY <1>11, <2>1, PeerFrame
  <2>3. CASE queue' = queue /\ x \notin up'
    <3>1. p \in up' => quiet'[p] = quiet[p]
      BY <1>1, <1>11, <2>3, PeerFrame
    <3> QED
      BY <1>2, <2>1, <2>2, <2>3, <3>1
  <2>4. ASSUME NEW kind \in Kinds, queue' = Append(queue, Event(kind, x, EndPointOf[x])),
               x \in up' => kind \in Signs
        PROVE  Goal
    <3> DEFINE ev == Event(kind, x, EndPointOf[x])
    <3>0. x \in Ids /\ EndPointOf[x] \in EndPoints
      BY Places DEF Ids
    <3>1. ev \in Events /\ ev.kind = kind /\ ev.id = x /\ ev.age = 0
      BY <3>0, EventMade
    <3> HIDE DEF ev
    <3>2. Coming(queue, p, waits[p]) => Coming(queue', p, waits[p])
      BY <1>0, <2>4, <3>1, ComesAfterSend DEF ev
    <3>3. CASE x = p
      <4>1. waits[p] <= quiet[p] => waits[p] <= ev.age + 1
        BY <1>0, <1>3, <3>1
      <4>2. p \in up' /\ waits[p] <= quiet[p] => Coming(queue', p, waits[p])
        BY <1>0, <2>4, <3>1, <3>3, <4>1, ComesAfterSend DEF ev
      <4> QED
        BY <1>2, <2>1, <2>2, <3>2, <4>2
    <3>4. CASE x # p
      <4>1. quiet'[p] = quiet[p]
        BY <1>1, <1>11, <3>4, PeerFrame
      <4> QED
        BY <1>2, <2>1, <2>2, <3>2, <4>1
    <3> QED
      BY <3>3, <3>4
  <2> QED
    BY <1>11, <2>3, <2>4, PeerFrame
<1>12. CASE Tick
  <2>1. heard' = heard /\ up' = up
    BY <1>12 DEF Tick
  <2>2. CASE ~(p \in up /\ heard[p] = "evicted")
    <3>1. waits'[p] = 0
      BY <1>12, <2>2, TickEffect
    <3> QED
      BY <2>1, <2>2, <3>1
  <2>3. CASE p \in up /\ heard[p] = "evicted"
    <3>1. step = "up"
      BY <1>4, <2>3
    <3>2. /\ quiet[p] = 0 /\ quiet'[p] = 1
          /\ \A k \in 1..Len(queue) : queue[k].age < MaxLag
          /\ queue' = [k \in 1..Len(queue) |-> Older(queue[k])]
      BY <1>1, <1>12, <2>3, <3>1 DEF Tick
    <3>3. waits'[p] <= waits[p] + 1 /\ waits'[p] \in Nat
      BY <1>12, <2>3, TickEffect
    <3>4. CASE waits[p] <= quiet[p]
      BY <1>0, <2>1, <2>3, <3>2, <3>3, <3>4
    <3>5. CASE Coming(queue, p, waits[p])
      <4>1. Coming(queue', p, waits[p] + 1)
        BY <1>0, <3>2, <3>5, ComesAfterTick
      <4>2. queue' \in Seq(Events)
        BY <1>0, <3>2, QueueAges
      <4>3. Coming(queue', p, waits'[p])
        BY <1>0, <3>3, <4>1, <4>2, Sooner
      <4> QED
        BY <2>1, <2>3, <4>3
    <3> QED
      BY <1>2, <2>3, <3>4, <3>5
  <2> QED
    BY <2>2, <2>3
<1> QED
  BY <1>6, <1>7, <1>8, <1>9, <1>10, <1>11, <1>12 DEF Next, Starting

LEMMA BackSoonNext ==
  RegistryTypeOK /\ IdentityOK /\ DownOK /\ BackOK /\ EvictedComesBack /\ [Next]_vars => EvictedComesBack'
<1> SUFFICES ASSUME RegistryTypeOK, IdentityOK, DownOK, BackOK, EvictedComesBack, [Next]_vars, NEW p \in Peers
             PROVE  waits'[p] <= MaxLag + 1
  BY DEF EvictedComesBack
<1>0. queue \in Seq(Events) /\ waits[p] \in Nat /\ waits[p] <= MaxLag + 1 /\ p \in Instances
  BY Ages, Places DEF EvictedComesBack
<1>1. CASE waits'[p] = waits[p] \/ waits'[p] = 0
  BY <1>0, <1>1, Numbers
<1>2. CASE Restart \/ Abort \/ Truncate \/ Write
  BY <1>1, <1>2, StartingFrame
<1>3. CASE Join \/ KeepAlive \/ Noise
  BY <1>1, <1>3, SayFrame
<1>4. CASE End \/ GetServices \/ Do \/ Reload \/ UNCHANGED vars
  BY <1>1, <1>4, ReloadFrame DEF End, GetServices, Do, vars
<1>5. CASE BusMessageReceived
  BY <1>1, <1>5, NoteEffect
<1>6. ASSUME NEW x \in Peers, PeerJoins(x) \/ PeerKeepsAlive(x) \/ PeerLeaves(x) \/ PeerVanishes(x)
      PROVE  waits'[p] <= MaxLag + 1
  BY <1>1, <1>6, PeerFrame
<1>7. CASE Tick
  <2>1. CASE ~(p \in up /\ heard[p] = "evicted")
    BY <1>1, <1>7, <2>1, TickEffect
  <2>2. CASE p \in up /\ heard[p] = "evicted"
    <3>1. step = "up"
      BY <2>2 DEF DownOK
    <3>2. quiet[p] = 0 /\ \A k \in 1..Len(queue) : queue[k].age < MaxLag
      BY <1>7, <2>2, <3>1 DEF Tick
    <3>3. waits'[p] <= waits[p] + 1 /\ waits'[p] \in Nat
      BY <1>7, <2>2, TickEffect
    <3>4. Coming(queue, p, waits[p]) => waits[p] <= MaxLag
      BY <1>0, <3>2, ComesAfterTick
    <3>5. waits[p] <= MaxLag
      BY <1>0, <2>2, <3>2, <3>4, Numbers DEF BackOK
    <3> QED
      BY <1>0, <3>3, <3>5, Numbers
  <2> QED
    BY <2>1, <2>2
<1> QED
  BY <1>2, <1>3, <1>4, <1>5, <1>6, <1>7 DEF Next, Starting

LEMMA NotMyselfNext ==
  RegistryTypeOK /\ IdentityOK /\ DownOK /\ QueueOK /\ NotMyself /\ [Next]_vars => NotMyself'
<1> SUFFICES ASSUME RegistryTypeOK, IdentityOK, DownOK, QueueOK, NotMyself, [Next]_vars
             PROVE  NotMyself'
  OBVIOUS
<1>0. EndPointOf[Me] \in EndPoints /\ torn \in BOOLEAN /\ queue \in Seq(Events)
  BY Places DEF RegistryTypeOK
<1>1. CASE \A e \in EndPoints : services'[e] = None
  BY <1>0, <1>1 DEF NotMyself
<1>2. CASE UNCHANGED <<services, step, id, torn>>
  BY <1>2 DEF NotMyself
<1>3. step # "up" => \A e \in EndPoints : services[e] = None
  BY DEF DownOK
<1>4. CASE Restart \/ Abort \/ Truncate \/ Write
  BY <1>1, <1>3, <1>4, StartingFrame
<1>5. CASE Join \/ KeepAlive \/ Noise
  BY <1>1, <1>2, <1>3, <1>5, SayFrame
<1>6. CASE End
  BY <1>1, <1>6 DEF End, Nobody
<1>7. CASE BusMessageReceived
  <2> DEFINE ev == Head(queue)
  <2>1. queue # <<>> /\ step = "up" /\ UNCHANGED <<step, id, torn>>
    BY <1>7 DEF BusMessageReceived
  <2>2. ev \in Events /\ ev = queue[1] /\ 1 \in 1..Len(queue)
    BY <1>0, <2>1, QueueShrinks
  <2>3. ASSUME NEW e \in EndPoints, services'[e] # None
        PROVE  services'[e] = services[e] \/
                 (services'[e] = [id |-> ev.id, age |-> 0] /\ ev.kind \in Signs /\ ev.id # id /\ ev.at = e)
    BY <1>7, <2>3, ReadEffect DEF Effect
  <2>4. ASSUME services'[EndPointOf[Me]] # None PROVE torn
    <3>1. CASE services'[EndPointOf[Me]] = services[EndPointOf[Me]]
      BY <2>4, <3>1 DEF NotMyself
    <3>2. CASE ev.kind \in Signs /\ ev.id # id /\ ev.at = EndPointOf[Me]
      <4>1. ev.kind \in Kinds
        BY <3>2 DEF Signs, Kinds
      <4>2. ~(ev.id \in Peers /\ ev.at = EndPointOf[ev.id])
        BY <3>2, Places
      <4>3. torn = FALSE => ev.id = announced
        BY <2>2, <4>1, <4>2 DEF QueueOK
      <4> QED
        BY <1>0, <2>1, <3>2, <4>3 DEF IdentityOK
    <3> QED
      BY <1>0, <2>3, <2>4, <3>1, <3>2
  <2>5. ASSUME NEW e \in EndPoints, services'[e] # None PROVE services'[e].id # id
    BY <2>1, <2>3, <2>5 DEF NotMyself
  <2> QED
    BY <2>1, <2>4, <2>5 DEF NotMyself
<1>8. CASE GetServices \/ Do \/ Reload \/ UNCHANGED vars
  BY <1>2, <1>8, ReloadFrame DEF GetServices, Do, vars, me
<1>9. ASSUME NEW p \in Peers, PeerJoins(p) \/ PeerKeepsAlive(p) \/ PeerLeaves(p) \/ PeerVanishes(p)
      PROVE  NotMyself'
  BY <1>2, <1>9, PeerFrame DEF me
<1>10. CASE Tick
  <2>1. UNCHANGED <<step, id, torn>>
    BY <1>10 DEF Tick
  <2>2. \A e \in EndPoints : services'[e] # None => services[e] # None /\ services'[e].id = services[e].id
    BY <1>10, TickEffect
  <2> QED
    BY <1>0, <2>1, <2>2 DEF NotMyself
<1> QED
  BY <1>4, <1>5, <1>6, <1>7, <1>8, <1>9, <1>10 DEF Next, Starting

----------------------------------------------------------------------------
(* The theorems. *)

LEMMA StrongInit == Init => Strong
<1> SUFFICES ASSUME Init PROVE Strong
  OBVIOUS
<1>1. queue = <<>> /\ queue \in Seq(Events) /\ Len(queue) = 0
  BY EmptySeq DEF Init
<1>2. RegistryTypeOK
  <2>1. /\ up \subseteq Peers
        /\ step \in {"off", "no registry", "truncate", "write", "ready", "up"}
        /\ exists \in BOOLEAN /\ torn \in BOOLEAN /\ target \in EndPoints \cup {None}
    BY DEF Init
  <2>5. quiet \in [Instances -> 0..1] /\ heard \in [Peers -> {"no", "yes", "evicted"}]
    BY DEF Init
  <2>2. services \in [EndPoints -> [id : Ids, age : 0..(MaxAge + 1)] \cup {None}]
    BY DEF Init, Nobody
  <2>3. /\ silent \in [EndPoints -> 0..(MaxStale + 1)] /\ waits \in [Peers -> 0..(MaxLag + 2)]
        /\ file \in 0..MaxIds /\ id \in 0..MaxIds /\ drawn \in 0..MaxIds /\ announced \in 0..MaxIds
    BY Numbers DEF Init
  <2>4. Len(queue) <= MaxQueue
    BY <1>1, Numbers
  <2> QED
    BY <1>1, <2>1, <2>2, <2>3, <2>4, <2>5 DEF RegistryTypeOK
<1>3. /\ up = {} /\ step = "off" /\ exists = FALSE /\ file = 0 /\ announced = 0 /\ target = None
      /\ \A e \in EndPoints : services[e] = None /\ silent[e] = 0
      /\ \A p \in Peers : heard[p] = "no" /\ waits[p] = 0
  BY DEF Init, Nobody
<1>4. IdentityOK /\ DownOK
  BY <1>3 DEF IdentityOK, DownOK, Running
<1>5. QueueOK /\ NewsOK
  BY <1>1 DEF QueueOK, NewsOK
<1>6. AliveOK /\ EntryOK /\ TargetOK /\ LiveOK /\ BackOK
  BY <1>3 DEF AliveOK, EntryOK, TargetOK, LiveOK, BackOK
<1>7. NotMyself
  BY <1>3, Places DEF NotMyself
<1>8. EvictedComesBack
  BY <1>3, Numbers DEF EvictedComesBack
<1> QED
  BY <1>2, <1>4, <1>5, <1>6, <1>7, <1>8 DEF Strong

LEMMA StrongNext == Strong /\ [Next]_vars => Strong'
<1> SUFFICES ASSUME Strong, [Next]_vars PROVE Strong'
  OBVIOUS
<1>1. RegistryTypeOK' /\ IdentityOK' /\ DownOK' /\ QueueOK' /\ AliveOK'
  BY TypeNext, IdentityNext, DownNext, QueueNext, AliveNext DEF Strong
<1>2. NewsOK' /\ EntryOK' /\ TargetOK'
  BY <1>1, NewsNext, EntryNext, TargetNext DEF Strong
<1>3. LiveOK' /\ BackOK' /\ NotMyself' /\ EvictedComesBack'
  BY LiveNext, BackNext, NotMyselfNext, BackSoonNext DEF Strong
<1> QED
  BY <1>1, <1>2, <1>3 DEF Strong

THEOREM Inductive == Spec => []Strong
<1> QED
  BY StrongInit, StrongNext, PTL DEF Spec

(* The list of services holds what it is meant to: never the service       *)
(* itself, unless a crash tore registry.json; every live instance that was *)
(* heard and not evicted; and one that a late LEAVE evicted again within a *)
(* period and the way of an event.                                         *)
THEOREM RegistrySound == Spec => []RegistryInvariant
<1>1. Strong => RegistryInvariant
  BY DEF Strong, RegistryInvariant, LiveIsListed, LiveOK
<1> QED
  BY <1>1, Inductive, PTL

(* BusMessageReceived sweeps only when it reads; nevertheless no instance  *)
(* is listed, or asked, that has been silent for longer than MaxStale: the *)
(* own events of the service are read like all others.                     *)
THEOREM DeadForgotten == Spec => []DeadAreForgotten
<1>1. Strong => DeadAreForgotten
  <2> SUFFICES ASSUME Strong, NEW e \in EndPoints, services[e] # None \/ target = e
               PROVE  silent[e] <= MaxStale
    BY DEF DeadAreForgotten
  <2>1. CASE services[e] # None
    BY <2>1, EntryBound DEF Strong
  <2>2. CASE target = e
    BY <2>2, RegistryAssumption DEF Strong, TargetOK
  <2> QED
    BY <2>1, <2>2
<1> QED
  BY <1>1, Inductive, PTL

(* The identity announced to the others survives every restart and every   *)
(* rewriting of registry.json, but for a crash while the file is empty.    *)
THEOREM IdentitySound == Spec => IdentityKept
<1>1. Strong /\ [Next]_vars => [announced # 0 /\ announced' # announced => torn]_vars
  BY AnnouncedStays DEF Strong
<1> QED
  BY <1>1, Inductive, PTL DEF Spec, IdentityKept
=============================================================================
