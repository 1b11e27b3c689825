-------------------------- MODULE ServiceRegistry --------------------------
(***************************************************************************)
(* What a service knows of the others: the registry that                   *)
(* MicroService::BusMessageReceived keeps from the JOIN, KEEP-ALIVE and    *)
(* LEAVE events of all instances on one Kafka topic, and the request that  *)
(* OpenAPIRequests sends to the first instance listed.  One instance, Me,  *)
(* is modelled with its start, in which it reads its identity from         *)
(* registry.json (AppServiceRegistry); the others run the same             *)
(* EventBusManager and only their events matter.                           *)
(*                                                                         *)
(* The registry maps a private end point to the instance last heard there; *)
(* an instance that replaces another has its end point.  Time is counted   *)
(* in periods of the bus timer; what is old is kept as an age.             *)
(***************************************************************************)
EXTENDS Naturals, Sequences, FiniteSets, SequencesExt, FiniteSetsExt

CONSTANTS
  Peers,          \* the other instances, each with an identity of its own
  Me,             \* this instance
  EndPointOf,     \* private end point of each instance; the registry is ordered by it
  None,           \* no entry, no target
  MaxAge,         \* 120 s, in periods of the bus timer
  MaxLag,         \* bound: periods an event may take
  MaxQueue,       \* bound: events not yet read
  MaxIds          \* bound: identities that Me may draw

Instances == Peers \cup {Me}
EndPoints == {EndPointOf[i] : i \in Instances}
Ids == Peers \cup 1..MaxIds        \* an identity of Me is the number of the draw
Kinds == {"join", "keep-alive", "leave"}
Events == [kind : Kinds, id : Ids, at : EndPoints, age : 0..MaxLag]
          \cup [kind : {"garbage", "other"}, age : 0..MaxLag]

(* An entry outlives the last sign of its instance at most this long: the  *)
(* event is on its way, ages, and waits for the next event, Me's own at    *)
(* the latest, which is on its way too.                                    *)
MaxStale == MaxLag + (MaxAge + 1) + MaxLag

ASSUME RegistryAssumption ==
  /\ Me \notin Peers /\ IsFiniteSet(Peers) /\ Peers \cap Nat = {}
  /\ EndPointOf \in [Instances -> Nat]
  /\ \A p \in Peers : EndPointOf[p] # EndPointOf[Me]
  /\ MaxAge \in Nat /\ MaxLag \in Nat /\ MaxQueue \in Nat /\ MaxIds \in Nat
  /\ MaxAge > MaxLag
  /\ None \notin EndPoints \cup [id : Ids, age : 0..(MaxAge + 1)]

VARIABLES
  (* the instances and the topic *)
  up,             \* peers that run
  quiet,          \* each instance: periods since its last event
  queue,          \* events Me has not read
  silent,         \* each end point: periods of Me without an instance there
  (* Me *)
  step,           \* "off", a step of the start, "up"
  exists,         \* registry.json exists
  file,           \* the identity in it, 0 if it cannot be read or has none
  id,             \* ID_
  services,       \* Services_: an entry [id, age] or None for each end point
  target,         \* the end point a request is about to be sent to
  (* history and bounds *)
  heard,          \* each peer: "no", "yes", or "evicted" by the LEAVE of another
  waits,          \* each peer: periods it has lived evicted and not listed
  drawn,          \* identities drawn so far
  announced,      \* the identity of the last JOIN of Me, 0 before the first
  torn            \* a crash fell between the truncation of the file and its writing

me == <<step, exists, file, id, services, target, drawn, announced, torn>>
world == <<up, quiet, queue, silent>>
vars == <<world, me, heard, waits>>

Nobody == [e \in EndPoints |-> None]
Cap(n, max) == IF n > max THEN max ELSE n

Init ==
  /\ up = {} /\ quiet = [i \in Instances |-> 0] /\ queue = <<>>
  /\ silent = [e \in EndPoints |-> 0]
  /\ step = "off" /\ exists = FALSE /\ file = 0 /\ id = 0 /\ services = Nobody
  /\ target = None
  /\ heard = [p \in Peers |-> "no"] /\ waits = [p \in Peers |-> 0] /\ drawn = 0 /\ announced = 0 /\ torn = FALSE

----------------------------------------------------------------------------
(* The start of Me: LoadMyConfig calls GetSystemId.  The function          *)
(* AppServiceRegistry() returns a copy, whose destructor saves the file:   *)
(* every look at it writes it anew, truncated first.                       *)

Restart ==
  /\ step = "off"
  /\ step' = IF exists THEN "truncate" ELSE "no registry"
  /\ id' = file
  /\ UNCHANGED <<world, exists, file, services, target, heard, waits, drawn, announced, torn>>

(* No file: Registry_ is null, Get throws, and the destructor that runs    *)
(* meanwhile opens the file and throws again, which ends the process.      *)
Abort ==
  /\ step = "no registry"
  /\ exists' = TRUE
  /\ step' = "off"
  /\ UNCHANGED <<world, file, id, services, target, heard, waits, drawn, announced, torn>>

(* Save: the file is opened with std::ios::trunc.                          *)
Truncate ==
  /\ step = "truncate"
  /\ file' = 0
  /\ step' = "write"
  /\ UNCHANGED <<world, exists, id, services, target, heard, waits, drawn, announced, torn>>

(* Mutant: the identity drawn is not saved.                                *)
WriteNoId ==
  /\ step = "write"
  /\ file' = 0
  /\ IF id # 0 THEN step' = "ready" /\ UNCHANGED <<id, drawn>>
     ELSE /\ drawn < MaxIds /\ drawn' = drawn + 1 /\ id' = drawn + 1
          /\ step' = "truncate"
  /\ UNCHANGED <<world, exists, services, target, heard, waits, announced, torn>>

(* Save after Get; without an identity one is drawn, and saved by Set.     *)
Write ==
  /\ step = "write"
  /\ file' = id
  /\ IF id # 0 THEN step' = "ready" /\ UNCHANGED <<id, drawn>>
     ELSE /\ drawn < MaxIds /\ drawn' = drawn + 1 /\ id' = drawn + 1
          /\ step' = "truncate"
  /\ UNCHANGED <<world, exists, services, target, heard, waits, announced, torn>>

(* While it is being saved the file is empty. *)
Saving == step = "write" \/ (step = "up" /\ file = 0)

(* MicroService::Reload, on the command of a client: GetSystemId finds the *)
(* identity in the registry that was read at the start, and the copy it    *)
(* asked saves the file once more, while everything else goes on.          *)
ReloadTruncates ==
  /\ step = "up" /\ ~Saving
  /\ file' = 0
  /\ UNCHANGED <<world, step, exists, id, services, target, heard, waits, drawn, announced, torn>>

ReloadWrites ==
  /\ step = "up" /\ Saving
  /\ file' = id
  /\ UNCHANGED <<world, step, exists, id, services, target, heard, waits, drawn, announced, torn>>

Reload == ReloadTruncates \/ ReloadWrites

----------------------------------------------------------------------------
(* EventBusManager of every instance. *)

Event(kind, who, at) == [kind |-> kind, id |-> who, at |-> at, age |-> 0]
Room == Len(queue) < MaxQueue
Send(event) == Room /\ queue' = Append(queue, event)
Spoke(i) == quiet' = [quiet EXCEPT ![i] = 0]

PeerJoins(p) ==
  /\ p \notin up /\ up' = up \cup {p}
  /\ Send(Event("join", p, EndPointOf[p])) /\ Spoke(p)
  /\ silent' = [silent EXCEPT ![EndPointOf[p]] = 0]
  /\ heard' = [heard EXCEPT ![p] = "no"]
  /\ UNCHANGED <<me, waits>>

PeerKeepsAlive(p) ==
  /\ p \in up /\ quiet[p] = 1
  /\ Send(Event("keep-alive", p, EndPointOf[p])) /\ Spoke(p)
  /\ UNCHANGED <<up, silent, me, heard, waits>>

PeerLeaves(p) ==
  /\ p \in up /\ up' = up \ {p}
  /\ Send(Event("leave", p, EndPointOf[p])) /\ Spoke(p)
  /\ UNCHANGED <<silent, me, heard, waits>>

(* It crashes, or its LEAVE was dropped by the stop of its producer.       *)
PeerVanishes(p) ==
  /\ p \in up /\ up' = up \ {p} /\ Spoke(p)
  /\ UNCHANGED <<queue, silent, me, heard, waits>>

Join ==
  /\ step = "ready" /\ step' = "up"
  /\ Send(Event("join", id, EndPointOf[Me])) /\ Spoke(Me)
  /\ announced' = id
  /\ UNCHANGED <<up, silent, exists, file, id, services, target, heard, waits, drawn, torn>>

KeepAlive ==
  /\ step = "up" /\ quiet[Me] = 1
  /\ Send(Event("keep-alive", id, EndPointOf[Me])) /\ Spoke(Me)
  /\ UNCHANGED <<up, silent, me, heard, waits>>

(* The process ends, with LEAVE or without.                                *)
End ==
  /\ step # "off" /\ step' = "off"
  /\ \/ step = "up" /\ Send(Event("leave", id, EndPointOf[Me]))
     \/ UNCHANGED queue
  /\ id' = 0 /\ services' = Nobody /\ target' = None
  /\ silent' = [e \in EndPoints |-> 0]
  /\ heard' = [p \in Peers |-> "no"] /\ waits' = [p \in Peers |-> 0]
  /\ torn' = (torn \/ Saving)
  /\ Spoke(Me)
  /\ UNCHANGED <<up, exists, file, drawn, announced>>

(* Something that cannot be parsed, or an event of another kind.           *)
Noise ==
  /\ \E kind \in {"garbage", "other"} : Send([kind |-> kind, age |-> 0])
  /\ UNCHANGED <<up, quiet, silent, me, heard, waits>>

----------------------------------------------------------------------------
(* BusMessageReceived. *)

Sweep(S) == [e \in EndPoints |-> IF S[e] # None /\ S[e].age > MaxAge THEN None ELSE S[e]]

Heard(S, ev) ==
  CASE ev.kind = "leave"                -> [S EXCEPT ![ev.at] = None]
    [] ev.kind \in {"join", "keep-alive"} -> [S EXCEPT ![ev.at] = [id |-> ev.id, age |-> 0]]

(* Mutant: KEEP-ALIVE refreshes an entry and never makes one.              *)
KeepAliveRefreshes(S, ev) ==
  IF ev.kind = "other" \/ ev.id = id \/ (ev.kind = "keep-alive" /\ S[ev.at] = None)
  THEN S ELSE Heard(S, ev)

Updated(S, ev) ==
  IF ev.kind = "other" \/ ev.id = id THEN S ELSE Heard(S, ev)

(* For the properties: what became of each peer with this event. *)
Note(ev) ==
  LET listed(p) == services'[EndPointOf[p]] # None
  IN /\ heard' = [p \in Peers |->
          CASE ev.kind \notin Kinds \/ ev.at # EndPointOf[p] -> heard[p]
            [] OTHER ->
               IF ev.kind = "leave"
               THEN IF ev.id = p THEN "no" ELSE IF heard[p] = "yes" THEN "evicted" ELSE heard[p]
               ELSE IF ev.id = p /\ listed(p) THEN "yes" ELSE heard[p]]
     /\ waits' = [p \in Peers |->
          IF ev.kind \in Kinds /\ ev.id = p /\ listed(p) THEN 0 ELSE waits[p]]

(* Mutant: only the events of others end in a sweep.                       *)
SweepForOthers ==
  /\ step = "up" /\ queue # <<>>
  /\ queue' = Tail(queue)
  /\ LET ev == Head(queue)
     IN /\ services' = IF ev.kind \in {"garbage", "other"} \/ ev.id = id THEN services
                       ELSE Sweep(Updated(services, ev))
        /\ Note(ev)
  /\ UNCHANGED <<up, quiet, silent, step, exists, file, id, target, drawn, announced, torn>>

(* What cannot be parsed ends in the catch, past the sweep.                *)
BusMessageReceived ==
  /\ step = "up" /\ queue # <<>>
  /\ queue' = Tail(queue)
  /\ LET ev == Head(queue)
     IN /\ services' = IF ev.kind = "garbage" THEN services ELSE Sweep(Updated(services, ev))
        /\ Note(ev)
  /\ UNCHANGED <<up, quiet, silent, step, exists, file, id, target, drawn, announced, torn>>

----------------------------------------------------------------------------
(* A request to another service: the first entry of the registry is asked, *)
(* and no other, whatever comes of it: without an instance there the       *)
(* caller gets a gateway timeout, though another one may be listed.        *)

Listed == {e \in EndPoints : services[e] # None}
Alive(e) == \E p \in up : EndPointOf[p] = e

GetServices ==
  /\ step = "up" /\ target = None /\ Listed # {}
  /\ target' = Min(Listed)
  /\ UNCHANGED <<world, step, exists, file, id, services, heard, waits, drawn, announced, torn>>

Do ==
  /\ target # None
  /\ target' = None
  /\ UNCHANGED <<world, step, exists, file, id, services, heard, waits, drawn, announced, torn>>

----------------------------------------------------------------------------
(* A period passes: no instance is silent for longer, no request waits     *)
(* longer to be sent, and no event takes longer than MaxLag, as long as Me *)
(* is there to read.                                                       *)

Older(n) == [n EXCEPT !.age = Cap(@ + 1, MaxLag)]

Tick ==
  /\ step = "up" => /\ \A p \in up : quiet[p] = 0
                    /\ quiet[Me] = 0 /\ target = None
                    /\ \A k \in 1..Len(queue) : queue[k].age < MaxLag
  /\ step \in {"off", "up"}
  /\ quiet' = [i \in Instances |->
                 IF i \in up \/ (i = Me /\ step = "up") THEN 1 ELSE 0]
  /\ queue' = [k \in 1..Len(queue) |-> Older(queue[k])]
  /\ silent' = [e \in EndPoints |->
       IF step = "off" \/ Alive(e) THEN 0 ELSE Cap(silent[e] + 1, MaxStale + 1)]
  /\ services' = [e \in EndPoints |->
       IF services[e] = None THEN None ELSE [services[e] EXCEPT !.age = Cap(@ + 1, MaxAge + 1)]]
  /\ waits' = [p \in Peers |->
       IF p \in up /\ heard[p] = "evicted" /\ services[EndPointOf[p]] = None
       THEN Cap(waits[p] + 1, MaxLag + 2) ELSE 0]
  /\ UNCHANGED <<up, step, exists, file, id, target, heard, drawn, announced, torn>>

Starting == Restart \/ Abort \/ Truncate \/ Write \/ Join

Next ==
  \/ Starting \/ KeepAlive \/ End \/ BusMessageReceived \/ GetServices \/ Do \/ Reload
  \/ Noise \/ Tick
  \/ \E p \in Peers : PeerJoins(p) \/ PeerKeepsAlive(p) \/ PeerLeaves(p) \/ PeerVanishes(p)

Spec == Init /\ [][Next]_vars

----------------------------------------------------------------------------
(* Properties. *)

RegistryTypeOK ==
  /\ up \subseteq Peers /\ quiet \in [Instances -> 0..1]
  /\ queue \in Seq(Events) /\ Len(queue) <= MaxQueue
  /\ silent \in [EndPoints -> 0..(MaxStale + 1)]
  /\ step \in {"off", "no registry", "truncate", "write", "ready", "up"}
  /\ exists \in BOOLEAN /\ file \in 0..MaxIds /\ id \in 0..MaxIds
  /\ services \in [EndPoints -> [id : Ids, age : 0..(MaxAge + 1)] \cup {None}]
  /\ target \in EndPoints \cup {None}
  /\ heard \in [Peers -> {"no", "yes", "evicted"}]
  /\ waits \in [Peers -> 0..(MaxLag + 2)] /\ drawn \in 0..MaxIds /\ announced \in 0..MaxIds /\ torn \in BOOLEAN

(* What is listed, or about to be asked, was alive not long ago: a zombie  *)
(* is forgotten although the sweep runs only when an event is read, since  *)
(* the own events of a service come back to it and end in the sweep too.   *)
DeadAreForgotten ==
  \A e \in EndPoints : services[e] # None \/ target = e => silent[e] <= MaxStale

(* An instance that lives, was heard, and was not evicted stays listed:    *)
(* KEEP-ALIVE refreshes its entry before the sweep reaches it.             *)
LiveIsListed ==
  step = "up" => \A p \in up : heard[p] = "yes" => services[EndPointOf[p]] # None

(* A service does not list itself, and sends itself no request: only the   *)
(* events it sent under an identity it has lost are taken for another's.   *)
NotMyself ==
  /\ services[EndPointOf[Me]] # None => torn
  /\ step = "up" => \A e \in EndPoints : services[e] # None => services[e].id # id

(* A service keeps the identity it announced over every restart, but for a *)
(* crash while registry.json, rewritten by every start and reload, is empty. *)
IdentityKept ==
  [][announced # 0 /\ announced' # announced => torn]_vars

(* A LEAVE that comes after the JOIN of a successor at the same end point  *)
(* removes the successor; its next KEEP-ALIVE brings it back: it is missed *)
(* for a period of the bus timer and the way of the event, no longer.      *)
EvictedComesBack ==
  \A p \in Peers : waits[p] <= MaxLag + 1

(* The invariants of the list of services together: it holds what it is    *)
(* meant to, never the service itself, every live service that was heard,  *)
(* and one that was evicted by a late LEAVE again soon.                    *)
RegistryInvariant == RegistryTypeOK /\ NotMyself /\ LiveIsListed /\ EvictedComesBack
============================================================================
