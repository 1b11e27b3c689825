---------------------------- MODULE AutoUpdater ----------------------------
(***************************************************************************)
(* AutoUpdater: devices that do not run the latest firmware are queued by  *)
(* NewConnectionHandler, and a timer takes them one by one, asks the       *)
(* provisioning service whether each may be upgraded, and sends the        *)
(* upgrade to the gateway.                                                 *)
(*                                                                         *)
(* The timer's callback holds Mutex_ from its first look at the queue to   *)
(* its last, the requests included; ToBeUpgraded and Reset wait for it.    *)
(* The answers of the two services, of LatestFirmwareCache and of the      *)
(* table of firmwares are arbitrary.  Poco::Timer calls back from one      *)
(* thread, and its stop() returns when that thread has ended.              *)
(***************************************************************************)
EXTENDS Integers, Sequences, FiniteSets

CONSTANTS
  Devices,        \* serial numbers
  None,           \* nothing in hand, not in the cache
  Word,           \* 2^64, the width of the times
  Window,         \* 300, the age up to which a cached setting was meant to serve
  MaxTime,        \* bound: the clock
  MaxRequests     \* bound: calls of ToBeUpgraded

Settings == [lastCheck : 0..MaxTime, upgrade : {"no", "yes"}]

ASSUME UpdaterAssumption ==
  /\ None \notin Devices /\ None \notin Settings
  /\ Word \in Nat \ {0} /\ Window \in 0..(Word - 1)
  /\ MaxTime \in 0..(Word - 1) /\ MaxRequests \in Nat

VARIABLES
  enabled,        \* AutoUpdaterEnabled_
  running,        \* Running_
  queue,          \* Queue_
  cache,          \* Cache_
  (* Poco::Timer and its thread *)
  timer,          \* "off", "on", or "cancelled" once stop() has cleared the period
  step,           \* what the thread does next
  entry,          \* Entry.first
  lookedAt,       \* its local now, read when the entry was taken
  (* the main thread, the clock *)
  phase,          \* how far Start and Stop are
  now,            \* Utils::Now()
  (* history *)
  asked,          \* accepted calls of ToBeUpgraded, by device
  sent            \* upgrades sent, by device

thread == <<running, timer, step, entry, lookedAt>>
vars == <<enabled, running, queue, cache, timer, step, entry, lookedAt, phase, now, asked, sent>>

InHand == {"settings", "find", "read", "send"}
Locked == step \in InHand \cup {"loop"}

Init ==
  /\ enabled = TRUE /\ running = FALSE
  /\ queue = <<>> /\ cache = [d \in Devices |-> None]
  /\ timer = "off" /\ step = "idle" /\ entry = None /\ lookedAt = 0
  /\ phase = "new" /\ now = 0
  /\ asked = [d \in Devices |-> 0] /\ sent = [d \in Devices |-> 0]

----------------------------------------------------------------------------
(* The other threads. *)

Start(configured) ==
  /\ phase = "new" /\ phase' = "started"
  /\ enabled' = configured
  /\ IF configured THEN running' = FALSE /\ timer' = "on" ELSE UNCHANGED <<running, timer>>
  /\ UNCHANGED <<queue, cache, step, entry, lookedAt, now, asked, sent>>

ToBeUpgraded(d) ==
  /\ enabled /\ ~Locked
  /\ asked[d] < MaxRequests
  /\ queue' = Append(queue, d)
  /\ asked' = [asked EXCEPT ![d] = @ + 1]
  /\ UNCHANGED <<enabled, thread, cache, phase, now, sent>>

(* Mutant: the lock is not taken. *)
ResetUnlocked ==
  /\ phase = "started"
  /\ queue' = <<>> /\ cache' = [d \in Devices |-> None]
  /\ UNCHANGED <<enabled, thread, phase, now, asked, sent>>

Reset ==
  /\ phase = "started" /\ ~Locked
  /\ queue' = <<>> /\ cache' = [d \in Devices |-> None]
  /\ UNCHANGED <<enabled, thread, phase, now, asked, sent>>

(* The clock is the wall clock: it may be set back. *)
SetClock(t) ==
  /\ now' = t
  /\ UNCHANGED <<enabled, thread, queue, cache, phase, asked, sent>>

StopRunning ==
  /\ phase = "started" /\ phase' = "stopping"
  /\ running' = FALSE
  /\ UNCHANGED <<enabled, timer, step, entry, lookedAt, queue, cache, now, asked, sent>>

CancelTimer ==
  /\ phase = "stopping" /\ timer = "on" /\ timer' = "cancelled"
  /\ UNCHANGED <<enabled, running, step, entry, lookedAt, queue, cache, phase, now, asked, sent>>

(* Mutant: Stop does not wait for the timer's thread. *)
StopReturnsAtOnce ==
  /\ phase = "stopping" /\ timer # "on" /\ phase' = "stopped"
  /\ UNCHANGED <<enabled, thread, queue, cache, now, asked, sent>>

StopReturns ==
  /\ phase = "stopping" /\ timer = "off" /\ phase' = "stopped"
  /\ UNCHANGED <<enabled, thread, queue, cache, now, asked, sent>>

MainStep == CancelTimer \/ StopReturns

----------------------------------------------------------------------------
(* The timer's thread. *)

Due ==                    \* the wait is over; a cancel comes too late
  /\ timer = "on" /\ step = "idle" /\ step' = "call"
  /\ UNCHANGED <<enabled, running, timer, entry, lookedAt, queue, cache, phase, now, asked, sent>>

ThreadEnds ==
  /\ timer = "cancelled" /\ step = "idle" /\ timer' = "off"
  /\ UNCHANGED <<enabled, running, step, entry, lookedAt, queue, cache, phase, now, asked, sent>>

OnTimer ==
  /\ step = "call" /\ step' = "lock"
  /\ running' = TRUE
  /\ UNCHANGED <<enabled, timer, entry, lookedAt, queue, cache, phase, now, asked, sent>>

Lock ==
  /\ step = "lock" /\ step' = "loop"
  /\ UNCHANGED <<enabled, running, timer, entry, lookedAt, queue, cache, phase, now, asked, sent>>

(* The difference wraps: it exceeds Window as soon as a second has passed. *)
Stale(d) == cache[d] = None \/ (cache[d].lastCheck - now) % Word > Window

TakeEntry ==              \* a cached setting is not read: firmwareUpgrade stays empty
  /\ step = "loop" /\ queue # <<>> /\ running
  /\ entry' = Head(queue) /\ queue' = Tail(queue) /\ lookedAt' = now
  /\ step' = IF Stale(Head(queue)) THEN "settings" ELSE "find"
  /\ UNCHANGED <<enabled, running, timer, cache, phase, now, asked, sent>>

LeaveLoop ==
  /\ step = "loop" /\ (queue = <<>> \/ ~running)
  /\ step' = "idle"
  /\ UNCHANGED <<enabled, running, timer, entry, lookedAt, queue, cache, phase, now, asked, sent>>

NextEntry == step' = "loop" /\ entry' = None

(* A request that fails is answered "no". *)
GetFirmwareOptions ==
  /\ step = "settings"
  /\ \E answer \in {"no", "yes"} :
       /\ cache' = [cache EXCEPT ![entry] = [lastCheck |-> lookedAt, upgrade |-> answer]]
       /\ IF answer = "no" THEN NextEntry ELSE step' = "find" /\ UNCHANGED entry
  /\ UNCHANGED <<enabled, running, timer, lookedAt, queue, phase, now, asked, sent>>

FindLatestFirmware ==
  /\ step = "find"
  /\ \/ step' = "read" /\ UNCHANGED entry
     \/ NextEntry
  /\ UNCHANGED <<enabled, running, timer, lookedAt, queue, cache, phase, now, asked, sent>>

GetFirmware ==            \* the row may be gone by now
  /\ step = "read"
  /\ \/ step' = "send" /\ UNCHANGED entry
     \/ NextEntry
  /\ UNCHANGED <<enabled, running, timer, lookedAt, queue, cache, phase, now, asked, sent>>

(* Mutant: a command that the gateway refused is queued again. *)
SendAndRequeue ==
  /\ step = "send" /\ sent[entry] < MaxRequests + 1
  /\ sent' = [sent EXCEPT ![entry] = @ + 1]
  /\ queue' \in {queue, Append(queue, entry)}
  /\ NextEntry
  /\ UNCHANGED <<enabled, running, timer, lookedAt, cache, phase, now, asked>>

SendFirmwareUpgradeCommand ==     \* refused or not, it is only logged
  /\ step = "send"
  /\ sent' = [sent EXCEPT ![entry] = @ + 1]
  /\ NextEntry
  /\ UNCHANGED <<enabled, running, timer, lookedAt, queue, cache, phase, now, asked>>

(* Mutants: the entry is put back; the entry is not given up. *)
ThrowRequeues ==
  /\ step \in {"settings", "send"}
  /\ queue' = Append(queue, entry) /\ NextEntry
  /\ UNCHANGED <<enabled, running, timer, lookedAt, cache, phase, now, asked, sent>>

Throw ==                  \* out of a request, caught in the loop: the entry is dropped
  /\ step \in {"settings", "send"}
  /\ NextEntry
  /\ UNCHANGED <<enabled, running, timer, lookedAt, queue, cache, phase, now, asked, sent>>

TimerStep ==
  \/ Due \/ ThreadEnds \/ OnTimer \/ Lock \/ TakeEntry \/ LeaveLoop
  \/ GetFirmwareOptions \/ FindLatestFirmware \/ GetFirmware
  \/ SendFirmwareUpgradeCommand \/ Throw

Next ==
  \/ TimerStep \/ MainStep \/ StopRunning \/ Reset
  \/ \E c \in BOOLEAN : Start(c)
  \/ \E d \in Devices : ToBeUpgraded(d)
  \/ \E t \in 0..MaxTime : SetClock(t)

Spec == Init /\ [][Next]_vars

(* The timer's thread runs; Stop, once called, goes on.                    *)
FairSpec == Spec /\ WF_vars(TimerStep) /\ WF_vars(MainStep)

----------------------------------------------------------------------------
(* Properties. *)

FlagsOK == enabled \in BOOLEAN /\ running \in BOOLEAN
DataOK ==
  /\ queue \in Seq(Devices) /\ cache \in [Devices -> Settings \cup {None}]
  /\ timer \in {"off", "on", "cancelled"}
  /\ step \in {"idle", "call", "lock", "loop"} \cup InHand
  /\ entry \in Devices \cup {None} /\ (entry # None <=> step \in InHand)
  /\ lookedAt \in 0..MaxTime
  /\ phase \in {"new", "started", "stopping", "stopped"} /\ now \in 0..MaxTime
  /\ asked \in [Devices -> Nat] /\ sent \in [Devices -> Nat]
TypeOK == FlagsOK /\ DataOK

(* No upgrade is prepared for a device before the provisioning service has *)
(* been asked about it, however the cache was emptied meanwhile.           *)
SettingsKnown == step \in {"find", "read", "send"} => cache[entry] # None

(* A request is answered by one upgrade at most: what was sent, is in hand *)
(* or still queued for a device is no more than what was asked.            *)
Waiting(d) == Cardinality({i \in DOMAIN queue : queue[i] = d})
OncePerRequest ==
  \A d \in Devices : sent[d] + Waiting(d) + (IF entry = d THEN 1 ELSE 0) <= asked[d]

(* Nothing is sent once Stop has returned. *)
QuietAfterStop == [][phase = "stopped" => UNCHANGED sent]_vars

(* Stop returns, although a callback that was due may set Running_ again.  *)
StopEnds == (phase = "stopping") ~> (phase = "stopped")

(* While the updater is on, the queue is emptied.                          *)
Drained == (enabled /\ phase = "started" /\ queue # <<>>) ~> (queue = <<>> \/ phase # "started")

(* The updater comes to its ends: a stop returns, and what was queued is   *)
(* looked at.                                                              *)
UpdaterProgress == StopEnds /\ Drained
============================================================================
