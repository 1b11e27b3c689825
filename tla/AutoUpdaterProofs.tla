------------------------- MODULE AutoUpdaterProofs -------------------------
(***************************************************************************)
(* For any number of devices, requests and seconds: AutoUpdater is well    *)
(* typed, never prepares an upgrade before the provisioning service has    *)
(* been asked, sends a device at most one command for each time it was     *)
(* queued, and sends nothing once Stop has returned.                       *)
(***************************************************************************)
EXTENDS AutoUpdater, FiniteSetTheorems, FunctionTheorems, SequenceTheorems, TLAPS

USE DEF InHand, thread

LEMMA FlagsNext == FlagsOK /\ [Next]_vars => FlagsOK'
BY ZenonT(30) DEF FlagsOK, Next, vars, TimerStep, MainStep, Due, ThreadEnds, OnTimer, Lock,
  TakeEntry, LeaveLoop, GetFirmwareOptions, FindLatestFirmware, GetFirmware,
  SendFirmwareUpgradeCommand, Throw, CancelTimer, StopReturns, StopRunning, Reset, Start,
  ToBeUpgraded, SetClock

LEMMA DataNext == DataOK /\ [Next]_vars => DataOK'
<1> SUFFICES ASSUME DataOK, [Next]_vars PROVE DataOK'
  OBVIOUS
<1> USE UpdaterAssumption
<1>1. ASSUME NEW c \in BOOLEAN, Start(c) PROVE DataOK'
  BY <1>1 DEF DataOK, Start
<1>2. ASSUME NEW d \in Devices, ToBeUpgraded(d) PROVE DataOK'
  BY <1>2 DEF DataOK, ToBeUpgraded
<1>3. CASE Reset
  BY <1>3 DEF DataOK, Reset
<1>4. ASSUME NEW t \in 0..MaxTime, SetClock(t) PROVE DataOK'
  BY <1>4 DEF DataOK, SetClock
<1>5. CASE StopRunning \/ MainStep
  BY <1>5 DEF DataOK, StopRunning, MainStep, CancelTimer, StopReturns
<1>6. CASE Due \/ ThreadEnds \/ OnTimer \/ Lock \/ LeaveLoop
  BY <1>6 DEF DataOK, Due, ThreadEnds, OnTimer, Lock, LeaveLoop
<1>7. CASE TakeEntry
  BY <1>7 DEF DataOK, TakeEntry
<1>8. CASE GetFirmwareOptions
  <2>1. PICK answer \in {"no", "yes"} :
          /\ cache' = [cache EXCEPT ![entry] = [lastCheck |-> lookedAt, upgrade |-> answer]]
          /\ IF answer = "no" THEN NextEntry ELSE step' = "find" /\ UNCHANGED entry
    BY <1>8 DEF GetFirmwareOptions
  <2>2. [lastCheck |-> lookedAt, upgrade |-> answer] \in Settings
    BY DEF DataOK, Settings
  <2>3. cache' \in [Devices -> Settings \cup {None}]
    BY <2>1, <2>2 DEF DataOK
  <2> QED
    BY <1>8, <2>1, <2>3 DEF DataOK, GetFirmwareOptions, NextEntry
<1>9. CASE FindLatestFirmware \/ GetFirmware \/ Throw
  BY <1>9 DEF DataOK, FindLatestFirmware, GetFirmware, Throw, NextEntry
<1>10. CASE SendFirmwareUpgradeCommand
  BY <1>10 DEF DataOK, SendFirmwareUpgradeCommand, NextEntry
<1>11. CASE UNCHANGED vars
  BY <1>11 DEF DataOK, vars
<1> QED
  BY <1>1, <1>2, <1>3, <1>4, <1>5, <1>6, <1>7, <1>8, <1>9, <1>10, <1>11 DEF Next, TimerStep

(* Every reachable state is well-formed; in particular the thread has a    *)
(* device in hand exactly while it works on one.                           *)
THEOREM TypeCorrect == Spec => []TypeOK
<1>1. Init => FlagsOK
  BY DEF Init, FlagsOK
<1>2. Init => DataOK
  BY UpdaterAssumption DEF Init, DataOK
<1> QED
  BY <1>1, <1>2, FlagsNext, DataNext, PTL DEF Spec, TypeOK

(* No upgrade is prepared for a device before the provisioning service has *)
(* been asked about it: a reload, which empties the cache, waits for the   *)
(* mutex that the callback holds.                                          *)
THEOREM SettingsSound == Spec => []SettingsKnown
<1>1. Init => SettingsKnown
  BY DEF Init, SettingsKnown
<1>2. TypeOK /\ SettingsKnown /\ [Next]_vars => SettingsKnown'
  <2> SUFFICES ASSUME TypeOK, SettingsKnown, [Next]_vars PROVE SettingsKnown'
    OBVIOUS
  <2> USE UpdaterAssumption DEF SettingsKnown
  <2>1. CASE Reset
    BY <2>1 DEF Reset, Locked
  <2>2. CASE TakeEntry
    BY <2>2 DEF TakeEntry, Stale
  <2>3. CASE GetFirmwareOptions
    <3>1. PICK answer \in {"no", "yes"} :
            /\ cache' = [cache EXCEPT ![entry] = [lastCheck |-> lookedAt, upgrade |-> answer]]
            /\ IF answer = "no" THEN NextEntry ELSE step' = "find" /\ UNCHANGED entry
      BY <2>3 DEF GetFirmwareOptions
    <3>2. [lastCheck |-> lookedAt, upgrade |-> answer] \in Settings
      BY DEF TypeOK, DataOK, Settings
    <3>3. entry \in Devices /\ cache'[entry] # None
      BY <2>3, <3>1, <3>2 DEF TypeOK, DataOK, GetFirmwareOptions
    <3> QED
      BY <3>1, <3>3 DEF NextEntry
  <2>4. CASE \/ Due \/ ThreadEnds \/ OnTimer \/ Lock \/ LeaveLoop \/ FindLatestFirmware
             \/ GetFirmware \/ SendFirmwareUpgradeCommand \/ Throw
    BY <2>4 DEF Due, ThreadEnds, OnTimer, Lock, LeaveLoop, FindLatestFirmware, GetFirmware,
                SendFirmwareUpgradeCommand, Throw, NextEntry
  <2>5. CASE MainStep \/ StopRunning \/ (\E c \in BOOLEAN : Start(c))
             \/ (\E d \in Devices : ToBeUpgraded(d)) \/ (\E t \in 0..MaxTime : SetClock(t))
    BY <2>5 DEF MainStep, CancelTimer, StopReturns, StopRunning, Start, ToBeUpgraded, SetClock
  <2>6. CASE UNCHANGED vars
    BY <2>6 DEF vars
  <2> QED
    BY <2>1, <2>2, <2>3, <2>4, <2>5, <2>6 DEF Next, TimerStep
<1> QED
  BY <1>1, <1>2, TypeCorrect, PTL DEF Spec

(* Stop has returned only when the timer's thread has ended, and that      *)
(* thread ends only between two callbacks.                                 *)
QuietInv == (timer = "off" => step = "idle") /\ (phase = "stopped" => timer = "off")

LEMMA QuietNext == TypeOK /\ QuietInv /\ [Next]_vars => QuietInv'
<1> SUFFICES ASSUME TypeOK, QuietInv, [Next]_vars PROVE QuietInv'
  OBVIOUS
<1> USE DEF QuietInv
<1>1. CASE MainStep \/ StopRunning \/ Reset
  BY <1>1 DEF MainStep, CancelTimer, StopReturns, StopRunning, Reset
<1>2. CASE \/ \E c \in BOOLEAN : Start(c)
           \/ \E d \in Devices : ToBeUpgraded(d)
           \/ \E t \in 0..MaxTime : SetClock(t)
  BY <1>2 DEF Start, ToBeUpgraded, SetClock
<1>3. CASE Due \/ ThreadEnds \/ OnTimer \/ Lock \/ TakeEntry \/ LeaveLoop
  BY <1>3 DEF Due, ThreadEnds, OnTimer, Lock, TakeEntry, LeaveLoop
<1>4. CASE \/ GetFirmwareOptions \/ FindLatestFirmware \/ GetFirmware
           \/ SendFirmwareUpgradeCommand \/ Throw
  BY <1>4 DEF GetFirmwareOptions, FindLatestFirmware, GetFirmware, SendFirmwareUpgradeCommand,
              Throw, NextEntry
<1>5. CASE UNCHANGED vars
  BY <1>5 DEF vars
<1> QED
  BY <1>1, <1>2, <1>3, <1>4, <1>5 DEF Next, TimerStep

(* Nothing is sent once Stop has returned, although a callback that was    *)
(* due when Stop was called may run until its queue is empty.              *)
THEOREM QuietSound == Spec => QuietAfterStop
<1>1. Init => QuietInv
  BY DEF Init, QuietInv
<1>2. QuietInv /\ [Next]_vars => [phase = "stopped" => UNCHANGED sent]_vars
  <2> SUFFICES ASSUME QuietInv, Next, phase = "stopped" PROVE UNCHANGED sent
    OBVIOUS
  <2>1. step = "idle"
    BY DEF QuietInv
  <2>2. ~SendFirmwareUpgradeCommand
    BY <2>1 DEF SendFirmwareUpgradeCommand
  <2> QED
    BY <2>2 DEF Next, TimerStep, MainStep, Due, ThreadEnds, OnTimer, Lock, TakeEntry, LeaveLoop,
      GetFirmwareOptions, FindLatestFirmware, GetFirmware, Throw, CancelTimer, StopReturns,
      StopRunning, Reset, Start, ToBeUpgraded, SetClock
<1> QED
  BY <1>1, <1>2, TypeCorrect, QuietNext, PTL DEF Spec, QuietAfterStop

----------------------------------------------------------------------------
(* Counting the requests of a device. *)

Places(q, d) == {i \in DOMAIN q : q[i] = d}
One(b) == IF b THEN 1 ELSE 0

(* A queue holds a device in finitely many places.                         *)
LEMMA PlacesFinite ==
  ASSUME NEW q \in Seq(Devices), NEW d
  PROVE  IsFiniteSet(Places(q, d)) /\ Cardinality(Places(q, d)) \in Nat
<1>1. DOMAIN q = 1..Len(q) /\ Len(q) \in Nat
  BY LenProperties
<1>2. IsFiniteSet(1..Len(q))
  BY <1>1, FS_Interval
<1>3. Places(q, d) \in SUBSET (1..Len(q))
  BY <1>1 DEF Places
<1>4. IsFiniteSet(Places(q, d))
  BY <1>2, <1>3, FS_Subset
<1> QED
  BY <1>4, FS_CardinalityType

(* ToBeUpgraded puts a device in one more place.                           *)
LEMMA PlacesAppend ==
  ASSUME NEW q \in Seq(Devices), NEW e \in Devices, NEW d
  PROVE  Cardinality(Places(Append(q, e), d)) = Cardinality(Places(q, d)) + One(e = d)
<1>1. /\ DOMAIN q = 1..Len(q) /\ Len(q) \in Nat
      /\ DOMAIN Append(q, e) = 1..(Len(q) + 1)
  BY LenProperties, AppendProperties
<1>2. \A i \in 1..(Len(q) + 1) : Append(q, e)[i] = IF i = Len(q) + 1 THEN e ELSE q[i]
  BY <1>1, AppendProperties
<1>3. Places(Append(q, e), d) =
        IF e = d THEN Places(q, d) \cup {Len(q) + 1} ELSE Places(q, d)
  BY <1>1, <1>2 DEF Places
<1>4. Len(q) + 1 \notin Places(q, d)
  BY <1>1 DEF Places
<1>5. IsFiniteSet(Places(q, d)) /\ Cardinality(Places(q, d)) \in Nat
  BY PlacesFinite
<1>6. Cardinality(Places(q, d) \cup {Len(q) + 1}) = Cardinality(Places(q, d)) + 1
  BY <1>4, <1>5, FS_AddElement
<1> QED
  BY <1>3, <1>5, <1>6 DEF One

(* Taking the head of the queue frees the place of that device.            *)
LEMMA PlacesTail ==
  ASSUME NEW q \in Seq(Devices), q # <<>>, NEW d
  PROVE  Cardinality(Places(q, d)) = Cardinality(Places(Tail(q), d)) + One(Head(q) = d)
<1> DEFINE rest == Places(Tail(q), d)
           shift == [i \in rest |-> i + 1]
<1>1. /\ DOMAIN q = 1..Len(q) /\ Len(q) \in Nat \ {0}
      /\ Tail(q) \in Seq(Devices) /\ Len(Tail(q)) = Len(q) - 1
      /\ DOMAIN Tail(q) = 1..(Len(q) - 1)
      /\ \A i \in 1..(Len(q) - 1) : Tail(q)[i] = q[i + 1]
  BY LenProperties, HeadTailProperties, EmptySeq
<1>2. Head(q) = q[1]
  OBVIOUS
<1>3. shift \in [rest -> Places(q, d) \ {1}]
  BY <1>1 DEF Places
<1>4. \A i, j \in rest : shift[i] = shift[j] => i = j
  BY <1>1 DEF Places
<1>5. \A j \in Places(q, d) \ {1} : \E i \in rest : shift[i] = j
  <2> TAKE j \in Places(q, d) \ {1}
  <2>1. j - 1 \in rest /\ shift[j - 1] = j
    BY <1>1 DEF Places
  <2> QED
    BY <2>1
<1>6. shift \in Bijection(rest, Places(q, d) \ {1})
  BY <1>3, <1>4, <1>5, Fun_IsBij
<1>7. IsFiniteSet(rest) /\ Cardinality(rest) \in Nat
  BY <1>1, PlacesFinite
<1>8. Cardinality(Places(q, d) \ {1}) = Cardinality(rest)
  BY <1>6, <1>7, FS_Bijection DEF ExistsBijection
<1>9. IsFiniteSet(Places(q, d)) /\ Cardinality(Places(q, d)) \in Nat
  BY PlacesFinite
<1>10. 1 \in Places(q, d) <=> Head(q) = d
  BY <1>1, <1>2 DEF Places
<1>11. Cardinality(Places(q, d) \ {1}) =
         IF 1 \in Places(q, d) THEN Cardinality(Places(q, d)) - 1 ELSE Cardinality(Places(q, d))
  BY <1>9, FS_RemoveElement
<1>12. CASE Head(q) = d
  BY <1>7, <1>8, <1>9, <1>10, <1>11, <1>12 DEF One
<1>13. CASE Head(q) # d
  BY <1>7, <1>8, <1>9, <1>10, <1>11, <1>13 DEF One
<1> QED
  BY <1>12, <1>13

(* The account of one device: what was sent for it, waits or is in hand.   *)
Account(d) == sent[d] + Cardinality(Places(queue, d)) + One(entry = d)
WithinAsked == \A d \in Devices : Account(d) <= asked[d]

LEMMA WithinIsOnce == OncePerRequest <=> WithinAsked
BY DEF OncePerRequest, WithinAsked, Waiting, Account, Places, One

(* No step takes more for a device than was asked: only ToBeUpgraded adds  *)
(* a place, and it counts as asked; every other step moves the device on   *)
(* or gives it up.                                                         *)
LEMMA AccountNext == TypeOK /\ WithinAsked /\ [Next]_vars => WithinAsked'
<1> SUFFICES ASSUME TypeOK, WithinAsked, [Next]_vars PROVE WithinAsked'
  OBVIOUS
<1> USE UpdaterAssumption
<1>1. /\ queue \in Seq(Devices) /\ asked \in [Devices -> Nat] /\ sent \in [Devices -> Nat]
      /\ entry # None <=> step \in InHand
      /\ entry \in Devices \cup {None}
  BY DEF TypeOK, DataOK
<1>2. \A d \in Devices : Cardinality(Places(queue, d)) \in Nat /\ One(entry = d) \in Nat
  BY <1>1, PlacesFinite DEF One
<1>3. \A d \in Devices : Account(d) <= asked[d] /\ Account(d) \in Nat
  BY <1>1, <1>2 DEF WithinAsked, Account
<1>4. ASSUME UNCHANGED <<queue, sent, asked, entry>> PROVE WithinAsked'
  BY <1>3, <1>4 DEF WithinAsked, Account
<1>5. ASSUME UNCHANGED <<queue, sent, asked>>, entry' = None PROVE WithinAsked'
  BY <1>1, <1>2, <1>3, <1>5 DEF WithinAsked, Account, One
<1>6. ASSUME NEW e \in Devices, ToBeUpgraded(e) PROVE WithinAsked'
  <2> SUFFICES ASSUME NEW d \in Devices PROVE Account(d)' <= asked'[d]
    BY DEF WithinAsked
  <2>1. queue' = Append(queue, e) /\ sent' = sent /\ entry' = entry
        /\ asked' = [asked EXCEPT ![e] = @ + 1]
    BY <1>6 DEF ToBeUpgraded
  <2>2. Cardinality(Places(queue', d)) = Cardinality(Places(queue, d)) + One(e = d)
    BY <1>1, <2>1, PlacesAppend
  <2>3. asked'[d] = asked[d] + One(e = d)
    BY <1>1, <2>1 DEF One
  <2>4. One(e = d) \in Nat
    BY DEF One
  <2>5. Account(d)' = Account(d) + One(e = d)
    <3>1. sent'[d] = sent[d] /\ sent[d] \in Nat /\ One(entry' = d) = One(entry = d)
      BY <1>1, <2>1
    <3> QED
      BY <1>2, <2>2, <2>4, <3>1 DEF Account
  <2>6. Account(d) <= asked[d] /\ Account(d) \in Nat /\ asked[d] \in Nat
    BY <1>1, <1>3
  <2> QED
    BY <2>3, <2>4, <2>5, <2>6
<1>7. CASE Reset
  <2> SUFFICES ASSUME NEW d \in Devices PROVE Account(d)' <= asked'[d]
    BY DEF WithinAsked
  <2>1. queue' = <<>> /\ sent' = sent /\ entry' = entry /\ asked' = asked
    BY <1>7 DEF Reset
  <2>2. Places(queue', d) = {}
    BY <2>1 DEF Places
  <2>3. Cardinality(Places(queue', d)) = 0
    BY <2>2, FS_EmptySet
  <2> QED
    BY <1>1, <1>2, <1>3, <2>1, <2>3 DEF Account
<1>8. CASE TakeEntry
  <2> SUFFICES ASSUME NEW d \in Devices PROVE Account(d)' <= asked'[d]
    BY DEF WithinAsked
  <2>1. queue # <<>> /\ queue' = Tail(queue) /\ sent' = sent /\ entry' = Head(queue)
        /\ asked' = asked /\ step = "loop"
    BY <1>8 DEF TakeEntry
  <2>2. Cardinality(Places(queue, d)) = Cardinality(Places(queue', d)) + One(entry' = d)
    BY <1>1, <2>1, PlacesTail
  <2>3. One(entry = d) = 0
    BY <1>1, <2>1 DEF One
  <2>4. queue' \in Seq(Devices)
    BY <1>1, <2>1, HeadTailProperties
  <2>5. Cardinality(Places(queue', d)) \in Nat /\ One(entry' = d) \in Nat
    BY <2>4, PlacesFinite DEF One
  <2> QED
    BY <1>1, <1>2, <1>3, <2>1, <2>2, <2>3, <2>5 DEF Account
<1>9. CASE SendFirmwareUpgradeCommand
  <2> SUFFICES ASSUME NEW d \in Devices PROVE Account(d)' <= asked'[d]
    BY DEF WithinAsked
  <2>1. queue' = queue /\ sent' = [sent EXCEPT ![entry] = @ + 1] /\ entry' = None
        /\ asked' = asked /\ step = "send"
    BY <1>9 DEF SendFirmwareUpgradeCommand, NextEntry
  <2>2. entry \in Devices
    BY <1>1, <2>1
  <2>3. sent'[d] = sent[d] + One(entry = d)
    BY <1>1, <2>1, <2>2 DEF One
  <2>4. One(entry' = d) = 0
    BY <1>1, <2>1 DEF One
  <2>5. Account(d)' = Account(d)
    <3>1. Places(queue', d) = Places(queue, d) /\ sent[d] \in Nat
      BY <1>1, <2>1
    <3> QED
      BY <1>2, <2>3, <2>4, <3>1 DEF Account
  <2> QED
    BY <1>3, <2>1, <2>5
<1>10. CASE GetFirmwareOptions \/ FindLatestFirmware \/ GetFirmware \/ Throw
  BY <1>4, <1>5, <1>10 DEF GetFirmwareOptions, FindLatestFirmware, GetFirmware, Throw, NextEntry
<1>11. CASE \/ Due \/ ThreadEnds \/ OnTimer \/ Lock \/ LeaveLoop \/ MainStep \/ StopRunning
            \/ (\E c \in BOOLEAN : Start(c)) \/ (\E t \in 0..MaxTime : SetClock(t))
  BY <1>4, <1>11 DEF Due, ThreadEnds, OnTimer, Lock, LeaveLoop, MainStep, CancelTimer, StopReturns,
                     StopRunning, Start, SetClock
<1>12. CASE UNCHANGED vars
  BY <1>4, <1>12 DEF vars
<1> QED
  BY <1>6, <1>7, <1>8, <1>9, <1>10, <1>11, <1>12 DEF Next, TimerStep

(* A request is answered by one upgrade at most, however ToBeUpgraded,     *)
(* Reset and the timer's callback follow each other and wherever the       *)
(* callback throws.                                                        *)
THEOREM OnceSound == Spec => []OncePerRequest
<1>1. Init => WithinAsked
  <2> SUFFICES ASSUME Init, NEW d \in Devices PROVE Account(d) <= asked[d]
    BY DEF WithinAsked
  <2>1. Places(queue, d) = {}
    BY DEF Init, Places
  <2>2. sent[d] = 0 /\ asked[d] = 0 /\ One(entry = d) = 0
    BY UpdaterAssumption DEF Init, One
  <2> QED
    BY <2>1, <2>2, FS_EmptySet DEF Account
<1> QED
  BY <1>1, AccountNext, WithinIsOnce, TypeCorrect, PTL DEF Spec
============================================================================
