------------------------ MODULE DeviceTrackingProofs ------------------------
(***************************************************************************)
(* For any number of devices, revisions, messages and failures:            *)
(* DeviceTracking is well typed, its workers never bring back a deleted    *)
(* device, and the history of a device that they did not handle at the     *)
(* same time belongs to a row and connects.                                *)
(***************************************************************************)
EXTENDS DeviceTracking, TLAPS

(***************************************************************************)
(* The inductive invariant, in parts.                                      *)
(***************************************************************************)
Values ==
  /\ devices \in [Serials -> Rows \cup {None}]
  /\ deviceCache \in [Serials -> Revisions \cup {None}]
  /\ connections \in Seq(Messages) /\ commands \in Seq(Commands)
  /\ disturbed \in SUBSET Serials
  /\ received \in 0..MaxMessages /\ faults \in 0..MaxFaults

(* What the connection worker holds at each of its steps.                  *)
InHand ==
  /\ row \in Rows \cup {None}
  /\ step = "idle" => msg = None
  /\ step = "age" =>
       msg \in [kind : {"connect"}, serial : Serials, revision : Revisions] /\ row = None
  /\ step \in {"get", "create"} =>
       msg \in [kind : {"connect", "ping"}, serial : Serials, revision : Revisions] /\ row = None
  /\ step \in {"history", "update"} =>
       msg \in [kind : {"connect", "ping"}, serial : Serials, revision : Revisions] /\ row \in Rows
  /\ step \in {"latest", "cache"} =>
       msg \in [kind : {"connect", "ping"}, serial : Serials, revision : Revisions]
  /\ step = "find" => msg \in [kind : {"disconnect", "garbage"}, serial : Serials] /\ row = None
  /\ step = "disconnect" =>
       msg \in [kind : {"disconnect", "garbage"}, serial : Serials] /\ row \in Rows
  /\ step \in {"idle", "age", "get", "history", "update", "create", "latest", "cache", "find",
               "disconnect"}
  /\ step = "idle" => row = None

Targeted ==
  /\ stage \in {"idle", "history", "device", "dead"}
  /\ stage \in {"idle", "dead"} => target = None
  /\ stage \in {"history", "device"} => target \in Serials

(* An entry of the history is written for a message of its own.            *)
Unwritten == IF step \in {"age", "get", "history"} THEN 1 ELSE 0
Numbered ==
  /\ lastId \in Nat
  /\ lastId + Len(connections) + Unwritten <= received
  /\ upgrades \in SUBSET [id : 1..lastId, serial : Serials, from : Revisions, to : Revisions]

TypeInv == Values /\ InHand /\ Targeted /\ Numbered

(* What holds of a device that was not disturbed while the connection      *)
(* worker is between its read and its writes.                              *)
Apart == \A s \in Serials : Busy(s) /\ target = s => s \in disturbed
Cleared ==
  stage = "device" /\ target \notin disturbed => \A u \in upgrades : u.serial # target
RowCurrent ==
  step \in {"history", "update", "disconnect"} /\ msg.serial \notin disturbed =>
    devices[msg.serial] # None
      /\ (step # "update" => row.revision = devices[msg.serial].revision)
UpdateAgrees ==
  step = "update" /\ msg.serial \notin disturbed =>
    \A u \in upgrades : u.serial = msg.serial /\ Later(u) = {} => msg.revision \in {u.from, u.to}

StoryInv ==
  Apart /\ Cleared /\ RowCurrent /\ UpdateAgrees /\ HistoryHasDevice /\ HistoryConnects

----------------------------------------------------------------------------
(* Type correctness. *)

LEMMA Popped ==
  ASSUME NEW S, NEW q \in Seq(S), q # <<>>
  PROVE  /\ Head(q) \in S /\ Tail(q) \in Seq(S) /\ Len(Tail(q)) = Len(q) - 1
         /\ Len(q) \in Nat /\ Len(q) > 0
OBVIOUS

LEMMA ValuesNext == TypeInv /\ [Next]_vars => Values'
<1> SUFFICES ASSUME TypeInv, [Next]_vars PROVE Values'
  OBVIOUS
<1> USE TrackingAssumption DEF TypeInv, Values
<1>1. CASE PopConnection
  <2>1. connections' \in Seq(Messages)
    BY <1>1, Popped DEF PopConnection
  <2> QED
    BY <1>1, <2>1 DEF PopConnection, Disturb, tables, cmdVars
<1>2. CASE ComputeFirmwareAge \/ CheckLatest
  BY <1>2 DEF ComputeFirmwareAge, CheckLatest, tables, cmdVars
<1>3. CASE GetDevice
  BY <1>3 DEF GetDevice, tables, cmdVars, Fault, NoFault
<1>4. CASE AddHistory
  BY <1>4 DEF AddHistory, cmdVars, Fault, NoFault, Disturb, InHand
<1>5. CASE UpdateDevice \/ CreateDevice
  <2>1. Connected \in Rows
    BY <1>5 DEF UpdateDevice, CreateDevice, Connected, Rows, InHand
  <2> QED
    BY <1>5, <2>1 DEF UpdateDevice, CreateDevice, UpdateRow, cmdVars, Fault, NoFault
<1>6. CASE AddToCache
  BY <1>6 DEF AddToCache, tables, cmdVars, InHand
<1>7. CASE FindDevice
  BY <1>7 DEF FindDevice, tables, cmdVars, Fault, NoFault
<1>8. CASE DisconnectDevice
  <2> DEFINE gone == [row EXCEPT !.status = "not connected"]
  <2>1. gone \in Rows
    <3>1. row \in [revision : Revisions, status : {"connected", "not connected"}]
      BY <1>8 DEF DisconnectDevice, Rows, InHand
    <3> QED
      BY <3>1 DEF Rows
  <2>2. \/ UpdateRow(msg.serial, gone) /\ NoFault
        \/ Fault /\ UNCHANGED devices
    BY <1>8 DEF DisconnectDevice
  <2>3. UNCHANGED <<connections, commands, deviceCache, received, disturbed>>
    BY <1>8 DEF DisconnectDevice, cmdVars
  <2> HIDE DEF gone
  <2> QED
    BY <2>1, <2>2, <2>3 DEF UpdateRow, Fault, NoFault
<1>9. CASE PopCommand
  <2>1. commands' \in Seq(Commands) /\ Head(commands).serial \in Serials
    <3>1. Head(commands) \in Commands /\ Tail(commands) \in Seq(Commands)
      BY <1>9, Popped DEF PopCommand
    <3> QED
      BY <1>9, <3>1 DEF PopCommand, Commands
  <2> QED
    BY <1>9, <2>1 DEF PopCommand, Disturb, tables, connVars
<1>10. CASE DeleteHistory
  BY <1>10 DEF DeleteHistory, connVars, Fault, NoFault, Disturb, Targeted
<1>11. CASE DeleteDevice
  BY <1>11 DEF DeleteDevice, connVars, Fault, NoFault, Targeted
<1>12. ASSUME NEW u \in upgrades, DeleteEntry(u) PROVE Values'
  BY <1>12 DEF DeleteEntry, connVars, cmdVars, Fault, NoFault, Disturb, Numbered
<1>13. CASE Crash
  BY <1>13 DEF Crash, tables
<1>14. ASSUME NEW m \in Messages, ConnectionReceived(m) PROVE Values'
  BY <1>14 DEF ConnectionReceived, tables, cmdVars
<1>15. ASSUME NEW c \in Commands, CommandReceived(c) PROVE Values'
  BY <1>15 DEF CommandReceived, tables, connVars
<1>16. CASE UNCHANGED vars
  BY <1>16 DEF vars
<1> QED
  BY <1>1, <1>2, <1>3, <1>4, <1>5, <1>6, <1>7, <1>8, <1>9, <1>10, <1>11, <1>12, <1>13, <1>14,
     <1>15, <1>16 DEF Next, ConnectionStep, CommandStep

LEMMA HeldNext == TypeInv /\ [Next]_vars => InHand' /\ Targeted'
<1> SUFFICES ASSUME TypeInv, [Next]_vars PROVE InHand' /\ Targeted'
  OBVIOUS
<1> USE TrackingAssumption DEF TypeInv
<1>1. CASE PopConnection
  <2>1. Head(connections) \in Messages
    BY <1>1, Popped DEF PopConnection, Values
  <2> QED
    BY <1>1, <2>1 DEF PopConnection, FirstStep, InHand, Targeted, Messages, cmdVars
<1>2. CASE ComputeFirmwareAge \/ CheckLatest \/ AddToCache \/ AddHistory \/ UpdateDevice \/ CreateDevice
  BY <1>2 DEF ComputeFirmwareAge, CheckLatest, AddToCache, AddHistory, UpdateDevice, CreateDevice,
     AfterRow, Done, InHand, Targeted, cmdVars
<1>3. CASE GetDevice \/ FindDevice \/ DisconnectDevice
  BY <1>3 DEF GetDevice, FindDevice, DisconnectDevice, Done, InHand, Targeted, Values, cmdVars
<1>4. CASE PopCommand
  <2>1. Head(commands) \in Commands
    BY <1>4, Popped DEF PopCommand, Values
  <2> QED
    BY <1>4, <2>1 DEF PopCommand, InHand, Targeted, Commands, connVars
<1>5. CASE DeleteHistory \/ DeleteDevice \/ Crash
  BY <1>5 DEF DeleteHistory, DeleteDevice, Crash, Done, InHand, Targeted, connVars
<1>6. CASE \/ \E u \in upgrades : DeleteEntry(u)
           \/ \E m \in Messages : ConnectionReceived(m)
           \/ \E c \in Commands : CommandReceived(c)
           \/ UNCHANGED vars
  BY <1>6 DEF DeleteEntry, ConnectionReceived, CommandReceived, vars, connVars, cmdVars,
     InHand, Targeted
<1> QED
  BY <1>1, <1>2, <1>3, <1>4, <1>5, <1>6 DEF Next, ConnectionStep, CommandStep

LEMMA NumberedNext == TypeInv /\ [Next]_vars => Numbered'
<1> SUFFICES ASSUME TypeInv, [Next]_vars PROVE Numbered'
  OBVIOUS
<1> USE DEF TypeInv, Numbered, Unwritten
<1>0. Len(connections) \in Nat /\ received \in Nat
  BY TrackingAssumption DEF Values
<1>1. CASE PopConnection
  <2>1. Len(connections') = Len(connections) - 1
    BY <1>1, Popped DEF PopConnection, Values
  <2> QED
    BY <1>0, <1>1, <2>1 DEF PopConnection, tables
<1>2. CASE AddHistory
  <2> DEFINE new == [id |-> lastId + 1, serial |-> msg.serial, from |-> row.revision, to |-> msg.revision]
  <2>1. new \in [id : 1..lastId + 1, serial : Serials, from : Revisions, to : Revisions]
    <3>1. msg.serial \in Serials /\ msg.revision \in Revisions /\ row.revision \in Revisions
      BY <1>2 DEF AddHistory, InHand, Rows
    <3> QED
      BY <1>0, <3>1
  <2>2. upgrades \subseteq [id : 1..lastId + 1, serial : Serials, from : Revisions, to : Revisions]
    <3>1. 1..lastId \subseteq 1..lastId + 1
      OBVIOUS
    <3> QED
      BY <3>1
  <2>3. UNCHANGED connections
    BY <1>2 DEF AddHistory
  <2>4. step = "history" /\ step' = "update" /\ UNCHANGED received
    BY <1>2 DEF AddHistory
  <2>5. \/ upgrades' = upgrades \cup {new} /\ lastId' = lastId + 1
        \/ UNCHANGED <<upgrades, lastId>>
    BY <1>2 DEF AddHistory
  <2>6. lastId' \in Nat /\ lastId' + Len(connections') + 0 <= received'
    BY <1>0, <2>3, <2>4, <2>5
  <2> HIDE DEF new
  <2>7. upgrades' \in SUBSET [id : 1..lastId', serial : Serials, from : Revisions, to : Revisions]
    BY <2>1, <2>2, <2>5
  <2> QED
    BY <2>4, <2>6, <2>7
<1>3. CASE ComputeFirmwareAge \/ GetDevice \/ UpdateDevice \/ CreateDevice \/ CheckLatest
           \/ AddToCache \/ FindDevice \/ DisconnectDevice
  <2>1. UNCHANGED <<upgrades, lastId, connections, received>>
    BY <1>3 DEF ComputeFirmwareAge, GetDevice, UpdateDevice, CreateDevice, CheckLatest,
       AddToCache, FindDevice, DisconnectDevice, tables
  <2>2. step' \in {"age", "get", "history"} => step \in {"age", "get", "history"}
    BY <1>3 DEF ComputeFirmwareAge, GetDevice, UpdateDevice, CreateDevice, CheckLatest,
       AddToCache, FindDevice, DisconnectDevice, AfterRow, Done
  <2> QED
    BY <1>0, <2>1, <2>2
<1>4. CASE CommandStep
  BY <1>0, <1>4 DEF CommandStep, PopCommand, DeleteHistory, DeleteDevice, connVars, tables
<1>5. ASSUME NEW u \in upgrades, DeleteEntry(u) PROVE Numbered'
  BY <1>0, <1>5 DEF DeleteEntry, connVars
<1>6. CASE Crash
  <2>1. Len(connections') = 0 /\ step' = "idle"
    BY <1>6 DEF Crash, Done
  <2>2. UNCHANGED <<upgrades, lastId, received>>
    BY <1>6 DEF Crash, tables
  <2> QED
    BY <1>0, <2>1, <2>2
<1>7. ASSUME NEW m \in Messages, ConnectionReceived(m) PROVE Numbered'
  <2>1. Len(connections') = Len(connections) + 1
    BY <1>7 DEF ConnectionReceived, Values
  <2> QED
    BY <1>0, <1>7, <2>1 DEF ConnectionReceived, tables
<1>8. ASSUME NEW c \in Commands, CommandReceived(c) PROVE Numbered'
  BY <1>0, <1>8 DEF CommandReceived, tables, connVars
<1>9. CASE UNCHANGED vars
  BY <1>9 DEF vars
<1> QED
  BY <1>1, <1>2, <1>3, <1>4, <1>5, <1>6, <1>7, <1>8, <1>9 DEF Next, ConnectionStep

LEMMA TypeAlways == Spec => []TypeInv
<1>1. Init => TypeInv
  BY TrackingAssumption DEF Init, TypeInv, Values, InHand, Targeted, Numbered, Unwritten
<1>2. TypeInv /\ [Next]_vars => TypeInv'
  BY ValuesNext, HeldNext, NumberedNext DEF TypeInv
<1> QED
  BY <1>1, <1>2, PTL DEF Spec

(* Every reachable state is well-formed: no history entry is numbered      *)
(* beyond the messages received, and each worker holds what it works on.   *)
THEOREM TypeCorrect == Spec => []TypeOK
<1>1. TypeInv => TypeOK
  <2> SUFFICES ASSUME TypeInv PROVE TypeOK
    OBVIOUS
  <2>1. lastId \in 0..MaxMessages
    BY TrackingAssumption DEF TypeInv, Numbered, Unwritten, Values
  <2>2. upgrades \in SUBSET Upgrades
    <3>1. 1..lastId \subseteq 1..MaxMessages
      BY <2>1, TrackingAssumption
    <3> QED
      BY <3>1 DEF TypeInv, Numbered, Upgrades
  <2>3. msg \in Messages \cup {None} /\ row \in Rows \cup {None}
    BY DEF TypeInv, InHand, Messages
  <2> QED
    BY <2>1, <2>2, <2>3 DEF TypeInv, Values, InHand, Targeted, TypeOK
<1> QED
  BY <1>1, TypeAlways, PTL

----------------------------------------------------------------------------
(* A deleted device stays deleted. *)

(* NewConnectionHandler's CreateRecord is reached only when no row was     *)
(* read: no update of a row that went away meanwhile brings it back.       *)
THEOREM NeverBack == Spec => NoResurrection
<1>1. TypeInv /\ [Next]_vars =>
        [\A s \in Serials : devices[s] = None /\ devices'[s] # None => row = None]_vars
  <2> SUFFICES ASSUME TypeInv, [Next]_vars, NEW s \in Serials, devices[s] = None, devices'[s] # None
               PROVE  row = None
    OBVIOUS
  <2>1. CASE CreateDevice
    BY <2>1 DEF CreateDevice, TypeInv, InHand
  <2>2. CASE UpdateDevice \/ DisconnectDevice
    BY <2>2 DEF UpdateDevice, DisconnectDevice, UpdateRow, TypeInv, Values
  <2>3. CASE DeleteDevice
    BY <2>3 DEF DeleteDevice, TypeInv, Values
  <2>4. CASE UNCHANGED devices
    BY <2>4
  <2> QED
    BY <2>1, <2>2, <2>3, <2>4 DEF Next, ConnectionStep, CommandStep, PopConnection,
       ComputeFirmwareAge, GetDevice, AddHistory, CheckLatest, AddToCache, FindDevice, PopCommand,
       DeleteHistory, DeleteEntry, Crash, ConnectionReceived, CommandReceived, vars, tables
<1> QED
  BY <1>1, TypeAlways, PTL DEF Spec, NoResurrection

----------------------------------------------------------------------------
(* The history of an undisturbed device. *)

(* The worker holds a message exactly while it works on one.               *)
LEMMA Holding == TypeInv => (step = "idle" <=> msg = None)
BY TrackingAssumption DEF TypeInv, InHand, Messages

(* A step that touches neither table keeps what is said of them alone.     *)
LEMMA TablesKept ==
  ASSUME HistoryHasDevice, HistoryConnects,
         UNCHANGED <<devices, upgrades>>, disturbed \subseteq disturbed'
  PROVE  HistoryHasDevice' /\ HistoryConnects'
BY DEF HistoryHasDevice, HistoryConnects, Later

(* So does one that takes away whole histories, or marks their devices.    *)
LEMMA HistoryTaken ==
  ASSUME HistoryHasDevice, HistoryConnects, UNCHANGED devices, disturbed \subseteq disturbed',
         upgrades' \subseteq upgrades,
         \A u \in upgrades', v \in upgrades :
           v.serial = u.serial /\ u.serial \notin disturbed' => v \in upgrades'
  PROVE  /\ HistoryHasDevice' /\ HistoryConnects'
         /\ \A u \in upgrades' : u.serial \notin disturbed' => Later(u)' = Later(u)
<1>1. \A u \in upgrades' : u.serial \notin disturbed' => Later(u)' = Later(u)
  BY DEF Later
<1>2. HistoryHasDevice'
  BY DEF HistoryHasDevice
<1>3. ASSUME NEW u \in upgrades', u.serial \notin disturbed'
      PROVE  IF Later(u)' = {}
               THEN devices'[u.serial] # None => devices'[u.serial].revision \in {u.from, u.to}
               ELSE \E v \in Later(u)' : /\ \A w \in Later(u)' : v.id <= w.id
                                         /\ v.from \in {u.from, u.to}
  BY <1>1, <1>3 DEF HistoryConnects
<1> QED
  BY <1>1, <1>2, <1>3 DEF HistoryConnects

LEMMA ConnectionStory ==
  ASSUME TypeInv, StoryInv,
         \/ PopConnection \/ ComputeFirmwareAge \/ CheckLatest \/ AddToCache
         \/ GetDevice \/ FindDevice
  PROVE  StoryInv'
<1> USE DEF StoryInv
<1>1. CASE PopConnection
  <2>1. disturbed \subseteq disturbed' /\ UNCHANGED <<devices, upgrades, stage, target>>
    BY <1>1 DEF PopConnection, Disturb, tables, cmdVars
  <2>2. Head(connections) \in Messages
    BY <1>1, Popped DEF PopConnection, TypeInv, Values
  <2>3. step' \in {"idle", "age", "get", "find"}
    BY <1>1, <2>2 DEF PopConnection, FirstStep, Messages
  <2>4. Apart'
    BY <1>1, <2>1, <2>2 DEF PopConnection, FirstStep, Messages, Apart, Busy, Disturb
  <2>5. Cleared' /\ RowCurrent' /\ UpdateAgrees'
    BY <2>1, <2>3 DEF Cleared, RowCurrent, UpdateAgrees
  <2> QED
    BY <2>1, <2>4, <2>5, TablesKept
<1>2. CASE ComputeFirmwareAge \/ CheckLatest \/ AddToCache
  <2>1. UNCHANGED <<devices, upgrades, disturbed, stage, target>>
    BY <1>2 DEF ComputeFirmwareAge, CheckLatest, AddToCache, tables, cmdVars
  <2>2. step' \in {"idle", "get", "latest", "cache"} /\ step # "idle"
    BY <1>2 DEF ComputeFirmwareAge, CheckLatest, AddToCache, Done
  <2>3. msg' = None \/ UNCHANGED msg
    BY <1>2 DEF ComputeFirmwareAge, CheckLatest, AddToCache, Done
  <2>4. Apart' /\ Cleared' /\ RowCurrent' /\ UpdateAgrees'
    BY <2>1, <2>2, <2>3 DEF Apart, Busy, Cleared, RowCurrent, UpdateAgrees
  <2> QED
    BY <2>1, <2>4, TablesKept
<1>3. CASE GetDevice
  <2>1. UNCHANGED <<devices, upgrades, disturbed, stage, target, msg>> /\ step = "get"
    BY <1>3 DEF GetDevice, tables, cmdVars
  <2>2. Apart' /\ Cleared'
    BY <2>1 DEF Apart, Busy, Cleared
  <2>3. CASE step' = "create"
    BY <2>1, <2>2, <2>3, TablesKept DEF RowCurrent, UpdateAgrees
  <2>4. CASE step' # "create"
    <3>1. /\ devices[msg.serial] # None /\ row' = devices[msg.serial]
          /\ step' = IF row'.revision # msg.revision THEN "history" ELSE "update"
      BY <1>3, <2>4 DEF GetDevice
    <3>2. RowCurrent'
      BY <2>1, <3>1 DEF RowCurrent
    <3>3. UpdateAgrees'
      BY <2>1, <3>1 DEF UpdateAgrees, HistoryConnects, Later
    <3> QED
      BY <2>1, <2>2, <3>2, <3>3, TablesKept
  <2> QED
    BY <2>3, <2>4
<1>4. CASE FindDevice
  <2>1. UNCHANGED <<devices, upgrades, disturbed, stage, target>> /\ step = "find"
    BY <1>4 DEF FindDevice, tables, cmdVars
  <2>2. \/ step' = "idle" /\ msg' = None
        \/ step' = "disconnect" /\ UNCHANGED msg /\ devices[msg.serial] # None
             /\ row' = devices[msg.serial]
    BY <1>4 DEF FindDevice, Done
  <2>3. Apart' /\ Cleared' /\ RowCurrent' /\ UpdateAgrees'
    BY <2>1, <2>2 DEF Apart, Busy, Cleared, RowCurrent, UpdateAgrees
  <2> QED
    BY <2>1, <2>3, TablesKept
<1> QED
  BY <1>1, <1>2, <1>3, <1>4

(* The new entry starts at the row's revision, where the history ended.    *)
LEMMA AddStory ==
  ASSUME TypeInv, StoryInv, AddHistory
  PROVE  StoryInv'
<1> USE DEF StoryInv
<1>1. UNCHANGED <<devices, stage, target, msg, row>> /\ step = "history" /\ step' = "update"
  BY DEF AddHistory, cmdVars
<1>2. CASE Fault /\ Disturb({msg.serial}) /\ UNCHANGED <<upgrades, lastId>>
  <2>1. msg.serial \in disturbed' /\ disturbed \subseteq disturbed'
    BY <1>2 DEF Disturb
  <2>2. Apart' /\ Cleared' /\ RowCurrent' /\ UpdateAgrees'
    BY <1>1, <1>2, <2>1 DEF Apart, Busy, Cleared, RowCurrent, UpdateAgrees
  <2> QED
    BY <1>1, <1>2, <2>1, <2>2, TablesKept
<1>3. ASSUME NEW new,
             new = [id |-> lastId + 1, serial |-> msg.serial, from |-> row.revision,
                    to |-> msg.revision],
             upgrades' = upgrades \cup {new}, UNCHANGED disturbed
      PROVE  StoryInv'
  <2>1. msg.serial \in Serials
    BY <1>1 DEF TypeInv, InHand
  <2>2. Apart' /\ RowCurrent'
    BY <1>1, <1>3 DEF Apart, Busy, RowCurrent
  <2>3. new.serial = msg.serial /\ new.from = row.revision /\ new.to = msg.revision
        /\ new.id = lastId + 1
    BY <1>3
  <2>4. Cleared'
    BY <1>1, <1>3, <2>1, <2>3, Holding DEF Cleared, Apart, Busy
  <2>5. HistoryHasDevice'
    BY <1>1, <1>3, <2>3 DEF HistoryHasDevice, RowCurrent
  <2>6. \A u \in upgrades : u.id \in Nat /\ u.id <= lastId /\ u.id < new.id /\ ~(u.id > new.id)
    BY <2>3 DEF TypeInv, Numbered
  <2>7. \A u \in upgrades :
          Later(u)' = IF u.serial = new.serial THEN Later(u) \cup {new} ELSE Later(u)
    BY <1>3, <2>6 DEF Later
  <2>8. Later(new)' = {}
    <3>1. ~(new.id > new.id)
      BY <2>3 DEF TypeInv, Numbered
    <3> QED
      BY <1>3, <2>6, <3>1 DEF Later
  <2>9. UpdateAgrees'
    BY <1>1, <1>3, <2>3, <2>7 DEF UpdateAgrees
  <2>10. ASSUME NEW u \in upgrades', u.serial \notin disturbed'
         PROVE  IF Later(u)' = {}
                  THEN devices'[u.serial] # None => devices'[u.serial].revision \in {u.from, u.to}
                  ELSE \E v \in Later(u)' : /\ \A w \in Later(u)' : v.id <= w.id
                                            /\ v.from \in {u.from, u.to}
    <3>1. CASE u = new
      <4>1. devices'[u.serial].revision = u.from
        BY <1>1, <1>3, <2>3, <2>10, <3>1 DEF RowCurrent
      <4> QED
        BY <2>8, <3>1, <4>1
    <3>2. CASE u \in upgrades /\ u.serial # new.serial
      BY <1>1, <1>3, <2>7, <2>10, <3>2 DEF HistoryConnects
    <3>3. CASE u \in upgrades /\ u.serial = new.serial /\ Later(u) = {}
      <4>1. Later(u)' = {new}
        BY <2>7, <3>3
      <4>2. row.revision \in {u.from, u.to}
        BY <1>1, <1>3, <2>3, <2>10, <3>3 DEF HistoryConnects, RowCurrent
      <4> QED
        BY <2>3, <4>1, <4>2 DEF TypeInv, Numbered
    <3>4. CASE u \in upgrades /\ u.serial = new.serial /\ Later(u) # {}
      <4>1. PICK v \in Later(u) : (\A w \in Later(u) : v.id <= w.id) /\ v.from \in {u.from, u.to}
        BY <1>3, <2>10, <3>4 DEF HistoryConnects
      <4>2. v.id <= new.id
        BY <2>3, <2>6, <4>1 DEF Later, TypeInv, Numbered
      <4>3. Later(u)' = Later(u) \cup {new}
        BY <2>7, <3>4
      <4> QED
        BY <4>1, <4>2, <4>3
    <3> QED
      BY <1>3, <2>10, <3>1, <3>2, <3>3, <3>4
  <2>11. HistoryConnects'
    BY <2>10 DEF HistoryConnects
  <2> QED
    BY <2>2, <2>4, <2>5, <2>9, <2>11
<1> QED
  BY <1>2, <1>3 DEF AddHistory

LEMMA WriteStory ==
  ASSUME TypeInv, StoryInv, UpdateDevice \/ CreateDevice \/ DisconnectDevice
  PROVE  StoryInv'
<1> USE DEF StoryInv
<1>1. UNCHANGED <<upgrades, disturbed, stage, target>>
  BY DEF UpdateDevice, CreateDevice, DisconnectDevice, cmdVars
<1>2. step \in {"update", "create", "disconnect"} /\ msg.serial \in Serials
  BY DEF UpdateDevice, CreateDevice, DisconnectDevice, TypeInv, InHand
<1>3. step' \in {"latest", "cache", "idle"} /\ (msg' = None \/ UNCHANGED msg)
  BY DEF UpdateDevice, CreateDevice, DisconnectDevice, AfterRow, Done
<1>4. Apart' /\ Cleared' /\ RowCurrent' /\ UpdateAgrees'
  BY <1>1, <1>2, <1>3 DEF Apart, Busy, Cleared, RowCurrent, UpdateAgrees
<1>5. ASSUME NEW s \in Serials, s \notin disturbed, devices[s] # None
      PROVE  /\ devices'[s] # None
             /\ \/ devices'[s].revision = devices[s].revision
                \/ step = "update" /\ s = msg.serial /\ devices'[s].revision = msg.revision
  <2>1. devices \in [Serials -> Rows \cup {None}] /\ None \notin Rows
    BY TrackingAssumption DEF TypeInv, Values
  <2>2. CASE UpdateDevice
    <3>1. Connected \in Rows /\ Connected.revision = msg.revision /\ step = "update"
      BY <2>2 DEF UpdateDevice, Connected, Rows, TypeInv, InHand
    <3> QED
      BY <1>2, <1>5, <2>1, <2>2, <3>1 DEF UpdateDevice, UpdateRow
  <2>3. CASE CreateDevice
    BY <1>2, <1>5, <2>1, <2>3 DEF CreateDevice
  <2>4. CASE DisconnectDevice
    <3> DEFINE gone == [row EXCEPT !.status = "not connected"]
    <3>1. row \in [revision : Revisions, status : {"connected", "not connected"}]
      BY <2>4 DEF DisconnectDevice, Rows, TypeInv, InHand
    <3>2. gone \in Rows /\ gone.revision = row.revision
      BY <3>1 DEF Rows
    <3>3. s = msg.serial => row.revision = devices[s].revision
      BY <1>5, <2>4 DEF DisconnectDevice, RowCurrent
    <3>4. UpdateRow(msg.serial, gone) \/ UNCHANGED devices
      BY <2>4 DEF DisconnectDevice
    <3> HIDE DEF gone
    <3> QED
      BY <1>2, <1>5, <2>1, <3>2, <3>3, <3>4 DEF UpdateRow
  <2> QED
    BY <2>2, <2>3, <2>4
<1>6. \A u \in upgrades : u.serial \in Serials
  BY DEF TypeInv, Numbered
<1>7. HistoryHasDevice'
  BY <1>1, <1>5, <1>6 DEF HistoryHasDevice
<1>8. ASSUME NEW u \in upgrades', u.serial \notin disturbed'
      PROVE  IF Later(u)' = {}
               THEN devices'[u.serial] # None => devices'[u.serial].revision \in {u.from, u.to}
               ELSE \E v \in Later(u)' : /\ \A w \in Later(u)' : v.id <= w.id
                                         /\ v.from \in {u.from, u.to}
  <2>1. u \in upgrades /\ u.serial \notin disturbed /\ Later(u)' = Later(u)
    BY <1>1, <1>8 DEF Later
  <2>2. CASE Later(u) # {}
    BY <2>1, <2>2 DEF HistoryConnects
  <2>3. CASE Later(u) = {}
    <3>1. devices[u.serial] # None /\ devices[u.serial].revision \in {u.from, u.to}
      BY <2>1, <2>3 DEF HistoryHasDevice, HistoryConnects
    <3>2. step = "update" /\ u.serial = msg.serial => msg.revision \in {u.from, u.to}
      BY <2>1, <2>3 DEF UpdateAgrees
    <3> QED
      BY <1>5, <1>6, <2>1, <2>3, <3>1, <3>2
  <2> QED
    BY <2>2, <2>3
<1>9. HistoryConnects'
  BY <1>8 DEF HistoryConnects
<1> QED
  BY <1>4, <1>7, <1>9

LEMMA CommandStory ==
  ASSUME TypeInv, StoryInv, CommandStep
  PROVE  StoryInv'
<1> USE DEF StoryInv
<1>1. UNCHANGED <<step, msg, row>> /\ disturbed \subseteq disturbed'
  BY DEF CommandStep, PopCommand, DeleteHistory, DeleteDevice, connVars, Disturb
<1>2. CASE PopCommand
  <2>1. UNCHANGED <<devices, upgrades>> /\ stage = "idle" /\ stage' # "device"
    BY <1>2 DEF PopCommand, tables
  <2>2. target = None
    BY <2>1 DEF TypeInv, Targeted
  <2>3. Apart'
    BY <1>1, <1>2, <2>2, TrackingAssumption DEF PopCommand, Apart, Busy, Disturb
  <2>4. Cleared' /\ RowCurrent' /\ UpdateAgrees'
    BY <1>1, <2>1 DEF Cleared, RowCurrent, UpdateAgrees, Later
  <2> QED
    BY <1>1, <2>1, <2>3, <2>4, TablesKept
<1>3. CASE DeleteHistory
  <2>1. UNCHANGED <<devices, target>> /\ target \in Serials
    BY <1>3 DEF DeleteHistory, TypeInv, Targeted
  <2>2. Apart' /\ RowCurrent'
    BY <1>1, <2>1 DEF Apart, Busy, RowCurrent
  <2>3. \/ upgrades' = {u \in upgrades : u.serial # target}
        \/ target \in disturbed' /\ UNCHANGED upgrades
    BY <1>3 DEF DeleteHistory, Disturb
  <2>4. Cleared'
    BY <2>1, <2>3 DEF Cleared
  <2>5. /\ HistoryHasDevice' /\ HistoryConnects'
        /\ \A u \in upgrades' : u.serial \notin disturbed' => Later(u)' = Later(u)
    BY <1>1, <2>1, <2>3, HistoryTaken
  <2>6. UpdateAgrees'
    BY <1>1, <2>3, <2>5 DEF UpdateAgrees
  <2> QED
    BY <2>2, <2>4, <2>5, <2>6
<1>4. CASE DeleteDevice
  <2>1. UNCHANGED <<upgrades, disturbed>> /\ stage = "device" /\ stage' = "idle" /\ target' = None
    BY <1>4 DEF DeleteDevice
  <2>2. target \in Serials /\ \A u \in upgrades : u.serial \in Serials
    BY <2>1 DEF TypeInv, Targeted, Numbered
  <2>3. \A s \in Serials : s # target => devices'[s] = devices[s]
    BY <1>4 DEF DeleteDevice, TypeInv, Values
  <2>4. \A u \in upgrades : u.serial \notin disturbed => u.serial # target
    BY <2>1 DEF Cleared
  <2>5. Apart' /\ Cleared' /\ UpdateAgrees'
    BY <1>1, <2>1, TrackingAssumption DEF Apart, Cleared, UpdateAgrees, Later
  <2>6. RowCurrent'
    <3>1. step \in {"history", "update", "disconnect"} => msg.serial \in Serials
      BY DEF TypeInv, InHand
    <3>2. step # "idle" /\ msg.serial = target => target \in disturbed
      BY <2>2, Holding DEF Apart, Busy
    <3> QED
      BY <1>1, <2>1, <2>3, <3>1, <3>2 DEF RowCurrent
  <2>7. HistoryHasDevice'
    BY <2>1, <2>2, <2>3, <2>4 DEF HistoryHasDevice
  <2>8. HistoryConnects'
    BY <2>1, <2>2, <2>3, <2>4 DEF HistoryConnects, Later
  <2> QED
    BY <2>5, <2>6, <2>7, <2>8
<1> QED
  BY <1>2, <1>3, <1>4 DEF CommandStep

LEMMA OtherStory ==
  ASSUME TypeInv, StoryInv,
         \/ Crash \/ UNCHANGED vars
         \/ \E m \in Messages : ConnectionReceived(m)
         \/ \E c \in Commands : CommandReceived(c)
         \/ \E u \in upgrades : DeleteEntry(u)
  PROVE  StoryInv'
<1> USE DEF StoryInv
<1>1. CASE Crash
  <2>1. /\ UNCHANGED <<devices, upgrades, disturbed>>
        /\ step' = "idle" /\ msg' = None /\ stage' = "idle"
    BY <1>1 DEF Crash, Done, tables
  <2> QED
    BY <2>1, TablesKept DEF Apart, Busy, Cleared, RowCurrent, UpdateAgrees
<1>2. ASSUME NEW u \in upgrades, DeleteEntry(u) PROVE StoryInv'
  <2>1. /\ UNCHANGED <<devices, step, msg, row, stage, target>>
        /\ disturbed' = disturbed \cup {u.serial}
        /\ upgrades' \in {upgrades, upgrades \ {u}}
    BY <1>2 DEF DeleteEntry, connVars, cmdVars, Disturb
  <2>2. Apart' /\ Cleared' /\ RowCurrent'
    BY <2>1 DEF Apart, Busy, Cleared, RowCurrent
  <2>3. /\ HistoryHasDevice' /\ HistoryConnects'
        /\ \A v \in upgrades' : v.serial \notin disturbed' => Later(v)' = Later(v)
    BY <2>1, HistoryTaken
  <2>4. UpdateAgrees'
    BY <2>1, <2>3 DEF UpdateAgrees
  <2> QED
    BY <2>2, <2>3, <2>4
<1>3. CASE \/ UNCHANGED vars
           \/ \E m \in Messages : ConnectionReceived(m)
           \/ \E c \in Commands : CommandReceived(c)
  <2>1. UNCHANGED <<devices, upgrades, disturbed, step, msg, row, stage, target>>
    BY <1>3 DEF vars, ConnectionReceived, CommandReceived, tables, connVars, cmdVars
  <2> QED
    BY <2>1, TablesKept DEF Apart, Busy, Cleared, RowCurrent, UpdateAgrees, Later
<1> QED
  BY <1>1, <1>2, <1>3

LEMMA StoryAlways == Spec => []StoryInv
<1>1. Init => StoryInv
  BY DEF Init, StoryInv, Apart, Busy, Cleared, RowCurrent, UpdateAgrees, HistoryHasDevice,
     HistoryConnects
<1>2. TypeInv /\ StoryInv /\ [Next]_vars => StoryInv'
  BY ConnectionStory, AddStory, WriteStory, CommandStory, OtherStory DEF Next, ConnectionStep
<1> QED
  BY <1>1, <1>2, TypeAlways, PTL DEF Spec

(* HistoryDB holds entries only of devices that DevicesDB holds, as long   *)
(* as the two workers are not at work on the same device and no statement  *)
(* on its history fails.                                                   *)
THEOREM HistoryKept == Spec => []HistoryHasDevice
<1>1. StoryInv => HistoryHasDevice
  BY DEF StoryInv
<1> QED
  BY <1>1, StoryAlways, PTL

(* Whatever messages come, and wherever the process dies, the entries that *)
(* SetDeviceRevision writes for such a device follow one another, up to    *)
(* the revision of its row.                                                *)
THEOREM StoryConnects == Spec => []HistoryConnects
<1>1. StoryInv => HistoryConnects
  BY DEF StoryInv
<1> QED
  BY <1>1, StoryAlways, PTL
=============================================================================
