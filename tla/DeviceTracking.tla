--------------------------- MODULE DeviceTracking ---------------------------
(***************************************************************************)
(* What the service knows of the devices: the table of devices             *)
(* (storage/orm_deviceInfo.cpp), the table of their upgrades               *)
(* (storage/orm_history.cpp), the DeviceCache, and the two workers that    *)
(* keep them from what Kafka brings, NewConnectionHandler and              *)
(* NewCommandHandler.                                                      *)
(*                                                                         *)
(* The workers share no lock; each statement on a table, each call on a    *)
(* cache and each access to a queue is an action.  Of a device only its    *)
(* revision and status are kept (its type never changes, its end point is  *)
(* written with the revision).  Whether a revision is among the firmwares, *)
(* and whether it is the latest, is FirmwareCatalog's business and may be  *)
(* answered either way.                                                    *)
(***************************************************************************)
EXTENDS Integers, Sequences

CONSTANTS
  Serials,        \* serial numbers
  Revisions,      \* revisions that a device may report
  None,           \* no row, nothing in hand
  MaxMessages,    \* bound: messages on either topic
  MaxFaults       \* bound: failed database statements

Rows == [revision : Revisions, status : {"connected", "not connected"}]
Upgrades == [id : 1..MaxMessages, serial : Serials, from : Revisions, to : Revisions]
Messages ==
  [kind : {"connect", "ping"}, serial : Serials, revision : Revisions]
  \cup [kind : {"disconnect", "garbage"}, serial : Serials]
Commands == [kind : {"delete_device", "other", "malformed"}, serial : Serials]

ASSUME TrackingAssumption ==
  /\ MaxMessages \in Nat /\ MaxFaults \in Nat
  /\ None \notin Rows /\ None \notin Messages /\ None \notin Serials /\ None \notin Revisions

VARIABLES
  (* durable *)
  devices,        \* table devices
  upgrades,       \* table history
  (* NewConnectionHandler *)
  connections,    \* NewConnections_
  step,           \* its worker's next step
  msg,            \* the message it handles
  row,            \* the row it read
  (* NewCommandHandler *)
  commands,       \* NewCommands_
  stage,          \* its worker's next step; "dead" when an exception ended it
  target,         \* the device it deletes
  (* others *)
  deviceCache,    \* DeviceCache_: the revision of each device
  (* history and bounds *)
  lastId,         \* rows inserted in table history
  received,       \* messages and commands so far
  faults,         \* failed statements so far
  disturbed       \* devices on which the workers overlapped or a statement failed

tables == <<devices, upgrades, lastId>>
connVars == <<connections, step, msg, row>>
cmdVars == <<commands, stage, target>>
vars == <<devices, upgrades, lastId, connections, step, msg, row, commands, stage, target,
          deviceCache, received, faults, disturbed>>

Fault == faults < MaxFaults /\ faults' = faults + 1
NoFault == UNCHANGED faults

(* The history of a device may be out of step with its row once a          *)
(* statement on it failed, an entry was removed by REST, or both workers   *)
(* were at work on it.                                                     *)
Disturb(S) == disturbed' = disturbed \cup S
Busy(s) == msg # None /\ msg.serial = s

Init ==
  /\ devices = [s \in Serials |-> None]
  /\ upgrades = {} /\ lastId = 0
  /\ connections = <<>> /\ step = "idle" /\ msg = None /\ row = None
  /\ commands = <<>> /\ stage = "idle" /\ target = None
  /\ deviceCache = [s \in Serials |-> None]
  /\ received = 0 /\ faults = 0 /\ disturbed = {}

----------------------------------------------------------------------------
(* The Kafka dispatcher calls these. *)

ConnectionReceived(m) ==
  /\ received < MaxMessages /\ received' = received + 1
  /\ connections' = Append(connections, m)
  /\ UNCHANGED <<tables, step, msg, row, cmdVars, deviceCache, faults, disturbed>>

CommandReceived(c) ==
  /\ received < MaxMessages /\ received' = received + 1
  /\ commands' = Append(commands, c)
  /\ UNCHANGED <<tables, connVars, stage, target, deviceCache, faults, disturbed>>

----------------------------------------------------------------------------
(* NewConnectionHandler::run.  An exception while a message is parsed is   *)
(* logged and the message dropped.                                         *)

(* Mutant: the exception leaves the loop.                                  *)
FirstStepUncaught(kind) ==
  CASE kind = "connect"    -> "age"
    [] kind = "ping"       -> "get"
    [] kind = "disconnect" -> "find"
    [] kind = "garbage"    -> "dead"

FirstStep(kind) ==
  CASE kind = "connect"    -> "age"
    [] kind = "ping"       -> "get"
    [] kind = "disconnect" -> "find"
    [] kind = "garbage"    -> "idle"

PopConnection ==
  /\ step = "idle" /\ connections # <<>>
  /\ LET m == Head(connections)
     IN /\ step' = FirstStep(m.kind)
        /\ msg' = IF m.kind = "garbage" THEN None ELSE m
        /\ Disturb({m.serial} \cap {target})
  /\ connections' = Tail(connections)
  /\ UNCHANGED <<tables, row, cmdVars, deviceCache, received, faults>>

Done == step' = "idle" /\ msg' = None /\ row' = None

(* The order of the last two calls differs for a connection and a ping.    *)
AfterRow == step' = IF msg.kind = "connect" THEN "latest" ELSE "cache"

ComputeFirmwareAge ==     \* FALSE: the device is not entered in the table
  /\ step = "age"
  /\ \E known \in BOOLEAN : step' = IF known THEN "get" ELSE "latest"
  /\ UNCHANGED <<tables, connections, msg, row, cmdVars, deviceCache, received, faults, disturbed>>

(* DevicesDB::SetDeviceRevision. *)

GetDevice ==
  /\ step = "get"
  /\ \/ /\ devices[msg.serial] # None /\ NoFault
        /\ row' = devices[msg.serial]
        /\ step' = IF row'.revision # msg.revision THEN "history" ELSE "update"
     \/ /\ (devices[msg.serial] = None /\ NoFault) \/ Fault
        /\ step' = "create"
        /\ UNCHANGED row
  /\ UNCHANGED <<tables, connections, msg, cmdVars, deviceCache, received, disturbed>>

(* Mutant: the revisions are passed in the wrong order.                    *)
AddHistorySwapped ==
  /\ step = "history"
  /\ \/ /\ upgrades' = upgrades \cup {[id |-> lastId + 1, serial |-> msg.serial,
                                       from |-> msg.revision, to |-> row.revision]}
        /\ lastId' = lastId + 1
        /\ UNCHANGED disturbed /\ NoFault
     \/ Fault /\ Disturb({msg.serial}) /\ UNCHANGED <<upgrades, lastId>>
  /\ step' = "update"
  /\ UNCHANGED <<devices, connections, msg, row, cmdVars, deviceCache, received>>

AddHistory ==
  /\ step = "history"
  /\ \/ /\ upgrades' = upgrades \cup {[id |-> lastId + 1, serial |-> msg.serial,
                                       from |-> row.revision, to |-> msg.revision]}
        /\ lastId' = lastId + 1
        /\ UNCHANGED disturbed /\ NoFault
     \/ Fault /\ Disturb({msg.serial}) /\ UNCHANGED <<upgrades, lastId>>
  /\ step' = "update"
  /\ UNCHANGED <<devices, connections, msg, row, cmdVars, deviceCache, received>>

Connected == [revision |-> msg.revision, status |-> "connected"]

(* Mutant: the row is inserted when there is none to update.               *)
UpdateOrInsert(s, r) == devices' = [devices EXCEPT ![s] = r]

UpdateRow(s, r) ==        \* no row matches: nothing happens, and it succeeds
  devices' = IF devices[s] = None THEN devices ELSE [devices EXCEPT ![s] = r]

UpdateDevice ==
  /\ step = "update"
  /\ \/ UpdateRow(msg.serial, Connected) /\ NoFault
     \/ Fault /\ UNCHANGED devices
  /\ AfterRow
  /\ UNCHANGED <<upgrades, lastId, connections, msg, row, cmdVars, deviceCache, received, disturbed>>

CreateDevice ==           \* the serial number is the primary key
  /\ step = "create"
  /\ \/ /\ devices' = IF devices[msg.serial] = None
                        THEN [devices EXCEPT ![msg.serial] = Connected] ELSE devices
        /\ NoFault
     \/ Fault /\ UNCHANGED devices
  /\ AfterRow
  /\ UNCHANGED <<upgrades, lastId, connections, msg, row, cmdVars, deviceCache, received, disturbed>>

CheckLatest ==            \* what ToBeUpgraded does then is AutoUpdater's
  /\ step = "latest"
  /\ IF msg.kind = "connect" THEN step' = "cache" /\ UNCHANGED <<msg, row>> ELSE Done
  /\ UNCHANGED <<tables, connections, cmdVars, deviceCache, received, faults, disturbed>>

AddToCache ==
  /\ step = "cache"
  /\ deviceCache' = [deviceCache EXCEPT ![msg.serial] = msg.revision]
  /\ IF msg.kind = "ping" THEN step' = "latest" /\ UNCHANGED <<msg, row>> ELSE Done
  /\ UNCHANGED <<tables, connections, cmdVars, received, faults, disturbed>>

(* DevicesDB::SetDeviceDisconnected. *)

FindDevice ==
  /\ step = "find"
  /\ \/ /\ devices[msg.serial] # None /\ NoFault
        /\ row' = devices[msg.serial]
        /\ step' = "disconnect"
        /\ UNCHANGED msg
     \/ ((devices[msg.serial] = None /\ NoFault) \/ Fault) /\ Done
  /\ UNCHANGED <<tables, connections, cmdVars, deviceCache, received, disturbed>>

DisconnectDevice ==
  /\ step = "disconnect"
  /\ \/ UpdateRow(msg.serial, [row EXCEPT !.status = "not connected"]) /\ NoFault
     \/ Fault /\ UNCHANGED devices
  /\ Done
  /\ UNCHANGED <<upgrades, lastId, connections, cmdVars, deviceCache, received, disturbed>>

ConnectionStep ==
  \/ PopConnection \/ ComputeFirmwareAge \/ GetDevice \/ AddHistory \/ UpdateDevice
  \/ CreateDevice \/ CheckLatest \/ AddToCache \/ FindDevice \/ DisconnectDevice

----------------------------------------------------------------------------
(* NewCommandHandler::run.  What nlohmann::json throws is not caught here: *)
(* it ends the thread.                                                     *)

PopCommand ==
  /\ stage = "idle" /\ commands # <<>>
  /\ LET c == Head(commands)
     IN \/ /\ c.kind = "delete_device"
           /\ stage' = "history" /\ target' = c.serial
           /\ Disturb(IF Busy(c.serial) THEN {c.serial} ELSE {})
        \/ c.kind = "other" /\ UNCHANGED <<stage, target, disturbed>>
        \/ c.kind = "malformed" /\ stage' = "dead" /\ UNCHANGED <<target, disturbed>>
  /\ commands' = Tail(commands)
  /\ UNCHANGED <<tables, connVars, deviceCache, received, faults>>

(* Mutant: only the row is deleted.                                        *)
SkipHistory ==
  /\ stage = "history" /\ stage' = "device"
  /\ UNCHANGED <<tables, connVars, commands, target, deviceCache, received, faults, disturbed>>

DeleteHistory ==
  /\ stage = "history"
  /\ \/ /\ upgrades' = {u \in upgrades : u.serial # target}
        /\ UNCHANGED disturbed /\ NoFault
     \/ Fault /\ Disturb({target}) /\ UNCHANGED upgrades
  /\ stage' = "device"
  /\ UNCHANGED <<devices, lastId, connVars, commands, target, deviceCache, received>>

DeleteDevice ==
  /\ stage = "device"
  /\ \/ devices' = [devices EXCEPT ![target] = None] /\ NoFault
     \/ Fault /\ UNCHANGED devices
  /\ stage' = "idle" /\ target' = None
  /\ UNCHANGED <<upgrades, lastId, connVars, commands, deviceCache, received, disturbed>>

CommandStep == PopCommand \/ DeleteHistory \/ DeleteDevice

----------------------------------------------------------------------------
(* RESTAPI_historyHandler::DoDelete, for an entry that exists; it answers  *)
(* OK when the statement failed.                                           *)
DeleteEntry(u) ==
  /\ \/ upgrades' = upgrades \ {u} /\ NoFault
     \/ Fault /\ UNCHANGED upgrades
  /\ Disturb({u.serial})
  /\ UNCHANGED <<devices, lastId, connVars, cmdVars, deviceCache, received>>

(* The process dies; it is started again with empty queues and caches.     *)
Crash ==
  /\ connections' = <<>> /\ Done
  /\ commands' = <<>> /\ stage' = "idle" /\ target' = None
  /\ deviceCache' = [s \in Serials |-> None]
  /\ UNCHANGED <<tables, received, faults, disturbed>>

Next ==
  \/ ConnectionStep \/ CommandStep \/ Crash
  \/ \E m \in Messages : ConnectionReceived(m)
  \/ \E c \in Commands : CommandReceived(c)
  \/ \E u \in upgrades : DeleteEntry(u)

Spec == Init /\ [][Next]_vars

(* Both workers loop, waking at least every two seconds.                   *)
FairSpec == Spec /\ WF_vars(ConnectionStep) /\ WF_vars(CommandStep)

----------------------------------------------------------------------------
(* Properties. *)

TypeOK ==
  /\ devices \in [Serials -> Rows \cup {None}]
  /\ upgrades \in SUBSET Upgrades /\ lastId \in 0..MaxMessages
  /\ connections \in Seq(Messages) /\ commands \in Seq(Commands)
  /\ step \in {"idle", "age", "get", "history", "update", "create", "latest", "cache", "find",
               "disconnect"}
  /\ msg \in Messages \cup {None} /\ row \in Rows \cup {None}
  /\ stage \in {"idle", "history", "device", "dead"} /\ target \in Serials \cup {None}
  /\ deviceCache \in [Serials -> Revisions \cup {None}]
  /\ disturbed \in SUBSET Serials
  /\ received \in 0..MaxMessages /\ faults \in 0..MaxFaults

Later(u) == {v \in upgrades : v.serial = u.serial /\ v.id > u.id}

(* The history of a device reads as one story: each entry starts from the  *)
(* revision at which the one before it ended, or, when the process died    *)
(* between AddHistory and UpdateRecord, from where it started; and the     *)
(* last entry ended, or started, at the revision of the device's row.      *)
HistoryConnects ==
  \A u \in upgrades : u.serial \notin disturbed =>
    IF Later(u) = {}
      THEN devices[u.serial] # None => devices[u.serial].revision \in {u.from, u.to}
      ELSE \E v \in Later(u) : /\ \A w \in Later(u) : v.id <= w.id
                               /\ v.from \in {u.from, u.to}

(* There is history only of devices in the table: AddHistory is reached    *)
(* only from a row, and delete_device removes the history first (unless    *)
(* the device is disturbed, as above).                                     *)
HistoryHasDevice ==
  \A u \in upgrades : u.serial \notin disturbed => devices[u.serial] # None

(* An update does not bring back a device that was deleted after the       *)
(* worker read its row: a row appears only when the worker found none.     *)
NoResurrection ==
  [][\A s \in Serials :
       devices[s] = None /\ devices'[s] # None => row = None]_vars

(* Neither worker leaves a message behind while it lives; a message that   *)
(* cannot be parsed does not end the connection worker.                    *)
Handled ==
  /\ (connections # <<>>) ~> (connections = <<>>)
  /\ (commands # <<>>) ~> (commands = <<>> \/ stage = "dead")
============================================================================
