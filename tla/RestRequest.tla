----------------------------- MODULE RestRequest -----------------------------
(***************************************************************************)
(* The life of a REST request, from the server that takes it to its answer *)
(* (framework/RESTAPI_Handler.h and the handlers of RESTAPI/).  Every      *)
(* request is handled in a thread of its own; what the handlers share is   *)
(* the firmware table, its cache, the history, the log levels, the         *)
(* credentials found valid before, and the flag of the refresh, which runs *)
(* beside them in one more thread and writes the firmware table too.       *)
(*                                                                         *)
(* An image that a request adds is named by the request, and so is a note. *)
(* What the readers of the device tables find is left open: other modules  *)
(* say what those tables hold.                                             *)
(***************************************************************************)
EXTENDS Naturals, Sequences, FiniteSets

CONSTANTS
  Requests,       \* each is sent once, if it is in the scenario
  Images,         \* images that may be in the table at the start
  Entries,        \* entries of the revision history
  Runner,         \* the thread of the refresh
  Listed,         \* the ids it gives to the images it adds
  None,
  Scenarios       \* what is asked for, and how often the refresh is due by its timer

Servers == {"external", "internal"}
Roles == {"root", "admin", "other"}
Users == Roles \cup {"key", "service", "impostor", "nobody"}
Methods == {"GET", "POST", "PUT", "DELETE", "OPTIONS", "PATCH"}
Bodies == {"none", "malformed", "empty", "full", "half", "strange", "question"}
Queries == {"none", "update", "latest", "huge"}
Targets ==
  {"firmwares", "systemConfiguration", "firmware", "system", "firmwareAge",
   "connectedDevices", "connectedDevice", "revisionHistory", "deviceReport",
   "deviceInformation", "ws"}

(* "target" is the handler the path leads to, or none: no path matches, or *)
(* the URI cannot be parsed.  "subject" is the id in path or query.  Of a  *)
(* "half" body the first part can be read: for an image it ends before the *)
(* type.  A "question" is a command that sets no log level; a "strange"    *)
(* one names a subsystem, or a level, that there is not.  A "user" is known *)
(* by a token, but for "key", an administrator's API key, and "service",   *)
(* another service of the system.                                          *)
Ask == [server : Servers, target : Targets \cup {"unknown", "unparsable"},
        subject : Images \cup Entries \cup {None}, method : Methods,
        body : Bodies, user : Users, query : Queries]

Statuses == {200, 400, 403, 404, 500, 501}
Threads == Requests \cup {Runner}
Ids == Images \cup Listed \cup Requests
Rows == [latest : BOOLEAN, notes : SUBSET Requests]
Places == {"sent", "received", "do", "clearing", "writing", "creating", "setting",
           "looking", "answering", "done", "dropped", "idle"}

ASSUME RequestAssumption ==
  /\ None \notin Images \cup Listed \cup Entries \cup Requests
  /\ (Images \cup Listed \cup Entries) \cap Requests = {}
  /\ (Images \cup Entries) \cap Listed = {} /\ Runner \notin Requests
  /\ \A s \in Scenarios :
       DOMAIN s.ask \subseteq Requests /\ s.ask \in [DOMAIN s.ask -> Ask] /\ s.due \in Nat

VARIABLES
  (* the store *)
  rows,           \* table "firmwares": rows by id
  cache,          \* LatestFirmwareCache: latest image with, and without, a type
  history,        \* table "history"
  levels,         \* who set the log level of each of two subsystems
  (* the refresh *)
  due,            \* how often its timer will still fire
  updating,       \* UpdateRunning_
  runner,         \* RunnerThread_: "none", "pruning", "adding", or "ending", its flag cleared
  drawn,          \* the ids it has given
  adding,         \* the image it is adding
  (* AuthClient *)
  cached,         \* the credentials in Cache_ and ApiKeyCache_
  lapsed,         \* those whose time is over
  (* each request; at and kept: the refresh as well *)
  ask,
  at,             \* where its handler is
  role,           \* UserInfo_.userinfo.userRole
  kept,           \* the copies of rows its handler holds
  newest,         \* the images added that the cache took
  reply,          \* the status its handler is about to send
  answers,        \* the statuses that went out
  online,         \* requests whose client is still there
  (* history variables *)
  vouched,        \* credentials that the security service has found valid
  did,            \* requests that had their effect
  beside          \* who held a copy of the same row at the same time

refresh == <<due, updating, runner, drawn, adding>>
clients == <<ask, cached, lapsed, vouched>>
store == <<rows, cache, history, levels, refresh>>
ghosts == <<did, beside>>
private == <<role, kept, newest>>
vars == <<store, clients, at, private, reply, answers, online, ghosts>>

TypeOf(id) ==
  IF id \in Requests /\ ask[id].body # "full" THEN "untyped" ELSE "typed"
NoCopies == [i \in {} |-> {}]

(* What the client has to show, on this server: the name of a service and  *)
(* its key are read on the internal one only, an API key on the external   *)
(* one only.                                                               *)
IsService(q) == q.user = "service" /\ q.server = "internal"
Shows(q) ==
  IF q.user \in Roles \/ (q.user = "key" /\ q.server = "external") THEN {q.user} ELSE {}

Init ==
  /\ \E s \in Scenarios : ask = s.ask /\ due = s.due
  /\ \E table \in SUBSET Images, latest \in Images \cup {None} :
       /\ latest \in table \/ (latest = None /\ table = {})
       /\ rows = [i \in table |-> [latest |-> i = latest, notes |-> {}]]
       /\ cache = [typed |-> latest, untyped |-> None]
  /\ history = Entries /\ levels = [s \in {1, 2} |-> None]
  /\ updating = FALSE /\ runner = "none" /\ drawn = {} /\ adding = None
  /\ vouched \in SUBSET UNION {Shows(ask[r]) : r \in DOMAIN ask}
  /\ cached = vouched /\ lapsed = {}
  /\ at = [t \in Threads |-> IF t = Runner THEN "idle" ELSE "sent"]
  /\ role = [r \in Requests |-> None]
  /\ kept = [t \in Threads |-> NoCopies] /\ newest = {}
  /\ reply = [r \in Requests |-> 200] /\ answers = [r \in Requests |-> <<>>]
  /\ online = Requests /\ did = {} /\ beside = [t \in Threads |-> {}]

----------------------------------------------------------------------------
(* Answers.                                                                *)

Goto(r, place) == at' = [at EXCEPT ![r] = place] /\ UNCHANGED reply
Reply(r, status) ==
  at' = [at EXCEPT ![r] = "answering"] /\ reply' = [reply EXCEPT ![r] = status]
OK(r) == Reply(r, 200)
ReturnObject(r) == Reply(r, 200)
BadRequest(r) == Reply(r, 400)
UnAuthorized(r) == Reply(r, 403)
NotFound(r) == Reply(r, 404)

(* The catch of handleRequest: any Poco::Exception.                        *)
Caught(r) == BadRequest(r)

(* The response leaves, if somebody is there to take it.                   *)
Send(r) ==
  /\ at[r] = "answering"
  /\ Goto(r, "done")
  /\ answers' = IF r \in online
                THEN [answers EXCEPT ![r] = Append(@, reply[r])] ELSE answers
  /\ UNCHANGED <<store, clients, private, online, ghosts>>

(* A client may go at any time; its handler cannot tell before it answers. *)
HangUp(r) ==
  /\ r \in online /\ at[r] = "answering"
  /\ online' = online \ {r}
  /\ UNCHANGED <<store, clients, at, private, reply, answers, ghosts>>

----------------------------------------------------------------------------
(* From the socket to the handler.                                         *)

Allowed(target) ==
  CASE target = "unknown" -> {}
    [] target = "firmware" -> {"GET", "POST", "PUT", "DELETE"}
    [] target = "firmwares" -> {"GET", "PUT"}
    [] target = "revisionHistory" -> {"GET", "DELETE"}
    [] target = "system" -> {"GET", "POST"}
    [] target = "systemConfiguration" -> {"GET", "PUT", "DELETE"}
    [] OTHER -> {"GET"}

(* The web-socket handler hangs on the external server only.               *)
Route(q) == IF q.target = "ws" /\ q.server = "internal" THEN "unknown" ELSE q.target
Handler(r) == Route(ask[r])
AlwaysAuthorize(target) == target # "ws"

(* createRequestHandler: the external server swallows the exception and    *)
(* returns no handler, the internal one lets it reach the HTTP server.     *)
NoHandler(r) ==
  /\ at[r] = "sent" /\ Handler(r) = "unparsable"
  /\ Reply(r, IF ask[r].server = "external" THEN 501 ELSE 500)
  /\ UNCHANGED <<store, clients, private, answers, online, ghosts>>

ContinueProcessing(r) ==
  /\ ask[r].method # "OPTIONS"
  /\ ask[r].method \in Allowed(Handler(r))

(* handleRequest, up to the authorization.                                 *)
HandleRequest(r) ==
  /\ at[r] = "sent" /\ Handler(r) # "unparsable"
  /\ \/ ask[r].body = "malformed" /\ Caught(r)
     \/ ask[r].body # "malformed" /\ ask[r].method = "OPTIONS" /\ OK(r)
     \/ /\ ask[r].body # "malformed" /\ ask[r].method \notin {"OPTIONS"} \cup Allowed(Handler(r))
        /\ BadRequest(r)
     \/ /\ ask[r].body # "malformed" /\ ContinueProcessing(r)
        /\ Goto(r, "received")
  /\ UNCHANGED <<store, clients, private, answers, online, ghosts>>

(* InitQueryBlock: std::stoull throws what nobody here catches.            *)
ParseParameters(r) == Goto(r, IF ask[r].query = "huge" THEN "dropped" ELSE "do")

(* Mutant: whatever is in a cache is accepted.                             *)
AcceptsAll(u) == u \in cached

(* What is accepted without asking: a token until its time is over.  Of a  *)
(* key the test is the other way round: it is accepted only once its time  *)
(* is over, and removed before that.                                       *)
CacheAccepts(u) == u \in cached /\ (u \in lapsed <=> u = "key")

(* The security service vouches for it.  Of a token, the time is tested    *)
(* here as well; that of a key is left to the service.                     *)
Retrieve(u) ==
  /\ ~CacheAccepts(u) /\ (u \in lapsed => u = "key")
  /\ cached' = cached \cup {u} /\ vouched' = vouched \cup {u}

(* It is over, or the service does not vouch for it, or does not answer.   *)
Refuse(u) == ~CacheAccepts(u) /\ cached' = cached \ {u} /\ UNCHANGED vouched

(* IsAuthorized.  A service has the key of this one, and leaves the role   *)
(* of the user as it was made: without a value.                            *)
Admit(r, v) == ParseParameters(r) /\ role' = [role EXCEPT ![r] = v]
IsAuthorized(r) ==
  \/ /\ IsService(ask[r]) /\ \E v \in Roles : Admit(r, v)
     /\ UNCHANGED <<cached, vouched>>
  \/ \E u \in Shows(ask[r]) :
       \/ /\ Admit(r, IF u = "key" THEN "admin" ELSE u)
          /\ Retrieve(u) \/ (CacheAccepts(u) /\ UNCHANGED <<cached, vouched>>)
       \/ UnAuthorized(r) /\ Refuse(u) /\ UNCHANGED role
  \/ /\ ~IsService(ask[r]) /\ Shows(ask[r]) = {}
     /\ UnAuthorized(r) /\ UNCHANGED <<role, cached, vouched>>

Authorize(r) ==
  /\ at[r] = "received"
  /\ IF AlwaysAuthorize(Handler(r)) THEN IsAuthorized(r)
     ELSE ParseParameters(r) /\ UNCHANGED <<role, cached, vouched>>
  /\ UNCHANGED <<store, ask, lapsed, kept, newest, answers, online, ghosts>>

(* Time passes, and a credential leaves its cache: by age, for lack of     *)
(* room, or because the security service says so.  Only who waits for his  *)
(* authorization sees either.                                              *)
Awaited(u) == \E r \in DOMAIN ask : at[r] = "received" /\ u \in Shows(ask[r])
Lapse(u) ==
  /\ Awaited(u) /\ lapsed' = lapsed \cup {u}
  /\ UNCHANGED <<store, ask, cached, vouched, at, private, reply, answers, online, ghosts>>
RemovedCachedToken(u) ==
  /\ Awaited(u) /\ cached' = cached \ {u}
  /\ UNCHANGED <<store, ask, lapsed, vouched, at, private, reply, answers, online, ghosts>>

----------------------------------------------------------------------------
(* The firmware table.  A statement that fails throws, and orm.h answers   *)
(* FALSE; one that meets no row succeeds.                                  *)

(* Mutant: an update that meets no row inserts it.                         *)
ReplaceRecord(i, row) == rows' = [j \in DOMAIN rows \cup {i} |-> IF j = i THEN row ELSE rows[j]]

UpdateRecord(i, row) == rows' = [j \in DOMAIN rows |-> IF j = i THEN row ELSE rows[j]]
DeleteRecord(i) == rows' = [j \in DOMAIN rows \ {i} |-> rows[j]]
CreateRecord(i, row) == rows' = [j \in DOMAIN rows \cup {i} |-> IF j = i THEN row ELSE rows[j]]

(* r takes copies of rows: whoever has one of the same rows is beside it.  *)
TakeCopies(r, copies) ==
  LET others == {t \in Threads \ {r} : at[t] = "writing" /\ DOMAIN kept[t] \cap DOMAIN copies # {}}
  IN  /\ kept' = [kept EXCEPT ![r] = copies]
      /\ beside' = [t \in Threads |-> IF t = r THEN beside[r] \cup others
                                      ELSE IF t \in others THEN beside[t] \cup {r}
                                      ELSE beside[t]]

Is(r, target, method) ==
  at[r] = "do" /\ Handler(r) = target /\ ask[r].method = method

(* AddFirmware, called by a POST and by the refresh.  It draws an id,      *)
(* tells the cache ...                                                     *)
AddToCache(t, id) ==
  \/ /\ cache' = [cache EXCEPT ![TypeOf(id)] = id] /\ newest' = newest \cup {id}
     /\ Goto(t, "clearing")
  \/ cache[TypeOf(id)] # None /\ UNCHANGED <<cache, newest>> /\ Goto(t, "creating")

(* ... reads the rows of the type that have the flag ...                   *)
Added(t) == IF t = Runner THEN adding ELSE t
ReadLatest(t) ==
  /\ at[t] = "clearing"
  /\ LET flagged == {i \in DOMAIN rows : rows[i].latest /\ TypeOf(i) = TypeOf(Added(t))}
     IN  \/ /\ flagged # {} /\ Goto(t, "writing")
            /\ TakeCopies(t, [i \in flagged |-> [rows[i] EXCEPT !.latest = FALSE]])
         \/ Goto(t, "creating") /\ UNCHANGED <<kept, beside>>
  /\ UNCHANGED <<store, clients, role, newest, answers, online, did>>

(* ... writes each of them back without it, whatever becomes of that ...   *)
Adds(t) == t # Runner => ask[t].method = "POST"
ClearLatest(t) ==
  /\ at[t] = "writing" /\ Adds(t)
  /\ \E i \in DOMAIN kept[t] :
       /\ UpdateRecord(i, kept[t][i]) \/ UNCHANGED rows
       /\ kept' = [kept EXCEPT ![t] = [j \in DOMAIN kept[t] \ {i} |-> kept[t][j]]]
       /\ Goto(t, IF DOMAIN kept[t] = {i} THEN "creating" ELSE "writing")
  /\ UNCHANGED <<cache, history, levels, refresh, clients, role, newest, answers, online, ghosts>>

(* ... and adds its own.                                                   *)
NewRow(id) == [latest |-> id \in newest, notes |-> {}]

(* POST firmware: from_json refuses nothing, not even a missing body.      *)
PostFirmware(r) ==
  /\ Is(r, "firmware", "POST") /\ AddToCache(r, r)
  /\ UNCHANGED <<rows, history, levels, refresh, clients, role, kept, answers, online, ghosts>>

CreateFirmware(r) ==
  /\ at[r] = "creating"
  /\ \/ CreateRecord(r, NewRow(r)) /\ did' = did \cup {r} /\ ReturnObject(r)
     \/ UNCHANGED <<rows, did>> /\ BadRequest(r)
  /\ UNCHANGED <<cache, history, levels, refresh, clients, private, answers, online, beside>>

GetFirmware(r) ==
  /\ Is(r, "firmware", "GET")
  /\ \/ ask[r].subject = None /\ BadRequest(r)
     \/ ask[r].subject \in DOMAIN rows /\ ReturnObject(r)
     \/ ask[r].subject # None /\ NotFound(r)
  /\ UNCHANGED <<store, clients, private, answers, online, ghosts>>

DeleteFirmware(r) ==
  /\ Is(r, "firmware", "DELETE")
  /\ \/ ask[r].subject = None /\ BadRequest(r) /\ UNCHANGED <<rows, did>>
     \/ ask[r].subject # None /\ DeleteRecord(ask[r].subject) /\ did' = did \cup {r} /\ OK(r)
     \/ ask[r].subject # None /\ BadRequest(r) /\ UNCHANGED <<rows, did>>
  /\ UNCHANGED <<cache, history, levels, refresh, clients, private, answers, online, beside>>

(* Mutant: the notes of the request replace those of the row.              *)
NotesReplaced(r, row) ==
  [row EXCEPT !.notes = IF ask[r].body = "full" THEN {r} ELSE row.notes]

(* The row of a PUT: its notes are added, those that cannot be read ("half") are none. *)
WithNotes(r, row) ==
  [row EXCEPT !.notes = IF ask[r].body = "full" THEN row.notes \cup {r} ELSE row.notes]

(* PUT firmware reads the row into a copy; without a body, the use of the  *)
(* missing object throws ...                                               *)
PutFirmware(r) ==
  /\ Is(r, "firmware", "PUT")
  /\ \/ ask[r].subject = None /\ BadRequest(r) /\ UNCHANGED <<kept, beside>>
     \/ ask[r].subject # None /\ NotFound(r) /\ UNCHANGED <<kept, beside>>
     \/ /\ ask[r].subject \in DOMAIN rows /\ ask[r].body = "none" /\ Caught(r)
        /\ UNCHANGED <<kept, beside>>
     \/ /\ ask[r].subject \in DOMAIN rows /\ ask[r].body # "none" /\ Goto(r, "writing")
        /\ TakeCopies(r, [i \in {ask[r].subject} |-> WithNotes(r, rows[i])])
  /\ UNCHANGED <<store, clients, role, newest, answers, online, did>>

(* Mutant: the return after the answer is missing.                         *)
WriteAndGoOn(r) ==
  /\ at[r] = "writing" /\ ask[r].method = "PUT"
  /\ \/ /\ UpdateRecord(ask[r].subject, kept[r][ask[r].subject])
        /\ did' = IF ask[r].subject \in DOMAIN rows THEN did \cup {r} ELSE did
        /\ answers' = [answers EXCEPT ![r] = Append(@, 200)]
     \/ UNCHANGED <<rows, did, answers>>
  /\ BadRequest(r)
  /\ kept' = [kept EXCEPT ![r] = NoCopies]
  /\ UNCHANGED <<cache, history, levels, refresh, clients, role, newest, online, beside>>

(* ... and writes the whole of it back.                                    *)
WriteFirmware(r) ==
  /\ at[r] = "writing" /\ ask[r].method = "PUT"
  /\ \/ /\ UpdateRecord(ask[r].subject, kept[r][ask[r].subject])
        /\ did' = IF ask[r].subject \in DOMAIN rows THEN did \cup {r} ELSE did
        /\ ReturnObject(r)
     \/ UNCHANGED <<rows, did>> /\ BadRequest(r)
  /\ kept' = [kept EXCEPT ![r] = NoCopies]
  /\ UNCHANGED <<cache, history, levels, refresh, clients, role, newest, answers, online, beside>>

----------------------------------------------------------------------------
(* The other handlers.                                                     *)

(* GET firmwares.  The latest image of a type is looked up in the cache,   *)
(* then read from the table; every other form of the request is a list.    *)
GetFirmwares(r) ==
  /\ Is(r, "firmwares", "GET")
  /\ \/ ask[r].query = "latest" /\ cache["typed"] = None /\ NotFound(r) /\ UNCHANGED kept
     \/ /\ ask[r].query = "latest" /\ cache["typed"] # None /\ Goto(r, "looking")
        /\ kept' = [kept EXCEPT ![r] = [i \in {cache["typed"]} |-> [latest |-> TRUE, notes |-> {}]]]
     \/ ask[r].query # "latest" /\ ReturnObject(r) /\ UNCHANGED kept
  /\ UNCHANGED <<store, clients, role, newest, answers, online, ghosts>>

GetLatest(r) ==
  /\ at[r] = "looking"
  /\ IF DOMAIN kept[r] \subseteq DOMAIN rows THEN ReturnObject(r) ELSE NotFound(r)
  /\ kept' = [kept EXCEPT ![r] = NoCopies]
  /\ UNCHANGED <<store, clients, role, newest, answers, online, ghosts>>

(* RunUpdateTask sets the flag and starts the thread; when the last one    *)
(* has not ended yet, start throws, and the flag stays set.                *)
RunUpdateTask ==
  /\ ~updating /\ updating' = TRUE
  /\ runner' = IF runner = "none" THEN "pruning" ELSE runner
  /\ UNCHANGED <<drawn, adding>>

(* PUT firmwares?update=true, for ROOT and ADMIN.                          *)
PutFirmwares(r) ==
  /\ Is(r, "firmwares", "PUT")
  /\ \/ role[r] \notin {"root", "admin"} /\ UnAuthorized(r) /\ UNCHANGED <<refresh, did>>
     \/ /\ role[r] \in {"root", "admin"} /\ ask[r].query = "update" /\ RunUpdateTask
        /\ IF runner = "none" THEN OK(r) /\ did' = did \cup {r}
                              ELSE Caught(r) /\ UNCHANGED did
     \/ /\ role[r] \in {"root", "admin"} /\ (ask[r].query = "update" => updating)
        /\ BadRequest(r) /\ UNCHANGED <<refresh, did>>
  /\ UNCHANGED <<due, rows, cache, history, levels, clients, private, answers, online, beside>>

GetHistory(r) ==
  /\ Is(r, "revisionHistory", "GET")
  /\ \/ ask[r].subject = None /\ BadRequest(r)
     \/ ask[r].subject # None /\ (ReturnObject(r) \/ NotFound(r))
  /\ UNCHANGED <<store, clients, private, answers, online, ghosts>>

(* The answer is that of a failure when the entry is deleted.              *)
DeleteHistory(r) ==
  /\ Is(r, "revisionHistory", "DELETE")
  /\ \/ ask[r].subject = None /\ BadRequest(r) /\ UNCHANGED <<history, did>>
     \/ /\ ask[r].subject # None /\ NotFound(r)
        /\ history' = history \ {ask[r].subject} /\ did' = did \cup {r}
     \/ ask[r].subject # None /\ OK(r) /\ UNCHANGED <<history, did>>
  /\ UNCHANGED <<rows, cache, levels, refresh, clients, private, answers, online, beside>>

(* It answers FALSE, which nobody reads, for a subsystem or a level that   *)
(* there is not, and sets nothing.                                         *)
SetSubsystemLogLevel(found, r) == levels' = [s \in {1, 2} |-> IF s \in found THEN r ELSE levels[s]]

(* What the elements of "setloglevel" set, one by one.  A "strange" first  *)
(* one is passed over: the subsystem or the level is unknown, or the       *)
(* element lacks one of the two; the second names "all".                   *)
Elements(body) == IF body = "strange" THEN <<{}, {1, 2}>> ELSE <<{1}, {2}>>

(* POST system.  When the second element of "setloglevel" cannot be read,  *)
(* what the first one set stays set.  What "reload" does later, in a       *)
(* detached thread, is left out.                                           *)
PostSystem(r) ==
  /\ Is(r, "system", "POST")
  /\ \/ ask[r].body = "none" /\ Caught(r) /\ UNCHANGED levels
     \/ ask[r].body = "empty" /\ BadRequest(r) /\ UNCHANGED levels
     \/ ask[r].body = "question" /\ (ReturnObject(r) \/ BadRequest(r)) /\ UNCHANGED levels
     \/ /\ ask[r].body \in {"full", "half", "strange"} /\ Goto(r, "setting")
        /\ SetSubsystemLogLevel(Elements(ask[r].body)[1], r)
  /\ UNCHANGED <<rows, cache, history, refresh, clients, private, answers, online, ghosts>>

SetNextLevel(r) ==
  /\ at[r] = "setting"
  /\ \/ /\ ask[r].body # "half" /\ OK(r)
        /\ SetSubsystemLogLevel(Elements(ask[r].body)[2], r)
        /\ did' = IF ask[r].body = "full" THEN did \cup {r} ELSE did
     \/ ask[r].body = "half" /\ Caught(r) /\ UNCHANGED <<levels, did>>
  /\ UNCHANGED <<rows, cache, history, refresh, clients, private, answers, online, beside>>

(* PUT and DELETE systemConfiguration: for ROOT, and not implemented.      *)
ChangeConfiguration(r) ==
  /\ Is(r, "systemConfiguration", "PUT") \/ Is(r, "systemConfiguration", "DELETE")
  /\ IF role[r] # "root" THEN UnAuthorized(r) ELSE BadRequest(r)
  /\ UNCHANGED <<store, clients, private, answers, online, ghosts>>

(* What the readers answer; a device report that cannot be made, and an    *)
(* unreadable certificate of "info", are bad requests.                     *)
SystemGet(q) == IF q.query = "none" THEN {400} ELSE {200, 400}
SystemConfigurationGet(q) == IF q.subject = None THEN {400} ELSE {200}
FirmwareAgeGet(q) == IF q.subject = None THEN {200, 400} ELSE {200, 404}
ConnectedDevicesGet == {200}
ConnectedDeviceGet(q) == IF q.subject = None THEN {400} ELSE {200, 404}
DeviceReportGet == {200, 400}
DeviceInformationGet(q) == IF q.subject = None THEN {400} ELSE {200, 400}

ReaderAnswers(q) ==
  CASE q.target = "system" -> SystemGet(q)
    [] q.target = "systemConfiguration" -> SystemConfigurationGet(q)
    [] q.target = "firmwareAge" -> FirmwareAgeGet(q)
    [] q.target = "connectedDevices" -> ConnectedDevicesGet
    [] q.target = "connectedDevice" -> ConnectedDeviceGet(q)
    [] q.target = "deviceReport" -> DeviceReportGet
    [] OTHER -> DeviceInformationGet(q)

Read(r) ==
  /\ at[r] = "do" /\ ask[r].method = "GET"
  /\ Handler(r) \notin {"firmware", "firmwares", "revisionHistory", "ws"}
  /\ \E status \in ReaderAnswers(ask[r]) : Reply(r, status)
  /\ UNCHANGED <<store, clients, private, answers, online, ghosts>>

(* The web-socket: the upgrade answers by itself; without one, nobody does. *)
WebSocket(r) ==
  /\ Is(r, "ws", "GET")
  /\ Goto(r, "done")
  /\ UNCHANGED <<store, clients, private, answers, online, ghosts>>

----------------------------------------------------------------------------
(* The refresh, started by its timer or by a request.  It deletes rows,    *)
(* those too old in one statement and those whose image has gone one by    *)
(* one, whoever added them; then it adds the images that it did not find.  *)

NoHandlerSteps == UNCHANGED <<clients, at, private, reply, answers, online, ghosts>>
TimerRefreshes ==
  /\ due > 0 /\ due' = due - 1
  /\ RunUpdateTask \/ (updating /\ UNCHANGED <<updating, runner, drawn, adding>>)
  /\ NoHandlerSteps /\ UNCHANGED <<rows, cache, history, levels>>
RefreshPrunes ==
  /\ runner = "pruning"
  /\ \E old \in SUBSET DOMAIN rows : rows' = [i \in DOMAIN rows \ old |-> rows[i]]
  /\ NoHandlerSteps /\ UNCHANGED <<cache, history, levels, refresh>>

(* AddManifestToDB, for an image that is not found by its name.            *)
RefreshAdds ==
  /\ runner \in {"pruning", "adding"} /\ runner' = "adding" /\ at[Runner] = "idle"
  /\ \E id \in Listed \ drawn :
       drawn' = drawn \cup {id} /\ adding' = id /\ AddToCache(Runner, id)
  /\ UNCHANGED <<rows, history, levels, due, updating, clients, role, kept, answers, online, ghosts>>
RefreshCreates ==
  /\ at[Runner] = "creating" /\ Goto(Runner, "idle")
  /\ CreateRecord(adding, NewRow(adding)) \/ UNCHANGED rows
  /\ UNCHANGED <<cache, history, levels, refresh, clients, private, answers, online, ghosts>>

(* It clears the flag, or an exception ends it first.                      *)
RefreshEnds ==
  /\ at[Runner] = "idle"
  /\ \/ runner \in {"pruning", "adding"} /\ runner' = "ending" /\ updating' = FALSE
     \/ runner # "none" /\ runner' = "none" /\ UNCHANGED updating
  /\ NoHandlerSteps /\ UNCHANGED <<rows, cache, history, levels, due, drawn, adding>>

RefreshStep ==
  \/ TimerRefreshes \/ RefreshPrunes \/ RefreshAdds \/ ReadLatest(Runner)
  \/ ClearLatest(Runner) \/ RefreshCreates \/ RefreshEnds
FirmwareStep(r) ==
  \/ PostFirmware(r) \/ ReadLatest(r) \/ ClearLatest(r) \/ CreateFirmware(r)
  \/ GetFirmware(r) \/ DeleteFirmware(r) \/ PutFirmware(r) \/ WriteFirmware(r)
  \/ GetFirmwares(r) \/ GetLatest(r) \/ PutFirmwares(r)
OtherStep(r) ==
  \/ GetHistory(r) \/ DeleteHistory(r) \/ PostSystem(r) \/ SetNextLevel(r)
  \/ ChangeConfiguration(r) \/ Read(r) \/ WebSocket(r)
HandlerStep(r) ==
  NoHandler(r) \/ HandleRequest(r) \/ Authorize(r) \/ FirmwareStep(r) \/ OtherStep(r) \/ Send(r)
CredentialStep == \E u \in Users : Lapse(u) \/ RemovedCachedToken(u)
Environment == RefreshStep \/ CredentialStep \/ \E r \in DOMAIN ask : HangUp(r)

Next == Environment \/ \E r \in DOMAIN ask : HandlerStep(r)
Spec == Init /\ [][Next]_vars

----------------------------------------------------------------------------
(* Properties.                                                             *)

SomeRows(f) == DOMAIN f \subseteq Ids /\ f \in [DOMAIN f -> Rows]

RequestTypeOK ==
  /\ SomeRows(rows)
  /\ cache \in [{"typed", "untyped"} -> Ids \cup {None}]
  /\ history \subseteq Entries /\ levels \in [{1, 2} -> Requests \cup {None}]
  /\ updating \in BOOLEAN /\ runner \in {"none", "pruning", "adding", "ending"}
  /\ due \in Nat /\ drawn \subseteq Listed /\ adding \in Listed \cup {None}
  /\ DOMAIN ask \subseteq Requests /\ ask \in [DOMAIN ask -> Ask]
  /\ cached \subseteq vouched /\ vouched \subseteq Users /\ lapsed \subseteq Users
  /\ at \in [Threads -> Places] /\ role \in [Requests -> Roles \cup {None}]
  /\ kept = [t \in Threads |-> kept[t]] /\ \A t \in Threads : SomeRows(kept[t])
  /\ newest \subseteq Ids /\ reply \in [Requests -> Statuses]
  /\ answers \in [Requests -> Seq(Statuses)] /\ online \subseteq Requests
  /\ did \subseteq Requests /\ beside \in [Threads -> SUBSET Threads]

(* No request is answered twice, and none whose client waits is left       *)
(* without an answer, whatever the handler, the tables and the clients did *)
(* - but for an upgrade to a web-socket, and for a number too long for     *)
(* std::stoull, whose exception is not a Poco::Exception and drops the     *)
(* connection.                                                             *)
OneAnswer ==
  \A r \in DOMAIN ask :
    /\ Len(answers[r]) <= 1
    /\ answers[r] # <<>> => at[r] = "done"
    /\ at[r] = "done" /\ r \in online /\ Handler(r) # "ws" => answers[r] # <<>>

RequestInvariant == RequestTypeOK /\ OneAnswer

(* A client is let in by the key of this service, or by a credential that  *)
(* the security service has vouched for; a token's time must not be over.  *)
Vouched(q) == IsService(q) \/ Shows(q) \cap vouched # {}
Steps(r) == at'[r] # at[r] \/ kept'[r] # kept[r]
Enters(r) ==
  at[r] = "received" /\ at'[r] \in {"do", "dropped"} /\ AlwaysAuthorize(Handler(r))
Unattended == runner \in {"pruning", "adding"} /\ \A r \in DOMAIN ask : ~Steps(r)

(* Nobody is let in without being asked for, but for web-sockets: neither  *)
(* on a cached token whose time is over, nor on anything in a cache that   *)
(* the security service never vouched for, whatever was cached, forgotten  *)
(* or has run out meanwhile.  (A cached API key, on the contrary, is let   *)
(* in once its time is over: that much the code allows.)  Whatever changes *)
(* in the store is changed by a handler of such a client, or by the        *)
(* refresh, which leaves the history and the log levels alone; and no user *)
(* but a root or an administrator starts one.  (Another service may: its   *)
(* role is without a value.)                                               *)
NothingWithoutAuthorization ==
  [][/\ \A r \in DOMAIN ask : Enters(r) =>
          \/ IsService(ask[r])
          \/ \E u \in Shows(ask[r]) : u \in vouched' /\ (u \in lapsed => u = "key")
     /\ <<rows, cache, history, levels>>' # <<rows, cache, history, levels>> =>
          \/ Unattended /\ UNCHANGED <<history, levels>>
          \/ \E r \in DOMAIN ask : Steps(r) /\ Vouched(ask[r])
     /\ updating' /\ ~updating =>
          \/ \A r \in DOMAIN ask : ~Steps(r)
          \/ \E r \in DOMAIN ask : Steps(r) /\ Vouched(ask[r]) /\ ask[r].user # "other"]_vars

(* An answer tells what became of the store.  POST and refresh: 200 if and *)
(* only if it was done.  PUT: 200 means that the copy was written, unless  *)
(* the row was deleted between its read and its write.  DELETE: 200 means  *)
(* that the row is gone, for good.  An error means that nothing was done,  *)
(* but for "setloglevel", which stops where it fails.  Its 200 means that  *)
(* all was set only if every element names a subsystem and a level that    *)
(* there are: the others are passed over, and answered 200 as well.        *)
(* (DELETE revisionHistory answers the opposite, and is left out.)         *)
AnswerTellsOutcome ==
  \A r \in DOMAIN ask :
    answers[r] # <<>> =>
      LET q == ask[r]
          ok == answers[r] = <<200>>
          is(target, method) == Handler(r) = target /\ q.method = method
      IN  /\ is("firmware", "POST") => (ok <=> r \in did)
          /\ is("firmware", "PUT") =>
               (r \in did => ok) /\ (ok => r \in did \/ q.subject \notin DOMAIN rows)
          /\ is("firmware", "DELETE") =>
               (r \in did => ok) /\ (ok => q.subject \notin DOMAIN rows)
          /\ is("firmwares", "PUT") => (ok <=> r \in did)
          /\ is("system", "POST") =>
               (r \in did => ok) /\ (ok /\ q.body = "full" => r \in did)

(* A note whose PUT was answered with 200 is in the row as long as there   *)
(* is a row, unless another request - a PUT of the row, or a POST that     *)
(* takes the flag of the latest image from it - or the refresh, which      *)
(* takes the flag as well, held a copy of the row at the same time: the    *)
(* row is written back whole.                                              *)
NotesKept ==
  \A r \in DOMAIN ask :
    /\ answers[r] = <<200>> /\ Handler(r) = "firmware" /\ ask[r].method = "PUT"
    /\ ask[r].body = "full" /\ ask[r].subject \in DOMAIN rows
    => r \in rows[ask[r].subject].notes \/ beside[r] # {}
==============================================================================
