----------------------------- MODULE RestProofs -----------------------------
(***************************************************************************)
(* Proofs about RestRequest and about ObjectExchange: the requests, and    *)
(* the objects that are their bodies and answers.                          *)
(*                                                                         *)
(* For any number of requests of any kind, and a refresh beside them: none *)
(* is answered twice, and what it is told is true, as far as the code      *)
(* tells; nobody is let in who was not vouched for; and no note is lost    *)
(* but to who held a copy of its row beside it.  For any lists of fields   *)
(* that are well formed, any object and any damages: what to_json writes   *)
(* from_json reads back, what is left out is kept, what is half read is    *)
(* refused.                                                                *)
(***************************************************************************)
EXTENDS RestRequest, ObjectExchange, SequenceTheorems, WellFoundedInduction, TLAPS

(* Every place of a handler that has let its client in, and is not done.   *)
Inside == {"do", "clearing", "writing", "creating", "setting", "looking"}

(* Who is inside may be there, and has a role that it may have; the web-   *)
(* socket, which lets everybody in, does nothing to the store.             *)
LetIn(r) ==
  (at[r] \in Inside /\ Handler(r) # "ws") =>
    Vouched(ask[r]) /\ (role[r] \in {"root", "admin"} => ask[r].user # "other")

(* The web-socket goes no further than its first step.                     *)
WebSocketOnlyStarts(r) == Handler(r) = "ws" => at[r] \notin Inside \ {"do"}

(* A refresh that is not idle is adding an image it has drawn an id for.   *)
RunnerAdds == at[Runner] # "idle" => runner = "adding" /\ adding \in Listed

Functions ==
  /\ DOMAIN ask \subseteq Requests
  /\ at = [t \in Threads |-> at[t]]
  /\ kept = [t \in Threads |-> kept[t]]
  /\ role = [r \in Requests |-> role[r]]

AuthorizedInv ==
  /\ Functions /\ RunnerAdds /\ cached \subseteq vouched
  /\ \A r \in DOMAIN ask : LetIn(r) /\ WebSocketOnlyStarts(r)

(* What a step of r's handler past the authorization does to the places:   *)
(* r goes on inside, or leaves.                                            *)
Onward(r) ==
  /\ \E place \in Inside \cup {"answering", "done"} : at' = [at EXCEPT ![r] = place]
  /\ at[r] \in Inside
  /\ Handler(r) = "ws" => at'[r] = "done"
  /\ at'[r] = "done" => Handler(r) = "ws"
  /\ runner # "none" => runner' = runner
  /\ UNCHANGED <<ask, cached, lapsed, vouched, adding, role, answers, online>>
  /\ \/ UNCHANGED kept
     \/ \E copies : kept' = [kept EXCEPT ![r] = copies]

(* A request's thread is not the thread of the refresh.                     *)
LEMMA RequestsAreThreads ==
  Runner \in Threads /\ \A r \in Requests : r \in Threads /\ r # Runner
BY RequestAssumption DEF Threads

(* A step of the handlers of the firmware table, past the authorization,    *)
(* takes its request onward.                                                *)
LEMMA FirmwareOnward ==
  ASSUME NEW r \in DOMAIN ask, Functions, LetIn(r), WebSocketOnlyStarts(r), FirmwareStep(r)
  PROVE  Onward(r)
<1>0. r \in Threads  BY RequestsAreThreads DEF Functions
<1> USE <1>0 DEF Onward, Inside, Functions, Goto, Reply, OK, ReturnObject, BadRequest, UnAuthorized, NotFound,
            Caught, Is, store, refresh, clients, ghosts, private, WebSocketOnlyStarts
<1>1. CASE PostFirmware(r)  BY <1>1 DEF PostFirmware, AddToCache
<1>2. CASE ReadLatest(r)    BY <1>2 DEF ReadLatest, TakeCopies
<1>3. CASE ClearLatest(r)   BY <1>3 DEF ClearLatest
<1>4. CASE CreateFirmware(r)  BY <1>4 DEF CreateFirmware
<1>5. CASE GetFirmware(r)   BY <1>5 DEF GetFirmware
<1>6. CASE DeleteFirmware(r)  BY <1>6 DEF DeleteFirmware
<1>7. CASE PutFirmware(r)   BY <1>7 DEF PutFirmware, TakeCopies
<1>8. CASE WriteFirmware(r) BY <1>8 DEF WriteFirmware
<1>9. CASE GetFirmwares(r)  BY <1>9 DEF GetFirmwares
<1>10. CASE GetLatest(r)
  <2>1. at[r] = "looking" /\ UNCHANGED <<clients, refresh, role, answers, online>>  BY <1>10 DEF GetLatest
  <2>2. at' = [at EXCEPT ![r] = "answering"]  BY <1>10 DEF GetLatest
  <2>3. \E copies : kept' = [kept EXCEPT ![r] = copies]  BY <1>10 DEF GetLatest
  <2> HIDE DEF Functions
  <2>4. at'[r] = "answering" /\ Handler(r) # "ws"  BY <2>1, <2>2, Functions DEF Functions
  <2> QED BY <2>1, <2>2, <2>3, <2>4
<1>11. CASE PutFirmwares(r) BY <1>11 DEF PutFirmwares, RunUpdateTask
<1> QED BY <1>1, <1>2, <1>3, <1>4, <1>5, <1>6, <1>7, <1>8, <1>9, <1>10, <1>11, FirmwareStep(r) DEF FirmwareStep

(* The same of the handlers of the history, of the subsystems and of the    *)
(* readers.                                                                *)
LEMMA OtherOnward ==
  ASSUME NEW r \in DOMAIN ask, Functions, LetIn(r), WebSocketOnlyStarts(r), OtherStep(r)
  PROVE  Onward(r)
<1>0. r \in Threads  BY RequestsAreThreads DEF Functions
<1> USE <1>0 DEF Onward, Inside, Functions, Goto, Reply, OK, ReturnObject, BadRequest, UnAuthorized, NotFound,
            Caught, Is, store, refresh, clients, ghosts, private, WebSocketOnlyStarts
<1>1. CASE GetHistory(r)    BY <1>1 DEF GetHistory
<1>2. CASE DeleteHistory(r) BY <1>2 DEF DeleteHistory
<1>3. CASE PostSystem(r)    BY <1>3 DEF PostSystem
<1>4. CASE SetNextLevel(r)  BY <1>4 DEF SetNextLevel
<1>5. CASE ChangeConfiguration(r) BY <1>5 DEF ChangeConfiguration
<1>6. CASE Read(r)          BY <1>6 DEF Read
<1>7. CASE WebSocket(r)     BY <1>7 DEF WebSocket
<1> QED BY <1>1, <1>2, <1>3, <1>4, <1>5, <1>6, <1>7, OtherStep(r) DEF OtherStep

(* A handler's step past the authorization takes its own request onward,    *)
(* whatever the handler.                                                   *)
LEMMA HandlerOnward ==
  ASSUME NEW r \in DOMAIN ask, AuthorizedInv, FirmwareStep(r) \/ OtherStep(r)
  PROVE  Onward(r)
BY FirmwareOnward, OtherOnward DEF AuthorizedInv

(* What the refresh, the clock, the caches of credentials and the clients  *)
(* that go leave alone: every handler, its answer and the history.         *)
Aside ==
  /\ at' = at \/ \E place \in Places : at' = [at EXCEPT ![Runner] = place]
  /\ kept' = kept \/ \E copies : kept' = [kept EXCEPT ![Runner] = copies]
  /\ UNCHANGED <<ask, vouched, role, reply, answers, did, history, levels>>
  /\ cached' \subseteq cached /\ online' \subseteq online

(* They do leave it alone.                                                 *)
LEMMA EnvironmentAside == Environment => Aside
<1> SUFFICES ASSUME Environment PROVE Aside  OBVIOUS
<1> USE DEF Aside, Places, store, refresh, clients, private, ghosts, NoHandlerSteps, Goto
<1>1. CASE TimerRefreshes \/ RefreshPrunes \/ RefreshEnds
  BY <1>1 DEF TimerRefreshes, RefreshPrunes, RefreshEnds
<1>2. CASE RefreshAdds  BY <1>2 DEF RefreshAdds, AddToCache
<1>3. CASE ReadLatest(Runner)  BY <1>3 DEF ReadLatest, TakeCopies
<1>4. CASE ClearLatest(Runner)
  <2>1. /\ at' = [at EXCEPT ![Runner] = "creating"] \/ at' = [at EXCEPT ![Runner] = "writing"]
        /\ \E copies : kept' = [kept EXCEPT ![Runner] = copies]
        /\ UNCHANGED <<cache, history, levels, refresh, clients, role, newest, reply, answers, online, ghosts>>
    BY <1>4 DEF ClearLatest
  <2> QED BY <2>1
<1>5. CASE RefreshCreates  BY <1>5 DEF RefreshCreates
<1>6. CASE CredentialStep  BY <1>6 DEF CredentialStep, Lapse, RemovedCachedToken
<1>7. CASE \E r \in DOMAIN ask : HangUp(r)  BY <1>7 DEF HangUp
<1> QED BY <1>1, <1>2, <1>3, <1>4, <1>5, <1>6, <1>7 DEF Environment, RefreshStep

(* The refresh is busy only while it adds.                                 *)
LEMMA EnvironmentRuns == Functions /\ RunnerAdds /\ Environment => RunnerAdds'
<1> SUFFICES ASSUME Functions, RunnerAdds, Environment PROVE RunnerAdds'  OBVIOUS
<1> USE RequestsAreThreads DEF RunnerAdds, store, refresh, clients, private, ghosts, NoHandlerSteps, Goto, Functions
<1>1. CASE TimerRefreshes \/ RefreshPrunes \/ RefreshEnds
  BY <1>1 DEF TimerRefreshes, RunUpdateTask, RefreshPrunes, RefreshEnds
<1>2. CASE RefreshAdds  BY <1>2 DEF RefreshAdds, AddToCache
<1>3. CASE ReadLatest(Runner)  BY <1>3 DEF ReadLatest
<1>4. CASE ClearLatest(Runner)  BY <1>4 DEF ClearLatest
<1>5. CASE RefreshCreates  BY <1>5 DEF RefreshCreates
<1>6. CASE CredentialStep  BY <1>6 DEF CredentialStep, Lapse, RemovedCachedToken
<1>7. CASE \E r \in DOMAIN ask : HangUp(r)  BY <1>7 DEF HangUp
<1> QED BY <1>1, <1>2, <1>3, <1>4, <1>5, <1>6, <1>7 DEF Environment, RefreshStep

(* Going on inside keeps everybody where he may be.                        *)
LEMMA OnwardKeepsAuthorized ==
  ASSUME NEW r \in DOMAIN ask, AuthorizedInv, Onward(r)
  PROVE  AuthorizedInv'
<1> USE RequestsAreThreads DEF Onward, Functions
<1>1. Functions' /\ RunnerAdds' /\ (cached \subseteq vouched)'  BY DEF AuthorizedInv, RunnerAdds
<1>2. ASSUME NEW s \in DOMAIN ask PROVE LetIn(s)' /\ WebSocketOnlyStarts(s)'
  <2>0. s \in Threads /\ r \in Threads /\ LetIn(s) /\ LetIn(r) /\ WebSocketOnlyStarts(s)
    BY DEF AuthorizedInv
  <2>1. CASE s # r  BY <2>0, <2>1 DEF LetIn, WebSocketOnlyStarts, Handler, Inside, Vouched
  <2>2. CASE s = r
    <3>1. Handler(r)' = Handler(r) /\ role' = role /\ ask' = ask  BY DEF Handler
    <3>2. WebSocketOnlyStarts(r)'  BY <3>1 DEF WebSocketOnlyStarts, Inside
    <3>3. LetIn(r)'  BY <2>0, <3>1 DEF LetIn, Vouched
    <3> QED BY <2>2, <3>2, <3>3
  <2> QED BY <2>1, <2>2
<1> QED BY <1>1, <1>2 DEF AuthorizedInv

(* IsAuthorized lets in whom the security service has vouched for, this    *)
(* time or before, with a role that goes with it.                          *)
Welcome(r) ==
  /\ cached' \subseteq vouched' /\ vouched \subseteq vouched'
  /\ \/ UNCHANGED role /\ at' = [at EXCEPT ![r] = "answering"]
     \/ \E v \in Roles :
          /\ role' = [role EXCEPT ![r] = v]
          /\ \E place \in {"do", "dropped"} : at' = [at EXCEPT ![r] = place]
          /\ v \in {"root", "admin"} => ask[r].user # "other"
          /\ \/ IsService(ask[r])
             \/ \E u \in Shows(ask[r]) : u \in vouched' /\ (u \in lapsed => u = "key")

(* It does.                                                                *)
LEMMA OnlyTheVouchedFor ==
  ASSUME NEW r \in DOMAIN ask, cached \subseteq vouched, IsAuthorized(r)
  PROVE  Welcome(r)
<1> USE DEF Welcome, ParseParameters, Goto, UnAuthorized, Reply
<1>1. CASE IsService(ask[r]) /\ (\E v \in Roles : Admit(r, v)) /\ UNCHANGED <<cached, vouched>>
  BY <1>1 DEF Admit, IsService
<1>2. ASSUME NEW u \in Shows(ask[r]), Admit(r, IF u = "key" THEN "admin" ELSE u),
             Retrieve(u) \/ (CacheAccepts(u) /\ UNCHANGED <<cached, vouched>>)
      PROVE  Welcome(r)
  <2> DEFINE v == IF u = "key" THEN "admin" ELSE u
  <2>1. cached' \subseteq vouched' /\ vouched \subseteq vouched' /\ u \in vouched' /\ (u \in lapsed => u = "key")
    BY <1>2 DEF Retrieve, CacheAccepts
  <2>2. ask[r].user = u /\ v \in Roles  BY DEF Shows, Roles
  <2>3. v \in {"root", "admin"} => u # "other"  OBVIOUS
  <2>4. role' = [role EXCEPT ![r] = v] /\ \E place \in {"do", "dropped"} : at' = [at EXCEPT ![r] = place]
    BY <1>2 DEF Admit
  <2> HIDE DEF v
  <2> QED BY <2>1, <2>2, <2>3, <2>4
<1>3. CASE \E u \in Shows(ask[r]) : UnAuthorized(r) /\ Refuse(u) /\ UNCHANGED role
  BY <1>3 DEF Refuse
<1>4. CASE UnAuthorized(r) /\ UNCHANGED <<role, cached, vouched>>
  BY <1>4
<1> QED BY <1>1, <1>2, <1>3, <1>4 DEF IsAuthorized

(* No step of the server lets a client in who may not be there: the only   *)
(* way inside is IsAuthorized of RESTHandler, but for the web-socket.      *)
LEMMA AuthorizedStep == AuthorizedInv /\ [Next]_vars => AuthorizedInv'
<1> SUFFICES ASSUME AuthorizedInv, [Next]_vars PROVE AuthorizedInv'  OBVIOUS
<1> USE RequestsAreThreads DEF AuthorizedInv
<1>1. CASE UNCHANGED vars
  BY <1>1 DEF vars, private, clients, store, refresh, Functions, RunnerAdds, LetIn, WebSocketOnlyStarts, Handler, Vouched
<1>2. CASE Environment
  <2>1. Aside /\ RunnerAdds'  BY <1>2, EnvironmentAside, EnvironmentRuns
  <2>2. Functions' /\ (cached \subseteq vouched)'  BY <2>1 DEF Aside, Functions
  <2>3. \A r \in DOMAIN ask : at'[r] = at[r]  BY <2>1 DEF Aside, Functions
  <2> QED BY <2>1, <2>2, <2>3 DEF Aside, LetIn, WebSocketOnlyStarts, Handler, Vouched
<1>3. ASSUME NEW r \in DOMAIN ask, HandlerStep(r) PROVE AuthorizedInv'
  <2>0. r \in Requests /\ r \in Threads /\ r # Runner  BY DEF Functions
  <2>1. CASE FirmwareStep(r) \/ OtherStep(r)
    BY <2>1, HandlerOnward, OnwardKeepsAuthorized
  <2> DEFINE Goes(places) == \E place \in places : at' = [at EXCEPT ![r] = place]
             Let(s) == LetIn(s) /\ WebSocketOnlyStarts(s)
  <2>2. CASE NoHandler(r) \/ HandleRequest(r) \/ Send(r)
    <3>1. UNCHANGED <<ask, cached, vouched, runner, adding, kept, role>> /\ Goes({"answering", "received", "done"})
      BY <2>2 DEF NoHandler, HandleRequest, Send, Goto, Reply, Caught, OK, BadRequest, private, clients, store, refresh
    <3>2. Functions' /\ RunnerAdds' /\ (cached \subseteq vouched)'  BY <2>0, <3>1 DEF Functions, RunnerAdds
    <3>3. \A s \in DOMAIN ask : Let(s)'
      BY <2>0, <3>1 DEF Functions, LetIn, WebSocketOnlyStarts, Handler, Inside, Vouched
    <3> QED BY <3>1, <3>2, <3>3
  <2>3. CASE Authorize(r)
    <3>1. UNCHANGED <<ask, runner, adding, kept>>  BY <2>3 DEF Authorize, store, refresh
    <3>2. CASE ~AlwaysAuthorize(Handler(r))
      <4>1. UNCHANGED <<role, cached, vouched>> /\ Handler(r) = "ws" /\ Goes({"do", "dropped"})
        BY <2>3, <3>2 DEF Authorize, AlwaysAuthorize, ParseParameters, Goto
      <4>2. Functions' /\ RunnerAdds' /\ (cached \subseteq vouched)'  BY <2>0, <3>1, <4>1 DEF Functions, RunnerAdds
      <4>3. \A s \in DOMAIN ask : Let(s)'
        BY <2>0, <3>1, <4>1 DEF Functions, LetIn, WebSocketOnlyStarts, Handler, Inside, Vouched
      <4> QED BY <3>1, <4>2, <4>3
    <3>3. CASE AlwaysAuthorize(Handler(r))
      <4>1. Welcome(r) /\ Handler(r) # "ws"
        BY <2>3, <3>3, OnlyTheVouchedFor DEF Authorize, AlwaysAuthorize
      <4>2. Functions' /\ RunnerAdds' /\ (cached \subseteq vouched)'
        BY <2>0, <3>1, <4>1 DEF Welcome, Functions, RunnerAdds
      <4>3. ASSUME NEW s \in DOMAIN ask, s # r PROVE Let(s)'
        BY <2>0, <3>1, <4>1, <4>3
           DEF Welcome, Functions, LetIn, WebSocketOnlyStarts, Handler, Inside, Vouched
      <4>4. Let(r)'
        <5>1. at'[r] \in {"answering", "do", "dropped"} /\ Handler(r)' = Handler(r)
          BY <2>0, <3>1, <4>1 DEF Welcome, Functions, Handler
        <5>2. at'[r] = "do" => Vouched(ask[r])' /\ (role'[r] \in {"root", "admin"} => ask[r].user # "other")
          BY <2>0, <3>1, <4>1 DEF Welcome, Functions, Vouched
        <5> QED BY <3>1, <4>1, <5>1, <5>2 DEF LetIn, WebSocketOnlyStarts, Inside
      <4> QED BY <3>1, <4>2, <4>3, <4>4
    <3> QED BY <3>2, <3>3
  <2> QED BY <1>3, <2>1, <2>2, <2>3 DEF HandlerStep
<1> QED BY <1>1, <1>2, <1>3 DEF Next

(* The server starts with nobody inside a handler.                          *)
LEMMA AuthorizedInit == Init => AuthorizedInv
BY RequestAssumption, RequestsAreThreads
   DEF Init, AuthorizedInv, Functions, RunnerAdds, LetIn, WebSocketOnlyStarts, Inside


-----------------------------------------------------------------------------
(* What NothingWithoutAuthorization allows a step to change, and to let in. *)
AllowedChange ==
  /\ <<rows, cache, history, levels>>' # <<rows, cache, history, levels>> =>
       \/ Unattended /\ UNCHANGED <<history, levels>>
       \/ \E r \in DOMAIN ask : Steps(r) /\ Vouched(ask[r])
  /\ updating' /\ ~updating =>
       \/ \A r \in DOMAIN ask : ~Steps(r)
       \/ \E r \in DOMAIN ask : Steps(r) /\ Vouched(ask[r]) /\ ask[r].user # "other"
AllowedEntry ==
  \A r \in DOMAIN ask : Enters(r) =>
    \/ IsService(ask[r])
    \/ \E u \in Shows(ask[r]) : u \in vouched' /\ (u \in lapsed => u = "key")


(* Both, as the property puts them together.                               *)
AllAllowed ==
  /\ \A r \in DOMAIN ask : Enters(r) =>
       \/ IsService(ask[r])
       \/ \E u \in Shows(ask[r]) : u \in vouched' /\ (u \in lapsed => u = "key")
  /\ <<rows, cache, history, levels>>' # <<rows, cache, history, levels>> =>
       \/ Unattended /\ UNCHANGED <<history, levels>>
       \/ \E r \in DOMAIN ask : Steps(r) /\ Vouched(ask[r])
  /\ updating' /\ ~updating =>
       \/ \A r \in DOMAIN ask : ~Steps(r)
       \/ \E r \in DOMAIN ask : Steps(r) /\ Vouched(ask[r]) /\ ask[r].user # "other"

(* The steps that change something are those of a trusted client's handler *)
(* that goes on, and none of them but PutFirmwares touches the refresh.    *)
LEMMA FirmwareChanges ==
  ASSUME NEW r \in DOMAIN ask, AuthorizedInv, FirmwareStep(r)
  PROVE  AllowedChange
<1>0. r \in Requests /\ r \in Threads /\ LetIn(r) /\ WebSocketOnlyStarts(r) /\ Functions
  BY RequestsAreThreads DEF AuthorizedInv, Functions
<1> USE <1>0 DEF AllowedChange, Functions, LetIn, WebSocketOnlyStarts, Inside, Steps, Goto, Reply, OK, ReturnObject,
                 BadRequest, Is, store, refresh, private
<1>1. CASE PostFirmware(r)  BY <1>1 DEF PostFirmware, AddToCache
<1>2. CASE ReadLatest(r) \/ GetFirmware(r) \/ PutFirmware(r) \/ GetFirmwares(r) \/ GetLatest(r)
  BY <1>2 DEF ReadLatest, GetFirmware, PutFirmware, GetFirmwares, GetLatest
<1>3. CASE ClearLatest(r)
  <2>1. PICK i \in DOMAIN kept[r] :
          kept' = [kept EXCEPT ![r] = [j \in DOMAIN kept[r] \ {i} |-> kept[r][j]]]
    BY <1>3 DEF ClearLatest
  <2>2. kept'[r] # kept[r]
    BY <2>1
  <2> QED BY <1>3, <2>2 DEF ClearLatest
<1>4. CASE CreateFirmware(r)  BY <1>4 DEF CreateFirmware
<1>5. CASE DeleteFirmware(r)  BY <1>5 DEF DeleteFirmware
<1>6. CASE WriteFirmware(r)   BY <1>6 DEF WriteFirmware
<1>7. CASE PutFirmwares(r)    BY <1>7 DEF PutFirmwares, UnAuthorized, Caught
<1> QED BY <1>1, <1>2, <1>3, <1>4, <1>5, <1>6, <1>7, FirmwareStep(r) DEF FirmwareStep

(* The same of the other handlers: the history and the levels of the log    *)
(* are changed for trusted clients.                                         *)
LEMMA OtherChanges ==
  ASSUME NEW r \in DOMAIN ask, AuthorizedInv, OtherStep(r)
  PROVE  AllowedChange
<1>0. r \in Requests /\ r \in Threads /\ LetIn(r) /\ WebSocketOnlyStarts(r) /\ Functions
  BY RequestsAreThreads DEF AuthorizedInv, Functions
<1> USE <1>0 DEF AllowedChange, Functions, LetIn, WebSocketOnlyStarts, Inside, Steps, Goto, Reply, OK,
                 BadRequest, Is, store, refresh, private
<1>1. CASE DeleteHistory(r)  BY <1>1 DEF DeleteHistory, NotFound
<1>2. CASE PostSystem(r)     BY <1>2 DEF PostSystem, Caught, ReturnObject
<1>3. CASE SetNextLevel(r)   BY <1>3 DEF SetNextLevel, Caught
<1>4. CASE GetHistory(r) \/ ChangeConfiguration(r) \/ Read(r) \/ WebSocket(r)
  BY <1>4 DEF GetHistory, ChangeConfiguration, Read, WebSocket
<1> QED BY <1>1, <1>2, <1>3, <1>4, OtherStep(r) DEF OtherStep

(* The refresh changes rows and their cache while it runs, and nothing of  *)
(* what belongs to the handlers.                                           *)
LEMMA EnvironmentChanges == AuthorizedInv /\ Environment => AllowedChange
<1> SUFFICES ASSUME AuthorizedInv, Environment PROVE AllowedChange  OBVIOUS
<1>0. Aside  BY EnvironmentAside
<1>1. \A r \in DOMAIN ask : ~Steps(r)
  BY <1>0, RequestsAreThreads DEF Aside, Steps, AuthorizedInv, Functions
<1>2. <<rows, cache>>' # <<rows, cache>> => runner \in {"pruning", "adding"}
  <2> USE DEF store, AuthorizedInv, RunnerAdds
  <2>1. CASE TimerRefreshes \/ RefreshPrunes \/ RefreshEnds
    BY <2>1 DEF TimerRefreshes, RefreshPrunes, RefreshEnds
  <2>2. CASE RefreshAdds  BY <2>2 DEF RefreshAdds
  <2>3. CASE ReadLatest(Runner)  BY <2>3 DEF ReadLatest
  <2>4. CASE ClearLatest(Runner)  BY <2>4 DEF ClearLatest
  <2>5. CASE RefreshCreates  BY <2>5 DEF RefreshCreates
  <2>6. CASE CredentialStep  BY <2>6 DEF CredentialStep, Lapse, RemovedCachedToken
  <2>7. CASE \E r \in DOMAIN ask : HangUp(r)  BY <2>7 DEF HangUp
  <2> QED BY <2>1, <2>2, <2>3, <2>4, <2>5, <2>6, <2>7 DEF Environment, RefreshStep
<1> QED BY <1>0, <1>1, <1>2 DEF AllowedChange, Unattended, Aside

(* So every step that changes something is one the property allows.         *)
LEMMA ChangesAllowed == AuthorizedInv /\ [Next]_vars => [AllowedChange]_vars
<1> SUFFICES ASSUME AuthorizedInv, Next PROVE AllowedChange  OBVIOUS
<1>1. ASSUME NEW r \in DOMAIN ask, HandlerStep(r) PROVE AllowedChange
  <2>1. CASE NoHandler(r) \/ HandleRequest(r) \/ Authorize(r) \/ Send(r)
    BY <2>1 DEF NoHandler, HandleRequest, Authorize, Send, store, refresh, AllowedChange
  <2> QED BY <1>1, <2>1, FirmwareChanges, OtherChanges DEF HandlerStep
<1> QED BY <1>1, EnvironmentChanges DEF Next

(* And nobody is let in but by Authorize.                                  *)
LEMMA EntriesAllowed == AuthorizedInv /\ [Next]_vars => [AllowedEntry]_vars
<1> SUFFICES ASSUME AuthorizedInv, Next, NEW r \in DOMAIN ask, Enters(r)
             PROVE  \/ IsService(ask[r])
                    \/ \E u \in Shows(ask[r]) : u \in vouched' /\ (u \in lapsed => u = "key")
  BY DEF AllowedEntry
<1>0. r \in Threads /\ r # Runner /\ at[r] = "received" /\ at'[r] \in {"do", "dropped"} /\ Functions
  BY RequestsAreThreads DEF AuthorizedInv, Functions, Enters
<1>1. CASE Environment
  BY <1>0, <1>1, EnvironmentAside DEF Aside, Functions
<1>2. ASSUME NEW s \in DOMAIN ask, HandlerStep(s), s # r PROVE FALSE
  <2>1. CASE FirmwareStep(s) \/ OtherStep(s)
    <3>1. \E place : at' = [at EXCEPT ![s] = place]  BY <2>1, HandlerOnward DEF Onward
    <3> QED BY <1>0, <1>2, <3>1 DEF Functions
  <2>2. CASE NoHandler(s) \/ HandleRequest(s) \/ Send(s) \/ Authorize(s)
    <3>1. \E place : at' = [at EXCEPT ![s] = place]
      BY <2>2 DEF NoHandler, HandleRequest, Send, Authorize, IsAuthorized, Admit, ParseParameters, Goto, Reply, Caught,
                  OK, BadRequest, UnAuthorized
    <3> QED BY <1>0, <1>2, <3>1 DEF Functions
  <2> QED BY <1>2, <2>1, <2>2 DEF HandlerStep
<1>3. CASE HandlerStep(r)
  <2>1. CASE FirmwareStep(r) \/ OtherStep(r)
    BY <1>0, <2>1, HandlerOnward DEF Onward, Inside
  <2>2. CASE NoHandler(r) \/ HandleRequest(r) \/ Send(r)
    BY <1>0, <2>2 DEF NoHandler, HandleRequest, Send
  <2>3. CASE Authorize(r)
    <3>1. Welcome(r)  BY <1>0, <2>3, OnlyTheVouchedFor DEF Authorize, Enters, AuthorizedInv
    <3> QED BY <1>0, <3>1 DEF Welcome, Functions
  <2> QED BY <1>3, <2>1, <2>2, <2>3 DEF HandlerStep
<1> QED BY <1>1, <1>2, <1>3 DEF Next

(* For any requests, images and users, whatever fails, runs out or is      *)
(* forgotten, and whoever hangs up: nobody is let in but by this service's *)
(* key on the internal server, or by a credential the security service has *)
(* vouched for and, if it is a token, whose time is not over; the store is *)
(* changed by the handlers of such clients and by the refresh; and no user *)
(* but a root or an administrator starts one.                              *)
THEOREM OnlyTrusted == Spec => NothingWithoutAuthorization
<1>1. Spec => []AuthorizedInv
  BY AuthorizedInit, AuthorizedStep, PTL DEF Spec
<1>2. Spec => [][AllowedChange]_vars
  BY <1>1, ChangesAllowed, PTL DEF Spec
<1>3. Spec => [][AllowedEntry]_vars
  BY <1>1, EntriesAllowed, PTL DEF Spec
<1>4. [AllowedEntry]_vars /\ [AllowedChange]_vars => [AllAllowed]_vars
  BY DEF AllowedEntry, AllowedChange, AllAllowed
<1>5. Spec => [][AllAllowed]_vars
  BY <1>2, <1>3, <1>4, PTL
<1> QED BY <1>5 DEF NothingWithoutAuthorization, AllAllowed


-----------------------------------------------------------------------------
(* Nobody is answered before his handler is done, and whoever is done and  *)
(* still there was answered, the web-socket's client apart.                *)
AnsweredWhenDone ==
  /\ answers = [r \in Requests |-> answers[r]]
  /\ \A r \in DOMAIN ask :
       /\ at[r] # "done" => answers[r] = <<>>
       /\ Len(answers[r]) <= 1
       /\ at[r] = "done" /\ r \in online /\ Handler(r) # "ws" => answers[r] # <<>>

AnswerInv == AuthorizedInv /\ AnsweredWhenDone

(* Only Send, once for a request, puts an answer on the wire, and a handler *)
(* that is done has been through it.                                        *)
LEMMA AnswerStep == AnswerInv /\ [Next]_vars => AnsweredWhenDone'
<1> SUFFICES ASSUME AnswerInv, [Next]_vars PROVE AnsweredWhenDone'  OBVIOUS
<1> USE DEF AnswerInv, AnsweredWhenDone
<1>1. CASE UNCHANGED vars
  BY <1>1 DEF vars, clients, Handler
<1>2. CASE Environment
  <2>1. \A r \in DOMAIN ask : at'[r] = at[r] /\ r \in Requests
    BY <1>2, EnvironmentAside, RequestsAreThreads DEF Aside, AuthorizedInv, Functions
  <2>2. UNCHANGED <<ask, answers>> /\ online' \subseteq online  BY <1>2, EnvironmentAside DEF Aside
  <2> QED BY <2>1, <2>2 DEF Handler
<1>3. ASSUME NEW r \in DOMAIN ask, HandlerStep(r) PROVE AnsweredWhenDone'
  <2>0. r \in Requests /\ r \in Threads /\ Functions  BY RequestsAreThreads DEF AuthorizedInv, Functions
  <2>1. CASE ~Send(r)
    <3>1. /\ UNCHANGED <<ask, answers, online>> /\ at[r] # "done"
          /\ \E place \in Places : at' = [at EXCEPT ![r] = place]
          /\ at'[r] = "done" => Handler(r) = "ws"
      <4>1. CASE FirmwareStep(r) \/ OtherStep(r)
        BY <4>1, HandlerOnward DEF Onward, Inside, Places
      <4>2. CASE NoHandler(r) \/ HandleRequest(r) \/ Authorize(r)
        BY <4>2, <2>0 DEF NoHandler, HandleRequest, Authorize, IsAuthorized, Admit, ParseParameters, UnAuthorized, Goto,
                    Reply, Caught, OK, BadRequest, Places, Functions, clients
      <4> QED BY <1>3, <2>1, <4>1, <4>2 DEF HandlerStep
    <3>2. \A s \in DOMAIN ask : s # r => at'[s] = at[s]
      BY <2>0, <3>1, RequestsAreThreads DEF Functions
    <3> QED BY <2>0, <3>1, <3>2 DEF Functions, Handler
  <2>2. CASE Send(r)
    <3>1. /\ UNCHANGED <<ask, online>> /\ at' = [at EXCEPT ![r] = "done"] /\ at[r] = "answering"
          /\ answers' = IF r \in online THEN [answers EXCEPT ![r] = Append(@, reply[r])] ELSE answers
      BY <2>2 DEF Send, Goto, clients
    <3>2. answers[r] = <<>>  BY <3>1
    <3>3. Append(<<>>, reply[r]) = <<reply[r]>> /\ Len(<<reply[r]>>) = 1 /\ <<reply[r]>> # <<>>
      OBVIOUS
    <3>4. answers'[r] = IF r \in online THEN <<reply[r]>> ELSE <<>>
      BY <2>0, <3>1, <3>2, <3>3
    <3>5. \A s \in DOMAIN ask : s # r => answers'[s] = answers[s] /\ at'[s] = at[s]
      BY <2>0, <3>1, RequestsAreThreads DEF Functions
    <3>6. answers' = [s \in Requests |-> answers'[s]]  BY <2>0, <3>1
    <3>7. Len(answers'[r]) <= 1 /\ (r \in online => answers'[r] # <<>>) /\ at'[r] = "done"
      <4> HIDE DEF AnswerInv, AnsweredWhenDone
      <4>1. at'[r] = "done"  BY <2>0, <3>1 DEF Functions
      <4>2. CASE r \in online
        <5> DEFINE sent == <<reply[r]>>
        <5>1. answers'[r] = sent /\ Len(sent) = 1 /\ sent # <<>>  BY <3>3, <3>4, <4>2
        <5> HIDE DEF sent
        <5> QED BY <4>1, <5>1
      <4>3. CASE r \notin online
        <5>1. answers'[r] = <<>> /\ Len(<<>>) = 0  BY <3>4, <4>3
        <5> QED BY <4>1, <4>3, <5>1
      <4> QED BY <4>2, <4>3
    <3>8. ASSUME NEW s \in DOMAIN ask, s # r
          PROVE  /\ at'[s] # "done" => answers'[s] = <<>>
                 /\ Len(answers'[s]) <= 1
                 /\ at'[s] = "done" /\ s \in online /\ Handler(s) # "ws" => answers'[s] # <<>>
      BY <3>5, <3>8
    <3>9. \A s \in DOMAIN ask : Handler(s)' = Handler(s)  BY <3>1 DEF Handler
    <3> HIDE DEF AnswerInv
    <3> QED BY <3>1, <3>6, <3>7, <3>8, <3>9
  <2> QED BY <2>1, <2>2
<1> QED BY <1>1, <1>2, <1>3 DEF Next

-----------------------------------------------------------------------------
(* What an answer of this status says of the store, once it is on its way. *)
Told(r, status) ==
  LET q == ask[r]
      ok == status = 200
      is(target, method) == Handler(r) = target /\ q.method = method
  IN  /\ is("firmware", "POST") => (ok <=> r \in did)
      /\ is("firmware", "PUT") =>
           (r \in did => ok) /\ (ok => r \in did \/ q.subject \notin DOMAIN rows)
      /\ is("firmware", "DELETE") =>
           (r \in did => ok) /\ (ok => q.subject \notin DOMAIN rows)
      /\ is("firmwares", "PUT") => (ok <=> r \in did)
      /\ is("system", "POST") =>
           (r \in did => ok) /\ (ok /\ q.body = "full" => r \in did)

(* A handler that is still at work has not had its effect, and only the    *)
(* handlers with several steps are between them.                           *)
AtWork(r) ==
  /\ at[r] \notin {"answering", "done", "dropped"} => r \notin did
  /\ at[r] \in {"clearing", "creating"} => Handler(r) = "firmware" /\ ask[r].method = "POST"
  /\ at[r] = "writing" => Handler(r) = "firmware" /\ ask[r].method \in {"POST", "PUT"}
  /\ at[r] = "looking" => Handler(r) = "firmwares" /\ ask[r].method = "GET"
  /\ at[r] = "setting" => Handler(r) = "system" /\ ask[r].method = "POST" /\ ask[r].body # "question"

Tells(r) ==
  /\ AtWork(r)
  /\ at[r] = "answering" => Told(r, reply[r])
  /\ answers[r] # <<>> => \E status : answers[r] = <<status>> /\ Told(r, status)

(* Requests ask for nothing that a request or the refresh adds.            *)
TellInv ==
  /\ reply = [r \in Requests |-> reply[r]]
  /\ \A r \in DOMAIN ask : Tells(r) /\ ask[r].subject \notin Requests \cup Listed

(* What a step of r's handler, before it sends, does to the other requests *)
(* - it has at most its own effect, and adds at most its own image - and   *)
(* to r.                                                                   *)
ByItself(r) ==
  /\ \E place \in Places : at' = [at EXCEPT ![r] = place]
  /\ reply' = reply \/ \E status : reply' = [reply EXCEPT ![r] = status]
  /\ did' \subseteq did \cup {r} /\ did \subseteq did'
  /\ DOMAIN rows' \subseteq DOMAIN rows \cup Requests \cup Listed
  /\ UNCHANGED <<ask, answers>>
AndTells(r) == AtWork(r)' /\ (at'[r] = "answering" => Told(r, reply[r])')

(* The steps of the firmware table: the handler that goes on has done      *)
(* nothing yet, the one that answers says what it did.                     *)
LEMMA FirmwareTells ==
  ASSUME NEW r \in DOMAIN ask, AuthorizedInv, TellInv, FirmwareStep(r)
  PROVE  ByItself(r) /\ AndTells(r)
<1>0. /\ r \in Requests /\ r \in Threads /\ Functions /\ AtWork(r) /\ ask[r].subject \notin Requests \cup Listed
      /\ reply = [s \in Requests |-> reply[s]]
  BY RequestsAreThreads DEF AuthorizedInv, Functions, TellInv, Tells
<1> USE <1>0 DEF ByItself, AndTells, AtWork, Functions, Goto, Reply, OK, ReturnObject, BadRequest, UnAuthorized,
            NotFound, Caught, Is, store, refresh, clients, ghosts, private, Told, Handler, Route, Places
<1>1. CASE PostFirmware(r)  BY <1>1 DEF PostFirmware, AddToCache
<1>2. CASE ReadLatest(r)    BY <1>2 DEF ReadLatest, TakeCopies
<1>3. CASE ClearLatest(r)
  <2>1. /\ at' = [at EXCEPT ![r] = "creating"] \/ at' = [at EXCEPT ![r] = "writing"]
        /\ at[r] = "writing" /\ ask[r].method = "POST" /\ UNCHANGED <<clients, reply, answers, did>>
    BY <1>3, RequestsAreThreads DEF ClearLatest, Adds
  <2>2. DOMAIN rows' \subseteq DOMAIN rows  BY <1>3 DEF ClearLatest, UpdateRecord
  <2> QED BY <2>1, <2>2
<1>4. CASE CreateFirmware(r)  BY <1>4 DEF CreateFirmware, CreateRecord
<1>5. CASE GetFirmware(r)   BY <1>5 DEF GetFirmware
<1>6. CASE DeleteFirmware(r)  BY <1>6 DEF DeleteFirmware, DeleteRecord
<1>7. CASE PutFirmware(r)   BY <1>7 DEF PutFirmware, TakeCopies
<1>8. CASE WriteFirmware(r) BY <1>8 DEF WriteFirmware, UpdateRecord
<1>9. CASE GetFirmwares(r)  BY <1>9 DEF GetFirmwares
<1>10. CASE GetLatest(r)    BY <1>10 DEF GetLatest
<1>11. CASE PutFirmwares(r) BY <1>11 DEF PutFirmwares
<1> QED BY <1>1, <1>2, <1>3, <1>4, <1>5, <1>6, <1>7, <1>8, <1>9, <1>10, <1>11, FirmwareStep(r) DEF FirmwareStep

(* The same of the other handlers, and of what comes before a handler.     *)
LEMMA OtherTells ==
  ASSUME NEW r \in DOMAIN ask, AuthorizedInv, TellInv,
         NoHandler(r) \/ HandleRequest(r) \/ Authorize(r) \/ OtherStep(r)
  PROVE  ByItself(r) /\ AndTells(r)
<1>0. /\ r \in Requests /\ r \in Threads /\ Functions /\ AtWork(r) /\ ask[r].subject \notin Requests \cup Listed
      /\ reply = [s \in Requests |-> reply[s]]
  BY RequestsAreThreads DEF AuthorizedInv, Functions, TellInv, Tells
<1> USE <1>0 DEF ByItself, AndTells, AtWork, Functions, Goto, Reply, OK, ReturnObject, BadRequest, UnAuthorized,
            NotFound, Caught, Is, store, refresh, clients, ghosts, private, Told, Handler, Route, Places
<1>1. CASE GetHistory(r)    BY <1>1 DEF GetHistory
<1>2. CASE DeleteHistory(r) BY <1>2 DEF DeleteHistory
<1>3. CASE PostSystem(r)    BY <1>3 DEF PostSystem
<1>4. CASE SetNextLevel(r)  BY <1>4 DEF SetNextLevel
<1>5. CASE ChangeConfiguration(r) BY <1>5 DEF ChangeConfiguration
<1>6. CASE Read(r)          BY <1>6 DEF Read
<1>7. CASE WebSocket(r)     BY <1>7 DEF WebSocket
<1>8. CASE NoHandler(r)
  <2>1. /\ UNCHANGED <<ask, answers, did, rows>> /\ at[r] = "sent" /\ Handler(r) = "unparsable"
        /\ at' = [at EXCEPT ![r] = "answering"] /\ \E status : reply' = [reply EXCEPT ![r] = status]
    BY <1>8 DEF NoHandler
  <2>2. at'[r] = "answering" /\ Handler(r)' = "unparsable"  BY <2>1
  <2> HIDE DEF Handler
  <2>3. AndTells(r)  BY <2>1, <2>2
  <2> QED BY <2>1, <2>3
<1>9. CASE HandleRequest(r) BY <1>9 DEF HandleRequest, ContinueProcessing
<1>10. CASE Authorize(r)    BY <1>10 DEF Authorize, IsAuthorized, Admit, ParseParameters, AlwaysAuthorize
<1> QED BY <1>1, <1>2, <1>3, <1>4, <1>5, <1>6, <1>7, <1>8, <1>9, <1>10, 
           NoHandler(r) \/ HandleRequest(r) \/ Authorize(r) \/ OtherStep(r) DEF OtherStep

(* A step that is not its own, as long as it adds no row it asked for and  *)
(* has no effect in its name, leaves what a request tells true.            *)
LEMMA OthersTell ==
  ASSUME NEW s \in DOMAIN ask, Tells(s), ask[s].subject \notin Requests \cup Listed,
         UNCHANGED ask, at'[s] = at[s], reply'[s] = reply[s], answers'[s] = answers[s],
         s \in did' <=> s \in did, DOMAIN rows' \subseteq DOMAIN rows \cup Requests \cup Listed
  PROVE  Tells(s)'
<1>1. AtWork(s)'  BY DEF Tells, AtWork, Handler
<1>2. ASSUME NEW status, Told(s, status) PROVE Told(s, status)'
  BY <1>2 DEF Told, Handler
<1> QED BY <1>1, <1>2 DEF Tells

(* The refresh adds no rows but those it has drawn the ids of.             *)
LEMMA EnvironmentRows ==
  ASSUME RunnerAdds, Environment
  PROVE  DOMAIN rows' \subseteq DOMAIN rows \cup Listed
<1> USE DEF store
<1>1. CASE TimerRefreshes \/ RefreshPrunes \/ RefreshEnds
  BY <1>1 DEF TimerRefreshes, RefreshPrunes, RefreshEnds
<1>2. CASE RefreshAdds \/ ReadLatest(Runner)  BY <1>2 DEF RefreshAdds, ReadLatest
<1>3. CASE ClearLatest(Runner)  BY <1>3 DEF ClearLatest, UpdateRecord
<1>4. CASE RefreshCreates  BY <1>4 DEF RefreshCreates, CreateRecord, RunnerAdds
<1>5. CASE CredentialStep  BY <1>5 DEF CredentialStep, Lapse, RemovedCachedToken
<1>6. CASE \E r \in DOMAIN ask : HangUp(r)  BY <1>6 DEF HangUp
<1> QED BY <1>1, <1>2, <1>3, <1>4, <1>5, <1>6 DEF Environment, RefreshStep

(* Every step keeps the answers true: to whoever is not concerned because  *)
(* it is not his, and to its own request because of what the handler did.  *)
LEMMA TellStep == AuthorizedInv /\ AnsweredWhenDone /\ TellInv /\ [Next]_vars => TellInv'
<1> SUFFICES ASSUME AuthorizedInv, AnsweredWhenDone, TellInv, [Next]_vars PROVE TellInv'  OBVIOUS
<1>0. /\ DOMAIN ask \subseteq Requests /\ at = [t \in Threads |-> at[t]]
      /\ reply = [r \in Requests |-> reply[r]] /\ answers = [r \in Requests |-> answers[r]]
      /\ \A r \in DOMAIN ask : Tells(r) /\ ask[r].subject \notin Requests \cup Listed
  BY DEF AuthorizedInv, Functions, TellInv, AnsweredWhenDone
<1>1. CASE UNCHANGED vars
  <2>1. UNCHANGED <<ask, at, reply, answers, did, rows>>
    BY <1>1 DEF vars, clients, store, ghosts
  <2> QED BY <1>0, <2>1, OthersTell DEF TellInv
<1>3. CASE Environment
  <2>1. UNCHANGED <<ask, reply, answers, did>> /\ \A r \in DOMAIN ask : at'[r] = at[r]
    BY <1>0, <1>3, EnvironmentAside, RequestsAreThreads DEF Aside
  <2>2. DOMAIN rows' \subseteq DOMAIN rows \cup Requests \cup Listed
    BY <1>3, EnvironmentRows DEF AuthorizedInv
  <2> QED BY <1>0, <2>1, <2>2, OthersTell DEF TellInv
<1>2. ASSUME NEW r \in DOMAIN ask, HandlerStep(r) PROVE TellInv'
  <2>0. r \in Requests /\ r \in Threads  BY <1>0, RequestsAreThreads
  <2>1. CASE Send(r)
    <3>1. /\ at[r] = "answering" /\ at' = [at EXCEPT ![r] = "done"] /\ UNCHANGED <<ask, reply, rows, did>>
          /\ answers' = IF r \in online THEN [answers EXCEPT ![r] = Append(@, reply[r])] ELSE answers
      BY <2>1 DEF Send, Goto, store, clients, ghosts
    <3>2. ASSUME NEW s \in DOMAIN ask, s # r PROVE Tells(s)'
      <4>1. at'[s] = at[s] /\ reply'[s] = reply[s] /\ answers'[s] = answers[s]
        BY <1>0, <3>1, <3>2, RequestsAreThreads
      <4> QED BY <1>0, <3>1, <4>1, OthersTell
    <3>3. Tells(r)'
      <4>1. answers[r] = <<>>  BY <3>1 DEF AnsweredWhenDone
      <4>2. Append(<<>>, reply[r]) = <<reply[r]>>  OBVIOUS
      <4>3. answers'[r] = <<>> \/ answers'[r] = <<reply[r]>>  BY <1>0, <2>0, <3>1, <4>1, <4>2
      <4>4. Told(r, reply[r])  BY <1>0, <3>1 DEF Tells
      <4>5. Told(r, reply[r])'  BY <3>1, <4>4 DEF Told, Handler
      <4>6. AtWork(r)'  BY <1>0, <2>0, <3>1 DEF AtWork
      <4>7. at'[r] = "done"  BY <1>0, <2>0, <3>1
      <4>8. reply'[r] = reply[r]  BY <3>1
      <4> QED BY <4>3, <4>5, <4>6, <4>7, <4>8 DEF Tells
    <3> QED BY <1>0, <3>1, <3>2, <3>3 DEF TellInv
  <2>2. CASE ~Send(r)
    <3>1. ByItself(r) /\ AndTells(r)
      BY <1>2, <2>2, FirmwareTells, OtherTells DEF HandlerStep
    <3>2. ASSUME NEW s \in DOMAIN ask, s # r PROVE Tells(s)'
      <4>1. s \in Requests /\ s \in Threads  BY <1>0, RequestsAreThreads
      <4>2. at'[s] = at[s] /\ reply'[s] = reply[s] /\ answers'[s] = answers[s]
        BY <1>0, <3>1, <3>2, <4>1 DEF ByItself
      <4> QED BY <1>0, <3>1, <3>2, <4>2, OthersTell DEF ByItself
    <3>3. Tells(r)'
      <4>1. at[r] # "done" /\ answers'[r] = answers[r]
        <5>1. CASE FirmwareStep(r) \/ OtherStep(r)  BY <3>1, <5>1, HandlerOnward DEF Onward, Inside, ByItself
        <5>2. CASE NoHandler(r) \/ HandleRequest(r) \/ Authorize(r)
          BY <3>1, <5>2 DEF NoHandler, HandleRequest, Authorize, ByItself
        <5> QED BY <1>2, <2>2, <5>1, <5>2 DEF HandlerStep
      <4>2. answers'[r] = <<>>  BY <4>1 DEF AnsweredWhenDone
      <4> QED BY <3>1, <4>2 DEF AndTells, Tells
    <3>4. reply' = [s \in Requests |-> reply'[s]] /\ UNCHANGED ask
      BY <1>0, <3>1 DEF ByItself
    <3> QED BY <1>0, <3>2, <3>3, <3>4 DEF TellInv
  <2> QED BY <2>1, <2>2
<1> QED BY <1>1, <1>2, <1>3 DEF Next

(* At the start nobody has done or been told anything.                     *)
LEMMA TellInit == Init => TellInv
<1> SUFFICES ASSUME Init PROVE TellInv  OBVIOUS
<1>1. /\ (\A r \in Requests : at[r] = "sent") /\ did = {} /\ answers = [r \in Requests |-> <<>>]
      /\ reply = [r \in Requests |-> 200] /\ DOMAIN ask \subseteq Requests
      /\ ask \in [DOMAIN ask -> Ask]
  BY RequestAssumption, RequestsAreThreads DEF Init
<1>2. \A r \in DOMAIN ask : ask[r].subject \notin Requests \cup Listed
  BY <1>1, RequestAssumption DEF Ask
<1> QED BY <1>1, <1>2 DEF TellInv, Tells, AtWork

(* For any number of requests beside each other and beside the refresh: an *)
(* answer that went out tells what became of the store.                    *)
THEOREM AnswersTellOutcome == Spec => []AnswerTellsOutcome
<1>2. TellInv => AnswerTellsOutcome
  <2> SUFFICES ASSUME TellInv PROVE AnswerTellsOutcome  OBVIOUS
  <2>1. \A r \in DOMAIN ask : answers[r] # <<>> => Told(r, IF answers[r] = <<200>> THEN 200 ELSE 400)
    <3> SUFFICES ASSUME NEW r \in DOMAIN ask, answers[r] # <<>>
                 PROVE  Told(r, IF answers[r] = <<200>> THEN 200 ELSE 400)
      OBVIOUS
    <3>1. PICK status : answers[r] = <<status>> /\ Told(r, status)  BY DEF TellInv, Tells
    <3>2. answers[r] = <<200>> <=> status = 200  BY <3>1
    <3> QED BY <3>1, <3>2 DEF Told
  <2> QED BY <2>1 DEF Told, AnswerTellsOutcome
<1>3. Init => AnsweredWhenDone
  BY RequestAssumption, RequestsAreThreads DEF Init, AnsweredWhenDone
<1> QED BY <1>2, <1>3, AuthorizedInit, AuthorizedStep, AnswerStep, TellInit, TellStep, PTL DEF Spec, AnswerInv

-----------------------------------------------------------------------------
(* A PUT that is about to write holds a copy of its row, and of no other.  *)
CopyInHand ==
  \A r \in DOMAIN ask :
    at[r] = "writing" /\ ask[r].method = "PUT" => DOMAIN kept[r] = {ask[r].subject}

TypeInv == RequestTypeOK /\ CopyInHand

(* What a step of r's handler says: its place and status, and its role.    *)
Talks(r) ==
  /\ \E place \in Places : at' = [at EXCEPT ![r] = place]
  /\ reply' = reply \/ \E status \in Statuses : reply' = [reply EXCEPT ![r] = status]
  /\ role' = role \/ \E v \in Roles : role' = [role EXCEPT ![r] = v]
  /\ UNCHANGED <<ask, answers, online>>

(* What the shared records and the history variables hold after a step.    *)
Books ==
  /\ cache' \in [{"typed", "untyped"} -> Ids \cup {None}]
  /\ history' \subseteq Entries /\ levels' \in [{1, 2} -> Requests \cup {None}]
  /\ updating' \in BOOLEAN /\ runner' \in {"none", "pruning", "adding", "ending"}
  /\ due' \in Nat /\ drawn' \subseteq Listed /\ adding' \in Listed \cup {None}
  /\ cached' \subseteq vouched' /\ vouched' \subseteq Users /\ lapsed' \subseteq Users
  /\ newest' \subseteq Ids /\ did' \subseteq Requests
  /\ beside' \in [Threads -> SUBSET Threads]

(* What the step of a thread does to the rows, those of the table and      *)
(* those it holds.                                                         *)
Tables(t) ==
  /\ SomeRows(rows')
  /\ kept' = kept \/ \E copies : kept' = [kept EXCEPT ![t] = copies] /\ SomeRows(copies)
InHand(r) == at'[r] = "writing" /\ ask[r].method = "PUT" => DOMAIN kept'[r] = {ask[r].subject}

(* Statements, whether they meet a row or not, keep the table one of rows. *)
LEMMA StatementsKeepRows ==
  ASSUME SomeRows(rows), NEW i
  PROVE  /\ DeleteRecord(i) => SomeRows(rows')
         /\ \A row \in Rows : UpdateRecord(i, row) => SomeRows(rows')
         /\ \A row \in Rows : i \in Ids /\ CreateRecord(i, row) => SomeRows(rows')
<1>1. DeleteRecord(i) => SomeRows(rows')
  BY DEF SomeRows, DeleteRecord
<1>2. ASSUME NEW row \in Rows, UpdateRecord(i, row) PROVE SomeRows(rows')
  BY <1>2 DEF SomeRows, UpdateRecord
<1>3. ASSUME NEW row \in Rows, i \in Ids, CreateRecord(i, row) PROVE SomeRows(rows')
  <2>1. DOMAIN rows' \subseteq Ids /\ \A j \in DOMAIN rows' : rows'[j] \in Rows
    BY <1>3 DEF SomeRows, CreateRecord
  <2>2. rows' = [j \in DOMAIN rows' |-> rows'[j]]  BY <1>3 DEF CreateRecord
  <2> QED BY <2>1, <2>2 DEF SomeRows
<1> QED BY <1>1, <1>2, <1>3

(* So are the copies that a handler has left.                              *)
LEMMA FewerRows ==
  ASSUME NEW f, SomeRows(f), NEW i
  PROVE  /\ SomeRows([j \in DOMAIN f \ {i} |-> f[j]])
         /\ i \in DOMAIN f => f[i] \in Rows /\ i \in Ids
BY DEF SomeRows

(* Copies of rows, with another flag or other notes, are rows.             *)
LEMMA CopiesAreRows ==
  /\ \A row \in Rows, b \in BOOLEAN : [row EXCEPT !.latest = b] \in Rows
  /\ \A row \in Rows, N \in SUBSET Requests : [row EXCEPT !.notes = N] \in Rows
  /\ \A row \in Rows : row.notes \subseteq Requests
  /\ \A b \in BOOLEAN : [latest |-> b, notes |-> {}] \in Rows
  /\ SomeRows(NoCopies)
BY DEF Rows, SomeRows, NoCopies

(* Whoever steps says something that can be said.                          *)
LEMMA EverybodyTalks ==
  ASSUME NEW r \in DOMAIN ask, HandlerStep(r), ~Send(r)
  PROVE  Talks(r)
<1> USE DEF Talks, Goto, Reply, OK, ReturnObject, BadRequest, UnAuthorized, NotFound, Caught, private, clients, Places, Statuses
<1>1. CASE PostFirmware(r) \/ ReadLatest(r) \/ CreateFirmware(r)
  BY <1>1 DEF PostFirmware, AddToCache, ReadLatest, CreateFirmware
<1>10. CASE ClearLatest(r)
  <2>1. /\ at' = [at EXCEPT ![r] = "creating"] \/ at' = [at EXCEPT ![r] = "writing"]
        /\ UNCHANGED <<reply, ask, role, answers, online>>
    BY <1>10 DEF ClearLatest
  <2> QED BY <2>1
<1>2. CASE GetFirmware(r) \/ DeleteFirmware(r) \/ PutFirmware(r) \/ WriteFirmware(r)
  BY <1>2 DEF GetFirmware, DeleteFirmware, PutFirmware, WriteFirmware
<1>3. CASE GetFirmwares(r) \/ PutFirmwares(r)
  BY <1>3 DEF GetFirmwares, PutFirmwares
<1>4. CASE GetLatest(r)
  BY <1>4 DEF GetLatest
<1>5. CASE GetHistory(r) \/ DeleteHistory(r) \/ ChangeConfiguration(r) \/ WebSocket(r)
  BY <1>5 DEF GetHistory, DeleteHistory, ChangeConfiguration, WebSocket
<1>6. CASE PostSystem(r) \/ SetNextLevel(r)
  BY <1>6 DEF PostSystem, SetNextLevel
<1>7. CASE Read(r)
  <2>1. PICK status \in ReaderAnswers(ask[r]) : Reply(r, status)  BY <1>7 DEF Read
  <2>2. status \in Statuses
    BY <2>1 DEF ReaderAnswers, SystemGet, SystemConfigurationGet, FirmwareAgeGet, ConnectedDevicesGet,
                ConnectedDeviceGet, DeviceReportGet, DeviceInformationGet
  <2>3. at' = [at EXCEPT ![r] = "answering"] /\ reply' = [reply EXCEPT ![r] = status]
        /\ UNCHANGED <<ask, role, answers, online>>
    BY <1>7, <2>1 DEF Read
  <2> HIDE DEF Statuses
  <2> QED BY <2>2, <2>3
<1>8. CASE NoHandler(r) \/ HandleRequest(r)
  BY <1>8 DEF NoHandler, HandleRequest
<1>9. CASE Authorize(r)
  <2>1. CASE IsAuthorized(r)
    <3>1. \/ UnAuthorized(r) /\ UNCHANGED role
          \/ \E v \in Roles : Admit(r, v)
      <4>1. \A u \in Shows(ask[r]) : (IF u = "key" THEN "admin" ELSE u) \in Roles  BY DEF Shows, Roles
      <4> QED BY <2>1, <4>1 DEF IsAuthorized
    <3>2. UNCHANGED <<ask, answers, online>>  BY <1>9 DEF Authorize
    <3> HIDE DEF Statuses
    <3>3. {200, 403} \subseteq Statuses  BY DEF Statuses
    <3> QED BY <3>1, <3>2, <3>3 DEF Admit, ParseParameters
  <2>2. CASE ParseParameters(r) /\ UNCHANGED role
    BY <1>9, <2>2 DEF Authorize, ParseParameters
  <2> QED BY <1>9, <2>1, <2>2 DEF Authorize
<1> QED BY HandlerStep(r), ~Send(r), <1>1, <1>2, <1>3, <1>4, <1>5, <1>6, <1>7, <1>8, <1>9, <1>10
        DEF HandlerStep, FirmwareStep, OtherStep

(* A new copy leaves everybody beside threads.                             *)
LEMMA BesideThreads ==
  ASSUME NEW t \in Threads, beside \in [Threads -> SUBSET Threads], NEW copies, TakeCopies(t, copies)
  PROVE  beside' \in [Threads -> SUBSET Threads]
<1> DEFINE others == {s \in Threads \ {t} : at[s] = "writing" /\ DOMAIN kept[s] \cap DOMAIN copies # {}}
<1>1. others \subseteq Threads  OBVIOUS
<1>2. beside' = [s \in Threads |-> IF s = t THEN beside[t] \cup others
                                    ELSE IF s \in others THEN beside[s] \cup {t} ELSE beside[s]]
  BY DEF TakeCopies
<1> HIDE DEF others
<1> QED BY <1>1, <1>2

(* The shared records keep their shape.                                    *)
LEMMA BooksKept ==
  ASSUME NEW r \in DOMAIN ask, RequestTypeOK, HandlerStep(r), ~Send(r)
  PROVE  Books
<1>0. r \in Requests /\ r \in Threads /\ r \in Ids  BY DEF RequestTypeOK, Threads, Ids
<1> USE <1>0 DEF Books, RequestTypeOK, store, refresh, clients, ghosts, private
<1>1. CASE PostFirmware(r)
  BY <1>1 DEF PostFirmware, AddToCache, TypeOf
<1>2. CASE ReadLatest(r) \/ PutFirmware(r)
  <2>1. UNCHANGED <<cache, history, levels, refresh, clients, newest, did>>
    BY <1>2 DEF ReadLatest, PutFirmware
  <2>2. beside' = beside \/ \E copies : TakeCopies(r, copies)
    BY <1>2 DEF ReadLatest, PutFirmware
  <2>3. beside' \in [Threads -> SUBSET Threads]  BY <2>2, BesideThreads
  <2> QED BY <2>1, <2>3
<1>3. CASE ClearLatest(r) \/ CreateFirmware(r)
  BY <1>3 DEF ClearLatest, CreateFirmware
<1>4. CASE GetFirmware(r) \/ DeleteFirmware(r)
  BY <1>4 DEF GetFirmware, DeleteFirmware
<1>5. CASE WriteFirmware(r)
  BY <1>5 DEF WriteFirmware
<1>6. CASE GetFirmwares(r) \/ GetLatest(r)
  BY <1>6 DEF GetFirmwares, GetLatest
<1>7. CASE PutFirmwares(r)
  BY <1>7 DEF PutFirmwares, RunUpdateTask
<1>8. CASE GetHistory(r) \/ DeleteHistory(r)
  BY <1>8 DEF GetHistory, DeleteHistory
<1>9. CASE PostSystem(r) \/ SetNextLevel(r)
  BY <1>9 DEF PostSystem, SetNextLevel, SetSubsystemLogLevel
<1>10. CASE ChangeConfiguration(r) \/ Read(r) \/ WebSocket(r) \/ NoHandler(r) \/ HandleRequest(r)
  BY <1>10 DEF ChangeConfiguration, Read, WebSocket, NoHandler, HandleRequest
<1>11. CASE Authorize(r)
  <2>1. UNCHANGED <<store, lapsed, newest, ghosts>>  BY <1>11 DEF Authorize
  <2>2. cached' \subseteq vouched' /\ vouched' \subseteq Users
    <3>1. \A u \in Shows(ask[r]) : u \in Users  BY DEF Shows, Users, Roles
    <3> QED BY <1>11, <3>1 DEF Authorize, IsAuthorized, Retrieve, Refuse
  <2> QED BY <2>1, <2>2
<1> QED BY HandlerStep(r), ~Send(r), <1>1, <1>2, <1>3, <1>4, <1>5, <1>6, <1>7, <1>8, <1>9, <1>10, <1>11
        DEF HandlerStep, FirmwareStep, OtherStep

(* Whoever adds an image, request or refresh, reads and writes rows.       *)
LEMMA AddFirmwareKeepsRows ==
  ASSUME NEW t \in Threads, RequestTypeOK, ReadLatest(t) \/ ClearLatest(t)
  PROVE  Tables(t)
<1>0. SomeRows(rows) /\ SomeRows(kept[t])  BY DEF RequestTypeOK
<1> USE <1>0 DEF Tables, store, private
<1>1. CASE ReadLatest(t)
  <2>1. SomeRows(rows')  BY <1>1 DEF ReadLatest
  <2>2. CASE kept' = kept  BY <2>1, <2>2
  <2>3. CASE kept' # kept
    <3> DEFINE flagged == {i \in DOMAIN rows : rows[i].latest /\ TypeOf(i) = TypeOf(Added(t))}
               copies == [i \in flagged |-> [rows[i] EXCEPT !.latest = FALSE]]
    <3>1. kept' = [kept EXCEPT ![t] = copies]  BY <1>1, <2>3 DEF ReadLatest, TakeCopies
    <3>2. SomeRows(copies)
      <4>1. \A i \in flagged : i \in Ids /\ copies[i] \in Rows
        BY FewerRows, CopiesAreRows
      <4> HIDE DEF flagged
      <4> QED BY <4>1 DEF SomeRows
    <3> HIDE DEF copies
    <3> QED BY <2>1, <3>1, <3>2
  <2> QED BY <2>2, <2>3
<1>2. CASE ClearLatest(t)
  <2>1. PICK i \in DOMAIN kept[t] :
          /\ UpdateRecord(i, kept[t][i]) \/ UNCHANGED rows
          /\ kept' = [kept EXCEPT ![t] = [j \in DOMAIN kept[t] \ {i} |-> kept[t][j]]]
    BY <1>2 DEF ClearLatest
  <2>2. SomeRows(rows')  BY <2>1, FewerRows, StatementsKeepRows
  <2>3. SomeRows([j \in DOMAIN kept[t] \ {i} |-> kept[t][j]])  BY FewerRows
  <2> QED BY <2>1, <2>2, <2>3
<1> QED BY <1>1, <1>2

(* And adds one.                                                           *)
LEMMA NewRowIsRow ==
  ASSUME NEW id \in Ids, SomeRows(rows), CreateRecord(id, NewRow(id))
  PROVE  SomeRows(rows')
<1>1. (id \in newest) \in BOOLEAN  OBVIOUS
<1>2. NewRow(id) \in Rows  BY <1>1, CopiesAreRows DEF NewRow
<1> QED BY <1>2, StatementsKeepRows

(* What the refresh and the rest of the surroundings do to all this.       *)
LEMMA EnvironmentKeepsTypes ==
  ASSUME RequestTypeOK, RunnerAdds, Environment
  PROVE  Books /\ Tables(Runner)
<1> USE DEF store, refresh, clients, private, ghosts, NoHandlerSteps
<1>0. Runner \in Threads /\ SomeRows(rows)  BY RequestsAreThreads DEF RequestTypeOK
<1>1. CASE TimerRefreshes \/ RefreshPrunes \/ RefreshEnds
  <2>1. /\ UNCHANGED <<cache, history, levels, drawn, adding, clients, newest, did, beside>>
        /\ due' \in Nat /\ updating' \in BOOLEAN /\ runner' \in {"none", "pruning", "adding", "ending"}
    <3> USE DEF RequestTypeOK
    <3>1. CASE TimerRefreshes
      <4>1. UNCHANGED <<cache, history, levels, drawn, adding, clients, newest, did, beside>>
        BY <3>1 DEF TimerRefreshes, RunUpdateTask
      <4>2. due' \in Nat  BY <3>1 DEF TimerRefreshes
      <4>3. updating' \in BOOLEAN
        <5>1. updating' = TRUE \/ updating' = updating  BY <3>1 DEF TimerRefreshes, RunUpdateTask
        <5> QED BY <5>1
      <4>4. runner' \in {"none", "pruning", "adding", "ending"}
        <5>1. runner' = "pruning" \/ runner' = runner  BY <3>1 DEF TimerRefreshes, RunUpdateTask
        <5> QED BY <5>1
      <4> QED BY <4>1, <4>2, <4>3, <4>4
    <3>2. CASE RefreshPrunes  BY <3>2 DEF RefreshPrunes
    <3>3. CASE RefreshEnds  BY <3>3 DEF RefreshEnds
    <3> QED BY <1>1, <3>1, <3>2, <3>3
  <2>4. Books  BY <2>1 DEF Books, RequestTypeOK
  <2>2. kept' = kept /\ (rows' = rows \/ \E old : rows' = [i \in DOMAIN rows \ old |-> rows[i]])
    BY <1>1 DEF TimerRefreshes, RefreshPrunes, RefreshEnds
  <2>3. SomeRows(rows')  BY <1>0, <2>2 DEF SomeRows
  <2> QED BY <2>2, <2>3, <2>4 DEF Tables
<1>2. CASE RefreshAdds
  <2>1. Books
    <3>1. PICK id \in Listed : drawn' = drawn \cup {id} /\ adding' = id /\ AddToCache(Runner, id)
      BY <1>2 DEF RefreshAdds
    <3>2. id \in Ids  BY DEF Ids
    <3>3. cache' \in [{"typed", "untyped"} -> Ids \cup {None}] /\ newest' \subseteq Ids
      BY <3>1, <3>2 DEF AddToCache, RequestTypeOK
    <3>4. UNCHANGED <<history, levels, due, updating, clients, did, beside>> /\ runner' = "adding"
      BY <1>2 DEF RefreshAdds
    <3> QED BY <3>1, <3>3, <3>4 DEF Books, RequestTypeOK
  <2> QED BY <1>0, <1>2, <2>1 DEF RefreshAdds, Tables
<1>3. CASE ReadLatest(Runner)
  <2>1. beside' \in [Threads -> SUBSET Threads]
    BY <1>0, <1>3, BesideThreads DEF ReadLatest, RequestTypeOK
  <2>2. UNCHANGED <<store, clients, newest, did>>  BY <1>3 DEF ReadLatest
  <2> QED BY <1>0, <1>3, <2>1, <2>2, AddFirmwareKeepsRows DEF Books, RequestTypeOK
<1>4. CASE ClearLatest(Runner)
  <2>1. UNCHANGED <<cache, history, levels, refresh, clients, newest, did, beside>>  BY <1>4 DEF ClearLatest
  <2> QED BY <1>0, <1>4, <2>1, AddFirmwareKeepsRows DEF Books, RequestTypeOK
<1>5. CASE RefreshCreates
  <2>1. UNCHANGED <<cache, history, levels, refresh, clients, kept, newest, did, beside>>
    BY <1>5 DEF RefreshCreates
  <2>2. adding \in Ids  BY <1>5 DEF RefreshCreates, RunnerAdds, Ids
  <2>3. SomeRows(rows')  BY <1>0, <1>5, <2>2, NewRowIsRow DEF RefreshCreates
  <2> QED BY <2>1, <2>3 DEF Books, Tables, RequestTypeOK
<1>6. CASE CredentialStep
  <2>1. PICK u \in Users : Lapse(u) \/ RemovedCachedToken(u)  BY <1>6 DEF CredentialStep
  <2>2. UNCHANGED <<store, vouched, kept, newest, did, beside>>
        /\ lapsed' \subseteq lapsed \cup {u} /\ cached' \subseteq cached
    BY <2>1 DEF Lapse, RemovedCachedToken
  <2> QED BY <1>0, <2>2 DEF Books, Tables, RequestTypeOK
<1>7. CASE \E r \in DOMAIN ask : HangUp(r)
  BY <1>0, <1>7 DEF HangUp, Books, Tables, RequestTypeOK
<1> QED BY <1>1, <1>2, <1>3, <1>4, <1>5, <1>6, <1>7 DEF Environment, RefreshStep

(* Rows are written where rows belong, and a PUT holds its own.            *)
LEMMA TablesKept ==
  ASSUME NEW r \in DOMAIN ask, TypeInv, AtWork(r), HandlerStep(r), ~Send(r)
  PROVE  Tables(r) /\ InHand(r)
<1>0. /\ r \in Requests /\ r \in Threads /\ r # Runner /\ SomeRows(rows) /\ SomeRows(kept[r]) /\ at \in [Threads -> Places]
      /\ kept = [s \in Threads |-> kept[s]]
      /\ at[r] = "writing" /\ ask[r].method = "PUT" => DOMAIN kept[r] = {ask[r].subject}
  BY RequestsAreThreads DEF TypeInv, CopyInHand, RequestTypeOK
<1> USE <1>0 DEF Tables, InHand, Goto, Reply, OK, ReturnObject, BadRequest, UnAuthorized, NotFound, Caught, Is,
                 store, private
<1>1. CASE ReadLatest(r) \/ ClearLatest(r)
  <2>1. Tables(r)  BY <1>1, AddFirmwareKeepsRows DEF TypeInv
  <2>2. ask[r].method = "POST"  BY <1>1 DEF ReadLatest, ClearLatest, Adds, AtWork
  <2> QED BY <2>1, <2>2
<1>3. CASE CreateFirmware(r)
  <2>1. SomeRows(rows')  BY <1>3, NewRowIsRow DEF CreateFirmware, Ids
  <2> QED BY <1>3, <2>1 DEF CreateFirmware
<1>4. CASE DeleteFirmware(r)
  <2>1. SomeRows(rows')  BY <1>4, StatementsKeepRows DEF DeleteFirmware
  <2> QED BY <1>4, <2>1 DEF DeleteFirmware
<1>5. CASE PutFirmware(r)
  <2>1. SomeRows(rows')  BY <1>5 DEF PutFirmware
  <2>2. CASE kept' = kept  BY <1>5, <2>1, <2>2 DEF PutFirmware, TakeCopies
  <2>3. CASE kept' # kept
    <3> DEFINE i == ask[r].subject
               copies == [j \in {i} |-> WithNotes(r, rows[j])]
    <3>1. i \in DOMAIN rows /\ kept' = [kept EXCEPT ![r] = copies]
      BY <1>5, <2>3 DEF PutFirmware, TakeCopies
    <3>2. i \in Ids /\ rows[i] \in Rows  BY <3>1, FewerRows
    <3>3. WithNotes(r, rows[i]) \in Rows  BY <3>2, CopiesAreRows DEF WithNotes
    <3>4. DOMAIN copies = {i} /\ SomeRows(copies)  BY <3>2, <3>3 DEF SomeRows
    <3> HIDE DEF copies
    <3> QED BY <2>1, <3>1, <3>4
  <2> QED BY <2>2, <2>3
<1>6. CASE WriteFirmware(r)
  <2>1. ask[r].subject \in DOMAIN kept[r]  BY <1>6 DEF WriteFirmware
  <2>2. SomeRows(rows')
    <3>1. kept[r][ask[r].subject] \in Rows  BY <2>1, FewerRows
    <3>2. UpdateRecord(ask[r].subject, kept[r][ask[r].subject]) \/ rows' = rows  BY <1>6 DEF WriteFirmware
    <3> QED BY <3>1, <3>2, StatementsKeepRows
  <2>3. kept' = [kept EXCEPT ![r] = NoCopies] /\ at'[r] # "writing"  BY <1>6 DEF WriteFirmware
  <2> QED BY <2>2, <2>3, CopiesAreRows
<1>7. CASE GetFirmwares(r)
  <2>1. ask[r].method # "PUT" /\ UNCHANGED rows  BY <1>7 DEF GetFirmwares
  <2>2. CASE kept' = kept  BY <2>1, <2>2
  <2>3. CASE kept' # kept
    <3> DEFINE copies == [i \in {cache["typed"]} |-> [latest |-> TRUE, notes |-> {}]]
    <3>1. cache["typed"] # None /\ kept' = [kept EXCEPT ![r] = copies]  BY <1>7, <2>3 DEF GetFirmwares
    <3>2. cache["typed"] \in Ids  BY <3>1 DEF TypeInv, RequestTypeOK
    <3>3. SomeRows(copies)  BY <3>2, CopiesAreRows DEF SomeRows
    <3> HIDE DEF copies
    <3> QED BY <2>1, <3>1, <3>3
  <2> QED BY <2>2, <2>3
<1>8. CASE GetLatest(r)
  <2>1. kept' = [kept EXCEPT ![r] = NoCopies] /\ UNCHANGED rows /\ at'[r] # "writing"
    BY <1>8 DEF GetLatest
  <2> QED BY <2>1, CopiesAreRows
<1>9. CASE PostFirmware(r) \/ GetFirmware(r) \/ PutFirmwares(r)
  BY <1>9 DEF PostFirmware, AddToCache, GetFirmware, PutFirmwares
<1>10. CASE GetHistory(r) \/ DeleteHistory(r) \/ PostSystem(r) \/ SetNextLevel(r)
  BY <1>10 DEF GetHistory, DeleteHistory, PostSystem, SetNextLevel
<1>11. CASE ChangeConfiguration(r) \/ Read(r) \/ WebSocket(r) \/ NoHandler(r) \/ HandleRequest(r) \/ Authorize(r)
  BY <1>11 DEF ChangeConfiguration, Read, WebSocket, NoHandler, HandleRequest, Authorize, IsAuthorized, Admit, ParseParameters
<1> QED BY HandlerStep(r), ~Send(r), <1>1, <1>3, <1>4, <1>5, <1>6, <1>7, <1>8, <1>9, <1>10, <1>11
        DEF HandlerStep, FirmwareStep, OtherStep

(* Every step keeps the whole of the state well-formed.                    *)
LEMMA TypeStep == AuthorizedInv /\ AnsweredWhenDone /\ TellInv /\ TypeInv /\ [Next]_vars => TypeInv'
<1> SUFFICES ASSUME AuthorizedInv, AnsweredWhenDone, TellInv, TypeInv, [Next]_vars PROVE TypeInv'  OBVIOUS
<1>0. RequestTypeOK /\ CopyInHand  BY DEF TypeInv
<1>1. CASE UNCHANGED vars
  BY <1>0, <1>1 DEF TypeInv, vars, store, refresh, clients, ghosts, private, RequestTypeOK, CopyInHand
<1>2. CASE Environment
  <2>1. Aside /\ Books /\ Tables(Runner)
    BY <1>0, <1>2, EnvironmentAside, EnvironmentKeepsTypes DEF AuthorizedInv
  <2>2. at' \in [Threads -> Places]  BY <1>0, <2>1 DEF Aside, RequestTypeOK
  <2>3. kept' = [t \in Threads |-> kept'[t]] /\ \A t \in Threads : SomeRows(kept'[t])
    BY <1>0, <2>1 DEF Tables, RequestTypeOK
  <2>4. \A r \in DOMAIN ask : at'[r] = at[r] /\ kept'[r] = kept[r]
    BY <1>0, <2>1, RequestsAreThreads DEF Aside, RequestTypeOK
  <2>5. RequestTypeOK'
    BY <1>0, <2>1, <2>2, <2>3 DEF Aside, Books, Tables, RequestTypeOK
  <2>6. CopyInHand'  BY <1>0, <2>1, <2>4 DEF Aside, CopyInHand
  <2> QED BY <2>5, <2>6 DEF TypeInv
<1>3. ASSUME NEW r \in DOMAIN ask, HandlerStep(r) PROVE TypeInv'
  <2>0. r \in Requests /\ r \in Threads  BY <1>0, RequestsAreThreads DEF RequestTypeOK
  <2>1. CASE Send(r)
    <3>1. /\ UNCHANGED <<store, clients, private, online, ghosts, reply>> /\ at' = [at EXCEPT ![r] = "done"]
          /\ answers' = answers \/ answers' = [answers EXCEPT ![r] = Append(@, reply[r])]
      BY <2>1 DEF Send, Goto
    <3>2. answers' \in [Requests -> Seq(Statuses)]
      <4>1. answers[r] \in Seq(Statuses) /\ reply[r] \in Statuses  BY <1>0, <2>0 DEF RequestTypeOK
      <4>2. Append(answers[r], reply[r]) \in Seq(Statuses)  BY <4>1
      <4> QED BY <1>0, <3>1, <4>2 DEF RequestTypeOK
    <3>3. at' \in [Threads -> Places]  BY <1>0, <3>1 DEF RequestTypeOK, Places
    <3>4. CopyInHand'
      BY <1>0, <2>0, <3>1, RequestsAreThreads DEF CopyInHand, RequestTypeOK, private, clients
    <3> QED BY <1>0, <3>1, <3>2, <3>3, <3>4 DEF TypeInv, RequestTypeOK, store, refresh, clients, private, ghosts
  <2>2. CASE ~Send(r)
    <3>1. Talks(r) /\ Books /\ Tables(r) /\ InHand(r)
      BY <1>0, <1>3, <2>2, EverybodyTalks, BooksKept, TablesKept DEF TellInv, Tells
    <3>2. /\ at' \in [Threads -> Places] /\ role' \in [Requests -> Roles \cup {None}]
          /\ reply' \in [Requests -> Statuses]
      <4>1. at' \in [Threads -> Places]  BY <1>0, <3>1 DEF Talks, RequestTypeOK
      <4>2. role' \in [Requests -> Roles \cup {None}]  BY <1>0, <3>1 DEF Talks, RequestTypeOK
      <4>3. reply' \in [Requests -> Statuses]  BY <1>0, <3>1 DEF Talks, RequestTypeOK
      <4> QED BY <4>1, <4>2, <4>3
    <3>3. kept' = [s \in Threads |-> kept'[s]] /\ \A s \in Threads : SomeRows(kept'[s])
      BY <1>0, <2>0, <3>1 DEF Tables, RequestTypeOK
    <3>4. CopyInHand'
      <4>1. \A s \in Requests : s # r => at'[s] = at[s] /\ kept'[s] = kept[s]
        BY <1>0, <3>1, RequestsAreThreads DEF Talks, Tables, RequestTypeOK
      <4> QED BY <1>0, <3>1, <4>1 DEF CopyInHand, Talks, InHand, RequestTypeOK
    <3>5. RequestTypeOK'
      BY <1>0, <3>1, <3>2, <3>3 DEF Talks, Books, Tables, RequestTypeOK
    <3> QED BY <3>4, <3>5 DEF TypeInv
  <2> QED BY <2>1, <2>2
<1> QED BY <1>1, <1>2, <1>3 DEF Next

(* The server starts well-formed.                                          *)
LEMMA TypeInit == Init => TypeInv
<1> SUFFICES ASSUME Init PROVE TypeInv  OBVIOUS
<1>1. DOMAIN ask \subseteq Requests /\ ask \in [DOMAIN ask -> Ask]  BY RequestAssumption DEF Init
<1>2. SomeRows(rows) /\ cache \in [{"typed", "untyped"} -> Ids \cup {None}]
  <2>1. PICK table \in SUBSET Images, latest \in Images \cup {None} :
          /\ rows = [i \in table |-> [latest |-> i = latest, notes |-> {}]]
          /\ cache = [typed |-> latest, untyped |-> None]
    BY DEF Init
  <2> QED BY <2>1 DEF SomeRows, Rows, Ids
<1>3. \A t \in Threads : SomeRows(kept[t])  BY CopiesAreRows DEF Init
<1>7. cached \subseteq vouched /\ vouched \subseteq Users /\ lapsed \subseteq Users /\ due \in Nat
  <2>1. \A r \in DOMAIN ask : Shows(ask[r]) \subseteq Users  BY DEF Shows, Users, Roles
  <2> QED BY <2>1, RequestAssumption DEF Init
<1>4. answers \in [Requests -> Seq(Statuses)]  BY DEF Init
<1>5. /\ history \subseteq Entries /\ levels \in [{1, 2} -> Requests \cup {None}]
      /\ updating \in BOOLEAN /\ runner \in {"none", "pruning", "adding", "ending"}
      /\ drawn \subseteq Listed /\ adding \in Listed \cup {None}
      /\ at \in [Threads -> Places] /\ role \in [Requests -> Roles \cup {None}]
      /\ kept = [t \in Threads |-> kept[t]]
      /\ newest \subseteq Ids /\ reply \in [Requests -> Statuses] /\ online \subseteq Requests
      /\ did \subseteq Requests /\ beside \in [Threads -> SUBSET Threads]
  BY DEF Init, Places, Statuses
<1>6. CopyInHand  BY <1>1, RequestsAreThreads DEF Init, CopyInHand
<1> QED BY <1>1, <1>2, <1>3, <1>4, <1>5, <1>6, <1>7 DEF TypeInv, RequestTypeOK

-----------------------------------------------------------------------------
(* The note of a PUT.                                                      *)
Noted(r) == Handler(r) = "firmware" /\ ask[r].method = "PUT" /\ ask[r].body = "full"
Has(r, row) == r \in row.notes \/ beside[r] # {}
Holds(t, i) == at[t] = "writing" /\ i \in DOMAIN kept[t]
Wrote(r) == (at[r] = "answering" /\ reply[r] = 200) \/ answers[r] = <<200>>

(* While a PUT holds its copy, the note is in it, and whoever else holds   *)
(* one is beside it; once it has written, the row has the note, and so has *)
(* every copy that is to be written over it.                               *)
NoteSafe(r) ==
  Noted(r) =>
    LET i == ask[r].subject
    IN  /\ at[r] = "writing" =>
             /\ r \in kept[r][i].notes
             /\ \A t \in Threads \ {r} : Holds(t, i) => beside[r] # {}
        /\ Wrote(r) =>
             /\ i \in DOMAIN rows => Has(r, rows[i])
             /\ \A t \in Threads : Holds(t, i) => Has(r, kept[t][i])

NoteInv == \A r \in DOMAIN ask : NoteSafe(r)

(* What a step of t may do to row i and to the copies of it, as the others *)
(* see it: nobody forgets whom he was beside; a row that is there was      *)
(* there, or was written from a copy t held; a copy that t holds it held,  *)
(* or has just made from the row - and then it is beside who holds one.    *)
Handles(t, i) ==
  /\ \A s \in Threads : beside[s] # {} => beside'[s] # {}
  /\ i \in DOMAIN rows' =>
       i \in DOMAIN rows /\ \/ rows'[i] = rows[i]
                            \/ Holds(t, i) /\ rows'[i] = kept[t][i]
  /\ Holds(t, i)' =>
       \/ Holds(t, i) /\ kept'[t][i] = kept[t][i]
       \/ /\ i \in DOMAIN rows /\ rows[i].notes \subseteq kept'[t][i].notes
          /\ \A s \in Threads \ {t} : Holds(s, i) => beside'[s] # {} /\ beside'[t] # {}
  /\ UNCHANGED ask
  /\ \A s \in Threads \ {t} : at'[s] = at[s] /\ kept'[s] = kept[s]
  /\ \A s \in DOMAIN ask \ {t} : reply'[s] = reply[s] /\ answers'[s] = answers[s]

(* The note of r survives a step of somebody else.                         *)
LEMMA NoteSurvives ==
  ASSUME NEW r \in DOMAIN ask, NEW t \in Threads \ {r}, r \in Threads, CopyInHand, NoteSafe(r),
         Handles(t, ask[r].subject)
  PROVE  NoteSafe(r)'
<1> DEFINE i == ask[r].subject
<1> SUFFICES ASSUME Noted(r) PROVE NoteSafe(r)'
  BY DEF NoteSafe, Noted, Handles, Handler
<1>0. /\ UNCHANGED ask /\ at'[r] = at[r] /\ reply'[r] = reply[r] /\ answers'[r] = answers[r] /\ kept'[r] = kept[r]
      /\ i' = i /\ beside[r] # {} => beside'[r] # {}
  BY DEF Handles
<1>1. ASSUME at'[r] = "writing"
      PROVE  r \in kept'[r][i].notes /\ \A s \in Threads \ {r} : Holds(s, i)' => beside'[r] # {}
  <2>2. r \in kept'[r][i].notes  BY <1>0, <1>1 DEF NoteSafe
  <2>3. ASSUME NEW s \in Threads \ {r}, Holds(s, i)' PROVE beside'[r] # {}
    <3>1. CASE Holds(s, i)  BY <1>0, <1>1, <3>1 DEF NoteSafe
    <3>2. CASE ~Holds(s, i)
      <4>1. s = t  BY <1>0, <2>3, <3>2 DEF Handles, Holds
      <4>2. Holds(r, i)  BY <1>0, <1>1 DEF CopyInHand, Noted, Holds
      <4>3. \A u \in Threads \ {t} : Holds(u, i) => beside'[u] # {}
        BY <2>3, <3>2, <4>1 DEF Handles
      <4> QED BY <4>2, <4>3
    <3> QED BY <3>1, <3>2
  <2> QED BY <2>2, <2>3
<1>2. ASSUME Wrote(r)'
      PROVE  /\ i \in DOMAIN rows' => Has(r, rows[i])'
             /\ \A s \in Threads : Holds(s, i)' => Has(r, kept[s][i])'
  <2>0. Wrote(r)  BY <1>0, <1>2 DEF Wrote
  <2>1. i \in DOMAIN rows' => Has(r, rows[i])'
    BY <1>0, <2>0 DEF NoteSafe, Handles, Has
  <2>2. ASSUME NEW s \in Threads, Holds(s, i)' PROVE Has(r, kept[s][i])'
    <3>1. CASE s # t
      <4>1. Holds(s, i) /\ kept'[s] = kept[s]  BY <1>0, <2>2, <3>1 DEF Handles, Holds
      <4> QED BY <1>0, <2>0, <4>1 DEF NoteSafe, Has
    <3>2. CASE s = t
      BY <1>0, <2>0, <2>2, <3>2 DEF NoteSafe, Handles, Has
    <3> QED BY <3>1, <3>2
  <2> QED BY <2>1, <2>2
<1> QED BY <1>0, <1>1, <1>2 DEF NoteSafe

(* What the handlers do to the places, copies and answers of the others:   *)
(* nothing.                                                                *)
LeavesOthers(t) ==
  /\ UNCHANGED ask
  /\ \A s \in Threads \ {t} : at'[s] = at[s] /\ kept'[s] = kept[s]
  /\ \A s \in DOMAIN ask \ {t} : reply'[s] = reply[s] /\ answers'[s] = answers[s]
LEMMA OthersLeftAlone ==
  ASSUME NEW r \in DOMAIN ask, TypeInv, AtWork(r), HandlerStep(r)
  PROVE  LeavesOthers(r)
<1> USE DEF LeavesOthers
<1>1. CASE Send(r)
  <2>1. /\ UNCHANGED <<ask, reply, kept>> /\ at' = [at EXCEPT ![r] = "done"]
        /\ answers' = answers \/ answers' = [answers EXCEPT ![r] = Append(@, reply[r])]
    BY <1>1 DEF Send, Goto, private, clients
  <2> QED BY <2>1 DEF TypeInv, RequestTypeOK
<1>2. CASE ~Send(r)
  <2>1. Talks(r) /\ Tables(r)  BY <1>2, EverybodyTalks, TablesKept
  <2> QED BY <2>1 DEF Talks, Tables, TypeInv, RequestTypeOK
<1> QED BY <1>1, <1>2

(* Whoever takes a copy is beside all who hold one of the same row.        *)
LEMMA CopyIsBeside ==
  ASSUME NEW t \in Threads, TypeInv, NEW copies, TakeCopies(t, copies)
  PROVE  /\ \A s \in Threads : beside[s] # {} => beside'[s] # {}
         /\ \A s \in Threads \ {t}, i \in DOMAIN copies :
              Holds(s, i) => beside'[s] # {} /\ beside'[t] # {}
         /\ kept'[t] = copies
<1> DEFINE others == {s \in Threads \ {t} : at[s] = "writing" /\ DOMAIN kept[s] \cap DOMAIN copies # {}}
<1>0. /\ kept = [s \in Threads |-> kept[s]]
      /\ kept' = [kept EXCEPT ![t] = copies]
      /\ beside' = [s \in Threads |-> IF s = t THEN beside[t] \cup others
                                      ELSE IF s \in others THEN beside[s] \cup {t} ELSE beside[s]]
  BY DEF TypeInv, RequestTypeOK, TakeCopies
<1>1. \A s \in Threads \ {t}, i \in DOMAIN copies : Holds(s, i) => s \in others
  BY <1>0 DEF Holds
<1> HIDE DEF others
<1>2. kept'[t] = copies  BY <1>0
<1>3. \A s \in Threads : beside[s] # {} => beside'[s] # {}
  BY <1>0
<1>4. ASSUME NEW s \in Threads \ {t}, s \in others PROVE beside'[s] # {} /\ beside'[t] # {}
  <2>1. t \in beside'[s] /\ s \in beside'[t]  BY <1>0, <1>4
  <2> QED BY <2>1
<1> QED BY <1>1, <1>2, <1>3, <1>4

(* A step that takes no copy, writes none, and leaves the row, or removes  *)
(* it, does what Handles allows ...                                        *)
LEMMA QuietHandles ==
  ASSUME NEW t \in Threads, NEW i, LeavesOthers(t), UNCHANGED beside,
         at'[t] # "writing" \/ (at'[t] = at[t] /\ kept'[t] = kept[t]),
         i \in DOMAIN rows' => i \in DOMAIN rows /\ rows'[i] = rows[i]
  PROVE  Handles(t, i)
BY DEF Handles, LeavesOthers, Holds

(* ... and so does AddFirmware, whoever calls it.                          *)
LEMMA AddFirmwareHandles ==
  ASSUME NEW t \in Threads, NEW i, TypeInv, LeavesOthers(t), ReadLatest(t) \/ ClearLatest(t)
  PROVE  Handles(t, i)
<1>0. at = [s \in Threads |-> at[s]] /\ kept = [s \in Threads |-> kept[s]] /\ SomeRows(rows)
  BY DEF TypeInv, RequestTypeOK
<1> USE DEF Goto, store, ghosts
<1>1. CASE ReadLatest(t)
  <2> DEFINE flagged == {j \in DOMAIN rows : rows[j].latest /\ TypeOf(j) = TypeOf(Added(t))}
             copies == [j \in flagged |-> [rows[j] EXCEPT !.latest = FALSE]]
  <2>1. UNCHANGED rows  BY <1>1 DEF ReadLatest
  <2>2. CASE at' = [at EXCEPT ![t] = "creating"] /\ UNCHANGED beside
    BY <1>0, <2>1, <2>2, QuietHandles
  <2>3. CASE TakeCopies(t, copies)
    <3>1. i \in DOMAIN copies => i \in DOMAIN rows /\ rows[i].notes \subseteq copies[i].notes
      BY <1>0 DEF SomeRows, Rows
    <3> HIDE DEF copies
    <3> QED BY <2>1, <2>3, <3>1, CopyIsBeside DEF Handles, LeavesOthers, Holds
  <2> QED BY <1>1, <2>2, <2>3 DEF ReadLatest
<1>3. CASE ClearLatest(t)
  <2>1. PICK k \in DOMAIN kept[t] :
          /\ UpdateRecord(k, kept[t][k]) \/ UNCHANGED rows
          /\ kept' = [kept EXCEPT ![t] = [j \in DOMAIN kept[t] \ {k} |-> kept[t][j]]]
    BY <1>3 DEF ClearLatest
  <2>2. at[t] = "writing" /\ UNCHANGED beside  BY <1>3 DEF ClearLatest
  <2>3. kept'[t] = [j \in DOMAIN kept[t] \ {k} |-> kept[t][j]]
    BY <1>0, <2>1
  <2>4. i \in DOMAIN rows' =>
          i \in DOMAIN rows /\ (rows'[i] = rows[i] \/ (Holds(t, i) /\ rows'[i] = kept[t][i]))
    BY <2>1, <2>2 DEF UpdateRecord, Holds
  <2>5. Holds(t, i)' => Holds(t, i) /\ kept'[t][i] = kept[t][i]
    BY <2>2, <2>3 DEF Holds
  <2> QED BY <2>2, <2>4, <2>5 DEF Handles, LeavesOthers
<1> QED BY <1>1, <1>3

(* Every step of a handler does to the rows and the copies what Handles    *)
(* allows ...                                                              *)
LEMMA HandlerHandles ==
  ASSUME NEW r \in DOMAIN ask, TypeInv, AtWork(r), HandlerStep(r), NEW i, i \notin Requests
  PROVE  Handles(r, i)
<1>0. r \in Requests /\ r \in Threads /\ at = [s \in Threads |-> at[s]] /\ SomeRows(rows) /\ LeavesOthers(r)
  BY RequestsAreThreads, OthersLeftAlone DEF TypeInv, RequestTypeOK
<1>b. ASSUME UNCHANGED beside, at'[r] # "writing",
             i \in DOMAIN rows' => i \in DOMAIN rows /\ rows'[i] = rows[i]
      PROVE  Handles(r, i)
  BY <1>0, <1>b, QuietHandles
<1> USE DEF Goto, Reply, OK, ReturnObject, BadRequest, UnAuthorized, NotFound, Caught, store, ghosts
<1>1. CASE ReadLatest(r) \/ ClearLatest(r)
  BY <1>0, <1>1, AddFirmwareHandles
<1>2. CASE PutFirmware(r)
  <2> DEFINE k == ask[r].subject
             copies == [j \in {k} |-> WithNotes(r, rows[j])]
  <2>1. UNCHANGED rows  BY <1>2 DEF PutFirmware
  <2>2. CASE UNCHANGED beside /\ at' = [at EXCEPT ![r] = "answering"]
    BY <1>0, <1>b, <2>1, <2>2
  <2>3. CASE k \in DOMAIN rows /\ TakeCopies(r, copies)
    <3>1. i \in DOMAIN copies => i \in DOMAIN rows /\ rows[i].notes \subseteq copies[i].notes
      BY <1>0, <2>3 DEF SomeRows, Rows, WithNotes
    <3> HIDE DEF copies
    <3> QED BY <1>0, <2>1, <2>3, <3>1, CopyIsBeside DEF Handles, LeavesOthers, Holds
  <2> QED BY <1>2, <2>2, <2>3 DEF PutFirmware
<1>4. CASE WriteFirmware(r)
  <2>1. ask[r].subject \in DOMAIN kept[r] /\ at[r] = "writing"
    BY <1>4 DEF WriteFirmware, TypeInv, CopyInHand
  <2>2. i \in DOMAIN rows' =>
          i \in DOMAIN rows /\ (rows'[i] = rows[i] \/ (Holds(r, i) /\ rows'[i] = kept[r][i]))
    BY <1>4, <2>1 DEF WriteFirmware, UpdateRecord, Holds
  <2>3. at'[r] # "writing" /\ UNCHANGED beside  BY <1>0, <1>4 DEF WriteFirmware
  <2> QED BY <1>0, <2>2, <2>3 DEF Handles, LeavesOthers, Holds
<1>5. CASE CreateFirmware(r)
  <2>1. i \in DOMAIN rows' => i \in DOMAIN rows /\ rows'[i] = rows[i]
    BY <1>0, <1>5 DEF CreateFirmware, CreateRecord
  <2> QED BY <1>0, <1>5, <1>b, <2>1 DEF CreateFirmware
<1>6. CASE DeleteFirmware(r)
  <2>1. i \in DOMAIN rows' => i \in DOMAIN rows /\ rows'[i] = rows[i]
    BY <1>6 DEF DeleteFirmware, DeleteRecord
  <2> QED BY <1>0, <1>6, <1>b, <2>1 DEF DeleteFirmware
<1>7. CASE PostFirmware(r) \/ GetFirmware(r) \/ GetFirmwares(r) \/ GetLatest(r) \/ PutFirmwares(r)
  <2>1. UNCHANGED <<rows, beside>> /\ at'[r] # "writing"
    BY <1>0, <1>7 DEF PostFirmware, AddToCache, GetFirmware, GetFirmwares, GetLatest, PutFirmwares
  <2> QED BY <1>b, <2>1
<1>8. CASE GetHistory(r) \/ DeleteHistory(r) \/ PostSystem(r) \/ SetNextLevel(r) \/ ChangeConfiguration(r)
           \/ Read(r) \/ WebSocket(r)
  <2>1. UNCHANGED <<rows, beside>> /\ at'[r] # "writing"
    BY <1>0, <1>8 DEF GetHistory, DeleteHistory, PostSystem, SetNextLevel, ChangeConfiguration, Read, WebSocket
  <2> QED BY <1>b, <2>1
<1>9. CASE NoHandler(r) \/ HandleRequest(r) \/ Authorize(r) \/ Send(r)
  <2>1. UNCHANGED <<rows, beside>> /\ at'[r] # "writing"
    BY <1>0, <1>9 DEF NoHandler, HandleRequest, Authorize, IsAuthorized, Admit, ParseParameters, Send
  <2> QED BY <1>b, <2>1
<1> QED BY HandlerStep(r), <1>1, <1>2, <1>4, <1>5, <1>6, <1>7, <1>8, <1>9
        DEF HandlerStep, FirmwareStep, OtherStep

(* ... and every step of the refresh, and what happens around them.        *)
LEMMA EnvironmentHandles ==
  ASSUME AuthorizedInv, TypeInv, Environment, NEW i, i \notin Listed
  PROVE  Handles(Runner, i)
<1>0. Runner \in Threads /\ at = [s \in Threads |-> at[s]] /\ kept = [s \in Threads |-> kept[s]]
  BY RequestsAreThreads DEF TypeInv, RequestTypeOK
<1>1. LeavesOthers(Runner)
  BY <1>0, EnvironmentAside DEF Aside, LeavesOthers
<1> USE DEF store, refresh, clients, private, ghosts, NoHandlerSteps, Goto
<1>2. CASE TimerRefreshes \/ RefreshPrunes \/ RefreshEnds \/ CredentialStep \/ \E r \in DOMAIN ask : HangUp(r)
  <2>1. /\ UNCHANGED <<at, kept, beside>>
        /\ i \in DOMAIN rows' => i \in DOMAIN rows /\ rows'[i] = rows[i]
    BY <1>2 DEF TimerRefreshes, RefreshPrunes, RefreshEnds, CredentialStep, Lapse, RemovedCachedToken, HangUp
  <2> QED BY <1>0, <1>1, <2>1, QuietHandles
<1>3. CASE RefreshAdds
  <2>1. UNCHANGED <<rows, beside>> /\ at'[Runner] # "writing"
    BY <1>0, <1>3 DEF RefreshAdds, AddToCache
  <2> QED BY <1>0, <1>1, <2>1, QuietHandles
<1>4. CASE ReadLatest(Runner) \/ ClearLatest(Runner)
  BY <1>0, <1>1, <1>4, AddFirmwareHandles
<1>5. CASE RefreshCreates
  <2>1. UNCHANGED beside /\ at'[Runner] # "writing"  BY <1>0, <1>5 DEF RefreshCreates
  <2>2. adding # i  BY <1>5 DEF RefreshCreates, AuthorizedInv, RunnerAdds
  <2>3. i \in DOMAIN rows' => i \in DOMAIN rows /\ rows'[i] = rows[i]
    BY <1>5, <2>2 DEF RefreshCreates, CreateRecord
  <2> QED BY <1>0, <1>1, <2>1, <2>3, QuietHandles
<1> QED BY <1>2, <1>3, <1>4, <1>5 DEF Environment, RefreshStep

(* And the note of a PUT survives the steps of the PUT itself: it is put   *)
(* into the copy, and the copy into the row.                               *)
LEMMA OwnNote ==
  ASSUME NEW r \in DOMAIN ask, AnsweredWhenDone, TypeInv, Tells(r), NoteSafe(r), HandlerStep(r), Noted(r)
  PROVE  NoteSafe(r)'
<1> DEFINE i == ask[r].subject
<1>0. /\ r \in Requests /\ r \in Threads /\ at = [s \in Threads |-> at[s]] /\ reply = [s \in Requests |-> reply[s]]
      /\ kept = [s \in Threads |-> kept[s]] /\ AtWork(r) /\ RequestTypeOK
  BY RequestsAreThreads DEF TypeInv, RequestTypeOK, Tells
<1>a. UNCHANGED ask /\ \A s \in Threads \ {r} : at'[s] = at[s] /\ kept'[s] = kept[s]
  BY <1>0, OthersLeftAlone DEF LeavesOthers
<1>b. ASSUME at'[r] # "writing", ~Wrote(r)' PROVE NoteSafe(r)'
  BY <1>b DEF NoteSafe
<1>c. ASSUME ~Send(r) PROVE answers'[r] # <<200>>
  <2>1. Talks(r) /\ at[r] # "done"
    BY <1>c, EverybodyTalks DEF HandlerStep, FirmwareStep, OtherStep, NoHandler, HandleRequest, Authorize, PostFirmware,
       ReadLatest, ClearLatest, CreateFirmware, GetFirmware, DeleteFirmware, PutFirmware, WriteFirmware, GetFirmwares,
       GetLatest, PutFirmwares, GetHistory, DeleteHistory, PostSystem, SetNextLevel, ChangeConfiguration, Read,
       WebSocket, Is
  <2>2. answers'[r] = <<>>  BY <2>1 DEF Talks, AnsweredWhenDone
  <2> QED BY <2>2
<1> USE DEF Goto, Reply, OK, ReturnObject, BadRequest, UnAuthorized, NotFound, Caught, store, ghosts, private, clients
<1>1. CASE PutFirmware(r)
  <2> DEFINE copies == [j \in {i} |-> WithNotes(r, rows[j])]
  <2>0. ~Send(r)  BY <1>1 DEF PutFirmware, Is, Send
  <2>1. CASE \E status \in {400, 404} : Reply(r, status)
    <3>1. at'[r] = "answering" /\ reply'[r] # 200  BY <1>0, <2>1
    <3> QED BY <1>b, <1>c, <2>0, <3>1 DEF Wrote
  <2>2. CASE i \in DOMAIN rows /\ TakeCopies(r, copies) /\ Goto(r, "writing")
    <3>1. at'[r] = "writing" /\ ~Wrote(r)'  BY <1>0, <1>c, <2>0, <2>2 DEF Wrote
    <3>2. i \in DOMAIN copies /\ r \in copies[i].notes
      BY <1>0, <2>2 DEF WithNotes, Noted, RequestTypeOK, SomeRows, Rows
    <3> HIDE DEF copies
    <3>3. r \in kept'[r][i].notes  BY <1>0, <2>2, <3>2, CopyIsBeside
    <3>4. ASSUME NEW t \in Threads \ {r}, Holds(t, i)' PROVE beside'[r] # {}
      <4>1. Holds(t, i)  BY <1>a, <3>4 DEF Holds
      <4> QED BY <1>0, <2>2, <3>2, <4>1, CopyIsBeside
    <3> QED BY <1>a, <3>1, <3>3, <3>4 DEF NoteSafe
  <2> QED BY <1>1, <2>1, <2>2 DEF PutFirmware
<1>2. CASE WriteFirmware(r)
  <2>0. ~Send(r) /\ at[r] = "writing" /\ at'[r] = "answering" /\ UNCHANGED beside
    BY <1>0, <1>2 DEF WriteFirmware, Send
  <2>1. CASE BadRequest(r)
    <3>1. reply'[r] # 200  BY <1>0, <2>1
    <3> QED BY <1>b, <1>c, <2>0, <3>1 DEF Wrote
  <2>2. CASE UpdateRecord(i, kept[r][i])
    <3>1. i \in DOMAIN rows' => rows'[i] = kept[r][i]  BY <2>2 DEF UpdateRecord
    <3>2. r \in kept[r][i].notes /\ \A t \in Threads \ {r} : Holds(t, i) => beside[r] # {}
      BY <2>0 DEF NoteSafe
    <3>3. i \in DOMAIN rows' => Has(r, rows[i])'  BY <1>a, <3>1, <3>2 DEF Has
    <3>4. ASSUME NEW t \in Threads, Holds(t, i)' PROVE Has(r, kept[t][i])'
      <4>1. t # r  BY <2>0, <3>4 DEF Holds
      <4>2. Holds(t, i)  BY <1>a, <3>4, <4>1 DEF Holds
      <4> QED BY <2>0, <3>2, <4>1, <4>2 DEF Has
    <3> QED BY <1>a, <2>0, <3>3, <3>4 DEF NoteSafe
  <2> QED BY <1>2, <2>1, <2>2 DEF WriteFirmware
<1>3. CASE Send(r)
  <2>1. /\ UNCHANGED <<rows, kept, beside, ask, reply>> /\ at[r] = "answering" /\ at'[r] = "done"
        /\ answers' = answers \/ answers' = [answers EXCEPT ![r] = Append(@, reply[r])]
    BY <1>0, <1>3 DEF Send
  <2>2. Wrote(r)' => Wrote(r)
    <3>1. answers[r] = <<>>  BY <2>1 DEF AnsweredWhenDone
    <3>2. Append(<<>>, reply[r]) = <<reply[r]>>  OBVIOUS
    <3>3. answers'[r] = <<>> \/ answers'[r] = <<reply[r]>>
      BY <1>0, <2>1, <3>1, <3>2 DEF RequestTypeOK
    <3>4. <<reply[r]>> = <<200>> => reply[r] = 200  OBVIOUS
    <3> QED BY <2>1, <3>3, <3>4 DEF Wrote
  <2>3. \A t \in Threads : Holds(t, i)' => Holds(t, i)
    <3>1. \A t \in Threads \ {r} : at'[t] = at[t]  BY <1>a
    <3>2. at' = [at EXCEPT ![r] = "done"]  BY <1>3 DEF Send
    <3> QED BY <2>1, <3>2 DEF Holds, TypeInv, RequestTypeOK
  <2> QED BY <2>1, <2>2, <2>3 DEF NoteSafe, Has
<1>4. CASE NoHandler(r) \/ HandleRequest(r) \/ Authorize(r)
  <2>1. ~Send(r)  BY <1>4 DEF NoHandler, HandleRequest, Authorize, Send
  <2>2. at'[r] # "writing" /\ (at'[r] = "answering" => reply'[r] # 200)
    BY <1>0, <1>4 DEF NoHandler, HandleRequest, Authorize, IsAuthorized, Admit, ParseParameters, Noted
  <2> QED BY <1>b, <1>c, <2>1, <2>2 DEF Wrote
<1>5. ~ReadLatest(r) /\ ~ClearLatest(r)
  BY <1>0, RequestsAreThreads DEF ReadLatest, ClearLatest, Adds, AtWork, Noted
<1> QED BY HandlerStep(r), <1>0, <1>1, <1>2, <1>3, <1>4, <1>5
        DEF HandlerStep, FirmwareStep, OtherStep, AtWork, Noted, Handler, Is, PostFirmware, CreateFirmware,
            GetFirmware, DeleteFirmware, GetFirmwares, GetLatest, PutFirmwares, GetHistory,
            DeleteHistory, PostSystem, SetNextLevel, ChangeConfiguration, Read, WebSocket

(* So no step loses a note.                                                *)
LEMMA NoteStep == AuthorizedInv /\ AnsweredWhenDone /\ TellInv /\ TypeInv /\ NoteInv /\ [Next]_vars => NoteInv'
<1> SUFFICES ASSUME AuthorizedInv, AnsweredWhenDone, TellInv, TypeInv, NoteInv, [Next]_vars PROVE NoteInv'  OBVIOUS
<1>0. CopyInHand /\ \A r \in DOMAIN ask : r \in Threads /\ r # Runner
  BY RequestsAreThreads DEF TypeInv, RequestTypeOK
<1>1. CASE UNCHANGED vars
  BY <1>1 DEF vars, store, clients, private, ghosts, NoteInv, NoteSafe, Noted, Wrote, Has, Holds, Handler
<1>2. CASE Environment
  <2>1. ASSUME NEW r \in DOMAIN ask PROVE NoteSafe(r)'
    <3>1. NoteSafe(r) /\ ask[r].subject \notin Listed  BY DEF NoteInv, TellInv
    <3> QED BY <1>0, <1>2, <3>1, RequestsAreThreads, EnvironmentHandles, NoteSurvives
  <2>2. UNCHANGED ask  BY <1>2, EnvironmentAside DEF Aside
  <2> QED BY <2>1, <2>2 DEF NoteInv
<1>3. ASSUME NEW t \in DOMAIN ask, HandlerStep(t) PROVE NoteInv'
  <2>1. Tells(t) /\ AtWork(t)  BY DEF TellInv, Tells
  <2>2. UNCHANGED ask  BY <1>3, <2>1, OthersLeftAlone DEF LeavesOthers
  <2>3. ASSUME NEW r \in DOMAIN ask PROVE NoteSafe(r)'
    <3>1. NoteSafe(r) /\ ask[r].subject \notin Requests  BY DEF NoteInv, TellInv
    <3>2. CASE r # t
      BY <1>0, <1>3, <2>1, <3>1, <3>2, HandlerHandles, NoteSurvives
    <3>3. CASE r = t /\ Noted(r)
      BY <1>3, <2>1, <3>1, <3>3, OwnNote
    <3>4. CASE ~Noted(r)
      BY <2>2, <3>4 DEF NoteSafe, Noted, Handler
    <3> QED BY <3>2, <3>3, <3>4
  <2> QED BY <2>2, <2>3 DEF NoteInv
<1> QED BY <1>1, <1>2, <1>3 DEF Next

(* For any number of requests: the state stays well-formed, no request is  *)
(* answered twice, and none whose client waits is done without an answer,  *)
(* but for two: an upgrade to a web-socket, and a number too long for      *)
(* std::stoull, for which the connection is dropped unanswered.            *)
THEOREM AnsweredOnce == Spec => []RequestInvariant
<1>1. Init => AnsweredWhenDone
  BY RequestAssumption, RequestsAreThreads DEF Init, AnsweredWhenDone
<1>2. AnswerInv /\ TypeInv => RequestInvariant
  BY DEF AnswerInv, AnsweredWhenDone, TypeInv, OneAnswer, RequestInvariant
<1> QED BY <1>1, <1>2, AuthorizedInit, AuthorizedStep, AnswerStep, TellInit, TellStep, TypeInit, TypeStep, PTL
        DEF Spec, AnswerInv

(* For any number of requests, and a refresh that adds images beside them: *)
(* a note whose PUT was answered with 200 stays in its row, unless another *)
(* request or the refresh held a copy of the row beside it.                *)
THEOREM NotesStay == Spec => []NotesKept
<1>1. Init => AnsweredWhenDone
  BY RequestAssumption, RequestsAreThreads DEF Init, AnsweredWhenDone
<1>2. Init => NoteInv
  <2> SUFFICES ASSUME Init PROVE NoteInv  OBVIOUS
  <2>1. \A r \in DOMAIN ask : at[r] = "sent" /\ answers[r] = <<>>  BY RequestAssumption, RequestsAreThreads DEF Init
  <2> QED BY <2>1 DEF NoteInv, NoteSafe, Wrote
<1>3. NoteInv => NotesKept
  BY DEF NoteInv, NoteSafe, Noted, Wrote, Has, NotesKept
<1> QED BY <1>1, <1>2, <1>3, AuthorizedInit, AuthorizedStep, AnswerStep, TellInit, TellStep, TypeInit, TypeStep,
           NoteStep, PTL DEF Spec, AnswerInv

----------------------------------------------------------------------------
(* ObjectExchange.                                                         *)

----------------------------------------------------------------------------
(* Types, their fields and their objects. *)

(* The fields of a type, written or read: each is a member of its own name *)
(* and of one kind.                                                        *)
LEMMA FieldsAre ==
  ASSUME NEW t \in Types, NEW fields \in {t.written, t.read}, NEW i \in Indices(fields)
  PROVE  /\ fields[i] \in Field /\ fields[i].member = fields[i].name
         /\ fields[i].name \in Members(t) /\ KindOf(t, fields[i].name) = fields[i].kind
         /\ fields[i].name \in Names(fields) /\ fields[i].name \in Names(FieldsOf(t))
<1> DEFINE all == FieldsOf(t)
<1>1. WellFormed(t) /\ t.written \in Seq(Field) /\ t.read \in Seq(Field)
  BY ExchangeAssumption DEF WellFormed
<1>2. PICK k \in Indices(all) : all[k] = fields[i]
  <2> DEFINE w == t.written
             r == t.read
  <2>0. /\ all = w \o r /\ Len(all) = Len(w) + Len(r) /\ Len(w) \in Nat /\ Len(r) \in Nat
        /\ \A j \in 1..Len(w) + Len(r) : all[j] = IF j <= Len(w) THEN w[j] ELSE r[j - Len(w)]
    <3> HIDE DEF w, r
    <3>1. w \in Seq(Field) /\ r \in Seq(Field)
      BY <1>1 DEF w, r
    <3>2. all = w \o r
      BY DEF w, r, FieldsOf
    <3> HIDE DEF all
    <3> QED
      BY <3>1, <3>2, ConcatProperties
  <2>1. CASE fields = t.written
    <3>1. i \in Indices(all) /\ all[i] = fields[i]
      <4>1. i \in 1..Len(w) /\ fields[i] = w[i]
        BY <2>1 DEF Indices
      <4> HIDE DEF all, w, r
      <4> QED
        BY <2>0, <4>1 DEF Indices
    <3> QED
      BY <3>1
  <2>2. CASE fields = t.read
    <3>1. Len(t.written) + i \in Indices(all) /\ all[Len(t.written) + i] = fields[i]
      <4>1. i \in 1..Len(r) /\ fields[i] = r[i]
        BY <2>2 DEF Indices
      <4>2. Len(t.written) = Len(w)
        OBVIOUS
      <4> HIDE DEF all, w, r
      <4> DEFINE k == Len(w) + i
      <4>3. k \in 1..Len(w) + Len(r) /\ ~(k <= Len(w)) /\ k - Len(w) = i
        BY <2>0, <4>1
      <4>4. all[k] = r[i]
        <5> HIDE DEF k
        <5> QED
          BY <2>0, <4>3
      <4>5. k \in Indices(all)
        BY <2>0, <4>3 DEF Indices
      <4> QED
        BY <4>1, <4>2, <4>4, <4>5
    <3> QED
      BY <3>1
  <2> QED
    BY <2>1, <2>2
<1>3. fields[i] \in Field
  BY <1>1 DEF Indices
<1>4. all[k].member = all[k].name
  BY <1>1 DEF WellFormed
<1>5. fields[i].name \in Members(t) /\ fields[i].name \in Names(all)
  BY <1>2, <1>4 DEF Members, Names
<1>6. KindOf(t, fields[i].name) = fields[i].kind
  <2> DEFINE j == CHOOSE j \in Indices(all) : all[j].member = fields[i].name
  <2>1. j \in Indices(all) /\ all[j].member = fields[i].name
    BY <1>2, <1>4
  <2>2. all[j].name = all[k].name
    BY <1>1, <1>2, <2>1 DEF WellFormed
  <2>3. all[j].kind = all[k].kind
    BY <1>1, <2>1, <2>2 DEF WellFormed
  <2> QED
    BY <1>2, <2>3 DEF KindOf
<1> QED
  BY <1>2, <1>3, <1>4, <1>5, <1>6 DEF Names

LEMMA Lengths ==
  ASSUME NEW t \in Types
  PROVE  Len(t.written) \in Nat /\ Len(t.read) \in Nat
<1>1. t.written \in Seq(Field) /\ t.read \in Seq(Field)
  BY ExchangeAssumption DEF WellFormed
<1> QED
  BY <1>1

(* Who is named in a list of fields is the name of one of them. *)
LEMMA NamedField ==
  ASSUME NEW fields, NEW n \in Names(fields)
  PROVE  \E i \in Indices(fields) : fields[i].name = n
BY DEF Names

(* No member, an empty one, and the embedded object that stands for it. *)
LEMMA SoundConstants ==
  <<>> \in Sound /\ Nothing \in Sound /\ <<"{}">> \in Sound
<1>1. <<>> \in Sound
  <2>1. <<>> \in Seq(Items) /\ <<>> # Null /\ <<>> # Bad /\ DOMAIN <<>> = {}
    BY DEF Null, Bad
  <2> QED
    BY <2>1 DEF Sound
<1>2. ASSUME NEW s \in Items, s \notin {"null", "bad", "broken"} PROVE <<s>> \in Sound
  <2>1. <<s>> \in Seq(Items) /\ DOMAIN <<s>> = {1} /\ <<s>>[1] = s
    OBVIOUS
  <2>2. <<s>> # Null /\ <<s>> # Bad
    BY <1>2, <2>1 DEF Null, Bad
  <2> QED
    BY <1>2, <2>1, <2>2 DEF Sound
<1>3. "" \in Items /\ "{}" \in Items
  BY ExchangeAssumption
<1> QED
  BY <1>1, <1>2, <1>3 DEF Nothing

(* The objects of a type hold something sound in each member. *)
ObjectsOf(t) == [Members(t) -> Sound]

LEMMA SoundObjects ==
  ASSUME NEW t \in Types
  PROVE  Fresh(t) \in ObjectsOf(t) /\ Made(t) \subseteq ObjectsOf(t) /\ Kept(t) \subseteq ObjectsOf(t)
<1>1. <<>> \in Sound /\ Nothing \in Sound
  BY SoundConstants
<1> QED
  BY <1>1, ExchangeAssumption DEF Fresh, ObjectsOf

LEMMA SoundOnTheWire ==
  ASSUME NEW v \in Sound, NEW f
  PROVE  WireValue(f, v) \in Sound
BY SoundConstants DEF WireValue

LEMMA ReadableSound ==
  ASSUME NEW v \in Sound
  PROVE  Readable(v) = v /\ "broken" \notin {v[i] : i \in DOMAIN v} /\ v # Null /\ v # Bad
<1>1. DOMAIN v = 1..Len(v)
  BY DEF Sound
<1> QED
  BY <1>1 DEF Readable, Sound

(* Of any indices one is the last. *)
LEMMA LastIndex ==
  ASSUME NEW N \in Nat, NEW S \in SUBSET (1..N), S # {}
  PROVE  \E m \in S : \A k \in S : k <= m
<1> DEFINE T == {N - k : k \in S}
           R == OpToRel(<, Nat)
<1> HIDE DEF R
<1>1. T \in SUBSET Nat /\ T # {}
  <2>1. \A k \in S : N - k \in Nat
    OBVIOUS
  <2> QED
    BY <2>1
<1>2. IsWellFoundedOn(R, Nat)
  BY NatLessThanWellFounded DEF R
<1>3. PICK d \in T : \A e \in T : ~(<<e, d>> \in R)
  <2> HIDE DEF T
  <2> QED
    BY <1>1, <1>2, WFMin
<1>4. PICK m \in S : d = N - m
  BY <1>3
<1>5. ASSUME NEW k \in S PROVE k <= m
  <2>1. ~(<<N - k, N - m>> \in R)
    BY <1>3, <1>4
  <2>2. N - k \in Nat /\ N - m \in Nat /\ k \in 1..N /\ m \in 1..N
    OBVIOUS
  <2>3. ~(N - k < N - m)
    BY <2>1, <2>2 DEF R, OpToRel
  <2> QED
    BY <2>2, <2>3
<1> QED
  BY <1>5

----------------------------------------------------------------------------
(* Writing. *)

(* to_json gives each name that is written the value of its member. *)
LEMMA Written ==
  ASSUME NEW t \in Types, NEW obj
  PROVE  /\ DOMAIN Document(t, obj) = Names(t.written)
         /\ \A i \in Indices(t.written) :
              Document(t, obj)[t.written[i].name] = WireValue(t.written[i], obj[t.written[i].name])
<1>1. DOMAIN Document(t, obj) = Names(t.written)
  BY DEF Document
<1>2. ASSUME NEW i \in Indices(t.written)
      PROVE  Document(t, obj)[t.written[i].name] = WireValue(t.written[i], obj[t.written[i].name])
  <2> DEFINE n == t.written[i].name
             S == {j \in Indices(t.written) : t.written[j].name = n}
             last == CHOOSE j \in Indices(t.written) :
                        /\ t.written[j].name = n
                        /\ \A k \in Indices(t.written) : t.written[k].name = n => k <= j
  <2>1. PICK m \in S : \A k \in S : k <= m
    <3>1. Len(t.written) \in Nat
      BY Lengths
    <3>2. S \in SUBSET (1..Len(t.written)) /\ S # {}
      BY DEF Indices
    <3> HIDE DEF S
    <3> QED
      BY <3>1, <3>2, LastIndex
  <2>2. last \in Indices(t.written) /\ t.written[last].name = n
    BY <2>1
  <2>3. t.written[last].member = n /\ t.written[last].kind = t.written[i].kind
    <3>1. KindOf(t, n) = t.written[last].kind /\ KindOf(t, n) = t.written[i].kind
      BY <2>2, FieldsAre
    <3> QED
      BY <2>2, <3>1, FieldsAre
  <2>4. Document(t, obj)[n] = WireValue(t.written[last], obj[t.written[last].member])
    <3>1. n \in Names(t.written)
      BY FieldsAre
    <3> QED
      BY <3>1 DEF Document
  <2> QED
    BY <2>3, <2>4 DEF WireValue
<1> QED
  BY <1>1, <1>2

----------------------------------------------------------------------------
(* Reading. *)

(* What a field leaves in its member is all that matters of it, and it is  *)
(* left unless each field of that name was skipped.                        *)
LEMMA ReadIs ==
  ASSUME NEW t \in Types, NEW d, NEW i \in Indices(t.read)
  PROVE  LET n == t.read[i].name IN
         \/ \A obj : n \in DOMAIN obj => ReadInto(t, obj, d)[n] = After(t.read[i], obj[n], d)
         \/ /\ Skipped(t, i, d)
            /\ \A obj : n \in DOMAIN obj => ReadInto(t, obj, d)[n] = obj[n]
<1> DEFINE n == t.read[i].name
           reads == {j \in Indices(t.read) : t.read[j].member = n /\ ~Skipped(t, j, d)}
           last == CHOOSE j \in reads : \A k \in reads : k <= j
<1>1. ASSUME NEW obj, n \in DOMAIN obj
      PROVE  ReadInto(t, obj, d)[n] =
               IF reads = {} THEN obj[n] ELSE After(t.read[last], obj[n], d)
  BY <1>1 DEF ReadInto
<1>2. CASE reads = {}
  BY <1>1, <1>2, FieldsAre
<1>3. CASE reads # {}
  <2>1. \E m \in reads : \A k \in reads : k <= m
    <3>1. Len(t.read) \in Nat
      BY Lengths
    <3>2. reads \in SUBSET (1..Len(t.read))
      BY DEF Indices
    <3> HIDE DEF reads
    <3> QED
      BY <1>3, <3>1, <3>2, LastIndex
  <2>2. last \in Indices(t.read) /\ t.read[last].member = n
    BY <2>1
  <2>3. t.read[last].name = n /\ t.read[last].kind = t.read[i].kind
    <3>1. t.read[last].name = n
      BY <2>2, FieldsAre
    <3>2. KindOf(t, n) = t.read[last].kind /\ KindOf(t, n) = t.read[i].kind
      BY <2>2, <3>1, FieldsAre
    <3> QED
      BY <3>1, <3>2
  <2>4. \A old : After(t.read[last], old, d) = After(t.read[i], old, d)
    BY <2>3 DEF After
  <2> HIDE DEF last, reads
  <2> QED
    BY <1>1, <1>3, <2>4
<1> QED
  BY <1>2, <1>3

(* A sound value that is mentioned is taken over; a list may be appended.  *)
LEMMA AfterSound ==
  ASSUME NEW f, NEW old, NEW d, f.name \in DOMAIN d, d[f.name] \in Sound
  PROVE  /\ ~Throws(f, d) /\ Mentioned(d, f.name)
         /\ After(f, old, d) = IF f.kind = "appended" THEN old \o d[f.name] ELSE d[f.name]
<1>1. /\ Readable(d[f.name]) = d[f.name] /\ d[f.name] # Null /\ d[f.name] # Bad
      /\ "broken" \notin {d[f.name][k] : k \in DOMAIN d[f.name]}
  BY ReadableSound
<1>2. Mentioned(d, f.name) /\ ~Throws(f, d)
  BY <1>1 DEF Mentioned, Throws
<1> QED
  BY <1>1, <1>2 DEF After, Replaced

(* What the document does not mention is left alone, but for the types of  *)
(* locations and contacts.                                                 *)
LEMMA AfterNothing ==
  ASSUME NEW f, NEW old, NEW d, ~Mentioned(d, f.name)
  PROVE  ~Throws(f, d) /\ (f.kind # "chosen" => After(f, old, d) = old)
BY DEF Throws, After

(* A second reading of a field changes only a list that is appended to. *)
LEMMA AfterTwice ==
  ASSUME NEW f, NEW old, NEW d
  PROVE  /\ f.kind # "appended" => After(f, After(f, old, d), d) = After(f, old, d)
         /\ f.kind = "appended" =>
              \/ After(f, old, d) = old
              \/ Mentioned(d, f.name) /\ After(f, old, d) = old \o Readable(d[f.name])
BY DEF After, Replaced

----------------------------------------------------------------------------
(* The inductive invariant. *)

(* The names a sender writes, and what it writes under each. *)
Sent(t) == IF t.written = <<>> THEN Names(t.read) ELSE Names(t.written)
Undamaged(n) ==
  /\ n \in DOMAIN doc /\ doc[n] \in Sound
  /\ doc[n] = mine[n] \/ (KindAt(n) = "embedded" /\ mine[n] = Nothing)

(* The document is what was written, but for the damages. *)
DocumentOK ==
  IF phase = "made" THEN DOMAIN doc = {} /\ DOMAIN hurt = {}
  ELSE /\ DOMAIN doc \subseteq Sent(type) /\ DOMAIN hurt \subseteq Sent(type)
       /\ \A n \in Sent(type) \ DOMAIN hurt : Undamaged(n)
       /\ \A n \in DOMAIN hurt :
            /\ hurt[n] = "absent" => n \notin DOMAIN doc
            /\ hurt[n] = "null" => ~Mentioned(doc, n)
       /\ EachMemberIsSent

(* What the reader holds is what from_json makes of the document. *)
ReadOK ==
  phase = "read" =>
    type.reader /\ held = ReadInto(type, was, doc) /\ verdict = Accepts(type, doc)

(* The variables hold what they are meant to, and the steps of an exchange *)
(* follow from the step before.                                            *)
Exchange ==
  /\ ExchangeTypeOK /\ mine \in ObjectsOf(type)
  /\ DocumentOK /\ ReadOK /\ RetryOnlyAppends

(* What is sent are fields of the type. *)
LEMMA SentAre ==
  ASSUME NEW t \in Types
  PROVE  Sent(t) \subseteq Names(FieldsOf(t)) /\ Sent(t) \subseteq Members(t)
<1>1. ASSUME NEW fields \in {t.written, t.read}, NEW n \in Names(fields)
      PROVE  n \in Names(FieldsOf(t)) /\ n \in Members(t)
  BY NamedField, FieldsAre
<1> QED
  BY <1>1 DEF Sent

LEMMA ExchangeStarts == ExchangeInit => Exchange
<1> SUFFICES ASSUME ExchangeInit PROVE Exchange
  OBVIOUS
<1>1. type \in Types /\ mine \in ObjectsOf(type) /\ held \in ObjectsOf(type)
  BY SoundObjects DEF ExchangeInit
<1>2. DOMAIN doc = {} /\ DOMAIN hurt = {} /\ was = held /\ verdict = TRUE /\ phase = "made"
  BY DEF ExchangeInit
<1>3. ExchangeTypeOK
  BY <1>1, <1>2 DEF ExchangeTypeOK, ObjectsOf
<1> QED
  BY <1>1, <1>2, <1>3 DEF Exchange, DocumentOK, ReadOK, RetryOnlyAppends

(* to_json writes what DocumentOK says. *)
LEMMA ToJsonExchange == Exchange /\ ToJson => Exchange'
<1> SUFFICES ASSUME Exchange, ToJson PROVE Exchange'
  OBVIOUS
<1>1. /\ UNCHANGED <<type, mine, hurt, held, was, verdict>> /\ phase = "made" /\ phase' = "sent"
      /\ type \in Types /\ mine \in ObjectsOf(type) /\ DOMAIN hurt = {}
      /\ doc' = IF type.written = <<>> THEN [n \in Names(type.read) |-> mine[n]] ELSE Document(type, mine)
  BY DEF Exchange, ExchangeTypeOK, ToJson, DocumentOK
<1>2. DOMAIN doc' = Sent(type)
  BY <1>1, Written DEF Sent
<1>3. ASSUME NEW n \in Sent(type) PROVE Undamaged(n)'
  <2>1. mine[n] \in Sound
    BY <1>1, SentAre DEF ObjectsOf
  <2>2. CASE type.written = <<>>
    <3>1. doc'[n] = mine[n]
      BY <1>1, <2>2 DEF Sent
    <3> QED
      BY <1>1, <1>2, <2>1, <3>1 DEF Undamaged
  <2>3. CASE type.written # <<>>
    <3>1. PICK i \in Indices(type.written) : type.written[i].name = n
      BY <2>3, NamedField DEF Sent
    <3>2. doc'[n] = WireValue(type.written[i], mine[n])
      BY <1>1, <2>3, <3>1, Written
    <3>3. KindAt(n) = type.written[i].kind
      BY <1>1, <3>1, FieldsAre DEF KindAt
    <3>4. doc'[n] \in Sound
      BY <2>1, <3>2, SoundOnTheWire
    <3>5. doc'[n] = mine[n] \/ (KindAt(n) = "embedded" /\ mine[n] = Nothing)
      BY <3>2, <3>3 DEF WireValue
    <3> QED
      BY <1>1, <1>2, <3>4, <3>5 DEF Undamaged, KindAt
  <2> QED
    BY <2>2, <2>3
<1>4. EachMemberIsSent'
  <2>1. ASSUME NEW i \in Indices(type.written)
        PROVE  doc'[type.written[i].name] = WireValue(type.written[i], mine[type.written[i].member])
    <3>1. type.written # <<>>
      BY DEF Indices
    <3> QED
      BY <1>1, <3>1, Written, FieldsAre
  <2> QED
    BY <1>1, <2>1 DEF EachMemberIsSent
<1>5. ExchangeTypeOK'
  BY <1>1, <1>2, SentAre DEF Exchange, ExchangeTypeOK
<1>6. DocumentOK'
  BY <1>1, <1>2, <1>3, <1>4 DEF DocumentOK
<1> QED
  BY <1>1, <1>5, <1>6 DEF Exchange, ReadOK, RetryOnlyAppends, ObjectsOf

(* A damage is one of the name it is noted of. *)
LEMMA DamageExchange ==
  ASSUME Exchange, NEW n \in DOMAIN doc, NEW how \in {"absent", "null", "bad", "broken"}, Damage(n, how)
  PROVE  Exchange'
<1>1. /\ UNCHANGED <<type, mine, held, was, verdict, phase>> /\ phase = "sent" /\ type \in Types
      /\ hurt' = [x \in DOMAIN hurt \cup {n} |-> IF x = n THEN how ELSE hurt[x]]
      /\ n \in Sent(type) /\ n \notin DOMAIN hurt
  BY DEF Exchange, ExchangeTypeOK, Damage, DocumentOK
<1>2. /\ \A x \in DOMAIN doc \ {n} : x \in DOMAIN doc' /\ doc'[x] = doc[x]
      /\ DOMAIN doc' \subseteq DOMAIN doc
      /\ how = "absent" => n \notin DOMAIN doc'
      /\ how = "null" => n \in DOMAIN doc' /\ doc'[n] = Null
  <2>1. CASE how = "absent"
    <3>1. doc' = [x \in DOMAIN doc \ {n} |-> doc[x]]
      BY <2>1 DEF Damage
    <3> QED
      BY <2>1, <3>1
  <2>2. CASE how # "absent"
    <3>1. \E v : doc' = [doc EXCEPT ![n] = v] /\ (how = "null" => v = Null)
      <4>1. CASE how = "null"  BY <4>1 DEF Damage
      <4>2. CASE how = "bad"  BY <4>2 DEF Damage
      <4>3. CASE how = "broken"  BY <4>3 DEF Damage
      <4> QED
        BY <2>2, <4>1, <4>2, <4>3
    <3> QED
      BY <2>2, <3>1
  <2> QED
    BY <2>1, <2>2
<1>3. DOMAIN hurt' = DOMAIN hurt \cup {n} /\ hurt'[n] = how /\ \A x \in DOMAIN hurt : hurt'[x] = hurt[x]
  BY <1>1
<1>4. ASSUME NEW x \in Sent(type) \ DOMAIN hurt' PROVE Undamaged(x)'
  <2>1. Undamaged(x) /\ x # n
    BY <1>1, <1>3 DEF Exchange, DocumentOK
  <2> QED
    BY <1>1, <1>2, <2>1 DEF Undamaged, KindAt
<1>5. ASSUME NEW x \in DOMAIN hurt'
      PROVE  /\ hurt'[x] = "absent" => x \notin DOMAIN doc'
             /\ hurt'[x] = "null" => ~Mentioned(doc', x)
  <2>1. CASE x = n
    BY <1>2, <1>3, <2>1 DEF Mentioned
  <2>2. CASE x # n
    <3>1. /\ x \in DOMAIN hurt /\ hurt'[x] = hurt[x]
          /\ hurt[x] = "absent" => x \notin DOMAIN doc
          /\ hurt[x] = "null" => ~Mentioned(doc, x)
      BY <1>1, <1>3, <2>2 DEF Exchange, DocumentOK
    <3> QED
      BY <1>2, <2>2, <3>1 DEF Mentioned
  <2> QED
    BY <2>1, <2>2
<1>6. DocumentOK'
  <2>1. DOMAIN doc' \subseteq Sent(type) /\ DOMAIN hurt' \subseteq Sent(type)
    BY <1>1, <1>2, <1>3 DEF Exchange, DocumentOK
  <2>2. EachMemberIsSent'
    BY <1>3 DEF EachMemberIsSent, Whole
  <2> QED
    BY <1>1, <1>4, <1>5, <2>1, <2>2 DEF DocumentOK
<1>7. ExchangeTypeOK'
  BY <1>1, <1>2 DEF Exchange, ExchangeTypeOK
<1> QED
  BY <1>1, <1>6, <1>7 DEF Exchange, ReadOK, RetryOnlyAppends, ObjectsOf

(* Reading: the second time only lists that are appended to change. *)
LEMMA FromJsonExchange == Exchange /\ FromJson => Exchange'
<1> SUFFICES ASSUME Exchange, FromJson PROVE Exchange'
  OBVIOUS
<1>1. /\ UNCHANGED <<type, mine, doc, hurt>> /\ type \in Types /\ type.reader
      /\ was' = held /\ held' = ReadInto(type, held, doc) /\ verdict' = Accepts(type, doc)
      /\ DOMAIN held = Members(type)
      /\ \/ phase = "sent" /\ phase' = "read"
         \/ phase = "read" /\ phase' = "reread"
  BY DEF Exchange, ExchangeTypeOK, FromJson
<1>2. ExchangeTypeOK'
  <2>1. DOMAIN held' = Members(type) /\ DOMAIN was' = Members(type)
    BY <1>1 DEF ReadInto
  <2>2. verdict' \in BOOLEAN
    BY <1>1 DEF Accepts
  <2> QED
    BY <1>1, <2>1, <2>2 DEF Exchange, ExchangeTypeOK
<1>3. DocumentOK'
  BY <1>1 DEF Exchange, DocumentOK, EachMemberIsSent, Undamaged, KindAt
<1>4. ReadOK'
  BY <1>1 DEF ReadOK
<1>5. RetryOnlyAppends'
  <2> SUFFICES ASSUME phase = "read", NEW i \in Indices(type.read)
               PROVE  LET f == type.read[i] IN
                      IF f.kind = "appended"
                      THEN held'[f.member] \in
                              {held[f.member]} \cup (IF Mentioned(doc, f.name)
                                 THEN {held[f.member] \o Readable(doc[f.name])} ELSE {})
                      ELSE held'[f.member] = held[f.member]
    BY <1>1 DEF RetryOnlyAppends, Reads
  <2> DEFINE f == type.read[i]
             n == f.name
  <2>1. f.member = n /\ n \in DOMAIN held /\ n \in DOMAIN was
    BY <1>1, FieldsAre DEF Exchange, ExchangeTypeOK
  <2>2. held = ReadInto(type, was, doc)
    BY DEF Exchange, ReadOK
  <2>3. \/ held[n] = After(f, was[n], doc) /\ held'[n] = After(f, held[n], doc)
        \/ held'[n] = held[n]
    BY <1>1, <2>1, <2>2, ReadIs
  <2> HIDE DEF f
  <2>4. IF f.kind = "appended"
        THEN held'[n] = held[n] \/ (Mentioned(doc, n) /\ held'[n] = held[n] \o Readable(doc[n]))
        ELSE held'[n] = held[n]
    BY <2>3, AfterTwice
  <2> QED
    BY <2>1, <2>4 DEF f
<1> QED
  BY <1>1, <1>2, <1>3, <1>4, <1>5 DEF Exchange, ObjectsOf

LEMMA ExchangeGoesOn == Exchange /\ [ExchangeNext]_exchangeVars => Exchange'
<1> SUFFICES ASSUME Exchange, [ExchangeNext]_exchangeVars PROVE Exchange'
  OBVIOUS
<1>1. CASE ToJson  BY <1>1, ToJsonExchange
<1>2. ASSUME NEW n \in DOMAIN doc, NEW how \in {"absent", "null", "bad", "broken"}, Damage(n, how)
      PROVE  Exchange'
  BY <1>2, DamageExchange
<1>3. CASE FromJson  BY <1>3, FromJsonExchange
<1>4. CASE UNCHANGED exchangeVars
  BY <1>4 DEF exchangeVars, Exchange, ExchangeTypeOK, DocumentOK, ReadOK, RetryOnlyAppends,
             EachMemberIsSent, Undamaged, KindAt, Reads, Whole, ObjectsOf
<1> QED
  BY <1>1, <1>2, <1>3, <1>4 DEF ExchangeNext

(* In an exchange at all times: the document is what was written but for   *)
(* the damages, and what the reader holds is what from_json makes of it.   *)
THEOREM ExchangeInductive == ExchangeSpec => []Exchange
  BY ExchangeStarts, ExchangeGoesOn, PTL DEF ExchangeSpec

----------------------------------------------------------------------------
(* What follows for the reader. *)

(* An undamaged field that is read. *)
LEMMA SoundField ==
  ASSUME Exchange, phase # "made", NEW i \in Indices(type.read),
         type.read[i].name \in DOMAIN doc, type.read[i].name \notin DOMAIN hurt
  PROVE  /\ doc[type.read[i].name] \in Sound
         /\ Undamaged(type.read[i].name)
<1>1. type.read[i].name \in Sent(type) \ DOMAIN hurt
  BY DEF Exchange, DocumentOK
<1> QED
  BY <1>1 DEF Exchange, DocumentOK, Undamaged

(* If members are only left out, nothing throws. *)
LEMMA NothingThrows ==
  ASSUME Exchange, phase = "read", \A n \in DOMAIN hurt : hurt[n] \in {"absent", "null"},
         NEW i \in Indices(type.read)
  PROVE  ~Throws(type.read[i], doc)
<1> DEFINE n == type.read[i].name
<1>1. CASE n \in DOMAIN doc /\ n \notin DOMAIN hurt
  BY <1>1, SoundField, AfterSound
<1>2. CASE n \in DOMAIN hurt
  <2>1. ~Mentioned(doc, n)
    BY <1>2 DEF Exchange, DocumentOK, Mentioned
  <2> QED
    BY <2>1, AfterNothing
<1>3. CASE n \notin DOMAIN doc
  <2>1. ~Mentioned(doc, n)
    BY <1>3 DEF Mentioned
  <2> QED
    BY <2>1, AfterNothing
<1> QED
  BY <1>1, <1>2, <1>3

LEMMA NothingSkipped ==
  ASSUME Exchange, phase = "read", \A n \in DOMAIN hurt : hurt[n] \in {"absent", "null"},
         NEW i \in Indices(type.read)
  PROVE  ~Skipped(type, i, doc)
<1>1. \A j \in 1..(i - 1) : j \in Indices(type.read)
  <2>1. Len(type.read) \in Nat
    BY Lengths DEF Exchange, ExchangeTypeOK
  <2> QED
    BY <2>1 DEF Indices
<1> QED
  BY <1>1, NothingThrows DEF Skipped

(* What a read leaves in the member of a field. *)
LEMMA HeldIs ==
  ASSUME Exchange, phase = "read", NEW i \in Indices(type.read)
  PROVE  /\ type.read[i].member = type.read[i].name
         /\ LET n == type.read[i].name IN
            \/ held[n] = After(type.read[i], was[n], doc)
            \/ held[n] = was[n] /\ Skipped(type, i, doc)
<1>1. /\ type \in Types /\ type.read[i].name \in DOMAIN was
      /\ held = ReadInto(type, was, doc) /\ type.read[i].member = type.read[i].name
  BY FieldsAre DEF Exchange, ExchangeTypeOK, ReadOK
<1> DEFINE n == type.read[i].name
<1>2. \/ ReadInto(type, was, doc)[n] = After(type.read[i], was[n], doc)
      \/ Skipped(type, i, doc) /\ ReadInto(type, was, doc)[n] = was[n]
  <2>1. \/ \A obj : n \in DOMAIN obj => ReadInto(type, obj, doc)[n] = After(type.read[i], obj[n], doc)
        \/ /\ Skipped(type, i, doc)
           /\ \A obj : n \in DOMAIN obj => ReadInto(type, obj, doc)[n] = obj[n]
    BY <1>1, ReadIs
  <2> QED
    BY <1>1, <2>1
<1>3. held[n] = ReadInto(type, was, doc)[n]
  BY <1>1
<1> QED
  BY <1>1, <1>2, <1>3

LEMMA UpdateIsPartial == Exchange => PartialUpdate
<1> SUFFICES ASSUME Exchange, phase = "read", \A n \in DOMAIN hurt : hurt[n] \in {"absent", "null"}
             PROVE  /\ verdict
                    /\ \A i \in Indices(type.read) :
                         LET f == type.read[i] IN
                         IF f.name \in DOMAIN hurt THEN held[f.member] = was[f.member] \/ f.kind = "chosen"
                         ELSE f.name \in DOMAIN doc => Taken(f)
  BY DEF PartialUpdate, Reads
<1>1. verdict
  <2>1. verdict = Accepts(type, doc)
    BY DEF Exchange, ReadOK
  <2>2. Accepts(type, doc)
    BY NothingThrows DEF Accepts
  <2> QED
    BY <2>1, <2>2
<1>2. ASSUME NEW i \in Indices(type.read)
      PROVE  LET f == type.read[i] IN
             IF f.name \in DOMAIN hurt THEN held[f.member] = was[f.member] \/ f.kind = "chosen"
             ELSE f.name \in DOMAIN doc => Taken(f)
  <2> DEFINE f == type.read[i]
             n == f.name
  <2>1. f.member = n /\ held[n] = After(f, was[n], doc)
    BY HeldIs, NothingSkipped
  <2>2. CASE n \in DOMAIN hurt
    <3>1. ~Mentioned(doc, n)
      BY <2>2 DEF Exchange, DocumentOK, Mentioned
    <3> QED
      BY <2>1, <2>2, <3>1, AfterNothing
  <2>3. CASE n \notin DOMAIN hurt /\ n \in DOMAIN doc
    <3>1. doc[n] \in Sound
      BY <2>3, SoundField
    <3>2. After(f, was[n], doc) = IF f.kind = "appended" THEN was[n] \o doc[n] ELSE doc[n]
      <4> HIDE DEF f
      <4> QED
        BY <2>3, <3>1, AfterSound
    <3> QED
      BY <2>1, <2>3, <3>2 DEF Taken
  <2> QED
    BY <2>2, <2>3
<1> QED
  BY <1>1, <1>2

LEMMA ReadWhole == Exchange => RoundTrip
<1> SUFFICES ASSUME Exchange, phase = "read", Whole, was = Fresh(type), NEW n \in DOMAIN doc,
                    <<type.type, n>> \notin Losses
             PROVE  held[n] = mine[n] \/ (KindAt(n) = "embedded" /\ mine[n] = Nothing)
  BY DEF RoundTrip
<1>1. type \in Types /\ type.reader /\ n \in Sent(type) /\ DOMAIN hurt = {}
  BY DEF Exchange, ExchangeTypeOK, ReadOK, DocumentOK, Whole
<1>2. n \in Names(type.read)
  BY <1>1, ExchangeAssumption DEF Agree, Sent
<1>3. PICK i \in Indices(type.read) : type.read[i].name = n
  BY <1>2, NamedField
<1> DEFINE f == type.read[i]
<1>4. held[n] = After(f, was[n], doc)
  BY <1>1, <1>3, HeldIs, NothingSkipped
<1>5. doc[n] \in Sound /\ (doc[n] = mine[n] \/ (KindAt(n) = "embedded" /\ mine[n] = Nothing))
  BY <1>1, <1>3, SoundField DEF Undamaged
<1>6. held[n] = IF f.kind = "appended" THEN was[n] \o doc[n] ELSE doc[n]
  <2>1. f.name = n
    BY <1>3
  <2> HIDE DEF f
  <2> QED
    BY <1>4, <1>5, <2>1, AfterSound
<1>7. f.kind = "appended" => was[n] \o doc[n] = doc[n]
  <2> SUFFICES ASSUME f.kind = "appended" PROVE was[n] \o doc[n] = doc[n]
    OBVIOUS
  <2>1. n \in Members(type) /\ KindOf(type, n) = f.kind
    BY <1>1, <1>3, FieldsAre
  <2>2. was[n] = <<>>
    BY <2>1 DEF Fresh, ListKinds
  <2>3. doc[n] \in Seq(Items)
    BY <1>5 DEF Sound
  <2> QED
    BY <2>2, <2>3, ConcatEmptySeq
<1> QED
  BY <1>5, <1>6, <1>7

LEMMA HalfReadRefused == Exchange => HalfReadIsRefused
<1> SUFFICES ASSUME Exchange, phase = "read", type.type \notin Lenient, NEW i \in Indices(type.read),
                    type.read[i].name \in DOMAIN doc, type.read[i].name \notin DOMAIN hurt,
                    ~Taken(type.read[i])
             PROVE  ~verdict \/ type.read[i].guarded
  BY DEF HalfReadIsRefused, Reads
<1> DEFINE f == type.read[i]
           n == f.name
<1>1. type \in Types /\ type.refuses /\ verdict = Accepts(type, doc)
  <2>1. type \in Types /\ type.reader /\ verdict = Accepts(type, doc)
    BY DEF Exchange, ExchangeTypeOK, ReadOK
  <2> QED
    BY <2>1, ExchangeAssumption DEF Agree
<1>2. doc[n] \in Sound
  BY SoundField
<1>3. held[n] # After(f, was[n], doc)
  <2>1. After(f, was[n], doc) = IF f.kind = "appended" THEN was[n] \o doc[n] ELSE doc[n]
    <3>1. n \in DOMAIN doc
      OBVIOUS
    <3> HIDE DEF f
    <3> QED
      BY <1>2, <3>1, AfterSound
  <2> QED
    BY <2>1, HeldIs DEF Taken
<1>4. Skipped(type, i, doc)
  BY <1>3, HeldIs
<1>5. PICK j \in 1..(i - 1) : Throws(type.read[j], doc) /\ (type.read[j].guarded => f.guarded)
  BY <1>4 DEF Skipped
<1>6. j \in Indices(type.read)
  <2>1. Len(type.read) \in Nat
    BY <1>1, Lengths
  <2> QED
    BY <2>1 DEF Indices
<1> QED
  BY <1>1, <1>5, <1>6 DEF Accepts

(* For every list of fields that is well formed and every damage: the      *)
(* document holds each member, leaving members out changes the others and  *)
(* not those, and a retry of from_json only appends to lists.              *)
THEOREM ExchangeSound == ExchangeSpec => []ExchangeInvariant
<1>1. Exchange => ExchangeInvariant
  <2>1. Exchange => ExchangeTypeOK /\ RetryOnlyAppends /\ EachMemberIsSent
    BY DEF Exchange, DocumentOK, EachMemberIsSent
  <2> QED
    BY <2>1, UpdateIsPartial DEF ExchangeInvariant
<1> QED
  BY <1>1, ExchangeInductive, PTL

(* What to_json writes of any object, from_json reads back into a new one. *)
THEOREM RoundTripSound == ExchangeSpec => []RoundTrip
  BY ReadWhole, ExchangeInductive, PTL

(* However many members are damaged: if a sound one was not read, then     *)
(* from_json said so, lenient types and inlined parts apart.               *)
THEOREM HalfReadSound == ExchangeSpec => []HalfReadIsRefused
  BY HalfReadRefused, ExchangeInductive, PTL
============================================================================
