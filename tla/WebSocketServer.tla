-------------------------- MODULE WebSocketServer --------------------------
(***************************************************************************)
(* The web-sockets of the user interface (UI_WebSocketClientServer) and    *)
(* the logger that writes to them (WebSocketLogger).  The threads are: the *)
(* HTTP threads that hand over a new socket, the reactor that reads the    *)
(* sockets, the cleaner that erases what has ended, the logger that sends  *)
(* every log message to every client, and main, which stops it all.        *)
(*                                                                         *)
(* A connection is erased by an iterator kept from its end to the next     *)
(* pass of the cleaner.  What an iterator does whose node is gone, and a   *)
(* table cleared under a thread that uses it, is undefined: it is kept in  *)
(* "broken".  A descriptor is free for another connection only when table  *)
(* and reactor have let go of it, so a connection stands for its own.      *)
(***************************************************************************)
EXTENDS Naturals, Sequences, FiniteSets, SequencesExt, FiniteSetsExt

CONSTANTS
  Connections,    \* the connections that clients open, each once
  None,           \* nobody
  Asynch,         \* logging.asynch, TRUE by default
  MaxLog          \* bound: log messages in the queue of the logger

Threads == {"http", "reactor", "cleaner", "logger", "worker"}

ASSUME WebSocketAssumption ==
  /\ IsFiniteSet(Connections) /\ None \notin Connections \cup Threads
  /\ Asynch \in BOOLEAN /\ MaxLog \in Nat \ {0}

VARIABLES
  clients,        \* Clients_
  authenticated,  \* those with Authenticated_
  dropping,       \* those whose Filter_ has the log messages
  toBeRemoved,    \* ToBeRemoved_: iterators, named by their connection
  connected,      \* UsersConnected_
  handlers,       \* connections with observers in Reactor_
  local,          \* LocalMutex_: its owner
  splitter,       \* the mutex of the SplitterChannel: its owner
  messages,       \* log messages the AsyncChannel holds
  running,        \* Running_, that of the cleaner
  at,             \* where each thread is
  then,           \* where it goes on when what it logs is written
  subject,        \* connection that the HTTP thread, or the reactor, works on
  wakeUp,         \* CleanerThread_ has been woken
  main,           \* where Stop is
  got,            \* each connection: not open yet, or what it got first
  broken          \* something undefined was done

table == <<clients, authenticated, dropping, toBeRemoved, connected, handlers>>
locks == <<local, splitter>>
vars == <<table, locks, messages, running, at, then, subject, wakeUp, main, got, broken>>

Goto(t, place) == at' = [at EXCEPT ![t] = place] /\ UNCHANGED then
GotoAndThen(t, place, next) ==
  at' = [at EXCEPT ![t] = place] /\ then' = [then EXCEPT ![t] = next]
Acquire(t) == local = None /\ local' = t
Release == local' = None

Init ==
  /\ clients = {} /\ authenticated = {} /\ dropping = {} /\ toBeRemoved = <<>>
  /\ connected = 0 /\ handlers = {}
  /\ local = None /\ splitter = None /\ messages = 0
  /\ running = FALSE /\ wakeUp = FALSE /\ main = "serving"
  /\ at = [t \in Threads |-> IF t = "cleaner" THEN "start" ELSE "idle"]
  /\ then = [t \in Threads |-> "idle"]
  /\ subject = [t \in {"http", "reactor"} |-> None]
  /\ got = [c \in Connections |-> "not open"] /\ broken = FALSE

----------------------------------------------------------------------------
(* Log messages.  WebSocketLogger hangs on a SplitterChannel, which holds  *)
(* its mutex while it writes; the AsyncChannel in front of it has a thread *)
(* of its own, else whoever logs goes through the splitter itself.         *)

(* Mutant: who logs writes through the splitter, in its own thread.        *)
SaySynchronously(t, next) ==
  /\ GotoAndThen(t, "write", next)
  /\ UNCHANGED messages

Say(t, next) ==
  IF Asynch
  THEN /\ messages' = (IF messages < MaxLog THEN messages + 1 ELSE messages)
       /\ Goto(t, next)
  ELSE /\ GotoAndThen(t, "write", next)
       /\ UNCHANGED messages

WorkerLogs ==
  /\ at["worker"] = "idle"
  /\ Say("worker", "idle")
  /\ UNCHANGED <<table, locks, running, subject, wakeUp, main, got, broken>>

LoggerTakes ==
  /\ at["logger"] = "idle" /\ messages > 0
  /\ messages' = messages - 1 /\ GotoAndThen("logger", "write", "idle")
  /\ UNCHANGED <<table, locks, running, subject, wakeUp, main, got, broken>>

(* SplitterChannel::log, then WebSocketLogger::log. *)
Split(t) ==
  /\ at[t] = "write" /\ splitter = None
  /\ IF connected > 0
     THEN splitter' = t /\ Goto(t, "send")
     ELSE UNCHANGED splitter /\ Goto(t, then[t])
  /\ UNCHANGED <<table, local, messages, running, subject, wakeUp, main, got, broken>>

(* SendToAll takes the recursive mutex ... *)
LockToSend(t) ==
  /\ at[t] = "send" /\ local \in {None, t}
  /\ local' = t /\ Goto(t, "sending")
  /\ UNCHANGED <<table, splitter, messages, running, subject, wakeUp, main, got, broken>>

(* Mutant: it does not look at Authenticated_.                             *)
SendToEverybody(t) ==
  /\ at[t] = "sending"
  /\ got' = [c \in Connections |->
       IF c \in clients \ dropping /\ got[c] = "nothing" THEN "log" ELSE got[c]]
  /\ splitter' = None /\ Goto(t, then[t])
  /\ local' = IF then[t] = "idle" THEN None ELSE t
  /\ UNCHANGED <<table, messages, running, subject, wakeUp, main, broken>>

(* ... and walks over the clients. *)
SendToAll(t) ==
  /\ at[t] = "sending"
  /\ got' = [c \in Connections |->
       IF c \in (clients \cap authenticated) \ dropping /\ got[c] = "nothing" THEN "log" ELSE got[c]]
  /\ splitter' = None /\ Goto(t, then[t])
  /\ local' = IF then[t] = "idle" THEN None ELSE t
  /\ UNCHANGED <<table, messages, running, subject, wakeUp, main, broken>>

----------------------------------------------------------------------------
(* NewClient, in a thread of the REST server. *)

AddEventHandlers(c) ==
  /\ at["http"] = "idle" /\ got[c] = "not open"
  /\ Acquire("http")
  /\ handlers' = handlers \cup {c} /\ got' = [got EXCEPT ![c] = "nothing"]
  /\ subject' = [subject EXCEPT !["http"] = c] /\ Goto("http", "insert")
  /\ UNCHANGED <<clients, authenticated, dropping, toBeRemoved, connected, splitter, messages,
                 running, wakeUp, main, broken>>

NewClient ==
  /\ at["http"] = "insert"
  /\ clients' = clients \cup {subject["http"]}
  /\ connected' = Cardinality(clients')
  /\ subject' = [subject EXCEPT !["http"] = None] /\ Goto("http", "idle")
  /\ Release
  /\ UNCHANGED <<authenticated, dropping, toBeRemoved, handlers, splitter, messages, running,
                 wakeUp, main, got, broken>>

----------------------------------------------------------------------------
(* The thread of the reactor.  It finds a socket with something to read,   *)
(* an error, or, when it stops, every socket; then it waits for the lock.  *)

Dispatch(c) ==
  /\ at["reactor"] = "idle" /\ c \in handlers
  /\ subject' = [subject EXCEPT !["reactor"] = c] /\ Goto("reactor", "lock")
  /\ UNCHANGED <<table, locks, messages, running, wakeUp, main, got, broken>>

Find ==
  /\ at["reactor"] = "lock" /\ local = None
  /\ IF subject["reactor"] \in clients
     THEN local' = "reactor" /\ Goto("reactor", "found")
     ELSE UNCHANGED local /\ Goto("reactor", "idle")
  /\ UNCHANGED <<table, splitter, messages, running, subject, wakeUp, main, got, broken>>

Found(c) == at["reactor"] = "found" /\ subject["reactor"] = c
Done == Goto("reactor", "idle") /\ Release

(* n == 0 or FRAME_OP_CLOSE. *)
Close(c) ==
  /\ Found(c) /\ Say("reactor", "end")
  /\ UNCHANGED <<table, locks, running, subject, wakeUp, main, got, broken>>

(* FRAME_OP_PING, FRAME_OP_PONG, or a command without a processor. *)
Answer(c) ==
  /\ Found(c) /\ Done
  /\ UNCHANGED <<table, splitter, messages, running, subject, wakeUp, main, got, broken>>

(* A text with a token that IsAuthorized accepts. *)
Login(c) ==
  /\ Found(c) /\ c \notin authenticated
  /\ authenticated' = authenticated \cup {c}
  /\ Say("reactor", "welcome")
  /\ UNCHANGED <<clients, dropping, toBeRemoved, connected, handlers, locks, running, subject,
                 wakeUp, main, got, broken>>

Welcome(c) ==
  /\ at["reactor"] = "welcome" /\ subject["reactor"] = c
  /\ got' = [got EXCEPT ![c] = IF @ = "nothing" THEN "welcome" ELSE @]
  /\ Done
  /\ UNCHANGED <<table, splitter, messages, running, subject, wakeUp, main, broken>>

(* A text with drop-notifications, from a client that is authenticated.    *)
DropNotifications(c) ==
  /\ Found(c) /\ c \in authenticated
  /\ \E drop \in {dropping \cup {c}, dropping \ {c}} : dropping' = drop
  /\ Done
  /\ UNCHANGED <<clients, authenticated, toBeRemoved, connected, handlers, splitter, messages,
                 running, subject, wakeUp, main, got, broken>>

(* EndConnection: after what was said, or after an error, a shutdown, a    *)
(* bad token, a command to close, or an exception, which may come even     *)
(* from the welcome.                                                       *)
Ends(c) ==
  /\ at["reactor"] \in {"found", "welcome", "end"} /\ subject["reactor"] = c

(* Mutant: the client is erased at once, and its iterator kept.            *)
EndErased(c) ==
  /\ Ends(c)
  /\ clients' = clients \ {c} /\ handlers' = handlers \ {c}
  /\ toBeRemoved' = Append(toBeRemoved, c)
  /\ Done
  /\ UNCHANGED <<authenticated, dropping, connected, splitter, messages, running, subject,
                 wakeUp, main, got, broken>>

EndConnection(c) ==
  /\ Ends(c)
  /\ handlers' = handlers \ {c}
  /\ toBeRemoved' = Append(toBeRemoved, c)
  /\ Done
  /\ broken' = (broken \/ c \notin clients)
  /\ UNCHANGED <<clients, authenticated, dropping, connected, splitter, messages, running,
                 subject, wakeUp, main, got>>

----------------------------------------------------------------------------
(* The thread of the cleaner. *)

CleanerRun ==
  /\ at["cleaner"] = "start"
  /\ running' = TRUE /\ Goto("cleaner", "test")
  /\ UNCHANGED <<table, locks, messages, subject, wakeUp, main, got, broken>>

TestRunning ==
  /\ at["cleaner"] = "test"
  /\ Goto("cleaner", IF running THEN "sleep" ELSE "ended")
  /\ UNCHANGED <<table, locks, messages, running, subject, wakeUp, main, got, broken>>

(* trySleep: 2 s pass, or the thread is woken. *)
Sleep ==
  /\ at["cleaner"] = "sleep"
  /\ wakeUp' = FALSE /\ Goto("cleaner", IF wakeUp THEN "ended" ELSE "lock")
  /\ UNCHANGED <<table, locks, messages, running, subject, main, got, broken>>

LockToErase ==
  /\ at["cleaner"] = "lock"
  /\ Acquire("cleaner") /\ Goto("cleaner", "erase")
  /\ UNCHANGED <<table, splitter, messages, running, subject, wakeUp, main, got, broken>>

(* Mutant: the list is cleared, the clients stay.                          *)
ForgetThem ==
  /\ at["cleaner"] = "erase"
  /\ toBeRemoved' = <<>> /\ connected' = Cardinality(clients)
  /\ Release /\ Goto("cleaner", "test")
  /\ UNCHANGED <<clients, authenticated, dropping, handlers, splitter, messages, running, subject,
                 wakeUp, main, got, broken>>

Erase ==
  /\ at["cleaner"] = "erase"
  /\ broken' = (broken \/ ~IsInjective(toBeRemoved) \/ ~(ToSet(toBeRemoved) \subseteq clients))
  /\ clients' = clients \ ToSet(toBeRemoved)
  /\ toBeRemoved' = <<>>
  /\ connected' = Cardinality(clients')
  /\ Release /\ Goto("cleaner", "test")
  /\ UNCHANGED <<authenticated, dropping, handlers, splitter, messages, running, subject, wakeUp,
                 main, got>>

----------------------------------------------------------------------------
(* Stop, in main: the clients are cleared without the lock, under whoever  *)
(* has it and above the iterators that wait.                               *)

Clear ==
  /\ main = "serving" /\ running
  /\ broken' = (broken \/ local # None)
  /\ clients' = {} /\ main' = "stop reactor"
  /\ UNCHANGED <<authenticated, dropping, toBeRemoved, connected, handlers, locks, messages,
                 running, at, then, subject, wakeUp, got>>

(* Stop does nothing when the cleaner's thread has not come to run. *)
StopTooEarly ==
  /\ main = "serving" /\ ~running
  /\ main' = "stopped"
  /\ UNCHANGED <<table, locks, messages, running, at, then, subject, wakeUp, got, broken>>

(* stop and join: the reactor ends between two notifications. *)
StopReactor ==
  /\ main = "stop reactor" /\ at["reactor"] = "idle"
  /\ Goto("reactor", "ended") /\ main' = "wake cleaner"
  /\ UNCHANGED <<table, locks, messages, running, subject, wakeUp, got, broken>>

WakeCleaner ==
  /\ main = "wake cleaner"
  /\ running' = FALSE /\ wakeUp' = TRUE /\ main' = "join cleaner"
  /\ UNCHANGED <<table, locks, messages, at, then, subject, got, broken>>

JoinCleaner ==
  /\ main = "join cleaner" /\ at["cleaner"] = "ended"
  /\ main' = "stopped"
  /\ UNCHANGED <<table, locks, messages, running, at, then, subject, wakeUp, got, broken>>

----------------------------------------------------------------------------
Write(t) == Split(t) \/ LockToSend(t) \/ SendToAll(t)
Read(c) == Close(c) \/ Answer(c) \/ Login(c) \/ Welcome(c) \/ DropNotifications(c) \/ EndConnection(c)
Cleaner == CleanerRun \/ TestRunning \/ Sleep \/ LockToErase \/ Erase
Stopping == StopReactor \/ WakeCleaner \/ JoinCleaner

Next ==
  \/ WorkerLogs \/ LoggerTakes \/ Find \/ Cleaner \/ Stopping \/ NewClient \/ Clear \/ StopTooEarly
  \/ \E t \in {"logger", "worker", "reactor"} : Write(t)
  \/ \E c \in Connections : AddEventHandlers(c) \/ Dispatch(c) \/ Read(c)

Spec == Init /\ [][Next]_vars

(* Threads go on; a mutex is given in the end to who waits for it. *)
FairSpec ==
  /\ Spec /\ WF_vars(NewClient) /\ WF_vars(Write("worker"))
  /\ SF_vars(LoggerTakes \/ Write("logger")) /\ SF_vars(Cleaner)
  /\ SF_vars(Find \/ Write("reactor") \/ \E c \in Connections : Read(c))

----------------------------------------------------------------------------
(* Properties. *)

WebSocketTypeOK ==
  /\ clients \subseteq Connections /\ authenticated \subseteq Connections
  /\ dropping \subseteq authenticated /\ handlers \subseteq Connections
  /\ toBeRemoved \in Seq(Connections) /\ connected \in 0..Cardinality(Connections)
  /\ local \in Threads \cup {None} /\ splitter \in Threads \cup {None}
  /\ messages \in 0..MaxLog
  /\ running \in BOOLEAN /\ wakeUp \in BOOLEAN /\ broken \in BOOLEAN
  /\ DOMAIN at = Threads /\ then \in [Threads -> {"idle", "end", "welcome"}]
  /\ subject \in [{"http", "reactor"} -> Connections \cup {None}]
  /\ main \in {"serving", "stop reactor", "wake cleaner", "join cleaner", "stopped"}
  /\ got \in [Connections -> {"not open", "nothing", "welcome", "log"}]

(* No iterator is used whose node is gone, and no client while the table   *)
(* is cleared, but by a Stop: until then every client that ends is erased  *)
(* exactly once.                                                           *)
BrokenOnlyByStop ==
  broken => main # "serving"

(* Whenever nobody is at work on it, a connection in the table either is   *)
(* read by the reactor or waits to be erased, and no other is read.        *)
ReadOrEnding ==
  local = None /\ main = "serving" => handlers = clients \ ToSet(toBeRemoved)

(* A client gets the welcome with the list of notifications before its     *)
(* first log message, although it is authenticated, and the log message    *)
(* of its own login written, before the welcome is sent.  Only one whose   *)
(* welcome failed is written to without, until it is erased.               *)
WelcomeFirst ==
  \A c \in handlers : got[c] # "log"

(* Nobody keeps the mutex for ever: the reactor logs while it has it, and  *)
(* the logger needs it while it holds the splitter.                        *)
LockIsReleased ==
  local # None ~> local = None

(* What has ended is erased, and its socket closed. *)
EndedAreErased ==
  \A c \in Connections : c \in ToSet(toBeRemoved) ~> (c \notin clients \/ main # "serving")

(* The invariants of the table of clients together: the variables hold     *)
(* what they are meant to, no dangling iterator is used while the service  *)
(* runs, and every connection in the table is read or waits to be erased.  *)
WebSocketInvariant == WebSocketTypeOK /\ BrokenOnlyByStop /\ ReadOrEnding
============================================================================
