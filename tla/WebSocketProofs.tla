-------------------------- MODULE WebSocketProofs --------------------------
(***************************************************************************)
(* For any number of connections and log messages, with asynchronous       *)
(* logging or without: the table of clients, the list of iterators that    *)
(* wait and the observers of the reactor stay consistent until Stop, and   *)
(* nothing undefined is done before.  With asynchronous logging, a client  *)
(* has its welcome before its first log message, and the threads never     *)
(* wait for each other in a circle.                                        *)
(***************************************************************************)
EXTENDS WebSocketServer, FiniteSetTheorems, SequenceTheorems, TLAPS

(* Where the threads are.  Of the threads that do not read, none has       *)
(* anything left to do once its log message is written.                    *)
Writing == {"write", "send", "sending"}
Everywhere ==
  {"start", "idle", "insert", "lock", "found", "end", "welcome", "test", "sleep", "erase", "ended"}
    \cup Writing
ThreadsOK ==
  /\ at \in [Threads -> Everywhere]
  /\ at["http"] \in {"idle", "insert"}
  /\ at["reactor"] \in {"idle", "lock", "found", "end", "welcome", "ended"} \cup Writing
  /\ at["cleaner"] \in {"start", "test", "sleep", "lock", "erase", "ended"}
  /\ at["logger"] \in {"idle"} \cup Writing /\ then["logger"] = "idle"
  /\ at["worker"] \in {"idle"} \cup Writing /\ then["worker"] = "idle"
  /\ at["reactor"] \in Writing => then["reactor"] \in {"end", "welcome"} /\ ~Asynch

(* The owner of LocalMutex_ is where it works under it, and nobody else is. *)
OwnerOK ==
  /\ local = "http" <=> at["http"] = "insert"
  /\ local = "cleaner" <=> at["cleaner"] = "erase"
  /\ local = "reactor" <=> at["reactor"] \in {"found", "end", "welcome"} \cup Writing
  /\ local = "logger" <=> at["logger"] = "sending"
  /\ local = "worker" <=> at["worker"] = "sending"

(* What the HTTP thread and the reactor have in hand: a connection that is *)
(* open, and one whose observers the reactor still has.                    *)
SubjectOK ==
  /\ at["http"] = "insert" => subject["http"] \in Connections /\ got[subject["http"]] # "not open"
  /\ at["reactor"] \notin {"idle", "ended"} => subject["reactor"] \in handlers

(* Until Stop: the iterators that wait are of different connections, all   *)
(* in the table, and the reactor reads exactly the others, and the one     *)
(* that the HTTP thread is about to insert.                                *)
Fresh == IF at["http"] = "insert" THEN {subject["http"]} ELSE {}
TableOK ==
  main = "serving" =>
    /\ ~broken
    /\ IsInjective(toBeRemoved) /\ ToSet(toBeRemoved) \subseteq clients
    /\ handlers = (clients \ ToSet(toBeRemoved)) \cup Fresh
    /\ Fresh \cap clients = {}

(* Nothing is known of a connection that is not open. *)
OpenOK == \A c \in handlers \cup clients \cup authenticated : got[c] # "not open"

(* A client that is authenticated and still read has had its welcome, or   *)
(* the reactor is about to send it.                                        *)
WelcomeOK ==
  \A c \in handlers \cap authenticated :
    got[c] # "nothing" \/ (at["reactor"] = "welcome" /\ subject["reactor"] = c)

Strong == WebSocketTypeOK /\ ThreadsOK /\ OwnerOK /\ SubjectOK /\ TableOK /\ OpenOK

USE DEF Threads, Writing

----------------------------------------------------------------------------
(* The list of iterators. *)

(* EndConnection adds one connection to the list, which stays without      *)
(* repetition if it was not there.                                         *)
LEMMA RemovalListed ==
  ASSUME NEW q \in Seq(Connections), NEW c \in Connections
  PROVE  /\ ToSet(Append(q, c)) = ToSet(q) \cup {c}
         /\ IsInjective(q) /\ c \notin ToSet(q) => IsInjective(Append(q, c))
<1>1. /\ DOMAIN q = 1..Len(q) /\ Len(q) \in Nat
      /\ DOMAIN Append(q, c) = 1..(Len(q) + 1)
  BY LenProperties, AppendProperties
<1>2. \A i \in 1..(Len(q) + 1) : Append(q, c)[i] = IF i = Len(q) + 1 THEN c ELSE q[i]
  BY <1>1, AppendProperties
<1>3. ToSet(Append(q, c)) = ToSet(q) \cup {c}
  BY <1>1, <1>2 DEF ToSet
<1>4. ASSUME IsInjective(q), c \notin ToSet(q) PROVE IsInjective(Append(q, c))
  <2> SUFFICES ASSUME NEW i \in 1..(Len(q) + 1), NEW j \in 1..(Len(q) + 1),
                      Append(q, c)[i] = Append(q, c)[j]
               PROVE  i = j
    BY <1>1 DEF IsInjective
  <2> QED
    BY <1>1, <1>2, <1>4 DEF IsInjective, ToSet
<1> QED
  BY <1>3, <1>4

(* An empty list names nobody, once.                                       *)
LEMMA NothingListed == ToSet(<<>>) = {} /\ IsInjective(<<>>)
BY DEF ToSet, IsInjective

----------------------------------------------------------------------------
(* Types. *)

(* Users are counted over connections there are.                           *)
LEMMA ClientsCounted ==
  ASSUME NEW S \in SUBSET Connections
  PROVE  Cardinality(S) \in 0..Cardinality(Connections)
<1>1. IsFiniteSet(Connections)
  BY WebSocketAssumption
<1>2. Cardinality(Connections) \in Nat
  BY <1>1, FS_CardinalityType
<1>3. IsFiniteSet(S) /\ Cardinality(S) <= Cardinality(Connections)
  BY <1>1, FS_Subset
<1>4. Cardinality(S) \in Nat
  BY <1>3, FS_CardinalityType
<1> QED
  BY <1>2, <1>3, <1>4

(* The types in three parts: the flags, what the threads are about, and    *)
(* the table.                                                              *)
FlagsOK == running \in BOOLEAN /\ wakeUp \in BOOLEAN /\ broken \in BOOLEAN
ControlOK ==
  /\ local \in Threads \cup {None} /\ splitter \in Threads \cup {None}
  /\ messages \in 0..MaxLog
  /\ DOMAIN at = Threads /\ then \in [Threads -> {"idle", "end", "welcome"}]
  /\ main \in {"serving", "stop reactor", "wake cleaner", "join cleaner", "stopped"}
ContentOK ==
  /\ clients \subseteq Connections /\ authenticated \subseteq Connections
  /\ dropping \subseteq authenticated /\ handlers \subseteq Connections
  /\ toBeRemoved \in Seq(Connections) /\ connected \in 0..Cardinality(Connections)
  /\ subject \in [{"http", "reactor"} -> Connections \cup {None}]
  /\ got \in [Connections -> {"not open", "nothing", "welcome", "log"}]

(* The type invariant is these three together.                             *)
LEMMA TypeParts == WebSocketTypeOK <=> FlagsOK /\ ControlOK /\ ContentOK
BY DEF WebSocketTypeOK, FlagsOK, ControlOK, ContentOK

(* Running_, the wake-up of the cleaner and the history stay Boolean.      *)
LEMMA FlagsNext == FlagsOK /\ [Next]_vars => FlagsOK'
<1> SUFFICES ASSUME FlagsOK, [Next]_vars PROVE FlagsOK'
  OBVIOUS
<1>1. CASE UNCHANGED <<running, wakeUp, broken>>
  BY <1>1 DEF FlagsOK
<1>2. CASE WorkerLogs \/ LoggerTakes \/ Find \/ NewClient
  BY <1>1, <1>2 DEF WorkerLogs, LoggerTakes, Find, NewClient
<1>3. CASE \E t \in {"logger", "worker", "reactor"} : Write(t)
  BY <1>1, <1>3 DEF Write, Split, LockToSend, SendToAll
<1>4. CASE \E c \in Connections : AddEventHandlers(c) \/ Dispatch(c)
  BY <1>1, <1>4 DEF AddEventHandlers, Dispatch
<1>5. ASSUME NEW c \in Connections, Read(c) PROVE FlagsOK'
  <2>1. CASE EndConnection(c)
    BY <2>1, Zenon DEF FlagsOK, EndConnection
  <2>2. CASE Close(c) \/ Answer(c) \/ Login(c) \/ Welcome(c) \/ DropNotifications(c)
    BY <1>1, <2>2 DEF Close, Answer, Login, Welcome, DropNotifications
  <2> QED
    BY <1>5, <2>1, <2>2 DEF Read
<1>6. CASE Cleaner
  BY <1>6, Zenon DEF FlagsOK, Cleaner, CleanerRun, TestRunning, Sleep, LockToErase, Erase
<1>7. CASE Clear \/ StopTooEarly \/ Stopping
  BY <1>7, Zenon DEF FlagsOK, Clear, StopTooEarly, Stopping, StopReactor, WakeCleaner, JoinCleaner
<1>8. CASE UNCHANGED vars
  BY <1>1, <1>8 DEF vars
<1> QED
  BY <1>2, <1>3, <1>4, <1>5, <1>6, <1>7, <1>8 DEF Next

(* What is logged goes to the queue, or is written by whoever logs it.     *)
LEMMA Said ==
  ASSUME ControlOK, NEW t \in Threads, NEW next \in {"idle", "end", "welcome"}, Say(t, next)
  PROVE  /\ messages' \in 0..MaxLog /\ then' \in [Threads -> {"idle", "end", "welcome"}]
         /\ \/ Asynch /\ at' = [at EXCEPT ![t] = next] /\ then' = then
            \/ ~Asynch /\ at' = [at EXCEPT ![t] = "write"] /\ then' = [then EXCEPT ![t] = next]
<1>1. MaxLog \in Nat /\ messages \in 0..MaxLog
  BY WebSocketAssumption DEF ControlOK
<1>2. messages' = messages \/ (messages < MaxLog /\ messages' = messages + 1)
  BY DEF Say
<1>3. messages' \in 0..MaxLog
  BY <1>1, <1>2
<1>4. \/ Asynch /\ at' = [at EXCEPT ![t] = next] /\ then' = then
      \/ ~Asynch /\ at' = [at EXCEPT ![t] = "write"] /\ then' = [then EXCEPT ![t] = next]
  BY DEF Say, Goto, GotoAndThen
<1>5. then' \in [Threads -> {"idle", "end", "welcome"}]
  BY <1>4 DEF ControlOK
<1> QED
  BY <1>3, <1>4, <1>5

(* The mutexes, the queue of the logger and the threads' places keep their *)
(* types.                                                                  *)
LEMMA ControlNext == ControlOK /\ [Next]_vars => ControlOK'
<1> SUFFICES ASSUME ControlOK, [Next]_vars PROVE ControlOK'
  OBVIOUS
<1>11. CASE LoggerTakes
  <2>1. messages \in 0..MaxLog /\ MaxLog \in Nat /\ messages > 0 /\ messages' = messages - 1
    BY <1>11, WebSocketAssumption DEF LoggerTakes, ControlOK
  <2>2. messages' \in 0..MaxLog
    BY <2>1
  <2>3. /\ at' = [at EXCEPT !["logger"] = "write"] /\ then' = [then EXCEPT !["logger"] = "idle"]
        /\ UNCHANGED <<local, splitter, main>>
    BY <1>11 DEF LoggerTakes, GotoAndThen, locks
  <2> QED
    BY <2>2, <2>3 DEF ControlOK
<1> USE WebSocketAssumption DEF ControlOK
<1>1. CASE WorkerLogs
  BY <1>1, Said DEF WorkerLogs, locks
<1>2. ASSUME NEW t \in {"logger", "worker", "reactor"}, Write(t) PROVE ControlOK'
  BY <1>2 DEF Write, Split, LockToSend, SendToAll, Goto
<1>3. ASSUME NEW c \in Connections, AddEventHandlers(c) \/ Dispatch(c) PROVE ControlOK'
  BY <1>3 DEF AddEventHandlers, Dispatch, Acquire, Goto, locks
<1>4. CASE NewClient \/ Find
  BY <1>4 DEF NewClient, Find, Goto, Release
<1>5. ASSUME NEW c \in Connections, Close(c) \/ Login(c) PROVE ControlOK'
  BY <1>5, Said DEF Close, Login, locks
<1>6. ASSUME NEW c \in Connections, Answer(c) \/ Welcome(c) \/ DropNotifications(c) \/ EndConnection(c)
      PROVE  ControlOK'
  BY <1>6 DEF Answer, Welcome, DropNotifications, EndConnection, Done, Goto, Release
<1>7. CASE CleanerRun \/ TestRunning \/ Sleep
  BY <1>7 DEF CleanerRun, TestRunning, Sleep, Goto, locks
<1>8. CASE LockToErase \/ Erase
  BY <1>8 DEF LockToErase, Erase, Goto, Acquire, Release
<1>9. CASE Clear \/ StopTooEarly \/ Stopping
  BY <1>9 DEF Clear, StopTooEarly, Stopping, StopReactor, WakeCleaner, JoinCleaner, Goto, locks
<1>10. CASE UNCHANGED vars
  BY <1>10 DEF vars, locks
<1> QED
  BY <1>1, <1>2, <1>3, <1>4, <1>5, <1>6, <1>7, <1>8, <1>9, <1>10, <1>11 DEF Next, Cleaner, Read

(* Clients, iterators and observers stay connections, and UsersConnected_  *)
(* a count of them.                                                        *)
LEMMA ContentNext == ContentOK /\ SubjectOK /\ [Next]_vars => ContentOK'
<1> SUFFICES ASSUME ContentOK, SubjectOK, [Next]_vars PROVE ContentOK'
  OBVIOUS
<1> USE DEF ContentOK
<1>1. CASE UNCHANGED <<table, subject, got>>
  BY <1>1 DEF table
<1>2. ASSUME NEW t \in {"logger", "worker", "reactor"}, Write(t) PROVE ContentOK'
  BY <1>2 DEF Write, Split, LockToSend, SendToAll, table
<1>3. ASSUME NEW c \in Connections, AddEventHandlers(c) \/ Dispatch(c) PROVE ContentOK'
  BY <1>3 DEF AddEventHandlers, Dispatch, table
<1>4. CASE NewClient
  <2>1. clients' \in SUBSET Connections
    BY <1>4 DEF NewClient, SubjectOK
  <2>2. connected' \in 0..Cardinality(Connections)
    BY <1>4, <2>1, ClientsCounted DEF NewClient
  <2> QED
    BY <1>4, <2>1, <2>2 DEF NewClient
<1>5. ASSUME NEW c \in Connections, Close(c) \/ Answer(c) \/ Login(c) \/ Welcome(c) \/ DropNotifications(c)
      PROVE  ContentOK'
  BY <1>5 DEF Close, Answer, Login, Welcome, DropNotifications, table, Found
<1>6. ASSUME NEW c \in Connections, EndConnection(c) PROVE ContentOK'
  <2>1. toBeRemoved' \in Seq(Connections)
    BY <1>6, AppendProperties DEF EndConnection
  <2> QED
    BY <1>6, <2>1 DEF EndConnection
<1>7. CASE Erase
  <2>1. clients' \in SUBSET Connections
    BY <1>7 DEF Erase
  <2>2. connected' \in 0..Cardinality(Connections)
    BY <1>7, <2>1, ClientsCounted DEF Erase
  <2> QED
    BY <1>7, <2>1, <2>2, EmptySeq DEF Erase
<1>8. CASE Clear
  BY <1>8 DEF Clear
<1>9. CASE WorkerLogs \/ LoggerTakes \/ Find
  BY <1>1, <1>9 DEF WorkerLogs, LoggerTakes, Find
<1>10. CASE CleanerRun \/ TestRunning \/ Sleep \/ LockToErase \/ StopTooEarly \/ Stopping
  BY <1>1, <1>10 DEF CleanerRun, TestRunning, Sleep, LockToErase, StopTooEarly, Stopping,
                     StopReactor, WakeCleaner, JoinCleaner
<1>11. CASE UNCHANGED vars
  BY <1>1, <1>11 DEF vars
<1> QED
  BY <1>2, <1>3, <1>4, <1>5, <1>6, <1>7, <1>8, <1>9, <1>10, <1>11 DEF Next, Cleaner, Read

----------------------------------------------------------------------------
(* Who is where, and who has the mutex. *)

(* A thread that moves leaves the others where they are.                   *)
LEMMA Moved ==
  ASSUME at \in [Threads -> Everywhere], NEW t \in Threads, NEW p \in Everywhere,
         at' = [at EXCEPT ![t] = p]
  PROVE  /\ at' \in [Threads -> Everywhere]
         /\ at'["http"] = IF t = "http" THEN p ELSE at["http"]
         /\ at'["reactor"] = IF t = "reactor" THEN p ELSE at["reactor"]
         /\ at'["cleaner"] = IF t = "cleaner" THEN p ELSE at["cleaner"]
         /\ at'["logger"] = IF t = "logger" THEN p ELSE at["logger"]
         /\ at'["worker"] = IF t = "worker" THEN p ELSE at["worker"]
BY DEF Everywhere

(* LocalMutex_ is taken only when it is free, and given up by its owner:   *)
(* each step moves one thread, and the owner with it.                      *)
LEMMA ThreadsNext == ControlOK /\ ThreadsOK /\ OwnerOK /\ [Next]_vars => ThreadsOK' /\ OwnerOK'
<1> SUFFICES ASSUME ControlOK, ThreadsOK, OwnerOK, [Next]_vars PROVE ThreadsOK' /\ OwnerOK'
  OBVIOUS
<1> USE WebSocketAssumption DEF ThreadsOK, OwnerOK
<1>0. /\ then \in [Threads -> {"idle", "end", "welcome"}] /\ None \notin Threads
      /\ {"start", "idle", "insert", "lock", "found", "end", "welcome", "test", "sleep", "erase",
          "ended", "write", "send", "sending"} \subseteq Everywhere
  BY DEF ControlOK, Everywhere
<1>1. CASE WorkerLogs
  BY <1>0, <1>1, Said, Moved DEF WorkerLogs, locks
<1>2. CASE LoggerTakes
  BY <1>0, <1>2, Moved DEF LoggerTakes, GotoAndThen, locks
<1>3. ASSUME NEW t \in {"logger", "worker", "reactor"}, Split(t) PROVE ThreadsOK' /\ OwnerOK'
  <2> DEFINE p == IF connected > 0 THEN "send" ELSE then[t]
  <2>1. at[t] = "write" /\ at' = [at EXCEPT ![t] = p] /\ then' = then /\ local' = local
    BY <1>3 DEF Split, Goto
  <2>2. p \in Everywhere /\ p # "sending" /\ p # "write"
    BY <2>1 DEF Everywhere
  <2>3. p = "send" \/ p = then[t]
    OBVIOUS
  <2> HIDE DEF p
  <2> QED
    BY <1>3, <2>1, <2>2, <2>3, Moved
<1>4. ASSUME NEW t \in {"logger", "worker", "reactor"}, LockToSend(t) PROVE ThreadsOK' /\ OwnerOK'
  <2>1. /\ at[t] = "send" /\ at' = [at EXCEPT ![t] = "sending"] /\ then' = then
        /\ local \in {None, t} /\ local' = t
    BY <1>4 DEF LockToSend, Goto
  <2> QED
    BY <1>0, <1>4, <2>1, Moved
<1>5. ASSUME NEW t \in {"logger", "worker", "reactor"}, SendToAll(t) PROVE ThreadsOK' /\ OwnerOK'
  <2>1. /\ at[t] = "sending" /\ at' = [at EXCEPT ![t] = then[t]] /\ then' = then
        /\ local' = IF then[t] = "idle" THEN None ELSE t
    BY <1>5 DEF SendToAll, Goto
  <2>2. then[t] \in Everywhere
    BY <1>0, <1>5 DEF Everywhere
  <2> QED
    BY <1>0, <1>5, <2>1, <2>2, Moved
<1>6. ASSUME NEW c \in Connections, AddEventHandlers(c) PROVE ThreadsOK' /\ OwnerOK'
  BY <1>0, <1>6, Moved DEF AddEventHandlers, Acquire, Goto
<1>7. ASSUME NEW c \in Connections, Dispatch(c) PROVE ThreadsOK' /\ OwnerOK'
  BY <1>0, <1>7, Moved DEF Dispatch, Goto, locks
<1>8. CASE NewClient
  BY <1>0, <1>8, Moved DEF NewClient, Goto, Release
<1>9. CASE Find
  BY <1>0, <1>9, Moved DEF Find, Goto
<1>10. ASSUME NEW c \in Connections, Close(c) PROVE ThreadsOK' /\ OwnerOK'
  BY <1>0, <1>10, Said, Moved DEF Close, Found, locks
<1>11. ASSUME NEW c \in Connections, Login(c) PROVE ThreadsOK' /\ OwnerOK'
  BY <1>0, <1>11, Said, Moved DEF Login, Found, locks
<1>12. ASSUME NEW c \in Connections, Answer(c) \/ Welcome(c) \/ DropNotifications(c) \/ EndConnection(c)
      PROVE  ThreadsOK' /\ OwnerOK'
  <2>1. /\ at["reactor"] \in {"found", "welcome", "end"} /\ at' = [at EXCEPT !["reactor"] = "idle"]
        /\ then' = then /\ local' = None
    BY <1>12 DEF Answer, Welcome, DropNotifications, EndConnection, Ends, Found, Done, Goto, Release
  <2> QED
    BY <1>0, <2>1, Moved
<1>13. CASE CleanerRun
  BY <1>0, <1>13, Moved DEF CleanerRun, Goto, locks
<1>14. CASE TestRunning
  BY <1>0, <1>14, Moved DEF TestRunning, Goto, locks
<1>15. CASE Sleep
  BY <1>0, <1>15, Moved DEF Sleep, Goto, locks
<1>16. CASE LockToErase
  BY <1>0, <1>16, Moved DEF LockToErase, Goto, Acquire
<1>17. CASE Erase
  BY <1>0, <1>17, Moved DEF Erase, Goto, Release
<1>18. CASE StopReactor
  BY <1>0, <1>18, Moved DEF StopReactor, Goto, locks
<1>19. CASE Clear \/ StopTooEarly \/ WakeCleaner \/ JoinCleaner \/ UNCHANGED vars
  <2>1. UNCHANGED <<at, then, local>>
    BY <1>19 DEF Clear, StopTooEarly, WakeCleaner, JoinCleaner, vars, locks
  <2> QED
    BY <2>1
<1> QED
  BY <1>1, <1>2, <1>3, <1>4, <1>5, <1>6, <1>7, <1>8, <1>9, <1>10, <1>11, <1>12, <1>13, <1>14, <1>15,
     <1>16, <1>17, <1>18, <1>19
  DEF Next, Cleaner, Read, Write, Stopping

----------------------------------------------------------------------------
(* The table. *)

(* The steps that neither change the table, nor what was sent, nor give    *)
(* the HTTP thread or the reactor a connection to work on.                 *)
Quiet ==
  /\ UNCHANGED <<clients, authenticated, toBeRemoved, handlers, subject, broken, got>>
  /\ main' = "serving" => main = "serving"
  /\ at'["http"] = at["http"]
  /\ at'["reactor"] \notin {"idle", "ended"} => at["reactor"] \notin {"idle", "ended"}
  /\ at["reactor"] = "welcome" => at'["reactor"] = "welcome"

Loud ==
  \/ \E t \in {"logger", "worker", "reactor"} : SendToAll(t)
  \/ \E c \in Connections :
       AddEventHandlers(c) \/ Dispatch(c) \/ Login(c) \/ Welcome(c) \/ EndConnection(c)
  \/ NewClient \/ Erase \/ Clear

(* Nine steps of the threads are all that touches the table, what a client  *)
(* got, or who is worked on.                                               *)
LEMMA QuietOrLoud == ControlOK /\ ThreadsOK /\ [Next]_vars => Quiet \/ Loud
<1> SUFFICES ASSUME ControlOK, ThreadsOK, [Next]_vars, ~Loud PROVE Quiet
  OBVIOUS
<1>0. /\ then \in [Threads -> {"idle", "end", "welcome"}]
      /\ {"start", "idle", "insert", "lock", "found", "end", "welcome", "test", "sleep", "erase",
          "ended", "write", "send", "sending"} \subseteq Everywhere
      /\ at \in [Threads -> Everywhere]
      /\ at["reactor"] \in Writing => then["reactor"] \in {"end", "welcome"}
  BY DEF ControlOK, ThreadsOK, Everywhere
<1> USE DEF Quiet
<1>1. CASE WorkerLogs
  BY <1>0, <1>1, Said, Moved DEF WorkerLogs, table
<1>2. CASE LoggerTakes
  BY <1>0, <1>2, Moved DEF LoggerTakes, GotoAndThen, table
<1>3. ASSUME NEW t \in {"logger", "worker", "reactor"}, Split(t) \/ LockToSend(t) PROVE Quiet
  <2> DEFINE p == IF at[t] = "write" /\ connected > 0 THEN "send"
                  ELSE IF at[t] = "write" THEN then[t] ELSE "sending"
  <2>1. /\ at[t] \in {"write", "send"} /\ at' = [at EXCEPT ![t] = p]
        /\ UNCHANGED <<clients, authenticated, toBeRemoved, handlers, subject, broken, got, main>>
    BY <1>3 DEF Split, LockToSend, Goto, table
  <2>2. p \in Everywhere
    BY <1>0, <1>3 DEF Everywhere
  <2> HIDE DEF p
  <2> QED
    BY <1>0, <1>3, <2>1, <2>2, Moved
<1>4. CASE Find
  BY <1>0, <1>4, Moved DEF Find, Goto, table
<1>5. ASSUME NEW c \in Connections, Close(c) PROVE Quiet
  BY <1>0, <1>5, Said, Moved DEF Close, Found, table
<1>6. ASSUME NEW c \in Connections, Answer(c) \/ DropNotifications(c) PROVE Quiet
  <2>1. /\ at["reactor"] = "found" /\ at' = [at EXCEPT !["reactor"] = "idle"]
        /\ UNCHANGED <<clients, authenticated, toBeRemoved, handlers, subject, broken, got, main>>
    BY <1>6 DEF Answer, DropNotifications, Found, Done, Goto, table
  <2> QED
    BY <1>0, <2>1, Moved
<1>7. CASE CleanerRun
  BY <1>0, <1>7, Moved DEF CleanerRun, Goto, table
<1>8. CASE TestRunning
  BY <1>0, <1>8, Moved DEF TestRunning, Goto, table
<1>9. CASE Sleep
  BY <1>0, <1>9, Moved DEF Sleep, Goto, table
<1>10. CASE LockToErase
  BY <1>0, <1>10, Moved DEF LockToErase, Goto, Acquire, table
<1>11. CASE StopReactor
  BY <1>0, <1>11, Moved DEF StopReactor, Goto, table
<1>12. CASE StopTooEarly \/ WakeCleaner \/ JoinCleaner \/ UNCHANGED vars
  BY <1>12 DEF StopTooEarly, WakeCleaner, JoinCleaner, vars, table
<1> QED
  BY <1>1, <1>2, <1>3, <1>4, <1>5, <1>6, <1>7, <1>8, <1>9, <1>10, <1>11, <1>12
  DEF Next, Cleaner, Read, Write, Stopping, Loud

(* What each of the others does to the threads.                            *)
LEMMA LoudMoves ==
  ASSUME ControlOK, ThreadsOK
  PROVE  /\ \A t \in {"logger", "worker", "reactor"} : SendToAll(t) =>
              /\ at[t] = "sending" /\ at'["http"] = at["http"]
              /\ at'["reactor"] = IF t = "reactor" THEN then[t] ELSE at["reactor"]
         /\ \A c \in Connections : AddEventHandlers(c) =>
              at["http"] = "idle" /\ at'["http"] = "insert" /\ at'["reactor"] = at["reactor"]
         /\ \A c \in Connections : Dispatch(c) =>
              at["reactor"] = "idle" /\ at'["reactor"] = "lock" /\ at'["http"] = at["http"]
         /\ \A c \in Connections : Login(c) =>
              /\ at["reactor"] = "found" /\ at'["http"] = at["http"]
              /\ at'["reactor"] = IF Asynch THEN "welcome" ELSE "write"
         /\ \A c \in Connections : Welcome(c) \/ EndConnection(c) =>
              /\ at["reactor"] \in {"found", "welcome", "end"} /\ at'["reactor"] = "idle"
              /\ at'["http"] = at["http"]
         /\ NewClient =>
              at["http"] = "insert" /\ at'["http"] = "idle" /\ at'["reactor"] = at["reactor"]
         /\ Erase \/ Clear => at'["http"] = at["http"] /\ at'["reactor"] = at["reactor"]
<1>0. /\ then \in [Threads -> {"idle", "end", "welcome"}]
      /\ {"start", "idle", "insert", "lock", "found", "end", "welcome", "test", "sleep", "erase",
          "ended", "write", "send", "sending"} \subseteq Everywhere
      /\ at \in [Threads -> Everywhere]
  BY DEF ControlOK, ThreadsOK, Everywhere
<1>1. ASSUME NEW t \in {"logger", "worker", "reactor"}, SendToAll(t)
      PROVE  /\ at[t] = "sending" /\ at'["http"] = at["http"]
             /\ at'["reactor"] = IF t = "reactor" THEN then[t] ELSE at["reactor"]
  <2>1. then[t] \in Everywhere
    BY <1>0
  <2> QED
    BY <1>0, <1>1, <2>1, Moved DEF SendToAll, Goto
<1>2. ASSUME NEW c \in Connections, AddEventHandlers(c)
      PROVE  at["http"] = "idle" /\ at'["http"] = "insert" /\ at'["reactor"] = at["reactor"]
  BY <1>0, <1>2, Moved DEF AddEventHandlers, Goto
<1>3. ASSUME NEW c \in Connections, Dispatch(c)
      PROVE  at["reactor"] = "idle" /\ at'["reactor"] = "lock" /\ at'["http"] = at["http"]
  BY <1>0, <1>3, Moved DEF Dispatch, Goto
<1>4. ASSUME NEW c \in Connections, Login(c)
      PROVE  /\ at["reactor"] = "found" /\ at'["http"] = at["http"]
             /\ at'["reactor"] = IF Asynch THEN "welcome" ELSE "write"
  BY <1>0, <1>4, Said, Moved DEF Login, Found
<1>5. ASSUME NEW c \in Connections, Welcome(c) \/ EndConnection(c)
      PROVE  /\ at["reactor"] \in {"found", "welcome", "end"} /\ at'["reactor"] = "idle"
             /\ at'["http"] = at["http"]
  <2>1. at["reactor"] \in {"found", "welcome", "end"} /\ at' = [at EXCEPT !["reactor"] = "idle"]
    BY <1>5 DEF Welcome, EndConnection, Ends, Done, Goto
  <2> QED
    BY <1>0, <2>1, Moved
<1>6. ASSUME NewClient
      PROVE  at["http"] = "insert" /\ at'["http"] = "idle" /\ at'["reactor"] = at["reactor"]
  BY <1>0, <1>6, Moved DEF NewClient, Goto
<1>7. ASSUME Erase \/ Clear PROVE at'["http"] = at["http"] /\ at'["reactor"] = at["reactor"]
  BY <1>0, <1>7, Moved DEF Erase, Clear, Goto
<1> QED
  BY <1>1, <1>2, <1>3, <1>4, <1>5, <1>6, <1>7

(* What the HTTP thread and the reactor work on stays open and observed:   *)
(* only the reactor itself takes the observers of a connection away.       *)
LEMMA SubjectNext ==
  ContentOK /\ SubjectOK /\ OpenOK /\ ControlOK /\ ThreadsOK /\ [Next]_vars => SubjectOK'
<1> SUFFICES ASSUME ContentOK, SubjectOK, OpenOK, ControlOK, ThreadsOK, [Next]_vars PROVE SubjectOK'
  OBVIOUS
<1> USE DEF SubjectOK
<1>1. CASE Quiet
  BY <1>1 DEF Quiet
<1>2. ASSUME NEW t \in {"logger", "worker", "reactor"}, SendToAll(t) PROVE SubjectOK'
  BY <1>2, LoudMoves DEF SendToAll, table, ContentOK
<1>3. ASSUME NEW c \in Connections, AddEventHandlers(c) PROVE SubjectOK'
  BY <1>3, LoudMoves DEF AddEventHandlers, ContentOK
<1>4. ASSUME NEW c \in Connections, Dispatch(c) PROVE SubjectOK'
  BY <1>4, LoudMoves DEF Dispatch, table, ContentOK
<1>5. ASSUME NEW c \in Connections, Login(c) PROVE SubjectOK'
  BY <1>5, LoudMoves DEF Login
<1>6. ASSUME NEW c \in Connections, Welcome(c) PROVE SubjectOK'
  BY <1>6, LoudMoves DEF Welcome, table, ContentOK
<1>7. ASSUME NEW c \in Connections, EndConnection(c) PROVE SubjectOK'
  BY <1>7, LoudMoves DEF EndConnection
<1>8. CASE NewClient
  BY <1>8, LoudMoves DEF NewClient, ContentOK
<1>9. CASE Erase \/ Clear
  BY <1>9, LoudMoves DEF Erase, Clear
<1> QED
  BY <1>1, <1>2, <1>3, <1>4, <1>5, <1>6, <1>7, <1>8, <1>9, QuietOrLoud DEF Loud

(* A connection comes into the table, to its observers or to a login only  *)
(* after it was opened.                                                    *)
LEMMA OpenNext ==
  ContentOK /\ SubjectOK /\ OpenOK /\ ControlOK /\ ThreadsOK /\ [Next]_vars => OpenOK'
<1> SUFFICES ASSUME ContentOK, SubjectOK, OpenOK, ControlOK, ThreadsOK, [Next]_vars PROVE OpenOK'
  OBVIOUS
<1> USE DEF OpenOK, ContentOK
<1>1. CASE Quiet
  BY <1>1 DEF Quiet
<1>2. ASSUME NEW t \in {"logger", "worker", "reactor"}, SendToAll(t) PROVE OpenOK'
  BY <1>2 DEF SendToAll, table
<1>3. ASSUME NEW c \in Connections, AddEventHandlers(c) PROVE OpenOK'
  BY <1>3 DEF AddEventHandlers
<1>4. ASSUME NEW c \in Connections, Dispatch(c) PROVE OpenOK'
  BY <1>4 DEF Dispatch, table
<1>5. ASSUME NEW c \in Connections, Login(c) PROVE OpenOK'
  <2>1. c \in handlers
    BY <1>5 DEF Login, Found, SubjectOK
  <2> QED
    BY <1>5, <2>1 DEF Login
<1>6. ASSUME NEW c \in Connections, Welcome(c) PROVE OpenOK'
  BY <1>6 DEF Welcome, table
<1>7. ASSUME NEW c \in Connections, EndConnection(c) PROVE OpenOK'
  BY <1>7 DEF EndConnection
<1>8. CASE NewClient
  BY <1>8, LoudMoves DEF NewClient, SubjectOK
<1>9. CASE Erase \/ Clear
  BY <1>9 DEF Erase, Clear
<1> QED
  BY <1>1, <1>2, <1>3, <1>4, <1>5, <1>6, <1>7, <1>8, <1>9, QuietOrLoud DEF Loud

(* Until Stop, the reactor works on a connection of the table that does    *)
(* not wait to be erased: it has the mutex, and took it when nobody was    *)
(* about to insert.                                                        *)
LEMMA ReadIsThere ==
  ASSUME ThreadsOK, OwnerOK, SubjectOK, TableOK, main = "serving",
         at["reactor"] \notin {"idle", "lock", "ended"}
  PROVE  /\ subject["reactor"] \in clients /\ subject["reactor"] \notin ToSet(toBeRemoved)
         /\ Fresh = {}
<1>1. local = "reactor"
  BY DEF ThreadsOK, OwnerOK
<1>2. at["http"] # "insert"
  BY <1>1 DEF OwnerOK
<1> QED
  BY <1>2 DEF TableOK, SubjectOK, Fresh

(* Until Stop, EndConnection moves a connection from the observers to the  *)
(* list, once, and the cleaner erases the whole list.                      *)
LEMMA TableNext ==
  ASSUME ContentOK, ControlOK, ThreadsOK, OwnerOK, SubjectOK, OpenOK, TableOK, [Next]_vars
  PROVE  TableOK'
<1> SUFFICES ASSUME main' = "serving"
             PROVE  /\ ~broken'
                    /\ IsInjective(toBeRemoved') /\ ToSet(toBeRemoved') \subseteq clients'
                    /\ handlers' = (clients' \ ToSet(toBeRemoved')) \cup Fresh'
                    /\ Fresh' \cap clients' = {}
  BY DEF TableOK
<1>0. ASSUME main = "serving"
      PROVE  /\ ~broken
             /\ IsInjective(toBeRemoved) /\ ToSet(toBeRemoved) \subseteq clients
             /\ handlers = (clients \ ToSet(toBeRemoved)) \cup Fresh
             /\ Fresh \cap clients = {}
  BY <1>0 DEF TableOK
<1>1. CASE Quiet
  BY <1>0, <1>1 DEF Quiet, Fresh
<1>2. ASSUME NEW t \in {"logger", "worker", "reactor"}, SendToAll(t) PROVE TableOK'
  <2>1. UNCHANGED <<main, broken, clients, toBeRemoved, handlers, Fresh>>
    BY <1>2, LoudMoves DEF SendToAll, table, Fresh
  <2> QED
    BY <1>0, <2>1 DEF TableOK
<1>3. ASSUME NEW c \in Connections, AddEventHandlers(c) PROVE TableOK'
  <2>1. UNCHANGED <<main, broken, clients, toBeRemoved>> /\ handlers' = handlers \cup {c}
    BY <1>3 DEF AddEventHandlers
  <2>2. Fresh = {} /\ Fresh' = {c}
    BY <1>3, LoudMoves DEF AddEventHandlers, Fresh, ContentOK
  <2>3. c \notin clients
    BY <1>3 DEF AddEventHandlers, OpenOK
  <2>4. c \notin ToSet(toBeRemoved)
    BY <1>0, <2>1, <2>3
  <2> QED
    BY <1>0, <2>1, <2>2, <2>3, <2>4 DEF TableOK
<1>4. ASSUME NEW c \in Connections, Dispatch(c) \/ Login(c) \/ Welcome(c) PROVE TableOK'
  <2>1. UNCHANGED <<main, broken, clients, toBeRemoved, handlers>>
    BY <1>4 DEF Dispatch, Login, Welcome, table
  <2>2. at'["http"] = at["http"] /\ subject'["http"] = subject["http"]
    BY <1>4, LoudMoves DEF Dispatch, Login, Welcome, ContentOK
  <2>3. Fresh' = Fresh
    BY <2>2 DEF Fresh
  <2> QED
    BY <1>0, <2>1, <2>3 DEF TableOK
<1>5. ASSUME NEW c \in Connections, EndConnection(c) PROVE TableOK'
  <2>1. /\ main' = main /\ clients' = clients /\ handlers' = handlers \ {c}
        /\ toBeRemoved' = Append(toBeRemoved, c) /\ broken' = (broken \/ c \notin clients)
        /\ subject["reactor"] = c /\ subject' = subject
    BY <1>5 DEF EndConnection, Ends
  <2>2. at["reactor"] \in {"found", "welcome", "end"} /\ at'["http"] = at["http"]
    BY <1>5, LoudMoves
  <2>3. c \in clients /\ c \notin ToSet(toBeRemoved) /\ Fresh = {}
    BY <2>1, <2>2, ReadIsThere
  <2>4. Fresh' = {}
    BY <2>1, <2>2, <2>3 DEF Fresh
  <2>5. /\ ToSet(toBeRemoved') = ToSet(toBeRemoved) \cup {c}
        /\ IsInjective(toBeRemoved) => IsInjective(toBeRemoved')
    BY <2>1, <2>3, RemovalListed DEF ContentOK
  <2>6. ~broken'
    BY <1>0, <2>1, <2>3
  <2> QED
    BY <1>0, <2>1, <2>3, <2>4, <2>5, <2>6 DEF TableOK
<1>6. CASE NewClient
  <2>1. /\ UNCHANGED <<main, broken, toBeRemoved, handlers>>
        /\ clients' = clients \cup {subject["http"]}
    BY <1>6 DEF NewClient
  <2>2. Fresh = {subject["http"]} /\ Fresh' = {}
    BY <1>6, LoudMoves DEF Fresh
  <2> QED
    BY <1>0, <2>1, <2>2 DEF TableOK
<1>7. CASE Erase
  <2>1. /\ UNCHANGED <<main, handlers, subject>>
        /\ toBeRemoved' = <<>> /\ clients' = clients \ ToSet(toBeRemoved)
    BY <1>7 DEF Erase
  <2>2. Fresh' = Fresh
    BY <1>7, <2>1, LoudMoves DEF Fresh
  <2>3. ~broken'
    BY <1>0, <1>7, <2>1 DEF Erase
  <2> QED
    BY <1>0, <2>1, <2>2, <2>3, NothingListed DEF TableOK
<1>8. CASE Clear
  BY <1>8 DEF Clear
<1>9. CASE Loud
  BY <1>2, <1>3, <1>4, <1>5, <1>6, <1>7, <1>8, <1>9 DEF Loud, TableOK
<1> QED
  BY <1>1, <1>9, QuietOrLoud

(* No log message reaches a client of the reactor before its welcome: the  *)
(* reactor keeps the mutex from the login to the welcome, and with         *)
(* asynchronous logging it never writes a log message itself meanwhile.    *)
LEMMA WelcomeNext ==
  ASSUME Asynch, ContentOK, ControlOK, ThreadsOK, OwnerOK, SubjectOK, OpenOK, WelcomeOK, WelcomeFirst,
         [Next]_vars
  PROVE  WelcomeOK' /\ WelcomeFirst'
<1> USE DEF WelcomeOK, WelcomeFirst
<1>1. CASE Quiet
  BY <1>1 DEF Quiet
<1>2. ASSUME NEW t \in {"logger", "worker", "reactor"}, SendToAll(t) PROVE WelcomeOK' /\ WelcomeFirst'
  <2>1. /\ UNCHANGED <<clients, authenticated, handlers, subject>>
        /\ got' = [c \in Connections |->
             IF c \in (clients \cap authenticated) \ dropping /\ got[c] = "nothing" THEN "log" ELSE got[c]]
    BY <1>2 DEF SendToAll, table
  <2>2. at[t] = "sending" /\ t # "reactor"
    BY <1>2, LoudMoves DEF ThreadsOK
  <2>3. at["reactor"] # "welcome" /\ at'["reactor"] = at["reactor"]
    BY <1>2, <2>2, LoudMoves DEF OwnerOK
  <2>4. \A c \in handlers : got'[c] = got[c]
    BY <2>1, <2>3 DEF ContentOK
  <2> QED
    BY <2>1, <2>3, <2>4
<1>3. ASSUME NEW c \in Connections, AddEventHandlers(c) PROVE WelcomeOK' /\ WelcomeFirst'
  <2>1. /\ UNCHANGED <<clients, authenticated>> /\ handlers' = handlers \cup {c}
        /\ subject'["reactor"] = subject["reactor"] /\ got' = [got EXCEPT ![c] = "nothing"]
        /\ c \notin authenticated
    BY <1>3 DEF AddEventHandlers, ContentOK, OpenOK
  <2>2. at'["reactor"] = at["reactor"]
    BY <1>3, LoudMoves
  <2>3. c \notin handlers
    BY <1>3 DEF AddEventHandlers, OpenOK
  <2> QED
    BY <2>1, <2>2, <2>3 DEF ContentOK
<1>4. ASSUME NEW c \in Connections, Dispatch(c) PROVE WelcomeOK' /\ WelcomeFirst'
  <2>1. UNCHANGED <<authenticated, handlers, got>> /\ at["reactor"] = "idle"
    BY <1>4 DEF Dispatch, table
  <2> QED
    BY <2>1
<1>5. ASSUME NEW c \in Connections, Login(c) PROVE WelcomeOK' /\ WelcomeFirst'
  <2>1. /\ UNCHANGED <<handlers, got, subject>> /\ authenticated' = authenticated \cup {c}
        /\ subject["reactor"] = c
    BY <1>5 DEF Login, Found
  <2>2. at["reactor"] = "found" /\ at'["reactor"] = "welcome"
    BY <1>5, LoudMoves
  <2> QED
    BY <2>1, <2>2
<1>6. ASSUME NEW c \in Connections, Welcome(c) PROVE WelcomeOK' /\ WelcomeFirst'
  <2>1. /\ UNCHANGED <<authenticated, handlers>> /\ subject["reactor"] = c
        /\ got' = [got EXCEPT ![c] = IF @ = "nothing" THEN "welcome" ELSE @]
    BY <1>6 DEF Welcome, table
  <2> QED
    BY <2>1 DEF ContentOK
<1>7. ASSUME NEW c \in Connections, EndConnection(c) PROVE WelcomeOK' /\ WelcomeFirst'
  <2>1. /\ UNCHANGED <<authenticated, got>> /\ handlers' = handlers \ {c}
        /\ subject["reactor"] = c
    BY <1>7 DEF EndConnection, Ends
  <2> QED
    BY <2>1
<1>8. CASE NewClient
  <2>1. UNCHANGED <<authenticated, handlers, got>> /\ subject'["reactor"] = subject["reactor"]
    BY <1>8 DEF NewClient, ContentOK
  <2>2. at'["reactor"] = at["reactor"]
    BY <1>8, LoudMoves
  <2> QED
    BY <2>1, <2>2
<1>9. CASE Erase \/ Clear
  <2>1. UNCHANGED <<authenticated, handlers, got, subject>>
    BY <1>9 DEF Erase, Clear
  <2>2. at'["reactor"] = at["reactor"]
    BY <1>9, LoudMoves
  <2> QED
    BY <2>1, <2>2
<1>10. CASE Loud
  BY <1>2, <1>3, <1>4, <1>5, <1>6, <1>7, <1>8, <1>9, <1>10 DEF Loud
<1> QED
  BY <1>1, <1>10, QuietOrLoud

----------------------------------------------------------------------------
(* The theorems. *)

(* The server starts with nobody connected.                                *)
LEMMA StrongInit == Init => Strong /\ WelcomeOK /\ WelcomeFirst
<1> SUFFICES ASSUME Init PROVE Strong /\ WelcomeOK /\ WelcomeFirst
  OBVIOUS
<1>0. messages \in 0..MaxLog
  <2>1. messages = 0
    BY DEF Init
  <2>2. MaxLog \in Nat
    BY WebSocketAssumption
  <2> QED
    BY <2>1, <2>2
<1> USE WebSocketAssumption DEF Init
<1>1. FlagsOK
  BY DEF FlagsOK
<1>2. ControlOK
  <2>1. DOMAIN at = Threads /\ then \in [Threads -> {"idle", "end", "welcome"}]
    OBVIOUS
  <2> QED
    BY <1>0, <2>1 DEF ControlOK
<1>3. ContentOK
  BY ClientsCounted, FS_EmptySet, EmptySeq DEF ContentOK
<1>4. ThreadsOK /\ OwnerOK /\ SubjectOK
  BY DEF ThreadsOK, Everywhere, OwnerOK, SubjectOK
<1>5. TableOK
  BY NothingListed DEF TableOK, Fresh
<1>6. OpenOK /\ WelcomeOK /\ WelcomeFirst
  BY DEF OpenOK, WelcomeOK, WelcomeFirst
<1> QED
  BY <1>1, <1>2, <1>3, <1>4, <1>5, <1>6, TypeParts DEF Strong

(* The inductive invariant is kept by every step.                          *)
LEMMA StrongNext == Strong /\ [Next]_vars => Strong'
<1> SUFFICES ASSUME Strong, [Next]_vars PROVE Strong'
  OBVIOUS
<1>1. FlagsOK /\ ControlOK /\ ContentOK /\ ThreadsOK /\ OwnerOK /\ SubjectOK /\ TableOK /\ OpenOK
  BY TypeParts DEF Strong
<1>2. FlagsOK' /\ ControlOK' /\ ContentOK'
  BY <1>1, FlagsNext, ControlNext, ContentNext
<1>3. ThreadsOK' /\ OwnerOK'
  BY <1>1, ThreadsNext
<1>4. SubjectOK' /\ OpenOK'
  BY <1>1, SubjectNext, OpenNext
<1>5. TableOK'
  BY <1>1, TableNext
<1>6. WebSocketTypeOK'
  BY <1>2 DEF WebSocketTypeOK, FlagsOK, ControlOK, ContentOK
<1> QED
  BY <1>3, <1>4, <1>5, <1>6 DEF Strong

(* It implies what the runs check.                                         *)
LEMMA StrongImplies == Strong => WebSocketInvariant
<1> SUFFICES ASSUME Strong PROVE BrokenOnlyByStop /\ ReadOrEnding
  BY DEF Strong, WebSocketInvariant
<1>1. FlagsOK /\ ControlOK /\ ContentOK /\ ThreadsOK /\ OwnerOK /\ TableOK
  BY TypeParts DEF Strong
<1>2. main # "serving" \/ ~broken
  BY <1>1 DEF TableOK
<1>3. ASSUME local = None, main = "serving" PROVE handlers = clients \ ToSet(toBeRemoved)
  <2>1. at["http"] # "insert"
    BY <1>1, <1>3, WebSocketAssumption DEF OwnerOK
  <2> QED
    BY <1>1, <1>3, <2>1 DEF TableOK, Fresh
<1> QED
  BY <1>2, <1>3 DEF BrokenOnlyByStop, ReadOrEnding

(* Whatever the threads do until Stop, and whether who logs writes to the  *)
(* clients itself or not: no iterator is used whose node is gone, none is  *)
(* erased twice, and whenever nobody holds LocalMutex_ the reactor reads   *)
(* exactly the clients that do not wait to be erased.                      *)
THEOREM TableSound == Spec => []WebSocketInvariant
<1> QED
  BY StrongInit, StrongNext, StrongImplies, PTL DEF Spec

(* With asynchronous logging, the default: a client that is still read has *)
(* had its welcome before its first log message.  Without it the reactor   *)
(* writes the message of the login to its own client.                      *)
THEOREM WelcomeSound ==
  ASSUME Asynch
  PROVE  Spec => []WelcomeFirst
<1> DEFINE Inv == Strong /\ WelcomeOK /\ WelcomeFirst
<1>1. Init => Inv
  BY StrongInit
<1>2. Inv /\ [Next]_vars => Inv'
  BY StrongNext, WelcomeNext, TypeParts DEF Strong
<1>3. Inv => WelcomeFirst
  OBVIOUS
<1> QED
  BY <1>1, <1>2, <1>3, PTL DEF Spec
----------------------------------------------------------------------------
(* The two mutexes.                                                        *)

(* Thread t is stopped until u unlocks.  LocalMutex_ is recursive, the     *)
(* mutex of the SplitterChannel is not.                                    *)
Waits(t, u) ==
  \/ at[t] = "write" /\ splitter = u
  \/ at[t] \in {"send", "lock"} /\ local = u /\ u # t

(* Who is waited for does not wait: there is no circle of threads, long or *)
(* short, that wait for each other.                                        *)
NoCircle ==
  \A t, u, v \in Threads : ~(Waits(t, u) /\ Waits(u, v))

(* The splitter's mutex is held from the test of its channels to the end   *)
(* of the last send.                                                       *)
SplitterOK == \A t \in Threads : splitter = t <=> at[t] \in {"send", "sending"}

(* Only Split and SendToAll change the owner of the splitter, and no other *)
(* step than those of Write enters or leaves the places it is held at.     *)
LEMMA SplitterNext == ControlOK /\ ThreadsOK /\ SplitterOK /\ [Next]_vars => SplitterOK'
<1> SUFFICES ASSUME ControlOK, ThreadsOK, SplitterOK, [Next]_vars PROVE SplitterOK'
  OBVIOUS
<1> DEFINE Held == {"send", "sending"}
<1>0. /\ at \in [Threads -> Everywhere] /\ then \in [Threads -> {"idle", "end", "welcome"}]
      /\ None \notin Threads
  BY WebSocketAssumption DEF ControlOK, ThreadsOK
<1>a. ASSUME NEW t \in Threads, NEW p \in Everywhere \ Held, at[t] \notin Held,
             at' = [at EXCEPT ![t] = p], splitter' = splitter
      PROVE  SplitterOK'
  <2>1. ASSUME NEW r \in Threads PROVE at'[r] \in Held <=> at[r] \in Held
    BY <1>0, <1>a
  <2> QED
    BY <1>a, <2>1 DEF SplitterOK
<1>b. {"start", "idle", "insert", "lock", "found", "end", "welcome", "test", "sleep", "erase", "ended",
       "write"} \subseteq Everywhere \ Held
  BY DEF Everywhere
<1>1. CASE WorkerLogs
  BY <1>0, <1>1, <1>a, <1>b, Said DEF WorkerLogs, locks
<1>2. CASE LoggerTakes
  BY <1>0, <1>2, <1>a, <1>b DEF LoggerTakes, GotoAndThen, locks
<1>3. ASSUME NEW t \in {"logger", "worker", "reactor"}, Split(t) PROVE SplitterOK'
  <2>1. CASE connected > 0
    <3>1. /\ splitter = None /\ splitter' = t /\ at' = [at EXCEPT ![t] = "send"]
      BY <1>3, <2>1 DEF Split, Goto
    <3> QED
      BY <1>0, <1>3, <3>1 DEF SplitterOK
  <2>2. CASE ~(connected > 0)
    <3>1. /\ at[t] = "write" /\ splitter' = splitter /\ at' = [at EXCEPT ![t] = then[t]]
      BY <1>3, <2>2 DEF Split, Goto
    <3>2. t \in Threads /\ then[t] \in Everywhere \ Held /\ at[t] \notin Held
      BY <1>0, <1>3, <1>b, <3>1
    <3> QED
      BY <1>a, <3>1, <3>2
  <2> QED
    BY <2>1, <2>2
<1>4. ASSUME NEW t \in {"logger", "worker", "reactor"}, LockToSend(t) PROVE SplitterOK'
  <2>1. at[t] = "send" /\ at' = [at EXCEPT ![t] = "sending"] /\ splitter' = splitter
    BY <1>4 DEF LockToSend, Goto
  <2> QED
    BY <1>0, <1>4, <2>1 DEF SplitterOK
<1>5. ASSUME NEW t \in {"logger", "worker", "reactor"}, SendToAll(t) PROVE SplitterOK'
  <2>1. at[t] = "sending" /\ at' = [at EXCEPT ![t] = then[t]] /\ splitter' = None
    BY <1>5 DEF SendToAll, Goto
  <2>2. then[t] \notin Held /\ splitter = t
    BY <1>0, <1>5, <2>1 DEF SplitterOK
  <2> QED
    BY <1>0, <1>5, <2>1, <2>2 DEF SplitterOK
<1>6. ASSUME NEW c \in Connections, AddEventHandlers(c) PROVE SplitterOK'
  BY <1>0, <1>6, <1>a, <1>b DEF AddEventHandlers, Goto
<1>7. ASSUME NEW c \in Connections, Dispatch(c) PROVE SplitterOK'
  BY <1>0, <1>7, <1>a, <1>b DEF Dispatch, Goto, locks
<1>8. CASE NewClient
  BY <1>0, <1>8, <1>a, <1>b DEF NewClient, Goto
<1>9. CASE Find
  BY <1>0, <1>9, <1>a, <1>b DEF Find, Goto
<1>10. ASSUME NEW c \in Connections, Close(c) PROVE SplitterOK'
  BY <1>0, <1>10, <1>a, <1>b, Said DEF Close, Found, locks
<1>11. ASSUME NEW c \in Connections, Login(c) PROVE SplitterOK'
  BY <1>0, <1>11, <1>a, <1>b, Said DEF Login, Found, locks
<1>12. ASSUME NEW c \in Connections, Answer(c) \/ Welcome(c) \/ DropNotifications(c) \/ EndConnection(c)
      PROVE  SplitterOK'
  <2>1. /\ at["reactor"] \in {"found", "welcome", "end"} /\ at' = [at EXCEPT !["reactor"] = "idle"]
        /\ splitter' = splitter
    BY <1>12 DEF Answer, Welcome, DropNotifications, EndConnection, Ends, Found, Done, Goto
  <2> QED
    BY <1>0, <1>a, <1>b, <2>1
<1>13. CASE Cleaner
  <2>1. \E p \in {"test", "sleep", "ended", "lock", "erase"} :
          at' = [at EXCEPT !["cleaner"] = p] /\ splitter' = splitter
    BY <1>13 DEF Cleaner, CleanerRun, TestRunning, Sleep, LockToErase, Erase, Goto, locks
  <2>2. at["cleaner"] \notin Held
    BY DEF ThreadsOK
  <2> QED
    BY <1>a, <1>b, <2>1, <2>2
<1>14. CASE StopReactor
  BY <1>0, <1>14, <1>a, <1>b DEF StopReactor, Goto, locks
<1>15. CASE Clear \/ StopTooEarly \/ WakeCleaner \/ JoinCleaner \/ UNCHANGED vars
  <2>1. UNCHANGED <<at, splitter>>
    BY <1>15 DEF Clear, StopTooEarly, WakeCleaner, JoinCleaner, vars, locks
  <2> QED
    BY <2>1 DEF SplitterOK
<1> QED
  BY <1>1, <1>2, <1>3, <1>4, <1>5, <1>6, <1>7, <1>8, <1>9, <1>10, <1>11, <1>12, <1>13, <1>14, <1>15
  DEF Next, Read, Write, Stopping

(* Who logs leaves a message to the thread of the AsyncChannel, and writes *)
(* nothing itself.                                                         *)
LEMMA WorkerNext ==
  ASSUME Asynch, ControlOK, ThreadsOK, at["worker"] = "idle", [Next]_vars
  PROVE  at'["worker"] = "idle"
<1>0. at \in [Threads -> Everywhere]
  BY DEF ThreadsOK
<1>1. CASE WorkerLogs
  BY <1>0, <1>1 DEF WorkerLogs, Say, Goto
<1>2. CASE LoggerTakes
  BY <1>0, <1>2 DEF LoggerTakes, GotoAndThen
<1>3. ASSUME NEW t \in {"logger", "worker", "reactor"}, Write(t) PROVE at'["worker"] = "idle"
  <2>1. t # "worker" /\ \E p : at' = [at EXCEPT ![t] = p]
    BY <1>3 DEF Write, Split, LockToSend, SendToAll, Goto
  <2> QED
    BY <1>0, <2>1
<1>4. ASSUME NEW c \in Connections, AddEventHandlers(c) \/ Dispatch(c) \/ Read(c)
      PROVE  at'["worker"] = "idle"
  <2>1. (\E p : at' = [at EXCEPT !["http"] = p]) \/ (\E p : at' = [at EXCEPT !["reactor"] = p])
    BY <1>4 DEF AddEventHandlers, Dispatch, Read, Close, Answer, Login, Welcome, DropNotifications,
      EndConnection, Say, Done, Goto
  <2> QED
    BY <1>0, <2>1
<1>5. CASE NewClient \/ Find \/ StopReactor
  <2>1. (\E p : at' = [at EXCEPT !["http"] = p]) \/ (\E p : at' = [at EXCEPT !["reactor"] = p])
    BY <1>5 DEF NewClient, Find, StopReactor, Goto
  <2> QED
    BY <1>0, <2>1
<1>6. CASE Cleaner
  <2>1. \E p : at' = [at EXCEPT !["cleaner"] = p]
    BY <1>6 DEF Cleaner, CleanerRun, TestRunning, Sleep, LockToErase, Erase, Goto
  <2> QED
    BY <1>0, <2>1
<1>7. CASE Clear \/ StopTooEarly \/ WakeCleaner \/ JoinCleaner \/ UNCHANGED vars
  BY <1>7 DEF Clear, StopTooEarly, WakeCleaner, JoinCleaner, vars
<1> QED
  BY <1>1, <1>2, <1>3, <1>4, <1>5, <1>6, <1>7 DEF Next, Stopping

(* With asynchronous logging, the default: the logger takes LocalMutex_    *)
(* under the splitter's mutex, and nobody takes the splitter's under       *)
(* LocalMutex_.  The reactor, which logs while it has LocalMutex_, only    *)
(* leaves a message; so who has LocalMutex_ waits for nobody, and for the  *)
(* splitter's nobody waits.  Without it the reactor and a thread that logs *)
(* can wait for each other.                                                *)
THEOREM LocksOrdered ==
  ASSUME Asynch
  PROVE  Spec => []NoCircle
<1> DEFINE Inv == Strong /\ SplitterOK /\ at["worker"] = "idle"
<1>1. Init => Inv
  BY StrongInit, WebSocketAssumption DEF Init, SplitterOK
<1>2. Inv /\ [Next]_vars => Inv'
  BY StrongNext, SplitterNext, WorkerNext, TypeParts DEF Strong
<1>3. Inv => NoCircle
  <2> SUFFICES ASSUME Inv PROVE NoCircle
    OBVIOUS
  <2>1. ASSUME NEW u \in Threads, NEW v \in Threads, local = u PROVE ~Waits(u, v)
    <3>1. at[u] \notin {"write", "send", "lock"}
      BY <2>1 DEF Strong, OwnerOK, ThreadsOK
    <3> QED
      BY <3>1 DEF Waits
  <2>2. ASSUME NEW t \in Threads, NEW u \in Threads, at[t] = "write" PROVE splitter # u
    <3>1. \A r \in Threads : at[r] \in {"write", "send", "sending"} => r = "logger"
      BY DEF Strong, ThreadsOK
    <3> QED
      BY <2>2, <3>1 DEF SplitterOK
  <2>3. ASSUME NEW t \in Threads, NEW u \in Threads, Waits(t, u) PROVE local = u
    BY <2>2, <2>3 DEF Waits
  <2> QED
    BY <2>1, <2>3 DEF NoCircle
<1> QED
  BY <1>1, <1>2, <1>3, PTL DEF Spec
============================================================================
