---------------------------- MODULE Microservice ----------------------------
(***************************************************************************)
(* The life of a process (framework/MicroService.cpp): the main thread     *)
(* starts the subsystems in the order of Daemon.cpp, waits for a           *)
(* termination request and stops them in the reverse order, while the      *)
(* threads they own run: the workers of NewConnectionHandler and           *)
(* NewCommandHandler, the two threads of KafkaManager and the              *)
(* EventBusManager.  A process may crash; the next one finds what was      *)
(* committed on the broker.                                                *)
(*                                                                         *)
(* Subsystems whose Start and Stop do nothing or only read configuration   *)
(* have no step.  Every store to a Running_ flag, every wake-up and every  *)
(* join is a step of its own.                                              *)
(***************************************************************************)
EXTENDS MessageBus

CONSTANTS
  Handlers,       \* workers that watch a topic
  Registry,       \* the watcher of SERVICE_EVENTS, BusMessageReceived
  MaxKeepAlives,  \* bound: keep-alives a process sends
  MaxCrashes      \* bound: crashes

Events == {"JOIN", "KEEP-ALIVE", "LEAVE"}

ASSUME MicroserviceAssumption ==
  /\ Watchers = Handlers \cup {Registry} /\ Registry \notin Handlers
  /\ IsFiniteSet(Handlers) /\ None \notin Watchers \cup Events
  /\ MaxMessages \in Nat /\ MaxFaults \in Nat /\ MaxKeepAlives \in Nat /\ MaxCrashes \in Nat

VARIABLES
  main,           \* the main thread: what it does next
  stopping,       \* the handler it is stopping
  (* EventBusManager *)
  ebRunning,      \* Running_
  ebThread,       \* Thread_: "none", "starting", "join", "test", "sleep", "keep", "leave", "ended"
  ebWake,         \* the event that trySleep waits for
  keepAlives,
  (* each handler *)
  hRunning,       \* Running_
  hThread,        \* Worker_: "none", "starting", "test", "sleep", "drain", "ended"
  hQueue,         \* NewConnections_ or NewCommands_
  (* history and bounds *)
  posted,         \* events this process has posted
  handled,        \* times each message was handled
  lost,           \* messages queued for a worker at a crash, or called back to nobody
  halfway,        \* messages called back but not committed at a crash
  missed,         \* threads told to stop at a moment they could not hear it
  crashes

eventBus == <<ebRunning, ebThread, ebWake, keepAlives>>
workers == <<hRunning, hThread, hQueue>>
ends == <<lost, halfway, missed, crashes>>
vars == <<busVars, main, stopping, eventBus, workers, posted, handled, ends>>

Each(v) == [h \in Handlers |-> v]

Init ==
  /\ BusInit
  /\ main = "initialize" /\ stopping = None
  /\ ebRunning = FALSE /\ ebThread = "none" /\ ebWake = FALSE /\ keepAlives = 0
  /\ hRunning = Each(FALSE) /\ hThread = Each("none") /\ hQueue = Each(<<>>)
  /\ posted = <<>> /\ handled = [a \in Arrivals |-> 0]
  /\ lost = {} /\ halfway = {} /\ missed = {} /\ crashes = 0

Main(now, next) == main = now /\ main' = next /\ UNCHANGED stopping
Miss(T) == missed' = missed \cup T

----------------------------------------------------------------------------
(* The main thread: StartEverything and StartSubSystemServers.             *)

(* Mutant: Kafka is started before the subsystems that register with it.   *)
KafkaFirst ==
  [initialize |-> "consumer", consumer |-> "producer", producer |-> "handlers", handlers |-> "bus",
   bus |-> "serving"]

(* SubSystems_, with the event bus at the end.                             *)
After ==
  [initialize |-> "handlers", handlers |-> "consumer", consumer |-> "producer", producer |-> "bus",
   bus |-> "serving"]

Start(stage) == Main(stage, After[stage])

Initialize ==
  /\ Start("initialize")
  /\ RegisterTopicWatcher({Registry})
  /\ UNCHANGED <<kafkaEnabled, producer, broker, eventBus, workers, posted, handled, ends>>

StartHandlers ==
  /\ Start("handlers")
  /\ RegisterTopicWatcher(Handlers)
  /\ hThread' = Each("starting")
  /\ UNCHANGED <<kafkaEnabled, producer, broker, eventBus, hRunning, hQueue, posted, handled, ends>>

(* KafkaManager::Start. *)
StartConsumer ==
  /\ Start("consumer")
  /\ IF kafkaEnabled THEN ConsumerStart ELSE UNCHANGED consumer
  /\ UNCHANGED <<kafkaEnabled, producer, broker, eventBus, workers, posted, handled, ends>>

StartProducer ==
  /\ Start("producer")
  /\ IF kafkaEnabled THEN ProducerStart ELSE UNCHANGED producer
  /\ UNCHANGED <<kafkaEnabled, consumer, broker, eventBus, workers, posted, handled, ends>>

StartEventBus ==
  /\ Start("bus")
  /\ ebThread' = IF kafkaEnabled THEN "starting" ELSE ebThread
  /\ UNCHANGED <<busVars, ebRunning, ebWake, keepAlives, workers, posted, handled, ends>>

Starting == Initialize \/ StartHandlers \/ StartConsumer \/ StartProducer \/ StartEventBus

----------------------------------------------------------------------------
(* waitForTerminationRequest, then StopSubSystemServers.                   *)

Terminate ==
  /\ Main("serving", IF kafkaEnabled THEN "stop bus" ELSE "unregister")
  /\ UNCHANGED <<busVars, eventBus, workers, posted, handled, ends>>

StopEventBus ==
  /\ Main("stop bus", "join bus")
  /\ ebRunning' = FALSE /\ ebWake' = TRUE
  /\ UNCHANGED <<busVars, ebThread, keepAlives, workers, posted, handled, ends>>

JoinEventBus ==
  /\ Main("join bus", "stop producer") /\ ebThread = "ended"
  /\ UNCHANGED <<busVars, eventBus, workers, posted, handled, ends>>

(* KafkaManager::Stop. *)
StopProducer ==
  /\ Main("stop producer", IF pRunning THEN "wake producer" ELSE "stop consumer")
  /\ pRunning' = FALSE
  /\ UNCHANGED <<kafkaEnabled, pQueue, pThread, pNote, consumer, broker, eventBus, workers, posted,
                 handled, ends>>

(* Who is not waiting is not woken: a producer that has not begun sets     *)
(* Running_ again, one at its last note waits for another after it.        *)
Deaf ==
  \/ pThread = "starting"
  \/ pThread \in {"dequeue", "test", "send"} /\ pRunning
  \/ pThread \in {"dequeue", "send"} /\ pQueue = <<>>

WakeProducer ==
  /\ Main("wake producer", "join producer")
  /\ WakeUpAll
  /\ Miss(IF Deaf THEN {"producer"} ELSE {})
  /\ UNCHANGED <<kafkaEnabled, consumer, broker, eventBus, workers, posted, handled, lost, halfway, crashes>>

JoinProducer ==
  /\ Main("join producer", "stop consumer") /\ pThread = "ended"
  /\ UNCHANGED <<busVars, eventBus, workers, posted, handled, ends>>

(* A consumer that has not come to set Running_ is left alone; one that    *)
(* has, but has no dispatcher yet, is not told to stop.                    *)
StopConsumer ==
  /\ Main("stop consumer", IF cRunning THEN "stop dispatcher" ELSE "unregister")
  /\ cRunning' = FALSE
  /\ Miss(IF cThread \in {"starting", "subscribed"} THEN {"consumer"} ELSE {})
  /\ UNCHANGED <<kafkaEnabled, producer, cThread, notifiers, topics, subscribed, dispatcher, cMsg,
                 position, broker, eventBus, workers, posted, handled, lost, halfway, crashes>>

StopTheDispatcher ==
  /\ Main("stop dispatcher", "join consumer")
  /\ StopDispatcher
  /\ Miss(IF dispatcher = "none" THEN {"consumer"} ELSE {})
  /\ UNCHANGED <<kafkaEnabled, producer, broker, eventBus, workers, posted, handled, lost, halfway, crashes>>

JoinConsumer ==
  /\ Main("join consumer", "unregister") /\ cThread = "ended"
  /\ UNCHANGED <<busVars, eventBus, workers, posted, handled, ends>>

(* NewCommandHandler::Stop and NewConnectionHandler::Stop.                 *)
Unregister(h) ==
  /\ main = "unregister" /\ h \in notifiers
  /\ UnregisterTopicWatcher(h)
  /\ main' = "stop handler" /\ stopping' = h
  /\ UNCHANGED <<kafkaEnabled, producer, broker, eventBus, workers, posted, handled, ends>>

(* Mutant: the worker is not told.                                         *)
ForgetHandler ==
  /\ Main("stop handler", "join handler")
  /\ UNCHANGED <<busVars, eventBus, hRunning, hThread, hQueue, posted, handled, ends>>

(* A worker that has not begun sets Running_ again.                        *)
StopHandler ==
  /\ Main("stop handler", "join handler")
  /\ hRunning' = [hRunning EXCEPT ![stopping] = FALSE]
  /\ Miss(IF hThread[stopping] = "starting" THEN {stopping} ELSE {})
  /\ UNCHANGED <<busVars, eventBus, hThread, hQueue, posted, handled, lost, halfway, crashes>>

JoinHandler ==
  /\ main = "join handler" /\ hThread[stopping] = "ended"
  /\ main' = "unregister" /\ stopping' = None
  /\ UNCHANGED <<busVars, eventBus, workers, posted, handled, ends>>

EndMain ==
  /\ Main("unregister", "ended") /\ notifiers \cap Handlers = {}
  /\ UNCHANGED <<busVars, eventBus, workers, posted, handled, ends>>

Stopping ==
  \/ StopEventBus \/ JoinEventBus \/ StopProducer \/ WakeProducer \/ JoinProducer
  \/ StopConsumer \/ StopTheDispatcher \/ JoinConsumer
  \/ StopHandler \/ JoinHandler \/ EndMain
  \/ \E h \in Handlers : Unregister(h)

----------------------------------------------------------------------------
(* EventBusManager::run.  A wake-up that comes before trySleep is kept.    *)

EventBus(now, next) == ebThread = now /\ ebThread' = next

Post(event) == PostMessage(event) /\ posted' = Append(posted, event)

EventBusRun ==
  /\ EventBus("starting", "join")
  /\ ebRunning' = TRUE
  /\ UNCHANGED <<busVars, main, stopping, ebWake, keepAlives, workers, posted, handled, ends>>

PostJoin ==
  /\ EventBus("join", "test")
  /\ Post("JOIN")
  /\ UNCHANGED <<kafkaEnabled, consumer, broker, main, stopping, ebRunning, ebWake, keepAlives, workers,
                 handled, ends>>

TestEventBus ==
  /\ EventBus("test", IF ebRunning THEN "sleep" ELSE "leave")
  /\ UNCHANGED <<busVars, main, stopping, ebRunning, ebWake, keepAlives, workers, posted, handled, ends>>

Sleep ==
  /\ \/ EventBus("sleep", "leave") /\ ebWake /\ ebWake' = FALSE
     \/ EventBus("sleep", "keep") /\ ~ebWake /\ keepAlives < MaxKeepAlives /\ UNCHANGED ebWake
  /\ UNCHANGED <<busVars, main, stopping, ebRunning, keepAlives, workers, posted, handled, ends>>

PostKeepAlive ==
  /\ EventBus("keep", "test")
  /\ Post("KEEP-ALIVE") /\ keepAlives' = keepAlives + 1
  /\ UNCHANGED <<kafkaEnabled, consumer, broker, main, stopping, ebRunning, ebWake, workers, handled, ends>>

PostLeave ==
  /\ EventBus("leave", "ended")
  /\ Post("LEAVE")
  /\ UNCHANGED <<kafkaEnabled, consumer, broker, main, stopping, ebRunning, ebWake, keepAlives, workers,
                 handled, ends>>

EventBusStep == EventBusRun \/ PostJoin \/ TestEventBus \/ Sleep \/ PostKeepAlive \/ PostLeave

----------------------------------------------------------------------------
(* run() of a handler, and the callback that fills its queue.              *)

Worker(h, now, next) == hThread[h] = now /\ hThread' = [hThread EXCEPT ![h] = next]

HandlerRun(h) ==
  /\ Worker(h, "starting", "test")
  /\ hRunning' = [hRunning EXCEPT ![h] = TRUE]
  /\ UNCHANGED <<busVars, main, stopping, eventBus, hQueue, posted, handled, ends>>

TestHandler(h) ==
  /\ Worker(h, "test", IF hRunning[h] THEN "sleep" ELSE "ended")
  /\ UNCHANGED <<busVars, main, stopping, eventBus, hRunning, hQueue, posted, handled, ends>>

(* It wakes after 2 s or when Stop wakes it, and looks at Running_.        *)
SleepHandler(h) ==
  /\ Worker(h, "sleep", IF hRunning[h] THEN "drain" ELSE "ended")
  /\ UNCHANGED <<busVars, main, stopping, eventBus, hRunning, hQueue, posted, handled, ends>>

Handle(h) ==
  /\ Worker(h, "drain", "drain") /\ hQueue[h] # <<>> /\ hRunning[h]
  /\ hQueue' = [hQueue EXCEPT ![h] = Tail(@)]
  /\ handled' = [handled EXCEPT ![[topic |-> h, offset |-> Head(hQueue[h])]] = @ + 1]
  /\ UNCHANGED <<busVars, main, stopping, eventBus, hRunning, posted, ends>>

Drained(h) ==
  /\ Worker(h, "drain", "test") /\ (hQueue[h] = <<>> \/ ~hRunning[h])
  /\ UNCHANGED <<busVars, main, stopping, eventBus, hRunning, hQueue, posted, handled, ends>>

HandlerStep(h) ==
  HandlerRun(h) \/ TestHandler(h) \/ SleepHandler(h) \/ Handle(h) \/ Drained(h)

(* The dispatcher calls ConnectionReceived, CommandReceived or             *)
(* BusMessageReceived; a topic without watcher is passed over.             *)
CallBack ==
  /\ cThread = "call"
  /\ cThread' = "commit"
  /\ LET w == cMsg.topic
     IN /\ hQueue' = IF w \in Handlers \cap notifiers
                        THEN [hQueue EXCEPT ![w] = Append(@, cMsg.offset)] ELSE hQueue
        /\ lost' = IF w \in notifiers THEN lost ELSE lost \cup {cMsg}
        /\ handled' = IF w = Registry /\ w \in notifiers
                         THEN [handled EXCEPT ![cMsg] = @ + 1] ELSE handled
  /\ UNCHANGED <<kafkaEnabled, producer, cRunning, notifiers, topics, subscribed, dispatcher, cMsg,
                 position, broker, main, stopping, eventBus, hRunning, hThread, posted, halfway, missed,
                 crashes>>

----------------------------------------------------------------------------
(* The process dies: its memory is gone, the broker remains.               *)

InQueue == {a \in Arrivals : a.topic \in Handlers /\ Contains(hQueue[a.topic], a.offset)}

Crash ==
  /\ crashes < MaxCrashes /\ crashes' = crashes + 1
  /\ FreshProducer /\ FreshConsumer
  /\ main' = "initialize" /\ stopping' = None
  /\ ebRunning' = FALSE /\ ebThread' = "none" /\ ebWake' = FALSE /\ keepAlives' = 0
  /\ hRunning' = Each(FALSE) /\ hThread' = Each("none") /\ hQueue' = Each(<<>>)
  /\ posted' = <<>> /\ sent' = <<>>
  /\ lost' = lost \cup InQueue
  /\ halfway' = halfway \cup (IF cThread = "commit" THEN {cMsg} ELSE {})
  /\ missed' = {}
  /\ UNCHANGED <<kafkaEnabled, arrived, committed, faults, handled>>

Elsewhere == UNCHANGED <<main, stopping, eventBus, workers, posted, handled, ends>>

Next ==
  \/ Starting \/ Terminate \/ Stopping \/ EventBusStep
  \/ \E h \in Handlers : HandlerStep(h)
  \/ CallBack \/ Crash
  \/ Elsewhere /\ (ProducerStep \/ ConsumerStep \/ \E w \in Watchers : Arrive(w))

Spec == Init /\ [][Next]_vars

(* The operating system runs every thread, and trySleep ends.              *)
FairSpec ==
  /\ Spec
  /\ WF_vars(Starting) /\ WF_vars(Stopping) /\ WF_vars(EventBusStep)
  /\ \A h \in Handlers : WF_vars(HandlerStep(h))
  /\ WF_vars(Elsewhere /\ ProducerStep) /\ WF_vars(CallBack \/ (Elsewhere /\ ConsumerStep))

----------------------------------------------------------------------------
(* Properties. *)

ServiceTypeOK ==
  /\ BusTypeOK
  /\ stopping \in Handlers \cup {None}
  /\ ebThread \in {"none", "starting", "join", "test", "sleep", "keep", "leave", "ended"}
  /\ ebRunning \in BOOLEAN /\ ebWake \in BOOLEAN /\ keepAlives \in 0..MaxKeepAlives
  /\ hRunning \in [Handlers -> BOOLEAN]
  /\ hThread \in [Handlers -> {"none", "starting", "test", "sleep", "drain", "ended"}]
  /\ \A h \in Handlers : Len(hQueue[h]) <= position[h]
  /\ handled \in [Arrivals -> Nat]
  /\ lost \subseteq Arrivals /\ halfway \subseteq Arrivals
  /\ missed \subseteq {"producer", "consumer"} \cup Handlers
  /\ crashes \in 0..MaxCrashes

(* What the consumer subscribed to when its thread began covers every      *)
(* watcher there is: Topics_ is copied once, and only the order of the     *)
(* subsystems makes the handlers register before it.  A message finds its  *)
(* watcher, except in a consumer that outlives the stop.                   *)
EveryTopicIsHeard ==
  /\ cThread \in {"running", "poll", "call", "commit"} => notifiers \subseteq subscribed
  /\ cThread = "call" => cMsg.topic \in notifiers \/ "consumer" \in missed

(* A message whose offset is committed was handled, waits in the queue of  *)
(* its worker or was lost from there in a crash: the commit follows the    *)
(* callbacks, but not the work they queue.                                 *)
CommittedIsSafe ==
  \A a \in Arrivals : a.offset <= committed[a.topic] => handled[a] > 0 \/ a \in InQueue \cup lost

(* A message is handled twice only if a crash came between its callback    *)
(* and its commit.                                                         *)
TwiceOnlyHalfway == \A a \in Arrivals : handled[a] > 1 => a \in halfway

(* The events of a process reach the topic in the order it posted them,    *)
(* JOIN before KEEP-ALIVE before LEAVE, and a stop can only cut off the    *)
(* end: as long as Kafka takes them, none is skipped.                      *)
EventsInOrder == faults = 0 => IsPrefix(sent, posted)

(* After StopSubSystemServers no thread of the process runs, unless the    *)
(* consumer had not come to set Running_ when its Stop looked.             *)
QuietAfterStop ==
  main = "ended" =>
    /\ {pThread, ebThread} \cup {hThread[h] : h \in Handlers} \subseteq {"none", "ended"}
    /\ cThread \in {"none", "ended"} \/ "consumer" \in missed

(* A stop comes to its end, unless a thread was told to stop before it     *)
(* began, or the producer was at its last note when it was woken.          *)
StopEnds ==
  main \notin {"initialize", "handlers", "consumer", "producer", "bus", "serving"}
    ~> main \in {"ended", "initialize"} \/ missed # {}

(* The invariants of the process together: the variables hold what they    *)
(* are meant to, no topic that has a watcher goes unheard, and nothing     *)
(* runs on after the stop.                                                 *)
ServiceInvariant == ServiceTypeOK /\ EveryTopicIsHeard /\ QuietAfterStop

(* Across crashes no message is lost but from a queue, and none is handled *)
(* twice but one that was cut off between callback and commit.             *)
DeliveryAccounted == CommittedIsSafe /\ TwiceOnlyHalfway
============================================================================
