------------------------- MODULE MicroserviceProofs -------------------------
(***************************************************************************)
(* For any number of handlers, messages, keep-alives, faults and crashes:  *)
(* every topic with a watcher is heard, no thread outlives the stop but a  *)
(* consumer that was missed, the events of a process are sent in order,    *)
(* and what is committed on the broker is accounted for.                   *)
(***************************************************************************)
EXTENDS Microservice, FiniteSetTheorems, FunctionTheorems, SequenceTheorems, TLAPS


(* Stages of the main thread. *)
Ahead == {"initialize", "handlers", "consumer", "producer", "bus"}
AfterConsumer == {"unregister", "stop handler", "join handler", "ended"}
AfterProducer == {"stop consumer", "stop dispatcher", "join consumer"} \cup AfterConsumer
AfterBus == {"stop producer", "wake producer", "join producer"} \cup AfterProducer
Winding == {"stop bus", "join bus"} \cup (AfterBus \ AfterConsumer)
Stages == {"serving"} \cup Ahead \cup Winding \cup AfterConsumer

FlagsOK ==
  /\ kafkaEnabled \in BOOLEAN /\ pRunning \in BOOLEAN /\ cRunning \in BOOLEAN
  /\ ebRunning \in BOOLEAN /\ ebWake \in BOOLEAN

PlacesOK ==
  /\ pThread \in {"none", "starting", "dequeue", "waiting", "test", "send", "ended"}
  /\ cThread \in {"none", "starting", "subscribed", "running", "poll", "call", "commit", "ended"}
  /\ dispatcher \in {"none", "there", "stopped"}
  /\ ebThread \in {"none", "starting", "join", "test", "sleep", "keep", "leave", "ended"}
  /\ main \in Stages
  /\ stopping \in Handlers \cup {None}
  /\ hThread \in [Handlers -> {"none", "starting", "test", "sleep", "drain", "ended"}]
  /\ hRunning \in [Handlers -> BOOLEAN]

BoundsOK ==
  /\ faults \in 0..MaxFaults /\ crashes \in 0..MaxCrashes /\ keepAlives \in 0..MaxKeepAlives
  /\ ebThread = "keep" => keepAlives < MaxKeepAlives
  /\ missed \subseteq {"producer", "consumer"} \cup Handlers

(* How far the main thread is says which threads there are.                *)
StageOK ==
  /\ main \in {"initialize", "handlers"} => \A h \in Handlers : hThread[h] = "none"
  /\ main \in {"initialize", "handlers", "consumer"} => cThread = "none"
  /\ main \in Ahead \ {"bus"} => pThread = "none" /\ pRunning = FALSE
  /\ main \in Ahead => ebThread = "none"
  /\ kafkaEnabled = FALSE => pThread = "none" /\ ebThread = "none" /\ cThread = "none"
  /\ main \in Winding => kafkaEnabled = TRUE
  /\ kafkaEnabled = TRUE /\ main \in {"bus", "serving", "stop bus", "join bus", "stop producer"} => pRunning = TRUE
  /\ main \in AfterBus => ebThread \in {"none", "ended"}
  /\ main \in AfterProducer => pThread \in {"none", "ended"}
  /\ main \in AfterConsumer => cThread \in {"none", "ended"} \/ "consumer" \in missed
  /\ main \notin AfterConsumer \cup {"stop dispatcher", "join consumer"} =>
       (cRunning = TRUE <=> cThread \notin {"none", "starting", "subscribed"})

(* A handler that is not registered and not being stopped has no thread,   *)
(* and in the end none is registered.                                      *)
HandlersOK ==
  /\ stopping \in Handlers <=> main \in {"stop handler", "join handler"}
  /\ \A h \in Handlers : h \notin notifiers /\ stopping # h => hThread[h] \in {"none", "ended"}
  /\ main = "ended" => notifiers \cap Handlers = {}

(* Who is registered is subscribed, as soon as the consumer has begun.     *)
TopicsOK ==
  /\ notifiers \subseteq topics /\ topics \subseteq Watchers /\ subscribed \subseteq topics
  /\ main \notin AfterConsumer => topics \subseteq notifiers
  /\ cThread \in {"subscribed", "running", "poll", "call", "commit"} => notifiers \subseteq subscribed
  /\ cThread = "call" => cMsg.topic \in notifiers \/ "consumer" \in missed

(* Every event that was posted has been sent, is in hand or is queued, in  *)
(* that order, until the producer ends.                                    *)
InHand == IF pNote = None THEN <<>> ELSE <<pNote>>
EventsOK ==
  /\ pQueue \in Seq(Events) /\ posted \in Seq(Events) /\ sent \in Seq(Events)
  /\ pNote \in Events \cup {None}
  /\ pThread \in {"none", "starting", "dequeue", "waiting"} => pNote = None
  /\ pThread = "send" => pNote # None
  /\ pThread = "waiting" => pQueue = <<>>
  /\ ~kafkaEnabled => sent = <<>>
  /\ faults = 0 /\ kafkaEnabled /\ pThread # "ended" => posted = (sent \o InHand) \o pQueue
  /\ faults = 0 => \E rest \in Seq(Events) : posted = sent \o rest

(* The one message between poll and commit is the last that was read, and  *)
(* everything read before it is committed.                                 *)
Now(w) == IF cThread \in {"call", "commit"} /\ cMsg.topic = w THEN 1 ELSE 0
Calling(w) == IF cThread = "call" /\ cMsg.topic = w THEN 1 ELSE 0
PositionOK ==
  /\ position \in [Watchers -> Nat] /\ committed \in [Watchers -> Nat] /\ arrived \in [Watchers -> Nat]
  /\ \A w \in Watchers : position[w] <= arrived[w] /\ arrived[w] <= MaxMessages
  /\ \A w \in Watchers : position[w] = committed[w] + Now(w)
  /\ cThread \in {"call", "commit"} => cMsg \in Arrivals /\ cMsg.offset = position[cMsg.topic]
  /\ cThread \notin {"call", "commit"} => cMsg = None

(* What waits for a worker was called back, once in this process.          *)
QueuesOK ==
  /\ hQueue \in [Handlers -> Seq(1..MaxMessages)]
  /\ \A h \in Handlers :
       /\ Len(hQueue[h]) + Calling(h) <= position[h]
       /\ IsInjective(hQueue[h])
       /\ \A i \in DOMAIN hQueue[h] : hQueue[h][i] + Calling(h) <= position[h]

(* What was handled was called back, and waits no more; only a message cut *)
(* off halfway may come again.                                             *)
HandledOK ==
  /\ handled \in [Arrivals -> Nat] /\ lost \subseteq Arrivals /\ halfway \subseteq Arrivals
  /\ \A a \in Arrivals \ halfway : handled[a] > 0 =>
       handled[a] = 1 /\ a \notin InQueue /\ a.offset + Calling(a.topic) <= position[a.topic]
  /\ cThread = "commit" => handled[cMsg] > 0 \/ cMsg \in InQueue \cup lost

(* The inductive invariant. *)
Strong ==
  /\ FlagsOK /\ PlacesOK /\ BoundsOK /\ StageOK /\ HandlersOK /\ TopicsOK
  /\ EventsOK /\ PositionOK /\ QueuesOK /\ HandledOK /\ CommittedIsSafe

----------------------------------------------------------------------------
(* Flags, places and bounds. *)

(* The stage after each stage of the start.                                *)
LEMMA AfterEach ==
  /\ After["initialize"] = "handlers" /\ After["handlers"] = "consumer"
  /\ After["consumer"] = "producer" /\ After["producer"] = "bus" /\ After["bus"] = "serving"
BY DEF After

(* Running_ of the producer, the consumer and the event bus, and its       *)
(* wake-up, stay Boolean.                                                  *)
LEMMA FlagsNext == FlagsOK /\ [Next]_vars => FlagsOK'
<1> SUFFICES ASSUME FlagsOK, [Next]_vars PROVE FlagsOK'
  OBVIOUS
<1>1. CASE UNCHANGED <<kafkaEnabled, pRunning, cRunning, ebRunning, ebWake>>
  BY <1>1 DEF FlagsOK
<1>2. CASE Initialize \/ StartHandlers \/ StartConsumer \/ StartEventBus
  BY <1>1, <1>2 DEF Initialize, StartHandlers, StartConsumer, StartEventBus, RegisterTopicWatcher,
    ConsumerStart, busVars, producer, consumer, eventBus
<1>3. CASE StartProducer
  BY <1>3, Zenon DEF FlagsOK, StartProducer, ProducerStart, producer, consumer, eventBus
<1>4. CASE Terminate \/ JoinEventBus \/ JoinProducer \/ JoinConsumer \/ JoinHandler \/ EndMain
           \/ StopHandler \/ (\E h \in Handlers : Unregister(h))
  BY <1>1, <1>4 DEF Terminate, JoinEventBus, JoinProducer, JoinConsumer, JoinHandler, EndMain,
    StopHandler, Unregister, UnregisterTopicWatcher, busVars, producer, consumer, eventBus
<1>5. CASE StopEventBus \/ StopProducer \/ WakeProducer \/ StopConsumer \/ StopTheDispatcher
  BY <1>5, Zenon DEF FlagsOK, StopEventBus, StopProducer, WakeProducer, WakeUpAll, StopConsumer,
    StopTheDispatcher, StopDispatcher, busVars, producer, consumer, eventBus
<1>6. CASE EventBusRun \/ TestEventBus \/ Sleep
  BY <1>6, Zenon DEF FlagsOK, EventBusRun, TestEventBus, Sleep, busVars, producer, consumer
<1>7. CASE PostJoin \/ PostKeepAlive \/ PostLeave
  BY <1>1, <1>7 DEF PostJoin, PostKeepAlive, PostLeave, Post, PostMessage, Produce, producer, consumer
<1>8. CASE \E h \in Handlers : HandlerStep(h)
  BY <1>1, <1>8 DEF HandlerStep, HandlerRun, TestHandler, SleepHandler, Handle, Drained, busVars,
    producer, consumer, eventBus
<1>9. CASE CallBack
  BY <1>1, <1>9 DEF CallBack, producer, consumer, eventBus
<1>10. CASE Crash
  BY <1>10, Zenon DEF FlagsOK, Crash, FreshProducer, FreshConsumer
<1>11. CASE Elsewhere /\ ProducerStep
  BY <1>11, Zenon DEF FlagsOK, Elsewhere, ProducerStep, ProducerRun, Dequeue, TestNote, Send, consumer,
    eventBus
<1>12. CASE Elsewhere /\ ConsumerStep
  BY <1>12, Zenon DEF FlagsOK, Elsewhere, ConsumerStep, Subscribe, ConsumerRunning, MakeDispatcher,
    Commit, Unsubscribe, Poll, producer, eventBus
<1>13. CASE Elsewhere /\ \E w \in Watchers : Arrive(w)
  BY <1>1, <1>13 DEF Elsewhere, Arrive, producer, consumer, eventBus
<1>14. CASE UNCHANGED vars
  BY <1>1, <1>14 DEF vars, busVars, producer, consumer, eventBus
<1> QED
  BY <1>2, <1>3, <1>4, <1>5, <1>6, <1>7, <1>8, <1>9, <1>10, <1>11, <1>12, <1>13, <1>14
  DEF Next, Starting, Stopping, EventBusStep

(* The threads of a process go through their own stages only.              *)
LEMMA PlacesNext == PlacesOK /\ [Next]_vars => PlacesOK'
<1> SUFFICES ASSUME PlacesOK, [Next]_vars PROVE PlacesOK'
  OBVIOUS
<1> USE DEF PlacesOK
<1>0. {"initialize", "handlers", "consumer", "producer", "bus", "serving", "stop bus", "join bus",
       "stop producer", "wake producer", "join producer", "stop consumer", "stop dispatcher",
       "join consumer", "unregister", "stop handler", "join handler", "ended"} \subseteq Stages
  BY DEF Stages, Ahead, Winding, AfterBus, AfterProducer, AfterConsumer
<1>1. CASE Initialize
  BY <1>0, <1>1, AfterEach DEF Initialize, Start, Main, RegisterTopicWatcher, producer, eventBus, workers
<1>2. CASE StartHandlers
  BY <1>0, <1>2, AfterEach DEF StartHandlers, Start, Main, RegisterTopicWatcher, producer, eventBus, Each
<1>3. CASE StartConsumer
  BY <1>0, <1>3, AfterEach DEF StartConsumer, Start, Main, ConsumerStart, producer, consumer, eventBus, workers
<1>4. CASE StartProducer
  BY <1>0, <1>4, AfterEach DEF StartProducer, Start, Main, ProducerStart, producer, consumer, eventBus, workers
<1>5. CASE StartEventBus
  BY <1>0, <1>5, AfterEach DEF StartEventBus, Start, Main, busVars, producer, consumer, workers
<1>6. CASE Terminate \/ StopEventBus \/ JoinEventBus \/ JoinProducer \/ JoinConsumer \/ EndMain
  <2>1. main' \in Stages /\ stopping' = stopping
    BY <1>0, <1>6 DEF Terminate, StopEventBus, JoinEventBus, JoinProducer, JoinConsumer, EndMain, Main
  <2>2. UNCHANGED <<pThread, cThread, dispatcher, ebThread, hThread, hRunning>>
    BY <1>6 DEF Terminate, StopEventBus, JoinEventBus, JoinProducer, JoinConsumer, EndMain, busVars,
      producer, consumer, eventBus, workers
  <2> QED
    BY <2>1, <2>2
<1>7. CASE StopProducer \/ WakeProducer \/ StopConsumer \/ StopTheDispatcher
  <2>1. main' \in Stages /\ stopping' = stopping
    BY <1>0, <1>7 DEF StopProducer, WakeProducer, StopConsumer, StopTheDispatcher, Main
  <2>2. /\ pThread' \in {pThread, "test"} /\ dispatcher' \in {dispatcher, "stopped"}
        /\ UNCHANGED <<cThread, ebThread, hThread, hRunning>>
    BY <1>7 DEF StopProducer, WakeProducer, WakeUpAll, StopConsumer, StopTheDispatcher, StopDispatcher,
      producer, consumer, eventBus, workers
  <2> QED
    BY <2>1, <2>2
<1>8. CASE StopHandler \/ JoinHandler
  <2>1. main' \in Stages /\ stopping' \in {stopping, None}
    BY <1>0, <1>8 DEF StopHandler, JoinHandler, Main
  <2>2. UNCHANGED <<pThread, cThread, dispatcher, ebThread, hThread>>
    BY <1>8 DEF StopHandler, JoinHandler, busVars, producer, consumer, eventBus, workers
  <2>3. hRunning' \in [Handlers -> BOOLEAN]
    BY <1>8 DEF StopHandler, JoinHandler, workers
  <2> QED
    BY <2>1, <2>2, <2>3
<1>9. ASSUME NEW h \in Handlers, Unregister(h) PROVE PlacesOK'
  BY <1>0, <1>9 DEF Unregister, UnregisterTopicWatcher, producer, consumer, eventBus, workers
<1>10. CASE EventBusRun \/ TestEventBus \/ Sleep
  BY <1>10 DEF EventBusRun, TestEventBus, Sleep, EventBus, busVars, producer, consumer, workers
<1>11. CASE PostJoin \/ PostKeepAlive \/ PostLeave
  <2>1. ebThread' \in {"test", "ended"} /\ pThread' \in {pThread, "test"}
    BY <1>11 DEF PostJoin, PostKeepAlive, PostLeave, EventBus, Post, PostMessage, Produce, producer
  <2>2. UNCHANGED <<cThread, dispatcher, main, stopping, hThread, hRunning>>
    BY <1>11 DEF PostJoin, PostKeepAlive, PostLeave, consumer, workers
  <2> QED
    BY <2>1, <2>2
<1>12. ASSUME NEW h \in Handlers, HandlerStep(h) PROVE PlacesOK'
  <2>1. /\ hThread' \in [Handlers -> {"none", "starting", "test", "sleep", "drain", "ended"}]
        /\ hRunning' \in [Handlers -> BOOLEAN]
    BY <1>12 DEF HandlerStep, HandlerRun, TestHandler, SleepHandler, Handle, Drained, Worker
  <2>2. UNCHANGED <<pThread, cThread, dispatcher, ebThread, main, stopping>>
    BY <1>12 DEF HandlerStep, HandlerRun, TestHandler, SleepHandler, Handle, Drained, busVars, producer,
      consumer, eventBus
  <2> QED
    BY <2>1, <2>2
<1>13. CASE CallBack
  BY <1>13 DEF CallBack, producer, eventBus
<1>14. CASE Crash
  BY <1>0, <1>14 DEF Crash, FreshProducer, FreshConsumer, Each
<1>15. CASE Elsewhere /\ (ProducerStep \/ ConsumerStep \/ \E w \in Watchers : Arrive(w))
  <2>1. UNCHANGED <<main, stopping, ebThread, hThread, hRunning>>
    BY <1>15 DEF Elsewhere, eventBus, workers
  <2>2. CASE ProducerStep
    BY <2>1, <2>2 DEF ProducerStep, ProducerRun, Dequeue, TestNote, Send, consumer
  <2>3. CASE ConsumerStep
    BY <2>1, <2>3 DEF ConsumerStep, Subscribe, ConsumerRunning, MakeDispatcher, Commit, Unsubscribe, Poll,
      producer
  <2>4. CASE \E w \in Watchers : Arrive(w)
    BY <2>1, <2>4 DEF Arrive, producer, consumer
  <2> QED
    BY <1>15, <2>2, <2>3, <2>4
<1>16. CASE UNCHANGED vars
  BY <1>16 DEF vars, busVars, producer, consumer, eventBus, workers
<1> QED
  BY <1>1, <1>2, <1>3, <1>4, <1>5, <1>6, <1>7, <1>8, <1>9, <1>10, <1>11, <1>12, <1>13, <1>14, <1>15,
     <1>16
  DEF Next, Starting, Stopping, EventBusStep

(* Nothing is counted past its bound, and only threads are missed.         *)
LEMMA BoundsNext == PlacesOK /\ HandlersOK /\ BoundsOK /\ [Next]_vars => BoundsOK'
<1> SUFFICES ASSUME PlacesOK, HandlersOK, BoundsOK, [Next]_vars PROVE BoundsOK'
  OBVIOUS
<1>0. /\ MaxFaults \in Nat /\ MaxCrashes \in Nat /\ MaxKeepAlives \in Nat
      /\ faults \in 0..MaxFaults /\ crashes \in 0..MaxCrashes /\ keepAlives \in 0..MaxKeepAlives
  BY MicroserviceAssumption DEF BoundsOK
<1>1. faults' \in 0..MaxFaults
  <2>1. faults' = faults \/ (faults < MaxFaults /\ faults' = faults + 1)
    BY DEF Next, Starting, Initialize, StartHandlers, StartConsumer, StartProducer, StartEventBus,
      Terminate, Stopping, StopEventBus, JoinEventBus, StopProducer, WakeProducer, JoinProducer,
      StopConsumer, StopTheDispatcher, JoinConsumer, StopHandler, JoinHandler, EndMain, Unregister,
      EventBusStep, EventBusRun, PostJoin, TestEventBus, Sleep, PostKeepAlive, PostLeave, HandlerStep,
      HandlerRun, TestHandler, SleepHandler, Handle, Drained, CallBack, Crash, ProducerStep, ProducerRun,
      Dequeue, TestNote, Send, ConsumerStep, Subscribe, ConsumerRunning, MakeDispatcher, Commit,
      Unsubscribe, Poll, Arrive, vars, busVars, broker
  <2> QED
    BY <1>0, <2>1
<1>2. crashes' \in 0..MaxCrashes
  <2>1. crashes' = crashes \/ (crashes < MaxCrashes /\ crashes' = crashes + 1)
    BY DEF Next, Starting, Initialize, StartHandlers, StartConsumer, StartProducer, StartEventBus,
      Terminate, Stopping, StopEventBus, JoinEventBus, StopProducer, WakeProducer, JoinProducer,
      StopConsumer, StopTheDispatcher, JoinConsumer, StopHandler, JoinHandler, EndMain, Unregister,
      EventBusStep, EventBusRun, PostJoin, TestEventBus, Sleep, PostKeepAlive, PostLeave, HandlerStep,
      HandlerRun, TestHandler, SleepHandler, Handle, Drained, CallBack, Crash, Elsewhere, vars, ends
  <2> QED
    BY <1>0, <2>1
<1>3. keepAlives' \in 0..MaxKeepAlives /\ (ebThread' = "keep" => keepAlives' < MaxKeepAlives)
  <2>1. CASE Sleep
    BY <1>0, <2>1 DEF Sleep, EventBus
  <2>2. CASE PostKeepAlive
    <3>1. keepAlives' = keepAlives + 1 /\ ebThread = "keep" /\ ebThread' = "test"
      BY <2>2 DEF PostKeepAlive, EventBus
    <3> QED
      BY <1>0, <3>1 DEF BoundsOK
  <2>3. CASE Crash
    BY <1>0, <2>3 DEF Crash
  <2>4. CASE ~Sleep /\ ~PostKeepAlive /\ ~Crash
    <3>1. keepAlives' = keepAlives /\ (ebThread' = ebThread \/ ebThread' # "keep")
      BY <2>4 DEF Next, Starting, Initialize, StartHandlers, StartConsumer, StartProducer, StartEventBus,
        Terminate, Stopping, StopEventBus, JoinEventBus, StopProducer, WakeProducer, JoinProducer,
        StopConsumer, StopTheDispatcher, JoinConsumer, StopHandler, JoinHandler, EndMain, Unregister,
        EventBusStep, EventBusRun, PostJoin, TestEventBus, PostLeave, EventBus, HandlerStep,
        HandlerRun, TestHandler, SleepHandler, Handle, Drained, CallBack, Elsewhere, vars, eventBus
    <3> QED
      BY <1>0, <3>1 DEF BoundsOK
  <2> QED
    BY <2>1, <2>2, <2>3, <2>4
<1>4. missed' \subseteq {"producer", "consumer"} \cup Handlers
  <2>1. CASE StopHandler
    <3>1. stopping \in Handlers
      BY <2>1 DEF StopHandler, Main, HandlersOK
    <3> QED
      BY <2>1, <3>1 DEF StopHandler, Miss, BoundsOK
  <2>2. missed' \subseteq missed \cup {"producer", "consumer"} \/ StopHandler
    BY DEF Next, Starting, Initialize, StartHandlers, StartConsumer, StartProducer, StartEventBus,
      Terminate, Stopping, StopEventBus, JoinEventBus, StopProducer, WakeProducer, JoinProducer,
      StopConsumer, StopTheDispatcher, JoinConsumer, JoinHandler, EndMain, Unregister, Miss,
      EventBusStep, EventBusRun, PostJoin, TestEventBus, Sleep, PostKeepAlive, PostLeave, HandlerStep,
      HandlerRun, TestHandler, SleepHandler, Handle, Drained, CallBack, Crash, Elsewhere, vars, ends
  <2> QED
    BY <2>1, <2>2 DEF BoundsOK
<1> QED
  BY <1>1, <1>2, <1>3, <1>4 DEF BoundsOK

----------------------------------------------------------------------------
(* What the threads do while the main thread stands still. *)

StageVars == <<kafkaEnabled, main, stopping, notifiers, missed>>

(* The event bus may hand a note to a producer that waits; it begins no    *)
(* thread and ends only its own.                                           *)
LEMMA EventBusMoves ==
  ASSUME EventBusStep
  PROVE  /\ UNCHANGED <<StageVars, hThread, cThread, cRunning, pRunning>>
         /\ ebThread \notin {"none", "ended"} /\ ebThread' # "none"
         /\ pThread' = pThread \/ (pThread = "waiting" /\ pThread' = "test")
<1>1. CASE EventBusRun \/ TestEventBus \/ Sleep
  BY <1>1 DEF EventBusRun, TestEventBus, Sleep, EventBus, StageVars, busVars, producer, consumer, workers, ends
<1>2. CASE PostJoin \/ PostKeepAlive \/ PostLeave
  BY <1>2 DEF PostJoin, PostKeepAlive, PostLeave, EventBus, Post, PostMessage, Produce, StageVars, producer,
    consumer, workers, ends
<1> QED
  BY <1>1, <1>2 DEF EventBusStep

(* The worker of a handler moves only itself, once it was started.         *)
LEMMA HandlerMoves ==
  ASSUME PlacesOK, NEW h \in Handlers, HandlerStep(h)
  PROVE  /\ UNCHANGED <<StageVars, cThread, cRunning, pThread, pRunning, ebThread>>
         /\ hThread[h] \notin {"none", "ended"}
         /\ \A g \in Handlers \ {h} : hThread'[g] = hThread[g]
<1>1. UNCHANGED <<StageVars, cThread, cRunning, pThread, pRunning, ebThread>>
  BY DEF HandlerStep, HandlerRun, TestHandler, SleepHandler, Handle, Drained, StageVars, busVars, producer,
    consumer, eventBus, ends
<1>2. hThread[h] \notin {"none", "ended"} /\ \E next : hThread' = [hThread EXCEPT ![h] = next]
  BY DEF HandlerStep, HandlerRun, TestHandler, SleepHandler, Handle, Drained, Worker
<1> QED
  BY <1>1, <1>2 DEF PlacesOK

(* The producer moves only itself, once it was started, and may set its    *)
(* Running_.                                                               *)
LEMMA ProducerMoves ==
  ASSUME Elsewhere, ProducerStep
  PROVE  /\ UNCHANGED <<StageVars, hThread, cThread, cRunning, ebThread>>
         /\ pThread \notin {"none", "ended"} /\ pThread' # "none"
         /\ pRunning' = pRunning \/ pRunning' = TRUE
BY DEF Elsewhere, ProducerStep, ProducerRun, Dequeue, TestNote, Send, StageVars, consumer, eventBus, workers, ends

(* The consumer, its callbacks included, moves only itself, once it was    *)
(* started, and sets Running_ when it has subscribed.                      *)
LEMMA ConsumerMoves ==
  ASSUME CallBack \/ (Elsewhere /\ ConsumerStep)
  PROVE  /\ UNCHANGED <<StageVars, topics, hThread, pThread, pRunning, ebThread>>
         /\ cThread \notin {"none", "ended"} /\ cThread' # "none"
         /\ \/ cRunning' = cRunning
               /\ (cThread' \in {"none", "starting", "subscribed"}
                     <=> cThread \in {"none", "starting", "subscribed"})
            \/ cRunning' = TRUE /\ cThread' = "running"
<1>1. CASE CallBack
  BY <1>1 DEF CallBack, StageVars, producer, eventBus
<1>2. CASE Elsewhere /\ ConsumerStep
  BY <1>2 DEF Elsewhere, ConsumerStep, Subscribe, ConsumerRunning, MakeDispatcher, Commit, Unsubscribe,
    Poll, StageVars, producer, eventBus, workers, ends
<1> QED
  BY <1>1, <1>2

(* The stages, one by one. *)
LEMMA StagesAre ==
  /\ Ahead = {"initialize", "handlers", "consumer", "producer", "bus"}
  /\ AfterConsumer = {"unregister", "stop handler", "join handler", "ended"}
  /\ AfterProducer = {"stop consumer", "stop dispatcher", "join consumer", "unregister", "stop handler",
                      "join handler", "ended"}
  /\ AfterBus = {"stop producer", "wake producer", "join producer", "stop consumer", "stop dispatcher",
                 "join consumer", "unregister", "stop handler", "join handler", "ended"}
  /\ Winding = {"stop bus", "join bus", "stop producer", "wake producer", "join producer",
                "stop consumer", "stop dispatcher", "join consumer"}
BY DEF Ahead, AfterConsumer, AfterProducer, AfterBus, Winding

(* What the main thread waits for before it goes on keeps the threads to   *)
(* its stage.                                                              *)
LEMMA StageNext == FlagsOK /\ PlacesOK /\ StageOK /\ [Next]_vars => StageOK'
<1> SUFFICES ASSUME FlagsOK, PlacesOK, StageOK, [Next]_vars PROVE StageOK'
  OBVIOUS
<1> USE StagesAre DEF StageOK
<1>1. CASE EventBusStep
  BY <1>1, EventBusMoves DEF StageVars
<1>2. ASSUME NEW h \in Handlers, HandlerStep(h) PROVE StageOK'
  BY <1>2, HandlerMoves DEF StageVars
<1>3. CASE Elsewhere /\ ProducerStep
  BY <1>3, ProducerMoves DEF StageVars
<1>4. CASE CallBack \/ (Elsewhere /\ ConsumerStep)
  BY <1>4, ConsumerMoves DEF StageVars
<1>5. CASE (Elsewhere /\ \E w \in Watchers : Arrive(w)) \/ UNCHANGED vars
  <2>1. UNCHANGED <<StageVars, hThread, cThread, cRunning, pThread, pRunning, ebThread>>
    BY <1>5 DEF Elsewhere, Arrive, StageVars, vars, busVars, producer, consumer, eventBus, workers, ends
  <2> QED
    BY <2>1 DEF StageVars
<1>6. CASE Crash
  BY <1>6 DEF Crash, FreshProducer, FreshConsumer, Each
<1>7. CASE Initialize
  BY <1>7, AfterEach DEF Initialize, Start, Main, RegisterTopicWatcher, producer, eventBus, workers, ends
<1>8. CASE StartHandlers
  BY <1>8, AfterEach DEF StartHandlers, Start, Main, RegisterTopicWatcher, producer, eventBus, ends
<1>9. CASE StartConsumer
  BY <1>9, AfterEach DEF StartConsumer, Start, Main, ConsumerStart, producer, consumer, eventBus, workers, ends
<1>10. CASE StartProducer
  BY <1>10, AfterEach DEF StartProducer, Start, Main, ProducerStart, producer, consumer, eventBus, workers, ends
<1>11. CASE StartEventBus
  BY <1>11, AfterEach DEF StartEventBus, Start, Main, busVars, producer, consumer, workers, ends
<1>12. CASE Terminate
  <2>1. UNCHANGED <<kafkaEnabled, missed, hThread, cThread, cRunning, pThread, pRunning, ebThread>>
    BY <1>12 DEF Terminate, busVars, producer, consumer, eventBus, workers, ends
  <2>2. CASE kafkaEnabled = TRUE
    <3>1. main = "serving" /\ main' = "stop bus"
      BY <1>12, <2>2 DEF Terminate, Main
    <3> QED
      BY <2>1, <2>2, <3>1
  <2>3. CASE kafkaEnabled = FALSE
    <3>1. main = "serving" /\ main' = "unregister"
      BY <1>12, <2>3 DEF Terminate, Main
    <3> QED
      BY <2>1, <2>3, <3>1
  <2> QED
    BY <2>2, <2>3 DEF FlagsOK
<1>13. CASE StopEventBus \/ JoinEventBus
  BY <1>13 DEF StopEventBus, JoinEventBus, Main, busVars, producer, consumer, eventBus, workers, ends
<1>14. CASE StopProducer
  BY <1>14 DEF StopProducer, Main, consumer, eventBus, workers, ends
<1>15. CASE WakeProducer
  BY <1>15 DEF WakeProducer, WakeUpAll, Main, Miss, consumer, eventBus, workers
<1>16. CASE JoinProducer
  BY <1>16 DEF JoinProducer, Main, busVars, producer, consumer, eventBus, workers, ends
<1>17. CASE StopConsumer
  BY <1>17 DEF StopConsumer, Main, Miss, producer, consumer, eventBus, workers
<1>18. CASE StopTheDispatcher
  BY <1>18 DEF StopTheDispatcher, StopDispatcher, Main, Miss, producer, eventBus, workers
<1>19. CASE JoinConsumer
  BY <1>19 DEF JoinConsumer, Main, busVars, producer, consumer, eventBus, workers, ends
<1>20. ASSUME NEW h \in Handlers, Unregister(h) PROVE StageOK'
  BY <1>20 DEF Unregister, UnregisterTopicWatcher, producer, consumer, eventBus, workers, ends
<1>21. CASE StopHandler
  BY <1>21 DEF StopHandler, Main, Miss, busVars, producer, consumer, eventBus
<1>22. CASE JoinHandler \/ EndMain
  BY <1>22 DEF JoinHandler, EndMain, Main, busVars, producer, consumer, eventBus, workers, ends
<1> QED
  BY <1>1, <1>2, <1>3, <1>4, <1>5, <1>6, <1>7, <1>8, <1>9, <1>10, <1>11, <1>12, <1>13, <1>14, <1>15,
     <1>16, <1>17, <1>18, <1>19, <1>20, <1>21, <1>22
  DEF Next, Starting, Stopping

(* A handler runs while it is registered or being stopped, and the stop    *)
(* ends when none is left.                                                 *)
LEMMA HandlersNext == PlacesOK /\ StageOK /\ HandlersOK /\ [Next]_vars => HandlersOK'
<1> SUFFICES ASSUME PlacesOK, StageOK, HandlersOK, [Next]_vars PROVE HandlersOK'
  OBVIOUS
<1> USE StagesAre DEF HandlersOK
<1>0. None \notin Handlers
  BY MicroserviceAssumption
<1>1. ASSUME UNCHANGED <<stopping, notifiers, hThread>>,
             main' \in {"stop handler", "join handler"} <=> main \in {"stop handler", "join handler"},
             main' = "ended" => main = "ended" \/ notifiers \cap Handlers = {}
      PROVE  HandlersOK'
  BY <1>1
<1>2. CASE EventBusStep
  BY <1>1, <1>2, EventBusMoves DEF StageVars
<1>3. ASSUME NEW h \in Handlers, HandlerStep(h) PROVE HandlersOK'
  BY <1>3, HandlerMoves DEF StageVars
<1>4. CASE Elsewhere /\ ProducerStep
  BY <1>1, <1>4, ProducerMoves DEF StageVars
<1>5. CASE CallBack \/ (Elsewhere /\ ConsumerStep)
  BY <1>1, <1>5, ConsumerMoves DEF StageVars
<1>6. CASE (Elsewhere /\ \E w \in Watchers : Arrive(w)) \/ UNCHANGED vars
  BY <1>1, <1>6 DEF Elsewhere, Arrive, vars, busVars, consumer, workers
<1>7. CASE Crash
  BY <1>0, <1>7 DEF Crash, Each
<1>8. CASE Initialize
  <2>1. main = "initialize" /\ main' = "handlers" /\ UNCHANGED <<stopping, hThread>>
    BY <1>8, AfterEach DEF Initialize, Start, Main, workers
  <2> QED
    BY <2>1 DEF StageOK
<1>9. CASE StartHandlers
  <2>1. /\ main = "handlers" /\ main' = "consumer" /\ stopping' = stopping
        /\ notifiers' = notifiers \cup Handlers
    BY <1>9, AfterEach DEF StartHandlers, Start, Main, RegisterTopicWatcher
  <2> QED
    BY <2>1
<1>10. CASE StartConsumer \/ StartProducer \/ StartEventBus
  <2>1. /\ main' \notin {"stop handler", "join handler", "ended"}
        /\ main \notin {"stop handler", "join handler"}
    BY <1>10, AfterEach DEF StartConsumer, StartProducer, StartEventBus, Start, Main
  <2>2. UNCHANGED <<stopping, notifiers, hThread>>
    BY <1>10 DEF StartConsumer, StartProducer, StartEventBus, Start, Main, ConsumerStart, busVars, consumer,
      workers
  <2> QED
    BY <1>1, <2>1, <2>2
<1>11. CASE Terminate \/ StopEventBus \/ JoinEventBus \/ StopProducer \/ WakeProducer \/ JoinProducer
            \/ StopConsumer \/ StopTheDispatcher \/ JoinConsumer \/ EndMain
  <2>1. /\ main' \notin {"stop handler", "join handler"} /\ main \notin {"stop handler", "join handler"}
        /\ main' = "ended" => notifiers \cap Handlers = {}
    BY <1>11 DEF Terminate, StopEventBus, JoinEventBus, StopProducer, WakeProducer, JoinProducer,
      StopConsumer, StopTheDispatcher, JoinConsumer, EndMain, Main
  <2>2. UNCHANGED <<stopping, notifiers, hThread>>
    BY <1>11 DEF Terminate, StopEventBus, JoinEventBus, StopProducer, WakeProducer, JoinProducer,
      StopConsumer, StopTheDispatcher, StopDispatcher, JoinConsumer, EndMain, Main, busVars, consumer, workers
  <2> QED
    BY <1>1, <2>1, <2>2
<1>12. ASSUME NEW h \in Handlers, Unregister(h) PROVE HandlersOK'
  <2>1. /\ main = "unregister" /\ main' = "stop handler" /\ stopping' = h
        /\ notifiers' = notifiers \ {h} /\ hThread' = hThread
    BY <1>12 DEF Unregister, UnregisterTopicWatcher, workers
  <2>2. stopping \notin Handlers
    BY <2>1
  <2> QED
    BY <1>12, <2>1, <2>2
<1>13. CASE StopHandler
  BY <1>1, <1>13 DEF StopHandler, Main, busVars, consumer
<1>14. CASE JoinHandler
  BY <1>0, <1>14 DEF JoinHandler, busVars, consumer, workers
<1> QED
  BY <1>2, <1>3, <1>4, <1>5, <1>6, <1>7, <1>8, <1>9, <1>10, <1>11, <1>12, <1>13, <1>14
  DEF Next, Starting, Stopping

(* The topics are all there when the consumer begins, and it hears them    *)
(* until it is stopped.                                                    *)
LEMMA TopicsNext == PlacesOK /\ StageOK /\ PositionOK /\ TopicsOK /\ [Next]_vars => TopicsOK'
<1> SUFFICES ASSUME PlacesOK, StageOK, PositionOK, TopicsOK, [Next]_vars PROVE TopicsOK'
  OBVIOUS
<1> USE StagesAre DEF TopicsOK
<1>0. Watchers = Handlers \cup {Registry}
  BY MicroserviceAssumption
<1>1. ASSUME UNCHANGED <<notifiers, topics, subscribed, cThread, cMsg>>, missed \subseteq missed',
             main \in AfterConsumer => main' \in AfterConsumer
      PROVE  TopicsOK'
  BY <1>1
<1>2. CASE EventBusStep
  BY <1>1, <1>2 DEF EventBusStep, EventBusRun, PostJoin, TestEventBus, Sleep, PostKeepAlive, PostLeave,
    busVars, consumer, ends
<1>3. CASE \E h \in Handlers : HandlerStep(h)
  BY <1>1, <1>3 DEF HandlerStep, HandlerRun, TestHandler, SleepHandler, Handle, Drained, busVars, consumer, ends
<1>4. CASE Elsewhere /\ (ProducerStep \/ \E w \in Watchers : Arrive(w))
  BY <1>1, <1>4 DEF Elsewhere, ProducerStep, ProducerRun, Dequeue, TestNote, Send, Arrive, consumer, ends
<1>5. CASE UNCHANGED vars
  BY <1>1, <1>5 DEF vars, busVars, consumer, ends
<1>6. CASE CallBack
  BY <1>6 DEF CallBack
<1>7. CASE Elsewhere /\ (Subscribe \/ ConsumerRunning \/ MakeDispatcher \/ Commit \/ Unsubscribe)
  BY <1>7 DEF Elsewhere, Subscribe, ConsumerRunning, MakeDispatcher, Commit, Unsubscribe, ends
<1>8. ASSUME NEW w \in Watchers, Elsewhere, Poll(w) PROVE TopicsOK'
  <2>1. /\ UNCHANGED <<main, missed, notifiers, topics, subscribed>> /\ w \in subscribed
        /\ cThread = "poll" /\ cThread' = "call" /\ cMsg'.topic = w
    BY <1>8 DEF Elsewhere, Poll, ends
  <2>2. w \in notifiers \/ "consumer" \in missed
    BY <2>1 DEF StageOK
  <2> QED
    BY <2>1, <2>2
<1>9. CASE Crash
  BY <1>9 DEF Crash, FreshConsumer
<1>10. CASE Initialize \/ StartHandlers
  <2>1. PICK W \in SUBSET Watchers :
          notifiers' = notifiers \cup W /\ topics' = topics \cup W
    BY <1>0, <1>10 DEF Initialize, StartHandlers, RegisterTopicWatcher
  <2>2. /\ UNCHANGED <<subscribed, cThread, cMsg>> /\ main \in {"initialize", "handlers"}
    BY <1>10 DEF Initialize, StartHandlers, RegisterTopicWatcher, Start, Main
  <2>3. cThread = "none"
    BY <2>2 DEF StageOK
  <2>4. main \notin AfterConsumer
    BY <2>2
  <2> QED
    BY <2>1, <2>2, <2>3, <2>4
<1>11. CASE StartConsumer \/ StartProducer \/ StartEventBus
  <2>1. main' \notin AfterConsumer /\ main \notin AfterConsumer
    BY <1>11, AfterEach DEF StartConsumer, StartProducer, StartEventBus, Start, Main
  <2>2. UNCHANGED <<notifiers, topics, subscribed, cMsg, missed>> /\ cThread' \in {cThread, "starting"}
    BY <1>11 DEF StartConsumer, StartProducer, StartEventBus, Start, Main, ConsumerStart, busVars, consumer, ends
  <2> QED
    BY <2>1, <2>2
<1>12. CASE Terminate \/ StopEventBus \/ JoinEventBus \/ StopProducer \/ WakeProducer \/ JoinProducer
            \/ StopConsumer \/ StopTheDispatcher \/ JoinConsumer
  <2>1. main \notin AfterConsumer
    BY <1>12 DEF Terminate, StopEventBus, JoinEventBus, StopProducer, WakeProducer, JoinProducer,
      StopConsumer, StopTheDispatcher, JoinConsumer, Main
  <2>2. UNCHANGED <<notifiers, topics, subscribed, cThread, cMsg>> /\ missed \subseteq missed'
    BY <1>12 DEF Terminate, StopEventBus, JoinEventBus, StopProducer, WakeProducer, JoinProducer,
      StopConsumer, StopTheDispatcher, StopDispatcher, JoinConsumer, Miss, busVars, consumer, ends
  <2> QED
    BY <1>1, <2>1, <2>2
<1>13. CASE StopHandler \/ JoinHandler \/ EndMain
  <2>1. main' \in AfterConsumer
    BY <1>13 DEF StopHandler, JoinHandler, EndMain, Main
  <2>2. UNCHANGED <<notifiers, topics, subscribed, cThread, cMsg>> /\ missed \subseteq missed'
    BY <1>13 DEF StopHandler, JoinHandler, EndMain, Miss, busVars, consumer, ends
  <2> QED
    BY <1>1, <2>1, <2>2
<1>14. ASSUME NEW h \in Handlers, Unregister(h) PROVE TopicsOK'
  <2>1. /\ main' = "stop handler" /\ cThread # "call" /\ notifiers' = notifiers \ {h}
        /\ UNCHANGED <<cThread, topics, subscribed>>
    BY <1>14 DEF Unregister, UnregisterTopicWatcher
  <2> QED
    BY <2>1
<1> QED
  BY <1>2, <1>3, <1>4, <1>5, <1>6, <1>7, <1>8, <1>9, <1>10, <1>11, <1>12, <1>13, <1>14
  DEF Next, Starting, Stopping, ConsumerStep

----------------------------------------------------------------------------
(* The events. *)

(* One note more in the queue, one taken from it, one sent: what is sent,  *)
(* in hand and queued stays the same sequence.                             *)
LEMMA NotePosted ==
  ASSUME NEW s \in Seq(Events), NEW q \in Seq(Events), NEW n \in Events
  PROVE  Append(s \o q, n) = s \o Append(q, n)
<1>1. s \o q \in Seq(Events) /\ <<n>> \in Seq(Events)
  BY ConcatProperties
<1>2. Append(s \o q, n) = (s \o q) \o <<n>>
  BY <1>1, AppendIsConcat
<1>3. Append(q, n) = q \o <<n>>
  BY AppendIsConcat
<1> QED
  BY <1>1, <1>2, <1>3, ConcatAssociative

(* Taking the first note of the queue in hand leaves the order of the      *)
(* notes.                                                                  *)
LEMMA NoteTaken ==
  ASSUME NEW s \in Seq(Events), NEW q \in Seq(Events), q # <<>>
  PROVE  (s \o <<>>) \o q = (s \o <<Head(q)>>) \o Tail(q)
<1>1. Head(q) \in Events /\ Tail(q) \in Seq(Events) /\ <<Head(q)>> \in Seq(Events)
  BY HeadTailProperties
<1>2. q = <<Head(q)>> \o Tail(q)
  <2>1. <<Head(q)>> \o Tail(q) \in Seq(Events)
    BY <1>1, ConcatProperties
  <2>2. Len(Tail(q)) = Len(q) - 1 /\ Len(q) \in Nat \ {0} /\ Len(<<Head(q)>>) = 1
    BY HeadTailProperties, EmptySeq
  <2>3. Len(<<Head(q)>> \o Tail(q)) = Len(q)
    BY <1>1, <2>2, ConcatProperties
  <2>4. ASSUME NEW i \in 1..Len(q) PROVE q[i] = (<<Head(q)>> \o Tail(q))[i]
    <3>1. CASE i = 1
      BY <1>1, <2>2, <3>1, ConcatProperties
    <3>2. CASE i # 1
      <4>1. (<<Head(q)>> \o Tail(q))[i] = Tail(q)[i - 1]
        BY <1>1, <2>2, <3>2, ConcatProperties
      <4>2. i - 1 \in 1..Len(Tail(q))
        BY <2>2, <3>2
      <4>3. Tail(q)[i - 1] = q[(i - 1) + 1]
        BY <4>2, HeadTailProperties
      <4> QED
        BY <2>2, <4>1, <4>3
    <3> QED
      BY <3>1, <3>2
  <2> QED
    BY <2>1, <2>3, <2>4, SeqEqual
<1>3. s \o <<>> = s
  BY ConcatEmptySeq
<1> QED
  BY <1>1, <1>2, <1>3, ConcatAssociative

(* So does sending the note in hand.                                       *)
LEMMA NoteSent ==
  ASSUME NEW s \in Seq(Events), NEW q \in Seq(Events), NEW n \in Events
  PROVE  /\ Append(s, n) \in Seq(Events)
         /\ (Append(s, n) \o <<>>) \o q = (s \o <<n>>) \o q
         /\ (s \o <<n>>) \o q = Append(s, n) \o q
<1>1. Append(s, n) \in Seq(Events) /\ Append(s, n) = s \o <<n>>
  BY AppendProperties, AppendIsConcat
<1> QED
  BY <1>1, ConcatEmptySeq

(* What follows what was sent makes it a prefix.                           *)
LEMMA PrefixOfConcat ==
  ASSUME NEW s \in Seq(Events), NEW r \in Seq(Events)
  PROVE  IsPrefix(s, s \o r)
<1>1. Len(s) \in Nat /\ Len(r) \in Nat /\ Len(s \o r) = Len(s) + Len(r) /\ s \o r \in Seq(Events)
  BY LenProperties, ConcatProperties
<1>2. SubSeq(s, 1, Len(s)) = s
  BY SubSeqFull
<1>3. CASE Len(s) = 0
  BY <1>1, <1>3, SubSeqEmpty DEF IsPrefix
<1>4. CASE Len(s) # 0
  <2>1. 1 \in 1..Len(s) /\ Len(s) \in 1..Len(s)
    BY <1>1, <1>4
  <2>2. SubSeq(s \o r, 1, Len(s)) = SubSeq(s, 1, Len(s))
    BY <2>1, SubSeqOfConcat1
  <2> QED
    BY <1>1, <2>2 DEF IsPrefix
<1> QED
  BY <1>3, <1>4

EventVars == <<kafkaEnabled, pQueue, pNote, posted, sent, faults>>

(* Posting, taking and sending keep the order of the events.               *)
LEMMA EventsNext ==
  ASSUME FlagsOK, PlacesOK, BoundsOK, StageOK, EventsOK, [Next]_vars
  PROVE  EventsOK'
<1>0. /\ faults \in Nat /\ None \notin Events
      /\ pQueue \in Seq(Events) /\ posted \in Seq(Events) /\ sent \in Seq(Events)
      /\ pNote \in Events \cup {None} /\ InHand \in Seq(Events)
      /\ <<>> \in Seq(Events) /\ sent \o <<>> = sent /\ (sent \o <<>>) \o <<>> = sent
  <2>1. faults \in Nat /\ None \notin Events
    BY MicroserviceAssumption DEF BoundsOK
  <2>2. sent \o <<>> = sent /\ (sent \o <<>>) \o <<>> = sent
    BY ConcatEmptySeq DEF EventsOK
  <2> QED
    BY <2>1, <2>2 DEF EventsOK, InHand
<1>1. ASSUME UNCHANGED EventVars,
             pThread' = pThread \/ (pThread = "none" /\ pThread' = "starting")
      PROVE  EventsOK'
  BY <1>1 DEF EventsOK, EventVars, InHand
<1>2. CASE Starting
  <2>1. UNCHANGED EventVars /\ (StartProducer \/ pThread' = pThread)
    BY <1>2 DEF Starting, Initialize, StartHandlers, StartConsumer, StartProducer, StartEventBus,
      ProducerStart, RegisterTopicWatcher, ConsumerStart, EventVars, busVars, producer, broker
  <2>2. CASE StartProducer
    <3>1. main = "producer"
      BY <2>2 DEF StartProducer, Start, Main
    <3>2. pThread = "none"
      BY <3>1, StagesAre DEF StageOK
    <3>3. pThread' \in {pThread, "starting"}
      BY <2>2 DEF StartProducer, ProducerStart, producer
    <3> QED
      BY <1>1, <2>1, <3>2, <3>3
  <2> QED
    BY <1>1, <2>1, <2>2
<1>3. CASE Terminate \/ StopEventBus \/ JoinEventBus \/ StopProducer \/ JoinProducer \/ StopConsumer
           \/ StopTheDispatcher \/ JoinConsumer \/ StopHandler \/ JoinHandler \/ EndMain
           \/ \E h \in Handlers : Unregister(h)
  BY <1>1, <1>3 DEF Terminate, StopEventBus, JoinEventBus, StopProducer, JoinProducer, StopConsumer,
    StopTheDispatcher, JoinConsumer, StopHandler, JoinHandler, EndMain, Unregister, EventVars, busVars,
    producer, broker
<1>4. CASE EventBusRun \/ TestEventBus \/ Sleep \/ (\E h \in Handlers : HandlerStep(h)) \/ CallBack
           \/ UNCHANGED vars \/ (Elsewhere /\ (ConsumerStep \/ \E w \in Watchers : Arrive(w)))
  BY <1>1, <1>4 DEF EventBusRun, TestEventBus, Sleep, HandlerStep, HandlerRun, TestHandler, SleepHandler,
    Handle, Drained, CallBack, vars, Elsewhere, ConsumerStep, Subscribe, ConsumerRunning, MakeDispatcher,
    Commit, Unsubscribe, Poll, Arrive, EventVars, busVars, producer, broker
<1>5. CASE WakeProducer
  <2>1. /\ UNCHANGED <<kafkaEnabled, pQueue, posted, sent, faults>>
        /\ IF pThread = "waiting" THEN pNote' = None /\ pThread' = "test" ELSE UNCHANGED <<pNote, pThread>>
    BY <1>5 DEF WakeProducer, WakeUpAll, broker
  <2>2. InHand' = InHand
    BY <2>1 DEF InHand, EventsOK
  <2> QED
    BY <2>1, <2>2 DEF EventsOK
<1>6. ASSUME NEW note \in Events, PostMessage(note), posted' = Append(posted, note),
             UNCHANGED <<kafkaEnabled, sent, faults>>
      PROVE  EventsOK'
  <2>1. posted' \in Seq(Events)
    BY <1>0, <1>6, AppendProperties
  <2>2. faults = 0 => \E rest \in Seq(Events) : posted' = sent \o rest
    <3> SUFFICES ASSUME faults = 0 PROVE \E rest \in Seq(Events) : posted' = sent \o rest
      OBVIOUS
    <3>1. PICK rest \in Seq(Events) : posted = sent \o rest
      BY DEF EventsOK
    <3>2. Append(rest, note) \in Seq(Events) /\ posted' = sent \o Append(rest, note)
      BY <1>0, <1>6, <3>1, NotePosted, AppendProperties
    <3> QED
      BY <3>2
  <2>3. CASE ~kafkaEnabled
    BY <1>6, <2>1, <2>2, <2>3 DEF EventsOK, PostMessage, producer, InHand
  <2>4. CASE kafkaEnabled /\ pThread = "waiting"
    <3>1. pNote' = note /\ pThread' = "test" /\ pQueue' = pQueue
      BY <1>6, <2>4 DEF PostMessage, Produce
    <3>2. pNote = None /\ pQueue = <<>>
      BY <2>4 DEF EventsOK
    <3>3. InHand = <<>> /\ InHand' = <<note>> /\ note # None
      BY <1>0, <3>1, <3>2 DEF InHand
    <3>4. faults = 0 => posted' = (sent \o <<note>>) \o <<>>
      <4> SUFFICES ASSUME faults = 0 PROVE posted' = (sent \o <<note>>) \o <<>>
        OBVIOUS
      <4>1. posted = sent
        BY <1>0, <2>4, <3>2, <3>3 DEF EventsOK
      <4>2. sent \o <<note>> = Append(sent, note) /\ Append(sent, note) \in Seq(Events)
        BY <1>0, AppendIsConcat, AppendProperties
      <4> QED
        BY <1>6, <4>1, <4>2, ConcatEmptySeq
    <3> QED
      BY <1>0, <1>6, <2>1, <2>2, <2>4, <3>1, <3>2, <3>3, <3>4 DEF EventsOK
  <2>5. CASE kafkaEnabled /\ pThread # "waiting"
    <3>1. pQueue' = Append(pQueue, note) /\ UNCHANGED <<pNote, pThread>>
      BY <1>6, <2>5 DEF PostMessage, Produce
    <3>2. InHand' = InHand /\ pQueue' \in Seq(Events)
      BY <1>0, <3>1, AppendProperties DEF InHand
    <3>3. sent \o InHand \in Seq(Events)
      BY <1>0, ConcatProperties
    <3>4. Append((sent \o InHand) \o pQueue, note) = (sent \o InHand) \o pQueue'
      BY <1>0, <3>1, <3>3, NotePosted
    <3> QED
      BY <1>6, <2>1, <2>2, <2>5, <3>1, <3>2, <3>4 DEF EventsOK
  <2> QED
    BY <2>3, <2>4, <2>5
<1>7. CASE PostJoin \/ PostKeepAlive \/ PostLeave
  <2>1. PICK note \in Events : PostMessage(note) /\ posted' = Append(posted, note)
    BY <1>7 DEF PostJoin, PostKeepAlive, PostLeave, Post, Events
  <2>2. UNCHANGED <<kafkaEnabled, sent, faults>>
    BY <1>7 DEF PostJoin, PostKeepAlive, PostLeave, broker
  <2> QED
    BY <1>6, <2>1, <2>2
<1>8. CASE Elsewhere /\ (ProducerRun \/ TestNote)
  <2>1. UNCHANGED EventVars
    BY <1>8 DEF Elsewhere, ProducerRun, TestNote, EventVars, broker
  <2>2. CASE ProducerRun
    <3>1. pThread = "starting" /\ pThread' = "dequeue" /\ pNote = None /\ InHand' = InHand
      BY <2>1, <2>2 DEF ProducerRun, EventsOK, EventVars, InHand
    <3> QED
      BY <2>1, <3>1 DEF EventsOK, EventVars
  <2>3. CASE TestNote
    <3>1. pThread = "test" /\ ((pThread' = "send" /\ pNote # None) \/ pThread' = "ended")
      BY <2>3 DEF TestNote
    <3> QED
      BY <2>1, <3>1 DEF EventsOK, EventVars, InHand
  <2> QED
    BY <1>8, <2>2, <2>3
<1>9. CASE Elsewhere /\ Dequeue
  <2>1. /\ UNCHANGED <<kafkaEnabled, posted, sent, faults>> /\ pThread = "dequeue" /\ pNote = None
        /\ InHand = <<>>
    BY <1>9 DEF Elsewhere, Dequeue, broker, EventsOK, InHand
  <2>2. CASE pQueue = <<>>
    <3>1. pThread' = "waiting" /\ UNCHANGED <<pQueue, pNote>>
      BY <1>9, <2>2 DEF Dequeue
    <3> QED
      BY <2>1, <2>2, <3>1 DEF EventsOK, InHand
  <2>3. CASE pQueue # <<>>
    <3>1. pNote' = Head(pQueue) /\ pQueue' = Tail(pQueue) /\ pThread' = "test"
      BY <1>9, <2>3 DEF Dequeue
    <3>2. Head(pQueue) \in Events /\ Tail(pQueue) \in Seq(Events)
      BY <1>0, <2>3, HeadTailProperties
    <3>3. InHand' = <<Head(pQueue)>>
      BY <1>0, <3>1, <3>2 DEF InHand
    <3>4. (sent \o InHand) \o pQueue = (sent \o InHand') \o pQueue'
      BY <1>0, <2>1, <2>3, <3>1, <3>3, NoteTaken
    <3> QED
      BY <2>1, <3>1, <3>2, <3>4 DEF EventsOK
  <2> QED
    BY <2>2, <2>3
<1>10. CASE Elsewhere /\ Send
  <2>1. /\ UNCHANGED <<kafkaEnabled, posted, pQueue>> /\ pThread = "send" /\ pThread' = "dequeue"
        /\ pNote' = None /\ pNote # None
        /\ \/ sent' = Append(sent, pNote) /\ faults' = faults
           \/ faults' = faults + 1 /\ sent' = sent
    <3>1. UNCHANGED <<kafkaEnabled, posted, pQueue>>
      BY <1>10 DEF Elsewhere, Send
    <3>2. pThread = "send" /\ pThread' = "dequeue" /\ pNote' = None
      BY <1>10 DEF Send
    <3>3. \/ sent' = Append(sent, pNote) /\ faults' = faults
          \/ faults' = faults + 1 /\ sent' = sent
      BY <1>10 DEF Send
    <3> QED
      BY <3>1, <3>2, <3>3 DEF EventsOK
  <2>2. InHand' = <<>> /\ InHand = <<pNote>> /\ pNote \in Events /\ kafkaEnabled
    BY <1>0, <2>1 DEF InHand, StageOK, FlagsOK
  <2>3. sent' \in Seq(Events)
    <3>1. Append(sent, pNote) \in Seq(Events)
      BY <1>0, <2>2, AppendProperties
    <3> QED
      BY <1>0, <2>1, <3>1
  <2>4. CASE faults' = 0
    <3>1. faults = 0 /\ sent' = Append(sent, pNote)
      BY <1>0, <2>1, <2>4
    <3>2. posted = (sent \o <<pNote>>) \o pQueue
      BY <2>1, <2>2, <3>1 DEF EventsOK
    <3>3. posted' = (sent' \o <<>>) \o pQueue /\ posted' = sent' \o pQueue
      BY <1>0, <2>1, <2>2, <3>1, <3>2, NoteSent
    <3> QED
      BY <1>0, <2>1, <2>2, <2>3, <3>3 DEF EventsOK
  <2>5. CASE faults' # 0
    BY <1>0, <2>1, <2>2, <2>3, <2>5 DEF EventsOK
  <2> QED
    BY <2>4, <2>5
<1>11. CASE Crash
  <2>1. /\ pQueue' = <<>> /\ posted' = <<>> /\ sent' = <<>> /\ pNote' = None /\ pThread' = "none"
    BY <1>11 DEF Crash, FreshProducer
  <2>2. InHand' = <<>> /\ <<>> = (<<>> \o <<>>) \o <<>> /\ <<>> = <<>> \o <<>>
    BY <1>0, <2>1, ConcatEmptySeq DEF InHand
  <2> QED
    BY <1>0, <2>1, <2>2 DEF EventsOK
<1> QED
  BY <1>2, <1>3, <1>4, <1>5, <1>7, <1>8, <1>9, <1>10, <1>11 DEF Next, Stopping, EventBusStep, ProducerStep

----------------------------------------------------------------------------
(* The messages. *)

DeliveryVars == <<cMsg, position, committed, arrived, hQueue, handled, lost, halfway>>
Delivery ==
  \/ CallBack \/ Crash \/ (Elsewhere /\ Commit)
  \/ \E h \in Handlers : Handle(h)
  \/ \E w \in Watchers : Elsewhere /\ (Poll(w) \/ Arrive(w))

(* Every other step leaves the messages where they are.                    *)
LEMMA DeliveryMoves ==
  ASSUME StageOK, [Next]_vars, ~Delivery
  PROVE  /\ UNCHANGED DeliveryVars
         /\ cThread' = cThread \/ (cThread \notin {"call", "commit"} /\ cThread' \notin {"call", "commit"})
<1>1. CASE Starting
  <2>1. UNCHANGED DeliveryVars /\ (cThread' = cThread \/ (StartConsumer /\ cThread' = "starting"))
    BY <1>1 DEF Starting, Initialize, StartHandlers, StartConsumer, StartProducer, StartEventBus,
      RegisterTopicWatcher, ConsumerStart, DeliveryVars, busVars, producer, consumer, broker, workers, ends
  <2>2. ASSUME StartConsumer PROVE cThread \notin {"call", "commit"}
    BY <2>2 DEF StageOK, StartConsumer, Start, Main
  <2> QED
    BY <2>1, <2>2
<1>2. CASE Terminate \/ Stopping
  BY <1>2 DEF Terminate, Stopping, StopEventBus, JoinEventBus, StopProducer, WakeProducer, JoinProducer,
    StopConsumer, StopTheDispatcher, StopDispatcher, JoinConsumer, StopHandler, JoinHandler, EndMain,
    Unregister, UnregisterTopicWatcher, DeliveryVars, busVars, consumer, broker, workers, ends
<1>3. CASE EventBusStep
  BY <1>3 DEF EventBusStep, EventBusRun, TestEventBus, Sleep, PostJoin, PostKeepAlive, PostLeave,
    DeliveryVars, busVars, consumer, broker, workers, ends
<1>4. CASE \E h \in Handlers : HandlerStep(h)
  BY <1>4 DEF HandlerStep, HandlerRun, TestHandler, SleepHandler, Drained, Delivery, DeliveryVars,
    busVars, consumer, broker, ends
<1>5. CASE Elsewhere /\ ProducerStep
  BY <1>5 DEF Elsewhere, ProducerStep, ProducerRun, Dequeue, TestNote, Send, DeliveryVars, consumer, broker,
    workers, ends
<1>6. CASE Elsewhere /\ (Subscribe \/ ConsumerRunning \/ MakeDispatcher \/ Unsubscribe)
  BY <1>6 DEF Elsewhere, Subscribe, ConsumerRunning, MakeDispatcher, Unsubscribe, DeliveryVars, broker,
    workers, ends
<1>7. CASE UNCHANGED vars
  BY <1>7 DEF vars, DeliveryVars, busVars, consumer, broker, workers, ends
<1> QED
  BY <1>1, <1>2, <1>3, <1>4, <1>5, <1>6, <1>7 DEF Next, ConsumerStep, Delivery

(* No more messages arrive on a topic than there are.                      *)
LEMMA ArrivalsBounded ==
  ASSUME NEW w \in Watchers, arrived[w] \in Nat, arrived[w] <= MaxMessages,
         Cardinality(Arrived) < MaxMessages
  PROVE  arrived[w] < MaxMessages
<1> DEFINE all == 1..MaxMessages
           f == [i \in all |-> [topic |-> w, offset |-> i]]
           g == [a \in Arrivals |-> <<a.topic, a.offset>>]
<1>1. MaxMessages \in Nat /\ IsFiniteSet(Watchers)
  <2>1. IsFiniteSet(Handlers \cup {Registry})
    BY MicroserviceAssumption, FS_AddElement
  <2> QED
    BY <2>1, MicroserviceAssumption
<1>2. IsFiniteSet(all) /\ Cardinality(all) = MaxMessages
  BY <1>1, FS_Interval
<1>3. IsFiniteSet(Watchers \X all)
  BY <1>1, <1>2, FS_Product
<1>4. g \in Injection(Arrivals, Watchers \X all)
  <2>1. g \in [Arrivals -> Watchers \X all]
    BY DEF Arrivals
  <2>2. \A a, b \in Arrivals : g[a] = g[b] => a = b
    BY DEF Arrivals
  <2> QED
    BY <2>1, <2>2, Fun_IsInj
<1>5. IsFiniteSet(Arrivals)
  BY <1>3, <1>4, FS_Injection
<1>6. IsFiniteSet(Arrived)
  <2>1. Arrived \in SUBSET Arrivals
    BY DEF Arrived
  <2> QED
    BY <1>5, <2>1, FS_Subset
<1>7. SUFFICES ASSUME arrived[w] = MaxMessages PROVE FALSE
  BY <1>1
<1>8. f \in Injection(all, Arrived)
  <2>1. f \in [all -> Arrived]
    BY <1>7, <1>1 DEF Arrived, Arrivals
  <2>2. \A i, j \in all : f[i] = f[j] => i = j
    <3> TAKE i, j \in all
    <3>1. f[i].offset = i /\ f[j].offset = j
      OBVIOUS
    <3> QED
      BY <3>1
  <2> QED
    BY <2>1, <2>2, Fun_IsInj
<1>9. Cardinality(all) <= Cardinality(Arrived) /\ Cardinality(Arrived) \in Nat
  BY <1>6, <1>8, FS_Injection, FS_CardinalityType
<1> QED
  BY <1>1, <1>2, <1>9

(* The consumer reads one message at a time, and commits it before the     *)
(* next.                                                                   *)
LEMMA PositionNext ==
  ASSUME PlacesOK, StageOK, TopicsOK, PositionOK, [Next]_vars
  PROVE  PositionOK'
<1>0. /\ position \in [Watchers -> Nat] /\ committed \in [Watchers -> Nat] /\ arrived \in [Watchers -> Nat]
      /\ \A w \in Watchers : position[w] <= arrived[w] /\ arrived[w] <= MaxMessages
      /\ \A w \in Watchers : position[w] = committed[w] + Now(w)
      /\ MaxMessages \in Nat /\ None \notin Watchers
  BY MicroserviceAssumption DEF PositionOK
<1>1. CASE ~Delivery
  <2>1. UNCHANGED DeliveryVars
    BY <1>1, DeliveryMoves
  <2>2. cThread' \in {"call", "commit"} <=> cThread \in {"call", "commit"}
    BY <1>1, DeliveryMoves
  <2> QED
    BY <2>1, <2>2 DEF PositionOK, Now, DeliveryVars
<1>2. CASE CallBack
  <2>1. /\ UNCHANGED <<cMsg, position, committed, arrived>> /\ cThread = "call" /\ cThread' = "commit"
    BY <1>2 DEF CallBack, broker
  <2> QED
    BY <2>1 DEF PositionOK, Now
<1>3. CASE Crash
  <2>1. /\ UNCHANGED <<committed, arrived>> /\ position' = committed /\ cMsg' = None /\ cThread' = "none"
    BY <1>3 DEF Crash, FreshConsumer
  <2>2. \A w \in Watchers : committed[w] <= position[w] /\ Now(w)' = 0
    BY <1>0, <2>1 DEF Now
  <2> QED
    BY <1>0, <2>1, <2>2 DEF PositionOK
<1>4. CASE Elsewhere /\ Commit
  <2>1. /\ UNCHANGED <<position, arrived>> /\ cThread = "commit" /\ cThread' = "poll" /\ cMsg' = None
        /\ committed' = [committed EXCEPT ![cMsg.topic] = cMsg.offset]
    BY <1>4 DEF Elsewhere, Commit
  <2>2. cMsg.topic \in Watchers /\ cMsg.offset = position[cMsg.topic]
    BY <2>1 DEF PositionOK, Arrivals
  <2>3. committed' \in [Watchers -> Nat]
    BY <1>0, <2>1, <2>2
  <2>4. \A w \in Watchers : position[w] = committed'[w] /\ Now(w)' = 0
    BY <1>0, <2>1, <2>2 DEF Now
  <2> QED
    BY <1>0, <2>1, <2>3, <2>4 DEF PositionOK
<1>5. ASSUME NEW h \in Handlers, Handle(h) PROVE PositionOK'
  <2>1. UNCHANGED <<cThread, cMsg, position, committed, arrived>>
    BY <1>5 DEF Handle, busVars, consumer, broker
  <2> QED
    BY <2>1 DEF PositionOK, Now
<1>6. ASSUME NEW w \in Watchers, Elsewhere, Poll(w) PROVE PositionOK'
  <2>1. /\ UNCHANGED <<committed, arrived>> /\ cThread = "poll" /\ cThread' = "call"
        /\ position[w] < arrived[w] /\ position' = [position EXCEPT ![w] = @ + 1]
        /\ cMsg' = [topic |-> w, offset |-> position[w] + 1]
    BY <1>6 DEF Poll, broker
  <2>2. position' \in [Watchers -> Nat] /\ position'[w] = position[w] + 1
        /\ \A v \in Watchers \ {w} : position'[v] = position[v]
    BY <1>0, <2>1
  <2>3. cMsg' \in Arrivals /\ cMsg'.topic = w /\ cMsg'.offset = position'[w]
    BY <1>0, <2>1, <2>2 DEF Arrivals
  <2>4. \A v \in Watchers : Now(v) = 0 /\ Now(v)' = IF v = w THEN 1 ELSE 0
    BY <2>1, <2>3 DEF Now
  <2> QED
    BY <1>0, <2>1, <2>2, <2>3, <2>4 DEF PositionOK
<1>7. ASSUME NEW w \in Watchers, Elsewhere, Arrive(w) PROVE PositionOK'
  <2>1. /\ UNCHANGED <<position, committed, cThread, cMsg>> /\ arrived' = [arrived EXCEPT ![w] = @ + 1]
        /\ Cardinality(Arrived) < MaxMessages
    BY <1>7 DEF Arrive, consumer
  <2>2. arrived[w] < MaxMessages
    BY <1>0, <2>1, ArrivalsBounded
  <2>3. /\ arrived' \in [Watchers -> Nat]
        /\ \A v \in Watchers : position[v] <= arrived'[v] /\ arrived'[v] <= MaxMessages
    BY <1>0, <2>1, <2>2
  <2> QED
    BY <1>0, <2>1, <2>3 DEF PositionOK, Now
<1> QED
  BY <1>1, <1>2, <1>3, <1>4, <1>5, <1>6, <1>7 DEF Delivery

(* A message queued for a worker comes behind the others, once.            *)
LEMMA QueueAppend ==
  ASSUME NEW q \in Seq(1..MaxMessages), NEW n \in 1..MaxMessages
  PROVE  /\ Append(q, n) \in Seq(1..MaxMessages) /\ Len(Append(q, n)) = Len(q) + 1 /\ Len(q) \in Nat
         /\ \A m : Contains(Append(q, n), m) <=> Contains(q, m) \/ m = n
         /\ \A i \in DOMAIN Append(q, n) : Append(q, n)[i] = n \/ \E j \in DOMAIN q : Append(q, n)[i] = q[j]
         /\ IsInjective(q) /\ (\A i \in DOMAIN q : q[i] # n) => IsInjective(Append(q, n))
<1>1. /\ DOMAIN q = 1..Len(q) /\ Len(q) \in Nat
      /\ DOMAIN Append(q, n) = 1..(Len(q) + 1)
      /\ Append(q, n) \in Seq(1..MaxMessages) /\ Len(Append(q, n)) = Len(q) + 1
  BY LenProperties, AppendProperties
<1>2. \A i \in 1..(Len(q) + 1) : Append(q, n)[i] = IF i = Len(q) + 1 THEN n ELSE q[i]
  BY <1>1, AppendProperties
<1>3. ASSUME NEW m PROVE Contains(Append(q, n), m) <=> Contains(q, m) \/ m = n
  BY <1>1, <1>2 DEF Contains
<1>4. ASSUME IsInjective(q), \A i \in DOMAIN q : q[i] # n PROVE IsInjective(Append(q, n))
  <2> SUFFICES ASSUME NEW i \in 1..(Len(q) + 1), NEW j \in 1..(Len(q) + 1),
                      Append(q, n)[i] = Append(q, n)[j]
               PROVE  i = j
    BY <1>1 DEF IsInjective
  <2> QED
    BY <1>1, <1>2, <1>4 DEF IsInjective
<1>5. \A i \in DOMAIN Append(q, n) : Append(q, n)[i] = n \/ \E j \in DOMAIN q : Append(q, n)[i] = q[j]
  BY <1>1, <1>2
<1> QED
  BY <1>1, <1>3, <1>4, <1>5

(* The worker takes the first, and leaves the others.                      *)
LEMMA QueueTail ==
  ASSUME NEW q \in Seq(1..MaxMessages), q # <<>>, IsInjective(q)
  PROVE  /\ Tail(q) \in Seq(1..MaxMessages) /\ Len(Tail(q)) < Len(q) /\ Len(q) \in Nat /\ Len(Tail(q)) \in Nat
         /\ Head(q) \in 1..MaxMessages
         /\ \E j \in DOMAIN q : Head(q) = q[j]
         /\ \A m : Contains(Tail(q), m) <=> Contains(q, m) /\ m # Head(q)
         /\ \A i \in DOMAIN Tail(q) : \E j \in DOMAIN q : Tail(q)[i] = q[j]
         /\ IsInjective(Tail(q))
<1>1. /\ DOMAIN q = 1..Len(q) /\ Len(q) \in Nat \ {0}
      /\ Tail(q) \in Seq(1..MaxMessages) /\ Len(Tail(q)) = Len(q) - 1
      /\ DOMAIN Tail(q) = 1..(Len(q) - 1)
      /\ \A i \in 1..(Len(q) - 1) : Tail(q)[i] = q[i + 1]
      /\ Head(q) \in 1..MaxMessages
  BY LenProperties, HeadTailProperties, EmptySeq
<1>2. Head(q) = q[1]
  OBVIOUS
<1>3. ASSUME NEW m PROVE Contains(Tail(q), m) <=> Contains(q, m) /\ m # Head(q)
  <2>1. ASSUME Contains(Tail(q), m) PROVE Contains(q, m) /\ m # Head(q)
    <3>1. PICK i \in 1..(Len(q) - 1) : Tail(q)[i] = m
      BY <1>1, <2>1 DEF Contains
    <3>2. q[i + 1] = m /\ i + 1 \in 1..Len(q) /\ i + 1 # 1 /\ 1 \in 1..Len(q)
      BY <1>1, <3>1
    <3>3. m # q[1]
      BY <1>1, <3>2 DEF IsInjective
    <3> QED
      BY <1>2, <3>2, <3>3 DEF Contains
  <2>2. ASSUME Contains(q, m), m # Head(q) PROVE Contains(Tail(q), m)
    <3>1. PICK i \in 1..Len(q) : q[i] = m
      BY <2>2 DEF Contains
    <3>2. i - 1 \in 1..(Len(q) - 1) /\ (i - 1) + 1 = i
      BY <1>1, <1>2, <2>2, <3>1
    <3>3. Tail(q)[i - 1] = m
      BY <1>1, <3>1, <3>2
    <3> QED
      BY <1>1, <3>2, <3>3 DEF Contains
  <2> QED
    BY <2>1, <2>2
<1>4. \A i \in DOMAIN Tail(q) : \E j \in DOMAIN q : Tail(q)[i] = q[j]
  BY <1>1
<1>5. IsInjective(Tail(q))
  BY <1>1 DEF IsInjective
<1>6. Len(Tail(q)) < Len(q) /\ Len(Tail(q)) \in Nat
  BY <1>1
<1> QED
  BY <1>1, <1>2, <1>3, <1>4, <1>5, <1>6

(* Callbacks come in the order of the offsets, so no message is queued     *)
(* twice.                                                                  *)
LEMMA QueuesNext ==
  ASSUME PlacesOK, StageOK, TopicsOK, PositionOK, QueuesOK, [Next]_vars
  PROVE  QueuesOK'
<1>0. /\ position \in [Watchers -> Nat] /\ Handlers \subseteq Watchers /\ MaxMessages \in Nat
      /\ hQueue \in [Handlers -> Seq(1..MaxMessages)]
      /\ \A h \in Handlers : Len(hQueue[h]) \in Nat
      /\ \A h \in Handlers : \A i \in DOMAIN hQueue[h] : hQueue[h][i] \in 1..MaxMessages
  <2>1. hQueue \in [Handlers -> Seq(1..MaxMessages)]
    BY DEF QueuesOK
  <2>2. \A h \in Handlers : Len(hQueue[h]) \in Nat /\ DOMAIN hQueue[h] = 1..Len(hQueue[h])
    BY <2>1, LenProperties
  <2>3. \A h \in Handlers : \A i \in DOMAIN hQueue[h] : hQueue[h][i] \in 1..MaxMessages
    BY <2>1, <2>2, ElementOfSeq
  <2> QED
    BY <2>1, <2>2, <2>3, MicroserviceAssumption DEF PositionOK
<1>00. \A h \in Handlers :
         /\ Len(hQueue[h]) + Calling(h) <= position[h]
         /\ IsInjective(hQueue[h])
         /\ \A i \in DOMAIN hQueue[h] : hQueue[h][i] + Calling(h) <= position[h]
  BY DEF QueuesOK
<1>1. ASSUME UNCHANGED <<hQueue, position>>, \A h \in Handlers : Calling(h)' = Calling(h) PROVE QueuesOK'
  BY <1>1 DEF QueuesOK
<1>2. CASE ~Delivery
  <2>1. UNCHANGED DeliveryVars /\ (cThread = "call" <=> cThread' = "call")
    BY <1>2, DeliveryMoves
  <2> QED
    BY <1>1, <2>1 DEF DeliveryVars, Calling
<1>3. CASE Elsewhere /\ (Commit \/ \E w \in Watchers : Arrive(w))
  BY <1>1, <1>3 DEF Elsewhere, Commit, Arrive, workers, consumer, Calling
<1>4. CASE CallBack
  <2>1. cMsg \in Arrivals /\ cMsg.offset = position[cMsg.topic] /\ cMsg.offset \in 1..MaxMessages
    BY <1>4 DEF CallBack, PositionOK, Arrivals
  <2>2. /\ position' = position /\ cThread = "call" /\ cThread' = "commit"
        /\ hQueue' = IF cMsg.topic \in Handlers \cap notifiers
                     THEN [hQueue EXCEPT ![cMsg.topic] = Append(@, cMsg.offset)] ELSE hQueue
    BY <1>4 DEF CallBack
  <2>3. \A h \in Handlers : Calling(h)' = 0 /\ Calling(h) = IF cMsg.topic = h THEN 1 ELSE 0
    BY <2>2 DEF Calling
  <2>4. ASSUME NEW h \in Handlers, cMsg.topic = h, h \in notifiers
        PROVE  /\ hQueue'[h] = Append(hQueue[h], cMsg.offset)
               /\ hQueue'[h] \in Seq(1..MaxMessages)
               /\ Len(hQueue'[h]) <= position[h]
               /\ IsInjective(hQueue'[h])
               /\ \A i \in DOMAIN hQueue'[h] : hQueue'[h][i] <= position[h]
    <3>1. hQueue'[h] = Append(hQueue[h], cMsg.offset)
      BY <1>0, <2>2, <2>4
    <3>2. Calling(h) = 1 /\ cMsg.offset = position[h] /\ position[h] \in Nat
      BY <1>0, <2>1, <2>3, <2>4
    <3>3. \A i \in DOMAIN hQueue[h] : hQueue[h][i] # cMsg.offset /\ hQueue[h][i] <= position[h]
      BY <1>0, <1>00, <3>2
    <3>4. hQueue'[h] \in Seq(1..MaxMessages) /\ Len(hQueue'[h]) = Len(hQueue[h]) + 1
      BY <1>0, <2>1, <3>1, QueueAppend
    <3>5. IsInjective(hQueue'[h])
      BY <1>0, <1>00, <2>1, <3>1, <3>3, QueueAppend
    <3>6. ASSUME NEW i \in DOMAIN hQueue'[h] PROVE hQueue'[h][i] <= position[h]
      <4>1. hQueue'[h][i] = cMsg.offset \/ \E j \in DOMAIN hQueue[h] : hQueue'[h][i] = hQueue[h][j]
        BY <1>0, <2>1, <3>1, QueueAppend
      <4> QED
        BY <3>2, <3>3, <4>1
    <3>7. Len(hQueue'[h]) <= position[h]
      BY <1>0, <1>00, <3>2, <3>4
    <3> QED
      BY <3>1, <3>4, <3>5, <3>6, <3>7
  <2>5. ASSUME NEW h \in Handlers, ~(cMsg.topic = h /\ h \in notifiers)
        PROVE  hQueue'[h] = hQueue[h]
    BY <1>0, <2>2, <2>5
  <2>6. hQueue' \in [Handlers -> Seq(1..MaxMessages)]
    <3>1. DOMAIN hQueue' = Handlers /\ hQueue' = [h \in Handlers |-> hQueue'[h]]
      BY <1>0, <2>2
    <3>2. \A h \in Handlers : hQueue'[h] \in Seq(1..MaxMessages)
      BY <1>0, <2>4, <2>5
    <3> QED
      BY <3>1, <3>2
  <2>7. ASSUME NEW h \in Handlers
        PROVE  /\ Len(hQueue'[h]) <= position[h] /\ IsInjective(hQueue'[h])
               /\ \A i \in DOMAIN hQueue'[h] : hQueue'[h][i] <= position[h]
    <3>1. CASE cMsg.topic = h /\ h \in notifiers
      BY <2>4, <3>1
    <3>2. CASE ~(cMsg.topic = h /\ h \in notifiers)
      <4>1. Calling(h) \in {0, 1} /\ position[h] \in Nat
        BY <1>0, <2>3
      <4> QED
        BY <1>0, <1>00, <2>5, <3>2, <4>1
    <3> QED
      BY <3>1, <3>2
  <2>8. \A h \in Handlers : Len(hQueue'[h]) \in Nat /\ \A i \in DOMAIN hQueue'[h] : hQueue'[h][i] \in Nat
    <3> TAKE h \in Handlers
    <3>1. hQueue'[h] \in Seq(1..MaxMessages)
      BY <2>6
    <3>2. Len(hQueue'[h]) \in Nat /\ DOMAIN hQueue'[h] = 1..Len(hQueue'[h])
      BY <3>1, LenProperties
    <3>3. \A i \in DOMAIN hQueue'[h] : hQueue'[h][i] \in 1..MaxMessages
      BY <3>1, <3>2, ElementOfSeq
    <3> QED
      BY <1>0, <3>2, <3>3
  <2> QED
    BY <1>0, <2>2, <2>3, <2>6, <2>7, <2>8 DEF QueuesOK
<1>5. CASE Crash
  <2>1. hQueue' = [h \in Handlers |-> <<>>] /\ cThread' = "none" /\ position' = committed
    BY <1>5 DEF Crash, FreshConsumer, Each
  <2>2. \A h \in Handlers : Calling(h)' = 0 /\ position'[h] \in Nat
    BY <1>0, <2>1 DEF Calling, PositionOK
  <2>3. <<>> \in Seq(1..MaxMessages) /\ Len(<<>>) = 0 /\ DOMAIN <<>> = {} /\ IsInjective(<<>>)
    BY DEF IsInjective
  <2> QED
    BY <2>1, <2>2, <2>3 DEF QueuesOK
<1>6. ASSUME NEW h \in Handlers, Handle(h) PROVE QueuesOK'
  <2>1. /\ UNCHANGED <<position, cThread, cMsg>> /\ hQueue[h] # <<>>
        /\ hQueue' = [hQueue EXCEPT ![h] = Tail(@)]
    BY <1>6 DEF Handle, busVars, consumer
  <2>2. /\ Tail(hQueue[h]) \in Seq(1..MaxMessages) /\ IsInjective(Tail(hQueue[h]))
        /\ Len(Tail(hQueue[h])) < Len(hQueue[h]) /\ Len(Tail(hQueue[h])) \in Nat
        /\ \A i \in DOMAIN Tail(hQueue[h]) : \E j \in DOMAIN hQueue[h] : Tail(hQueue[h])[i] = hQueue[h][j]
    BY <1>0, <1>00, <2>1, QueueTail
  <2>3. hQueue' \in [Handlers -> Seq(1..MaxMessages)]
    BY <1>0, <2>1, <2>2
  <2>4. \A g \in Handlers : Calling(g)' = Calling(g) /\ Calling(g) \in {0, 1}
    BY <2>1 DEF Calling
  <2>5. /\ Len(hQueue'[h]) + Calling(h) <= position[h] /\ IsInjective(hQueue'[h])
        /\ \A i \in DOMAIN hQueue'[h] : hQueue'[h][i] + Calling(h) <= position[h]
    <3>1. hQueue'[h] = Tail(hQueue[h])
      BY <1>0, <2>1
    <3>2. Len(Tail(hQueue[h])) + Calling(h) <= position[h]
      BY <1>0, <1>00, <2>2, <2>4
    <3> QED
      BY <1>00, <2>2, <3>1, <3>2
  <2>6. \A g \in Handlers \ {h} : hQueue'[g] = hQueue[g]
    BY <1>0, <2>1
  <2> QED
    BY <1>00, <2>1, <2>3, <2>4, <2>5, <2>6 DEF QueuesOK
<1>7. ASSUME NEW w \in Watchers, Elsewhere, Poll(w) PROVE QueuesOK'
  <2>1. /\ hQueue' = hQueue /\ cThread = "poll" /\ cMsg'.topic = w
        /\ position' = [position EXCEPT ![w] = @ + 1]
    BY <1>7 DEF Elsewhere, Poll, workers
  <2>2. \A h \in Handlers : Calling(h) = 0 /\ Calling(h)' \in {0, 1} /\ (h # w => Calling(h)' = 0)
    BY <2>1 DEF Calling
  <2>3. \A h \in Handlers : position'[h] = IF h = w THEN position[h] + 1 ELSE position[h]
    BY <1>0, <2>1
  <2>4. ASSUME NEW h \in Handlers, NEW n \in Nat, n + Calling(h) <= position[h]
        PROVE  n + Calling(h)' <= position'[h]
    BY <1>0, <2>2, <2>3, <2>4
  <2>5. \A h \in Handlers : \A i \in DOMAIN hQueue[h] : hQueue[h][i] \in Nat
    BY <1>0
  <2> QED
    BY <1>0, <1>00, <2>1, <2>4, <2>5 DEF QueuesOK
<1> QED
  BY <1>2, <1>3, <1>4, <1>5, <1>6, <1>7 DEF Delivery


(* A message is known by its topic and its offset.                         *)
LEMMA SameMessage ==
  ASSUME NEW a \in Arrivals, NEW b \in Arrivals, a.topic = b.topic, a.offset = b.offset
  PROVE  a = b
BY DEF Arrivals

(* A callback queues the message of a handler that is registered, and no   *)
(* other.                                                                  *)
LEMMA QueueOfCallBack ==
  ASSUME QueuesOK, PositionOK, CallBack
  PROVE  InQueue' = InQueue \cup (IF cMsg.topic \in Handlers \cap notifiers THEN {cMsg} ELSE {})
<1>1. /\ hQueue \in [Handlers -> Seq(1..MaxMessages)]
      /\ cMsg \in Arrivals /\ cMsg.offset \in 1..MaxMessages /\ cMsg.topic \in Watchers
  BY DEF QueuesOK, PositionOK, CallBack, Arrivals
<1>2. hQueue' = IF cMsg.topic \in Handlers \cap notifiers
                THEN [hQueue EXCEPT ![cMsg.topic] = Append(@, cMsg.offset)] ELSE hQueue
  BY DEF CallBack
<1>3. CASE cMsg.topic \notin Handlers \cap notifiers
  BY <1>2, <1>3 DEF InQueue
<1>4. CASE cMsg.topic \in Handlers \cap notifiers
  <2>1. ASSUME NEW a \in Arrivals, a.topic \in Handlers
        PROVE  Contains(hQueue'[a.topic], a.offset) <=> Contains(hQueue[a.topic], a.offset) \/ a = cMsg
    <3>1. CASE a.topic = cMsg.topic
      <4>1. hQueue'[a.topic] = Append(hQueue[a.topic], cMsg.offset)
        BY <1>1, <1>2, <1>4, <3>1
      <4>2. Contains(hQueue'[a.topic], a.offset)
              <=> Contains(hQueue[a.topic], a.offset) \/ a.offset = cMsg.offset
        BY <1>1, <2>1, <4>1, QueueAppend
      <4>3. a.offset = cMsg.offset <=> a = cMsg
        BY <1>1, <3>1, SameMessage
      <4> QED
        BY <4>2, <4>3
    <3>2. CASE a.topic # cMsg.topic
      <4>1. hQueue'[a.topic] = hQueue[a.topic] /\ a # cMsg
        BY <1>1, <1>2, <1>4, <2>1, <3>2
      <4> QED
        BY <4>1
    <3> QED
      BY <3>1, <3>2
  <2> QED
    BY <1>1, <1>4, <2>1 DEF InQueue
<1> QED
  BY <1>3, <1>4

First(h) == [topic |-> h, offset |-> Head(hQueue[h])]

(* A worker takes its first message out of its queue, and no other.        *)
LEMMA QueueOfHandle ==
  ASSUME QueuesOK, PositionOK, NEW h \in Handlers, Handle(h)
  PROVE  /\ First(h) \in InQueue /\ First(h) \in Arrivals
         /\ InQueue' = InQueue \ {First(h)}
         /\ First(h).offset + Calling(h) <= position[h]
         /\ First(h).topic = h
<1>1. /\ hQueue \in [Handlers -> Seq(1..MaxMessages)] /\ IsInjective(hQueue[h])
      /\ hQueue[h] # <<>> /\ hQueue[h] \in Seq(1..MaxMessages)
      /\ h \in Watchers
  BY MicroserviceAssumption DEF QueuesOK, Handle
<1>2. hQueue' = [hQueue EXCEPT ![h] = Tail(@)]
  BY DEF Handle
<1>3. /\ Head(hQueue[h]) \in 1..MaxMessages
      /\ \E j \in DOMAIN hQueue[h] : Head(hQueue[h]) = hQueue[h][j]
      /\ \A m : Contains(Tail(hQueue[h]), m) <=> Contains(hQueue[h], m) /\ m # Head(hQueue[h])
  BY <1>1, QueueTail
<1>4. First(h) \in Arrivals /\ First(h).topic = h /\ First(h).offset = Head(hQueue[h])
  BY <1>1, <1>3 DEF First, Arrivals
<1>5. Contains(hQueue[h], Head(hQueue[h]))
  <2>1. PICK j \in DOMAIN hQueue[h] : Head(hQueue[h]) = hQueue[h][j]
    BY <1>3
  <2>2. DOMAIN hQueue[h] = 1..Len(hQueue[h])
    BY <1>1, LenProperties
  <2> QED
    BY <2>1, <2>2 DEF Contains
<1>6. First(h) \in InQueue
  BY <1>4, <1>5 DEF InQueue
<1>7. ASSUME NEW a \in Arrivals, a.topic \in Handlers
      PROVE  Contains(hQueue'[a.topic], a.offset) <=> Contains(hQueue[a.topic], a.offset) /\ a # First(h)
  <2>1. CASE a.topic = h
    <3>1. hQueue'[h] = Tail(hQueue[h])
      BY <1>1, <1>2
    <3>2. a.offset = Head(hQueue[h]) <=> a = First(h)
      BY <1>4, <2>1, SameMessage
    <3> QED
      BY <1>3, <2>1, <3>1, <3>2
  <2>2. CASE a.topic # h
    <3>1. hQueue'[a.topic] = hQueue[a.topic] /\ a # First(h)
      BY <1>1, <1>2, <1>4, <1>7, <2>2
    <3> QED
      BY <3>1
  <2> QED
    BY <2>1, <2>2
<1>8. InQueue' = InQueue \ {First(h)}
  BY <1>7 DEF InQueue
<1>9. First(h).offset + Calling(h) <= position[h]
  BY <1>3, <1>4 DEF QueuesOK
<1> QED
  BY <1>4, <1>6, <1>8, <1>9

Safe(a) == handled[a] > 0 \/ a \in InQueue \cup lost

(* What was handled, waits in a queue or is known to be lost stays so.     *)
LEMMA SafeStays ==
  ASSUME StageOK, PositionOK, QueuesOK, HandledOK, [Next]_vars, NEW a \in Arrivals, Safe(a)
  PROVE  Safe(a)'
<1>0. handled \in [Arrivals -> Nat]
  BY DEF HandledOK
<1>1. ASSUME UNCHANGED <<hQueue, handled, lost>> PROVE Safe(a)'
  BY <1>1 DEF Safe, InQueue
<1>2. CASE ~Delivery
  BY <1>1, <1>2, DeliveryMoves DEF DeliveryVars
<1>3. CASE Elsewhere
  BY <1>1, <1>3 DEF Elsewhere, workers, ends
<1>4. CASE CallBack
  <2>1. InQueue \subseteq InQueue'
    BY <1>4, QueueOfCallBack
  <2>2. lost \subseteq lost' /\ (handled' = handled \/ handled' = [handled EXCEPT ![cMsg] = @ + 1])
    BY <1>4 DEF CallBack
  <2>3. handled[a] > 0 => handled'[a] > 0
    BY <1>0, <2>2
  <2> QED
    BY <2>1, <2>2, <2>3 DEF Safe
<1>5. CASE Crash
  BY <1>5 DEF Crash, Safe
<1>6. ASSUME NEW h \in Handlers, Handle(h) PROVE Safe(a)'
  <2>1. lost' = lost /\ handled' = [handled EXCEPT ![First(h)] = @ + 1]
    BY <1>6 DEF Handle, First, ends
  <2>2. InQueue' = InQueue \ {First(h)} /\ First(h) \in Arrivals
    BY <1>6, QueueOfHandle
  <2>3. handled[a] > 0 \/ a = First(h) => handled'[a] > 0
    BY <1>0, <2>1, <2>2
  <2> QED
    BY <2>1, <2>2, <2>3 DEF Safe
<1> QED
  BY <1>2, <1>3, <1>4, <1>5, <1>6 DEF Delivery

(* A message that was handled and not cut off halfway was handled once, is *)
(* no longer queued, and was called back before the one in hand.           *)
HandledOnce(a) ==
  handled[a] > 0 => handled[a] = 1 /\ a \notin InQueue /\ a.offset + Calling(a.topic) <= position[a.topic]

(* What one step adds to the history of a message keeps the account of it. *)
LEMMA HandledNext ==
  ASSUME PlacesOK, StageOK, TopicsOK, PositionOK, QueuesOK, HandledOK, [Next]_vars
  PROVE  HandledOK'
<1>0. /\ handled \in [Arrivals -> Nat] /\ lost \subseteq Arrivals /\ halfway \subseteq Arrivals
      /\ \A a \in Arrivals \ halfway : HandledOnce(a)
      /\ cThread = "commit" => Safe(cMsg)
      /\ position \in [Watchers -> Nat] /\ committed \in [Watchers -> Nat]
      /\ \A a \in Arrivals : a.topic \in Watchers /\ a.offset \in Nat /\ a.offset \in 1..MaxMessages
      /\ \A w \in Watchers : Calling(w) \in {0, 1} /\ Now(w) \in {0, 1}
  <2>1. \A w \in Watchers : Calling(w) \in {0, 1} /\ Now(w) \in {0, 1}
    BY DEF Calling, Now
  <2>2. \A a \in Arrivals : a.topic \in Watchers /\ a.offset \in Nat /\ a.offset \in 1..MaxMessages
    BY MicroserviceAssumption DEF Arrivals
  <2> QED
    BY <2>1, <2>2 DEF HandledOK, PositionOK, HandledOnce, Safe
<1>1. SUFFICES /\ handled' \in [Arrivals -> Nat] /\ lost' \subseteq Arrivals /\ halfway' \subseteq Arrivals
               /\ \A a \in Arrivals \ halfway' : HandledOnce(a)'
               /\ cThread' = "commit" => Safe(cMsg)'
  BY DEF HandledOK, HandledOnce, Safe
<1>2. ASSUME UNCHANGED <<cMsg, position, handled, lost, halfway, hQueue>>,
             cThread' = "call" <=> cThread = "call", cThread' = "commit" <=> cThread = "commit"
      PROVE  /\ handled' \in [Arrivals -> Nat] /\ lost' \subseteq Arrivals /\ halfway' \subseteq Arrivals
             /\ \A a \in Arrivals \ halfway' : HandledOnce(a)'
             /\ cThread' = "commit" => Safe(cMsg)'
  BY <1>0, <1>2 DEF HandledOnce, Safe, InQueue, Calling
<1>3. CASE ~Delivery
  BY <1>2, <1>3, DeliveryMoves DEF DeliveryVars
<1>4. ASSUME NEW w \in Watchers, Elsewhere, Arrive(w)
      PROVE  /\ handled' \in [Arrivals -> Nat] /\ lost' \subseteq Arrivals /\ halfway' \subseteq Arrivals
             /\ \A a \in Arrivals \ halfway' : HandledOnce(a)'
             /\ cThread' = "commit" => Safe(cMsg)'
  BY <1>2, <1>4 DEF Elsewhere, Arrive, consumer, workers, ends
<1>5. CASE Elsewhere /\ Commit
  <2>1. /\ UNCHANGED <<handled, lost, halfway, hQueue, position>> /\ cThread = "commit" /\ cThread' = "poll"
    BY <1>5 DEF Elsewhere, Commit, workers, ends
  <2>2. InQueue' = InQueue /\ \A w : Calling(w)' = Calling(w)
    BY <2>1 DEF InQueue, Calling
  <2> QED
    BY <1>0, <2>1, <2>2 DEF HandledOnce
<1>6. ASSUME NEW w \in Watchers, Elsewhere, Poll(w)
      PROVE  /\ handled' \in [Arrivals -> Nat] /\ lost' \subseteq Arrivals /\ halfway' \subseteq Arrivals
             /\ \A a \in Arrivals \ halfway' : HandledOnce(a)'
             /\ cThread' = "commit" => Safe(cMsg)'
  <2>1. /\ UNCHANGED <<handled, lost, halfway, hQueue>> /\ cThread = "poll" /\ cThread' = "call"
        /\ position' = [position EXCEPT ![w] = @ + 1] /\ cMsg'.topic = w
    BY <1>6 DEF Elsewhere, Poll, workers, ends
  <2>2. InQueue' = InQueue
    BY <2>1 DEF InQueue
  <2>3. \A v \in Watchers : /\ Calling(v) = 0 /\ Calling(v)' = IF v = w THEN 1 ELSE 0
                            /\ position'[v] = IF v = w THEN position[v] + 1 ELSE position[v]
    BY <1>0, <2>1 DEF Calling
  <2>4. \A v \in Watchers : \A n \in Nat : n + Calling(v) <= position[v] => n + Calling(v)' <= position'[v]
    BY <1>0, <2>3
  <2> QED
    BY <1>0, <2>1, <2>2, <2>4 DEF HandledOnce
<1>7. CASE CallBack
  <2>1. /\ UNCHANGED <<cMsg, position, halfway>> /\ cThread = "call" /\ cThread' = "commit"
        /\ lost' = IF cMsg.topic \in notifiers THEN lost ELSE lost \cup {cMsg}
        /\ handled' = IF cMsg.topic = Registry /\ cMsg.topic \in notifiers
                      THEN [handled EXCEPT ![cMsg] = @ + 1] ELSE handled
    BY <1>7 DEF CallBack
  <2>2. /\ cMsg \in Arrivals /\ cMsg.offset = position[cMsg.topic] /\ Calling(cMsg.topic) = 1
        /\ cMsg.topic \in Handlers \cup {Registry} /\ Registry \notin Handlers
    BY <1>0, <2>1, MicroserviceAssumption DEF PositionOK, Calling
  <2>3. InQueue' = InQueue \cup (IF cMsg.topic \in Handlers \cap notifiers THEN {cMsg} ELSE {})
    BY <1>7, QueueOfCallBack
  <2>4. \A w \in Watchers : Calling(w)' = 0
    BY <2>1 DEF Calling
  <2>5. cMsg \notin halfway => handled[cMsg] = 0
    <3>1. handled[cMsg] \in Nat /\ ~(position[cMsg.topic] + 1 <= position[cMsg.topic])
      BY <1>0, <2>2
    <3> QED
      BY <1>0, <2>2, <3>1 DEF HandledOnce
  <2>6. handled' \in [Arrivals -> Nat] /\ lost' \subseteq Arrivals /\ halfway' \subseteq Arrivals
    BY <1>0, <2>1, <2>2
  <2>7. ASSUME NEW a \in Arrivals \ halfway' PROVE HandledOnce(a)'
    <3>1. CASE a # cMsg
      <4>1. handled'[a] = handled[a] /\ (a \in InQueue' <=> a \in InQueue)
        BY <1>0, <2>1, <2>3, <3>1
      <4>2. a.offset + Calling(a.topic) <= position[a.topic] => a.offset + 0 <= position[a.topic]
        BY <1>0
      <4> QED
        BY <1>0, <2>1, <2>4, <4>1, <4>2 DEF HandledOnce
    <3>2. CASE a = cMsg /\ handled'[a] > 0
      <4>1. handled[cMsg] = 0
        BY <2>1, <2>5, <3>2
      <4>2. cMsg.topic = Registry /\ handled'[cMsg] = 1
        BY <1>0, <2>1, <2>2, <3>2, <4>1
      <4>3. cMsg \notin InQueue'
        BY <2>2, <4>2 DEF InQueue
      <4>4. cMsg.offset + 0 <= position[cMsg.topic]
        BY <1>0, <2>2
      <4> QED
        BY <1>0, <2>1, <2>2, <2>4, <3>2, <4>2, <4>3, <4>4 DEF HandledOnce
    <3> QED
      BY <3>1, <3>2 DEF HandledOnce
  <2>8. Safe(cMsg)'
    <3>1. cMsg.topic = Registry /\ cMsg.topic \in notifiers => handled'[cMsg] > 0
      BY <1>0, <2>1, <2>2
    <3> QED
      BY <2>1, <2>2, <2>3, <3>1 DEF Safe
  <2> QED
    BY <2>6, <2>7, <2>8
<1>8. CASE Crash
  <2>1. /\ cThread' = "none" /\ hQueue' = [h \in Handlers |-> <<>>] /\ position' = committed
        /\ handled' = handled /\ lost' = lost \cup InQueue
        /\ halfway' = halfway \cup (IF cThread = "commit" THEN {cMsg} ELSE {})
    BY <1>8 DEF Crash, FreshConsumer, Each
  <2>2. InQueue' = {}
    BY <2>1 DEF InQueue, Contains
  <2>3. \A w \in Watchers : Calling(w)' = 0 /\ position[w] = committed[w] + Now(w)
    BY <2>1 DEF Calling, PositionOK
  <2>4. cThread = "commit" => cMsg \in Arrivals /\ cMsg.offset = position[cMsg.topic]
    BY DEF PositionOK
  <2>5. halfway' \subseteq Arrivals /\ lost' \subseteq Arrivals
    BY <1>0, <2>1, <2>4 DEF InQueue
  <2>6. ASSUME NEW a \in Arrivals \ halfway', handled[a] > 0
        PROVE  a.offset <= committed[a.topic]
    <3>1. a.offset + Calling(a.topic) <= position[a.topic]
      BY <1>0, <2>1, <2>6 DEF HandledOnce
    <3>2. CASE Now(a.topic) = Calling(a.topic)
      BY <1>0, <2>3, <3>1, <3>2
    <3>3. CASE Now(a.topic) # Calling(a.topic)
      <4>1. cThread = "commit" /\ cMsg.topic = a.topic /\ Now(a.topic) = 1 /\ Calling(a.topic) = 0
        BY <3>3 DEF Now, Calling
      <4>2. a.offset # position[a.topic]
        BY <2>1, <2>4, <4>1, SameMessage
      <4> QED
        BY <1>0, <2>3, <3>1, <4>1, <4>2
    <3> QED
      BY <3>2, <3>3
  <2>7. ASSUME NEW a \in Arrivals \ halfway' PROVE HandledOnce(a)'
    <3>1. handled[a] > 0 => handled[a] = 1
      BY <1>0, <2>1 DEF HandledOnce
    <3>2. a.offset <= committed[a.topic] => a.offset + 0 <= committed[a.topic]
      BY <1>0
    <3> QED
      BY <1>0, <2>1, <2>2, <2>3, <2>6, <3>1, <3>2 DEF HandledOnce
  <2> QED
    BY <1>0, <2>1, <2>5, <2>7
<1>9. ASSUME NEW h \in Handlers, Handle(h)
      PROVE  /\ handled' \in [Arrivals -> Nat] /\ lost' \subseteq Arrivals /\ halfway' \subseteq Arrivals
             /\ \A a \in Arrivals \ halfway' : HandledOnce(a)'
             /\ cThread' = "commit" => Safe(cMsg)'
  <2>1. /\ UNCHANGED <<cThread, cMsg, position, lost, halfway>>
        /\ handled' = [handled EXCEPT ![First(h)] = @ + 1]
    BY <1>9 DEF Handle, First, ends, busVars, consumer
  <2>2. /\ First(h) \in InQueue /\ First(h) \in Arrivals /\ InQueue' = InQueue \ {First(h)}
        /\ First(h).offset + Calling(h) <= position[h] /\ First(h).topic = h
    BY <1>9, QueueOfHandle
  <2>3. \A w : Calling(w)' = Calling(w)
    BY <2>1 DEF Calling
  <2>4. handled' \in [Arrivals -> Nat]
    BY <1>0, <2>1, <2>2
  <2>5. ASSUME NEW a \in Arrivals \ halfway' PROVE HandledOnce(a)'
    <3>1. CASE a = First(h)
      <4>1. handled[a] = 0
        BY <1>0, <2>1, <2>2, <3>1 DEF HandledOnce
      <4>2. handled'[a] = 1 /\ a \notin InQueue'
        BY <1>0, <2>1, <2>2, <3>1, <4>1
      <4> QED
        BY <2>1, <2>2, <2>3, <3>1, <4>2 DEF HandledOnce
    <3>2. CASE a # First(h)
      <4>1. handled'[a] = handled[a] /\ (a \in InQueue' <=> a \in InQueue)
        BY <1>0, <2>1, <2>2, <3>2
      <4> QED
        BY <1>0, <2>1, <2>3, <4>1 DEF HandledOnce
    <3> QED
      BY <3>1, <3>2
  <2>6. cThread' = "commit" => Safe(cMsg)'
    <3>1. ASSUME cThread = "commit" PROVE cMsg \in Arrivals /\ Safe(cMsg)
      BY <1>0, <3>1 DEF PositionOK
    <3>2. ASSUME cMsg \in Arrivals, Safe(cMsg)
          PROVE  handled'[cMsg] > 0 \/ cMsg \in InQueue' \cup lost'
      <4>1. handled[cMsg] > 0 \/ cMsg = First(h) => handled'[cMsg] > 0
        BY <1>0, <2>1, <2>2, <3>2
      <4> QED
        BY <2>1, <2>2, <3>2, <4>1 DEF Safe
    <3> QED
      BY <2>1, <3>1, <3>2 DEF Safe
  <2> QED
    BY <1>0, <2>1, <2>4, <2>5, <2>6
<1> QED
  BY <1>3, <1>4, <1>5, <1>6, <1>7, <1>8, <1>9 DEF Delivery

(* Only a commit moves the committed offset, to that of the message which  *)
(* has just been called back.                                              *)
LEMMA SafeNext ==
  ASSUME StageOK, PositionOK, QueuesOK, HandledOK, CommittedIsSafe, [Next]_vars
  PROVE  CommittedIsSafe'
<1>1. SUFFICES ASSUME NEW a \in Arrivals, a.offset <= committed'[a.topic] PROVE Safe(a)'
  BY DEF CommittedIsSafe, Safe
<1>2. SUFFICES Safe(a)
  BY SafeStays
<1>3. CASE committed' = committed
  BY <1>1, <1>3 DEF CommittedIsSafe, Safe
<1>4. CASE Elsewhere /\ Commit
  <2>1. cThread = "commit" /\ committed' = [committed EXCEPT ![cMsg.topic] = cMsg.offset]
    BY <1>4 DEF Commit
  <2>2. /\ cMsg \in Arrivals /\ cMsg.topic \in Watchers /\ Safe(cMsg)
        /\ a.topic \in Watchers /\ a.offset \in Nat
        /\ committed \in [Watchers -> Nat] /\ cMsg.offset = committed[cMsg.topic] + 1
    <3>1. cMsg \in Arrivals /\ cMsg.offset = position[cMsg.topic]
      BY <2>1 DEF PositionOK
    <3>2. cMsg.topic \in Watchers /\ a.topic \in Watchers /\ a.offset \in Nat
      BY <3>1, MicroserviceAssumption DEF Arrivals
    <3>3. position[cMsg.topic] = committed[cMsg.topic] + 1 /\ committed \in [Watchers -> Nat]
      BY <2>1, <3>2 DEF PositionOK, Now
    <3>4. Safe(cMsg)
      BY <2>1 DEF HandledOK, Safe
    <3> QED
      BY <3>1, <3>2, <3>3, <3>4
  <2>3. CASE a.topic = cMsg.topic /\ a.offset = cMsg.offset
    BY <2>2, <2>3, SameMessage
  <2>4. CASE ~(a.topic = cMsg.topic /\ a.offset = cMsg.offset)
    <3>1. a.offset <= committed[a.topic]
      BY <1>1, <2>1, <2>2, <2>4
    <3> QED
      BY <3>1 DEF CommittedIsSafe, Safe
  <2> QED
    BY <2>3, <2>4
<1>5. CASE ~Delivery
  BY <1>3, <1>5, DeliveryMoves DEF DeliveryVars
<1>6. CASE CallBack \/ Crash \/ (\E h \in Handlers : Handle(h))
           \/ (\E w \in Watchers : Elsewhere /\ (Poll(w) \/ Arrive(w)))
  <2>1. committed' = committed
    BY <1>6 DEF CallBack, Crash, Handle, Poll, Arrive, busVars, broker
  <2> QED
    BY <1>3, <2>1
<1> QED
  BY <1>4, <1>5, <1>6 DEF Delivery

----------------------------------------------------------------------------
(* The specification. *)

(* A process that has just begun has no thread, no queue and no message.   *)
LEMMA StrongInit == Init => Strong
<1> SUFFICES ASSUME Init PROVE Strong
  OBVIOUS
<1>0. /\ MaxMessages \in Nat /\ MaxFaults \in Nat /\ MaxCrashes \in Nat /\ MaxKeepAlives \in Nat
      /\ None \notin Handlers
  BY MicroserviceAssumption
<1>1. FlagsOK
  BY Zenon DEF Init, BusInit, FlagsOK
<1>2. PlacesOK /\ BoundsOK /\ StageOK
  <2>1. PlacesOK
    <3>1. hRunning \in [Handlers -> BOOLEAN]
      BY Zenon DEF Init, Each
    <3>2. hThread = [h \in Handlers |-> "none"]
      BY DEF Init, Each
    <3>3. hThread \in [Handlers -> {"none", "starting", "test", "sleep", "drain", "ended"}]
      BY <3>2
    <3>4. /\ main = "initialize" /\ stopping = None
          /\ pThread = "none" /\ cThread = "none" /\ dispatcher = "none" /\ ebThread = "none"
      BY DEF Init, BusInit
    <3>5. main \in Stages
      BY <3>4, StagesAre DEF Stages
    <3> QED
      BY <3>1, <3>3, <3>4, <3>5 DEF PlacesOK
  <2>2. BoundsOK
    BY <1>0 DEF Init, BusInit, BoundsOK
  <2>3. StageOK
    BY StagesAre DEF Init, BusInit, StageOK, Each
  <2> QED
    BY <2>1, <2>2, <2>3
<1>3. HandlersOK /\ TopicsOK
  BY <1>0 DEF Init, BusInit, HandlersOK, TopicsOK, Each
<1>4. EventsOK
  <2>1. <<>> \in Seq(Events) /\ (<<>> \o <<>>) \o <<>> = <<>> /\ <<>> \o <<>> = <<>>
    OBVIOUS
  <2>2. /\ pQueue = <<>> /\ posted = <<>> /\ sent = <<>> /\ pNote = None /\ pThread = "none"
    BY DEF Init, BusInit
  <2>3. InHand = <<>>
    BY <2>2 DEF InHand
  <2>4. \E rest \in Seq(Events) : posted = sent \o rest
    BY <2>1, <2>2
  <2> QED
    BY <2>1, <2>2, <2>3, <2>4 DEF EventsOK
<1>5. PositionOK
  BY <1>0 DEF Init, BusInit, PositionOK, Zero, Now
<1>6. QueuesOK
  <2>1. <<>> \in Seq(1..MaxMessages) /\ Len(<<>>) = 0 /\ DOMAIN <<>> = {} /\ IsInjective(<<>>)
    BY DEF IsInjective
  <2>2. /\ hQueue = [h \in Handlers |-> <<>>]
        /\ \A h \in Handlers : position[h] = 0 /\ Calling(h) = 0
    BY MicroserviceAssumption DEF Init, BusInit, Each, Calling, Zero
  <2> QED
    BY <2>1, <2>2 DEF QueuesOK
<1>7. HandledOK /\ CommittedIsSafe
  <2>1. handled = [a \in Arrivals |-> 0] /\ lost = {} /\ halfway = {} /\ cThread = "none" /\ committed = Zero
    BY DEF Init, BusInit
  <2>2. \A a \in Arrivals : ~(a.offset <= committed[a.topic]) /\ ~(handled[a] > 0)
    <3>1. \A a \in Arrivals : a.topic \in Watchers /\ a.offset \in 1..MaxMessages
      BY DEF Arrivals
    <3> QED
      BY <1>0, <2>1, <3>1 DEF Zero
  <2> QED
    BY <2>1, <2>2 DEF HandledOK, CommittedIsSafe
<1> QED
  BY <1>1, <1>2, <1>3, <1>4, <1>5, <1>6, <1>7 DEF Strong

(* Every step keeps every part of it.                                      *)
LEMMA StrongNext == Strong /\ [Next]_vars => Strong'
<1> SUFFICES ASSUME Strong, [Next]_vars PROVE Strong'
  OBVIOUS
<1>1. /\ FlagsOK /\ PlacesOK /\ BoundsOK /\ StageOK /\ HandlersOK /\ TopicsOK
      /\ EventsOK /\ PositionOK /\ QueuesOK /\ HandledOK /\ CommittedIsSafe
  BY DEF Strong
<1> QED
  BY <1>1, FlagsNext, PlacesNext, BoundsNext, StageNext, HandlersNext, TopicsNext, EventsNext, PositionNext,
    QueuesNext, HandledNext, SafeNext DEF Strong

(* The inductive invariant holds throughout.                               *)
THEOREM Inductive == Spec => []Strong
<1> QED
  BY StrongInit, StrongNext, PTL DEF Spec

(* Topics, threads and bounds as the running process has them.             *)
LEMMA ServiceHolds == Strong => ServiceInvariant
<1> SUFFICES ASSUME Strong PROVE ServiceInvariant
  OBVIOUS
<1>0. /\ FlagsOK /\ PlacesOK /\ BoundsOK /\ StageOK /\ HandlersOK /\ TopicsOK
      /\ EventsOK /\ PositionOK /\ QueuesOK /\ HandledOK
  BY DEF Strong
<1>1. BusTypeOK
  <2>1. kafkaEnabled \in BOOLEAN /\ pRunning \in BOOLEAN /\ cRunning \in BOOLEAN
    BY <1>0, Zenon DEF FlagsOK
  <2>2. /\ pThread \in {"none", "starting", "dequeue", "waiting", "test", "send", "ended"}
        /\ cThread \in {"none", "starting", "subscribed", "running", "poll", "call", "commit", "ended"}
        /\ dispatcher \in {"none", "there", "stopped"}
    BY <1>0 DEF PlacesOK
  <2>3. notifiers \subseteq Watchers /\ topics \subseteq Watchers /\ subscribed \subseteq topics
    BY <1>0 DEF TopicsOK
  <2>4. cMsg \in Arrivals \cup {None}
    BY <1>0 DEF PositionOK
  <2>5. \A w \in Watchers :
          committed[w] <= position[w] /\ position[w] <= arrived[w] /\ arrived[w] <= MaxMessages
    <3> TAKE w \in Watchers
    <3>1. Now(w) \in {0, 1} /\ committed[w] \in Nat /\ position[w] = committed[w] + Now(w)
      BY <1>0 DEF PositionOK, Now
    <3>2. position[w] <= arrived[w] /\ arrived[w] <= MaxMessages
      BY <1>0 DEF PositionOK
    <3> QED
      BY <3>1, <3>2
  <2>6. faults \in 0..MaxFaults
    BY <1>0 DEF BoundsOK
  <2> QED
    BY <2>1, <2>2, <2>3, <2>4, <2>5, <2>6 DEF BusTypeOK
<1>2. ServiceTypeOK
  <2>1. ebRunning \in BOOLEAN /\ ebWake \in BOOLEAN
    BY <1>0, Zenon DEF FlagsOK
  <2>2. /\ stopping \in Handlers \cup {None}
        /\ ebThread \in {"none", "starting", "join", "test", "sleep", "keep", "leave", "ended"}
        /\ hRunning \in [Handlers -> BOOLEAN]
        /\ hThread \in [Handlers -> {"none", "starting", "test", "sleep", "drain", "ended"}]
    BY <1>0 DEF PlacesOK
  <2>3. /\ keepAlives \in 0..MaxKeepAlives /\ crashes \in 0..MaxCrashes
        /\ missed \subseteq {"producer", "consumer"} \cup Handlers
    BY <1>0 DEF BoundsOK
  <2>4. \A h \in Handlers : Len(hQueue[h]) <= position[h]
    <3> TAKE h \in Handlers
    <3>1. Calling(h) \in {0, 1} /\ position[h] \in Nat /\ Len(hQueue[h]) \in Nat
      BY <1>0, MicroserviceAssumption, LenProperties DEF Calling, PositionOK, QueuesOK
    <3>2. Len(hQueue[h]) + Calling(h) <= position[h]
      BY <1>0 DEF QueuesOK
    <3> QED
      BY <3>1, <3>2
  <2>5. handled \in [Arrivals -> Nat] /\ lost \subseteq Arrivals /\ halfway \subseteq Arrivals
    BY <1>0 DEF HandledOK
  <2> QED
    BY <1>1, <2>1, <2>2, <2>3, <2>4, <2>5 DEF ServiceTypeOK
<1>3. EveryTopicIsHeard
  BY <1>0 DEF TopicsOK, EveryTopicIsHeard
<1>4. QuietAfterStop
  <2> SUFFICES ASSUME main = "ended" PROVE QuietAfterStop
    BY DEF QuietAfterStop
  <2>1. pThread \in {"none", "ended"} /\ ebThread \in {"none", "ended"}
        /\ (cThread \in {"none", "ended"} \/ "consumer" \in missed)
    BY <1>0, StagesAre DEF StageOK
  <2>2. ASSUME NEW h \in Handlers PROVE hThread[h] \in {"none", "ended"}
    <3>1. stopping \notin Handlers
      BY <1>0 DEF HandlersOK
    <3>2. h \notin notifiers
      BY <1>0 DEF HandlersOK
    <3> QED
      BY <1>0, <3>1, <3>2 DEF HandlersOK
  <2> QED
    BY <2>1, <2>2 DEF QuietAfterStop
<1> QED
  BY <1>2, <1>3, <1>4 DEF ServiceInvariant

(* For any handlers, messages, faults and crashes, the process hears every *)
(* topic it watches and is quiet after its stop.                           *)
THEOREM ServiceSound == Spec => []ServiceInvariant
<1> QED
  BY Inductive, ServiceHolds, PTL

(* No committed message is unaccounted for, and only what a crash cut off  *)
(* halfway is handled twice.                                               *)
THEOREM DeliverySound == Spec => []DeliveryAccounted
<1>1. HandledOK /\ CommittedIsSafe => DeliveryAccounted
  <2> SUFFICES ASSUME HandledOK, NEW a \in Arrivals, handled[a] > 1 PROVE a \in halfway
    BY DEF DeliveryAccounted, TwiceOnlyHalfway
  <2>1. handled[a] \in Nat /\ (a \notin halfway => (handled[a] > 0 => handled[a] = 1))
    BY DEF HandledOK
  <2> QED
    BY <2>1
<1>2. Strong => DeliveryAccounted
  BY <1>1 DEF Strong
<1> QED
  BY <1>2, Inductive, PTL

(* As long as Kafka takes them, the events of a process are on the topic   *)
(* in the order they were posted, without a gap.                           *)
THEOREM EventsSound == Spec => []EventsInOrder
<1>1. EventsOK => EventsInOrder
  BY PrefixOfConcat DEF EventsOK, EventsInOrder
<1>2. Strong => EventsInOrder
  BY <1>1 DEF Strong
<1> QED
  BY <1>2, Inductive, PTL
============================================================================
