----------------------------- MODULE MessageBus -----------------------------
(***************************************************************************)
(* KafkaManager (framework/KafkaManager.cpp): the producer, a queue and    *)
(* the thread that empties it, and the consumer, a thread that hands every *)
(* message to the watchers of its topic and commits it.                    *)
(*                                                                         *)
(* The Start, Stop, Produce and Register operations are actions without a  *)
(* program counter: the module that EXTENDS this one calls them from its   *)
(* threads.  A topic is named by its one watcher; a message on a topic is  *)
(* a number, its offset.                                                   *)
(***************************************************************************)
EXTENDS Naturals, Sequences, FiniteSets, SequencesExt

CONSTANTS
  Watchers,       \* each watches the topic of its name
  None,           \* no message in hand
  MaxMessages,    \* bound: messages that arrive on all topics
  MaxFaults       \* bound: messages that Kafka does not take

Arrivals == [topic : Watchers, offset : 1..MaxMessages]

VARIABLES
  kafkaEnabled,   \* KafkaEnabled_
  (* KafkaProducer *)
  pRunning,       \* Running_
  pQueue,         \* Queue_
  pThread,        \* Worker_: "none", "starting", "dequeue", "waiting", "test", "send", "ended"
  pNote,          \* Note
  (* KafkaConsumer *)
  cRunning,       \* Running_
  cThread,        \* Worker_: "none", "starting", "subscribed", "running", "poll", "call", "commit", "ended"
  notifiers,      \* Notifiers_
  topics,         \* Topics_
  subscribed,     \* what the consumer has subscribed to
  dispatcher,     \* Dispatcher_: "none", "there", "stopped"
  cMsg,           \* the message being dispatched
  position,       \* next offset the consumer reads of each topic, less one
  (* the broker *)
  sent,           \* what this process has put on the topic of service events
  arrived,        \* messages on each topic
  committed,      \* offset committed on each topic
  faults

producer == <<pRunning, pQueue, pThread, pNote>>
consumer == <<cRunning, cThread, notifiers, topics, subscribed, dispatcher, cMsg, position>>
broker == <<sent, arrived, committed, faults>>
busVars == <<kafkaEnabled, producer, consumer, broker>>

Zero == [w \in Watchers |-> 0]

(* A process that has just begun: only the broker remembers.               *)
FreshProducer ==
  /\ pRunning' = FALSE /\ pQueue' = <<>> /\ pThread' = "none" /\ pNote' = None
FreshConsumer ==
  /\ cRunning' = FALSE /\ cThread' = "none" /\ notifiers' = {} /\ topics' = {}
  /\ subscribed' = {} /\ dispatcher' = "none" /\ cMsg' = None /\ position' = committed

BusInit ==
  /\ kafkaEnabled \in BOOLEAN
  /\ pRunning = FALSE /\ pQueue = <<>> /\ pThread = "none" /\ pNote = None
  /\ cRunning = FALSE /\ cThread = "none" /\ notifiers = {} /\ topics = {}
  /\ subscribed = {} /\ dispatcher = "none" /\ cMsg = None
  /\ position = Zero /\ sent = <<>> /\ arrived = Zero /\ committed = Zero /\ faults = 0

----------------------------------------------------------------------------
(* KafkaProducer.  Poco's queue hands a note to a thread that waits for    *)
(* one, and wakeUpAll wakes the threads that wait at that moment only.     *)

ProducerStart ==
  /\ IF pRunning THEN UNCHANGED <<pRunning, pThread>>
     ELSE pRunning' = TRUE /\ pThread' = "starting"
  /\ UNCHANGED <<pQueue, pNote>>

Produce(note) ==
  /\ IF pThread = "waiting"
       THEN pNote' = note /\ pThread' = "test" /\ UNCHANGED pQueue
       ELSE pQueue' = Append(pQueue, note) /\ UNCHANGED <<pNote, pThread>>
  /\ UNCHANGED pRunning

PostMessage(note) ==
  IF kafkaEnabled THEN Produce(note) ELSE UNCHANGED producer

WakeUpAll ==
  /\ IF pThread = "waiting"
       THEN pNote' = None /\ pThread' = "test"
       ELSE UNCHANGED <<pNote, pThread>>
  /\ UNCHANGED <<pRunning, pQueue>>

ProducerRun ==
  /\ pThread = "starting"
  /\ pRunning' = TRUE
  /\ pThread' = "dequeue"
  /\ UNCHANGED <<kafkaEnabled, pQueue, pNote, consumer, broker>>

(* Mutant: the newest note first.                                          *)
DequeueLast ==
  /\ pThread = "dequeue"
  /\ IF pQueue = <<>>
       THEN pThread' = "waiting" /\ UNCHANGED <<pQueue, pNote>>
       ELSE /\ pNote' = Last(pQueue) /\ pQueue' = Front(pQueue)
            /\ pThread' = "test"
  /\ UNCHANGED <<kafkaEnabled, pRunning, consumer, broker>>

(* waitDequeueNotification.                                                *)
Dequeue ==
  /\ pThread = "dequeue"
  /\ IF pQueue = <<>>
       THEN pThread' = "waiting" /\ UNCHANGED <<pQueue, pNote>>
       ELSE /\ pNote' = Head(pQueue) /\ pQueue' = Tail(pQueue)
            /\ pThread' = "test"
  /\ UNCHANGED <<kafkaEnabled, pRunning, consumer, broker>>

TestNote ==
  /\ pThread = "test"
  /\ pThread' = IF pNote # None /\ pRunning THEN "send" ELSE "ended"
  /\ UNCHANGED <<kafkaEnabled, pRunning, pQueue, pNote, consumer, broker>>

(* An exception of Kafka is logged and the note dropped.                   *)
Send ==
  /\ pThread = "send"
  /\ \/ sent' = Append(sent, pNote) /\ UNCHANGED faults
     \/ faults < MaxFaults /\ faults' = faults + 1 /\ UNCHANGED sent
  /\ pThread' = "dequeue" /\ pNote' = None
  /\ UNCHANGED <<kafkaEnabled, pRunning, pQueue, consumer, arrived, committed>>

ProducerStep == ProducerRun \/ Dequeue \/ TestNote \/ Send

----------------------------------------------------------------------------
(* KafkaConsumer. *)

ConsumerStart ==
  /\ cThread' = IF cRunning THEN cThread ELSE "starting"
  /\ UNCHANGED <<cRunning, notifiers, topics, subscribed, dispatcher, cMsg, position>>

RegisterTopicWatcher(W) ==
  /\ notifiers' = notifiers \cup W /\ topics' = topics \cup W
  /\ UNCHANGED <<cRunning, cThread, subscribed, dispatcher, cMsg, position>>

(* ConsumerMutex_ is held from the callbacks to the commit.                *)
UnregisterTopicWatcher(w) ==
  /\ cThread \notin {"call", "commit"}
  /\ notifiers' = notifiers \ {w}
  /\ UNCHANGED <<cRunning, cThread, topics, subscribed, dispatcher, cMsg, position>>

StopDispatcher ==
  /\ dispatcher' = IF dispatcher = "there" THEN "stopped" ELSE dispatcher
  /\ UNCHANGED <<cRunning, cThread, notifiers, topics, subscribed, cMsg, position>>

Subscribe ==
  /\ cThread = "starting"
  /\ subscribed' = topics
  /\ cThread' = "subscribed"
  /\ UNCHANGED <<kafkaEnabled, producer, cRunning, notifiers, topics, dispatcher, cMsg, position, broker>>

ConsumerRunning ==
  /\ cThread = "subscribed"
  /\ cRunning' = TRUE
  /\ cThread' = "running"
  /\ UNCHANGED <<kafkaEnabled, producer, notifiers, topics, subscribed, dispatcher, cMsg, position, broker>>

MakeDispatcher ==
  /\ cThread = "running"
  /\ dispatcher' = "there"
  /\ cThread' = "poll"
  /\ UNCHANGED <<kafkaEnabled, producer, cRunning, notifiers, topics, subscribed, cMsg, position, broker>>

(* Mutant: the offset is committed when the message is read.               *)
PollAndCommit(w) ==
  /\ cThread = "poll" /\ dispatcher = "there"
  /\ w \in subscribed /\ position[w] < arrived[w]
  /\ position' = [position EXCEPT ![w] = @ + 1]
  /\ committed' = [committed EXCEPT ![w] = position[w] + 1]
  /\ cMsg' = [topic |-> w, offset |-> position[w] + 1]
  /\ cThread' = "call"
  /\ UNCHANGED <<kafkaEnabled, producer, cRunning, notifiers, topics, subscribed, dispatcher, sent, arrived,
                 faults>>

Poll(w) ==
  /\ cThread = "poll" /\ dispatcher = "there"
  /\ w \in subscribed /\ position[w] < arrived[w]
  /\ position' = [position EXCEPT ![w] = @ + 1]
  /\ cMsg' = [topic |-> w, offset |-> position[w] + 1]
  /\ cThread' = "call"
  /\ UNCHANGED <<kafkaEnabled, producer, cRunning, notifiers, topics, subscribed, dispatcher, broker>>

Commit ==
  /\ cThread = "commit"
  /\ committed' = [committed EXCEPT ![cMsg.topic] = cMsg.offset]
  /\ cMsg' = None
  /\ cThread' = "poll"
  /\ UNCHANGED <<kafkaEnabled, producer, cRunning, notifiers, topics, subscribed, dispatcher, position,
                 sent, arrived, faults>>

Unsubscribe ==
  /\ cThread = "poll" /\ dispatcher = "stopped"
  /\ subscribed' = {}
  /\ cThread' = "ended"
  /\ UNCHANGED <<kafkaEnabled, producer, cRunning, notifiers, topics, dispatcher, cMsg, position, broker>>

(* CallBack, between Poll and Commit, is an action of Microservice.        *)
ConsumerStep ==
  \/ Subscribe \/ ConsumerRunning \/ MakeDispatcher \/ Commit \/ Unsubscribe
  \/ \E w \in Watchers : Poll(w)

Arrived == {a \in Arrivals : a.offset <= arrived[a.topic]}
Arrive(w) ==
  /\ Cardinality(Arrived) < MaxMessages
  /\ arrived' = [arrived EXCEPT ![w] = @ + 1]
  /\ UNCHANGED <<kafkaEnabled, producer, consumer, sent, committed, faults>>

BusTypeOK ==
  /\ kafkaEnabled \in BOOLEAN
  /\ pRunning \in BOOLEAN
  /\ pThread \in {"none", "starting", "dequeue", "waiting", "test", "send", "ended"}
  /\ cRunning \in BOOLEAN
  /\ cThread \in {"none", "starting", "subscribed", "running", "poll", "call", "commit", "ended"}
  /\ notifiers \subseteq Watchers /\ topics \subseteq Watchers /\ subscribed \subseteq topics
  /\ dispatcher \in {"none", "there", "stopped"}
  /\ cMsg \in Arrivals \cup {None}
  /\ \A w \in Watchers :
       committed[w] <= position[w] /\ position[w] <= arrived[w] /\ arrived[w] <= MaxMessages
  /\ faults \in 0..MaxFaults
============================================================================
