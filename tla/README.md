# wlan-cloud-ucentralfms in TLA+

The firmware management service (owfms) of OpenWiFi keeps a table of firmware
images, refreshes it from an S3 bucket, tracks which device runs which revision,
and asks the gateway to upgrade devices that are behind. This directory holds a
TLA+ model of the parts of it where threads, failures and restarts make the
result hard to see, the TLC runs that check the model on small instances, and
TLAPS proofs for instances of any size.

Paths are relative to the repository, `src/src/...` in PROJECT.json being
`src/...` there. PROJECT.json has for every definition the lines it models, for
every property a mutant of the code that breaks it, and the hazards the
properties were written for.

    tlc -workers 2 -config catalog.cfg MCFirmwareCatalog
    tlapm FirmwareCatalogProofs.tla

Contents: 1 inventory, 2 modules, 3 properties and runs, 4 bounds, 5 fairness,
6 proofs, 7 disagreement found, 8 observations, 9 not modelled.

## 1 Inventory of the system

One process, several long-lived threads, a pool of REST threads, one SQL
database. No database statement is within a transaction that spans another, and
apart from the few mutexes named below nothing is locked between statements.

| Component | State | Operations | Hard because |
|---|---|---|---|
| FirmwaresDB (`storage/orm_firmwares.cpp`, `framework/orm.h`) | table `firmwares` | AddFirmware, GetFirmware, DeleteFirmware, RemoveOldFirmware, RemoveFirmwaresNotInManifest, ComputeFirmwareAge, PopulateLatestFirmwareCache | AddFirmware is a cache call and three or more statements; REST threads and the refresh run it at the same time; the ORM turns every exception into `false` |
| LatestFirmwareCache | newest image of each type, newest release candidate of each type, sets of revisions and types; one mutex | AddToCache, FindLatestFirmware, IsLatest, lists | written before the table, never told of deletes, rebuilt at start from a paged scan |
| ManifestCreator | `Running_`, `UpdateRunning_`, `LastUpdate_`, one runner thread, a timer | Start, Stop, RunUpdateTask; run: RemoveOldFirmware, ReadBucket, ComputeManifest, AddManifestToDB | the bucket changes while it is listed in pages; exceptions leave `run`; `Stop` does not wait |
| NewConnectionHandler, NewCommandHandler | a queue and a worker thread each | ConnectionReceived / CommandReceived (Kafka thread), `run` | both workers write `devices` and `history` in several statements without a common lock |
| DevicesDB, HistoryDB | tables `devices`, `history` | SetDeviceRevision, SetDeviceDisconnected, DeleteDevice, AddHistory, DeleteHistory, reports | read, then write in a later statement |
| DeviceCache | revision of each device; one mutex | AddToCache, GetDevice | none beyond its callers' order |
| AutoUpdater | a queue, a cache of provisioning answers, `Running_`, one mutex, a Poco timer | ToBeUpgraded, Start, Stop, reinitialize, onTimer | the callback holds the mutex through HTTP requests; Stop races a callback that is due; clock arithmetic |
| ProvSDK, GWSDK clients | none | GetFirmwareOptions, SendFirmwareUpgradeCommand | time out, refuse, throw |
| Dashboard | the report, `LastRun_`, `ValidDashboard_`, `GeneratingDashboard_`; a mutex for the report only | Get, Generate | flags are tested and set by several REST threads; the table is read in pages by offset while rows come and go |
| Kafka producer, consumer, dispatcher | a queue, the table of watchers | PostMessage, RegisterTopicWatcher, Start, Stop, two threads | messages dropped at stop, topics fixed at start, a `Running_` that the thread itself sets, a wake-up nobody waits for |
| Event bus and registry (`framework/MicroService.cpp`, `EventBusManager.cpp`) | `Services_` | JOIN, KEEP-ALIVE, LEAVE, expiry | messages late or out of turn, several instances at one end point |
| Identity (`AppServiceRegistry.h`) | `registry.json` | read at start, set, rewrite | the file is truncated before it is written |
| Requests to other services (`OpenAPIRequests.cpp`) | none | choose an instance, send | the list of instances is older than the request |
| UI web-socket server | clients, iterators to erase, two mutexes with the logger's | connect, close, broadcast, cleaner thread, Stop | iterators held across locks, a logger called while a lock is held |
| Subsystem life cycle (`Daemon.cpp`, `SubSystemServer`) | order of start and stop | Start, Stop | workers set `Running_` that Stop may already have cleared |
| REST framework (`RESTAPI_Handler.h`, the two servers) | one handler for each request, in a thread of its own | route, authorize, parse, handle, answer | which exceptions are caught; a client that goes; handlers of one row at the same time |
| REST handlers (`RESTAPI/`) | none of their own: tables, cache, log levels, `UpdateRunning_` | GET, POST, PUT, DELETE of images, history, system; readers | each statement on its own, its failure an answer or nothing at all |
| REST objects (`RESTObjects/`, `RESTAPI_utils.h`) | none | to_json, from_json of 179 types | the two are written by hand, field by field; documents of other versions; reading stops in the middle |
| Authentication client (`AuthClient.cpp`) | tokens and API keys found valid before, with their times | look up, ask the security service, remove | two caches with opposite tests of the time; entries go by age, for room or by an event |
| FirmwareCache, configuration validator, ALB, utilities | | | see 9 |

How they interact: Kafka's dispatcher thread pushes into the two device workers'
queues. NewConnectionHandler calls ComputeFirmwareAge, SetDeviceRevision,
LatestFirmwareCache::IsLatest, AutoUpdater::ToBeUpgraded and DeviceCache.
AutoUpdater asks the provisioning service, reads LatestFirmwareCache and
FirmwaresDB, and commands the gateway. ManifestCreator and the REST handler of
POST firmware both call AddFirmware, which calls LatestFirmwareCache. Start
order: Storage, FirmwareCache, LatestFirmwareCache, DeviceCache,
NewConnectionHandler, ManifestCreator, AutoUpdater, NewCommandHandler, UI, Kafka,
the REST servers, then the event bus; stop runs the other way.

What makes each modelled component correct:

* catalog and cache: what the table holds the cache knows, also beside adds,
  deletes and a crash; both caches answer with a newest image; one image of a
  type is flagged as latest; ages do not wrap;
* refresh: only what left the bucket leaves the table; no name gets two rows; a
  calm refresh ends with table and bucket equal; every refresh ends, and the
  next one can start;
* devices: a device's history is a chain that ends at its row, belongs to a
  row, and goes when the device is deleted; a delete is final; messages do not
  pile up;
* updater: at most one upgrade for each request, none without asking the
  provisioning service, none after Stop; Stop returns;
* dashboard: nobody is handed the empty report of the start or one older than
  promised; no device is counted twice or left out but for a reason; nobody
  waits for nobody;
* bus and life cycle: a message that was committed was handled, is in a queue,
  or was in a queue at a crash; events leave in the order they were posted; a
  stop ends, and nothing runs after it;
* registry: a live service that was heard is listed, a dead one is forgotten,
  the service never lists itself and keeps its identity;
* web-sockets: what has ended is erased once, no iterator is used after that,
  the welcome comes first, nobody keeps the lock;
* objects: what one service writes another reads back; what a document leaves
  out stays as it was; what was half read is refused;
* requests: none is answered twice, and few not at all; an answer tells what
  became of the store; an accepted note is lost only to who wrote the row at the
  same time; nobody is let in whom the security service did not vouch for.

## 2 Modules

| Module | Models | Proofs |
|---|---|---|
| `LatestImage` | abstract: the newest image offered since the start, for each type | |
| `FirmwareCatalog` | FirmwaresDB, LatestFirmwareCache, the REST handlers that change the table, the clean-up statements, restart and load | `FirmwareCatalogProofs` |
| `ManifestRefresh` | ManifestCreator and the bucket; EXTENDS `FirmwareCatalog`, whose actions it composes | with `FirmwareCatalog`, in `FirmwareCatalogProofs` |
| `DeviceTracking` | DevicesDB, HistoryDB, DeviceCache, NewConnectionHandler, NewCommandHandler | `DeviceTrackingProofs` |
| `AutoUpdater` | AutoUpdater, its timer, its two clients | `AutoUpdaterProofs` |
| `DeviceReport` | Dashboard: Get and Generate in several threads, over the paged scan of `ORM::Iterate` | `DeviceReportProofs` |
| `MessageBus` | KafkaManager: producer and consumer | with `Microservice` |
| `Microservice` | start, stop and crash of the process; EXTENDS `MessageBus`, whose operations its threads call | `MicroserviceProofs` |
| `ServiceRegistry` | the registry of services, `registry.json`, the choice of an instance | `ServiceRegistryProofs` |
| `WebSocketServer` | the UI web-sockets, their reactor, cleaner and logger | `WebSocketProofs` |
| `JsonDocument` | how a field of a kind is written and read (`RESTAPI_utils.h`) | |
| `FMSObjects`, `SecurityObjects`, `ProvObjects`, `GWObjects`, `AnalyticsObjects`, `CertObjects`, `OWLSObjects`, `SubObjects` | for each type the fields its to_json writes and its from_json reads | |
| `ObjectExchange` | an object written, damaged on the way, and read | `RestProofs` |
| `RestRequest` | requests from their server to their answer, with every handler of the service | `RestProofs` |
| `MC...` | the small instances | |

### FirmwareCatalog

One action for each database statement and each critical section of the cache;
threads interleave between them, and `Restart` may come between any two. A
record is an id whose type, revision, date and release never change, so they are
constant functions of it; `db[id]` holds what does change (the latest flag, the
notes), or `None`. `used` are the UUIDs given out. A cache entry of the code
holds the record's id, date and revision, all fixed by the id: the model's
entry is the id. `op[t]` is the next statement of thread `t`; `fw`, `todo`,
`victims`, `ask`, `le` are the local variables of its operation. AddFirmware is
`AddFirmware` (cache first), `SelectLatest`, `ClearLatest` for each row read,
`CreateRecord`. ComputeFirmwareAge is `AgeCurrent`, `AgeFindLatest`, `AgeAnswer`
with their failing forms. `Restart` empties everything but the table, and
`LoadRow` re-enters the rows in any order, since the scan has no ORDER BY;
`LoadFails` may cut the scan off at a page of `Batch` rows, which Iterate takes
for its end. Unsigned subtraction is modulo `Word`.

A failing statement is `Fault`: the ORM catches it and answers false. The model
lets it fail before it has an effect.

Left out: the order and paging of lists, and the limit of 200 rows of the query
for flagged rows (`orm_firmwares.cpp:66`), which would matter only to a table
with more than 200 flagged images of one type.

### ManifestRefresh

Adds the bucket (for each name the date of its image and the state of its
manifest), the runner thread (`step`) and its locals, and the flags. A page is
listed by `ListObjects` in S3's order from the last key seen; the manifest of a
name is fetched by `ReadManifest` later, so the bucket may have changed in
between. The listing goes to `seen` (BucketList), the valid names to `pending`.
Every statement on the table is the action of `FirmwareCatalog` of that name,
done by the thread `Runner`, which is why `CatalogSpec` can say that the
composition implements `FirmwareCatalog`. ComputeManifest and the removal of
staging names are local to the thread and are one step. `Throw` is an exception
that leaves `run`: the thread ends and `UpdateRunning_` stays set. A request
that comes when the flag is clear but the thread has not ended makes
`RunnerThread_.start` throw, with the same result.

History variables: `whole` (the listing was not cut short), `absent` (names
whose image was missing at some time during the refresh), `calm` (nothing from
outside changed meanwhile), `loose` (names a POST or a failed look-up added).

### DeviceTracking

Two workers, each with its queue, on the two tables. `step` and `stage` are
their next statements; `row` is the row SetDeviceRevision or
SetDeviceDisconnected read, which is written back later. An exception in the
connection worker drops the message; what `nlohmann::json` throws on a malformed
command is not caught and ends the command worker (`stage = "dead"`). The age
and latest answers come from FirmwareCatalog and are arbitrary here. Of a
device its revision and status are kept; the history entry's previous
`revisionId` and times are not.

`disturbed` is a history variable: devices whose history is not vouched for
because both workers were at work on them at the same time, a statement on
their history failed, or an entry was removed by REST. The first of these is
needed: delete_device may remove history and row while the other worker holds
the row, and an entry is then added for a device that is gone (section 8). The
row of such a device is still covered by `NoResurrection`.

### AutoUpdater

`timer` and `step` are the Poco timer and its thread: `Due` is the moment from
which a stop comes too late for one callback; `ThreadEnds` is the end of the
thread that `stop()` waits for. The mutex is held from `Lock` to `LeaveLoop`.
The answers of provisioning service, cache, table and gateway are arbitrary, a
request that fails is a "no" and one that throws drops the entry. `SetClock` is
the wall clock, which may go back. `Stale` is the unsigned difference of
`AutoUpdater.cpp:61`. `asked` and `sent` are history variables.

### DeviceReport

The threads that GET the report, statement by statement: `TestValid`,
`TestAge`, `Copy` and `Return` are Get, `TestGenerating` to `Clear` are
Generate, whose flag is tested in one step and set in the next. A report is
named by the time of its stamp and counts are kept for each row (`part`). A page
is the rows at places `offset+1 .. offset+Batch` of the table as it is then:
rows that `AddRow` and `DeleteRow` put in or take out shift the places of
others. `FailPage` is a statement that fails, which Iterate takes for the end of
the table; `Throw` is the `catch (...)` of Generate. History: `stayed`, `calm`
and `cut` say what happened to the table while one thread read it, `overlap`
that two generated at once.

### MessageBus and Microservice

`MessageBus` has KafkaManager's two objects. Poco's notification queue hands a
note to a thread that waits, so `WakeUpAll` wakes only a producer that waits at
that moment. The consumer subscribes once to `topics`, polls, calls back under
the lock, and commits. Its operations are operators without a program counter;
`Microservice` calls them from the threads that the code calls them from: the
main thread (`Initialize` to `StartEventBus`, `Terminate`, `StopEventBus` to
`EndMain`, in the order of `Daemon.cpp` and of `StopSubSystemServers`), the event
bus (JOIN, KEEP-ALIVE, LEAVE), and the workers, whose queue the callback fills.
Every store to a `Running_` is a step. `Crash` loses the memory of the process and
keeps the broker. A topic is named by its one watcher. `missed` names the
threads that were told to stop at a moment when they could not hear it: a thread
whose `run` sets `Running_` after Stop has cleared it, a consumer without
dispatcher, a producer that goes to wait after the only wake-up.

### ServiceRegistry

What one instance, `Me`, knows of the others. Events are queued with their age;
`Tick` is one period of the bus timer. `BusMessageReceived` is the whole handler:
its catch (garbage skips the sweep), its test for own events, the update, the
sweep. `Restart`, `Abort`, `Truncate`, `Write` are the start, in which every call
of `AppServiceRegistry()` rewrites the file by the destructor of its copy; `Reload`,
on the command of a client, does so again while the service runs. `End` may fall
anywhere, with or without LEAVE. A request is `GetServices` (the first
instance listed) and `Do`.

### WebSocketServer

Five threads and main. `local` and `splitter` are the mutexes of the server and of
the logger's splitter channel. `Say` is a log message: with `Asynch` it goes to the
queue of the logger's thread, without it the thread that logs writes to all
clients itself. `toBeRemoved` keeps the iterators, `broken` that one was used whose
node was gone, or that the table was cleared under a thread that used it. Stop
(`Clear` to `JoinCleaner`) does not take the lock.

### REST objects

`JsonDocument` says what writing and reading a field of each kind does, with what
throws and what is ignored. Each of the eight modules of objects lists, for
every type and in the order of the code, the fields that to_json writes and that
from_json reads, with the name on the wire, the member and the kind.
`ObjectExchange` takes one object of one type through to_json (`ToJson`), damages
(`Damage`: a member missing, null, of another JSON type, or with an unreadable
element) and from_json (`FromJson`), once or twice, into a new or a stored object.
Values are opaque. What the lists of fields must satisfy for all that follows is
`ExchangeAssumption`; TLC evaluates it for the 179 types.

### RestRequest

One thread per request, and the thread of the refresh. `Ask` is what a request
may be: server, path, method, body, credentials, query. `NoHandler`,
`HandleRequest`, `Authorize`, then the step or steps of its handler, then `Send`.
Statements on the table are steps of their own, with their failure; `kept` holds
the copies of rows that a thread will write back.

AddFirmware has the same statements as in `FirmwareCatalog`, here for what the
client is told and for what it writes back. Both of its callers use the same
actions, `AddToCache`, `ReadLatest`, `ClearLatest`: POST firmware, and the refresh
when it adds an image (`RefreshAdds` to `RefreshCreates`). Otherwise the refresh is
reduced to what requests notice of it: it is started by its timer or by a PUT,
deletes rows, whoever added them, ends, or dies and leaves the flag. Which rows
and which images is left open; `ManifestRefresh` says it.

`IsAuthorized` follows the three ways of the code. Another service shows the key
of this one; its user has no role, so `Admit` gives it any. A token and an API key
go through their caches: `CacheAccepts` is the test of the time, which for a key
is the other way round (`AuthClient.cpp:122`), `Retrieve` and `Refuse` what the
security service says, or that it cannot be reached. `Lapse` and
`RemovedCachedToken` are the time that passes and an entry that leaves its cache,
at any moment before the decision.

`SetSubsystemLogLevel` sets what its element names, if there is such a subsystem
and level, and `PostSystem` answers without looking at its result.

History variables: `did`, the request had its effect; `beside`, who held a copy of
the same row at the same time; `vouched`, what the security service has found
valid.

## 3 Properties and runs

| Run | Question | Properties |
|---|---|---|
| `catalog` | two threads, two images, edits, deletes, clean-ups, a failed statement, crashes | `CacheCoversDB`, `AgeNeverWraps`, `OneLatestFlag`; the refinements `AnyImageSpec`, `CandidateImageSpec` of `LatestImage` |
| `refresh` | two names, one a staging name, a bucket that changes while it is listed, exceptions, Stop, crashes; liveness | `RefreshInvariant` (types, `PrunedWereGone`), `Synced`, `RefreshEnds` |
| `refresh_rest` | the refresh beside a REST thread, a failure | `RowPerRelease`; the refinement `CatalogSpec` of `FirmwareCatalog` |
| `in_progress` | violated: see 7 | `InProgressIsTrue` |
| `tracking` | four messages and commands of one device, a failure, crashes | `HistoryConnects`, `HistoryHasDevice`, `NoResurrection`, `Handled` |
| `updater` | two devices asked for twice, a clock that moves both ways, reset, Stop | `SettingsKnown`, `OncePerRequest`, `QuietAfterStop`, `UpdaterProgress` (`StopEnds` and `Drained`) |
| `report` | three threads ask for the report while a row comes or goes, a page fails, a generation throws | `ReportInvariant` (types, `ServedIsReport`, `FlagHasOwner`, `StampIsOfReport`), `CountedOnce`, `CopiedIsRecent`, `RefusedForCause` |
| `stop` | start, a message, keep-alive, stop at any moment, a message Kafka refuses, a crash and the next process | `ServiceInvariant` (types, `EveryTopicIsHeard`, `QuietAfterStop`), `DeliveryAccounted` (`CommittedIsSafe`, `TwiceOnlyHalfway`), `EventsInOrder`, `StopEnds` |
| `registry` | two instances of a service that follow each other at one end point, late events, vanishing, restarts and reloads of the service itself | `RegistryInvariant` (types, `NotMyself`, `LiveIsListed`, `EvictedComesBack`), `DeadAreForgotten`, `IdentityKept` |
| `websocket` | two clients come, log in and end while the logger writes to all, and Stop | `WebSocketInvariant` (types, `BrokenOnlyByStop`, `ReadOrEnding`), `WelcomeFirst`, `LockIsReleased`, `EndedAreErased` |
| `objects` | every type, new or filled, one member damaged (two in the smaller objects of this service), read once or twice | `ExchangeInvariant` (types, `EachMemberIsSent`, `PartialUpdate`, `RetryOnlyAppends`), `RoundTrip`, `HalfReadIsRefused` |
| `requests` | one request of any kind, or beside a writer, three writers of one row, writers beside a refresh that deletes and adds, failures, clients that hang up, credentials that run out or are forgotten | `RequestInvariant` (types, `OneAnswer`), `AnswerTellsOutcome`, `NotesKept`, `NothingWithoutAuthorization` |

What they say that the code does not show at a glance:

* `CacheCoversDB` holds because AddFirmware tells the cache before it inserts the
  row, and because nothing is ever taken out of the cache; it fails only when a
  load was cut short. `AgeNeverWraps` is its consequence over three statements.
* `AnyImageSpec` and `CandidateImageSpec` show that each cache alone is
  `LatestImage`, whatever the threads do to the table, and that a restart is
  `Forget` followed by `Offer`s.
* `OneLatestFlag`: two rows of a type with the flag need overlapping writers or a
  failed statement. A crash inside AddFirmware is not enough, since it leaves
  fewer flags.
* `PrunedWereGone` is what survives of "remove what is not in the bucket" when
  pages and manifests are fetched one by one from a bucket that changes.
* `RowPerRelease` and `Synced` hold across refreshes that are cut off at any
  step and begun again.
* `HistoryConnects` allows the repeated entry that a crash between AddHistory
  and UpdateRecord leaves, and nothing else.
* `QuietAfterStop` and `StopEnds` of `AutoUpdater`: a callback that is due when Stop
  runs sets `Running_` again, so the queue is still emptied; yet Stop waits for
  it, and nothing follows.
* `CountedOnce` says exactly what paging by offset loses: a delete makes it skip
  a row, an insert makes it count one twice, and neither does the other.
* `CopiedIsRecent` and `StampIsOfReport` name the three ways in which a thread may be
  handed an old report: two generations at once, a generation that threw, and
  the moment between the stamp and the store.
* `EveryTopicIsHeard` rests on the order of the subsystems alone: the topics are
  copied when the consumer's thread begins.
* `DeliveryAccounted`: delivery is neither at least nor at most once. What was
  committed may be lost from a worker's queue in a crash; what was called back
  and not committed is handled again; nothing else goes wrong.
* `StopEnds` of `Microservice` and `missed` together list every way a stop may hang.
* `DeadAreForgotten`: the sweep runs only when an event is read, and it is the
  service's own events, which come back to it, that bound the time.
* `RetryOnlyAppends`, `PartialUpdate`: reading is idempotent but for the lists that
  are appended to; a missing member is left alone but for two enumerations.
* `AnswerTellsOutcome` states, for each method that writes, what an answer
  promises, and where the promise ends: a PUT whose row is deleted meanwhile, a
  `setloglevel` that fails at its second element, and one that names a subsystem
  or a level that there is not, which is answered 200 as well. `NotesKept` says
  when an accepted note may be lost: never without another request, or the
  refresh, that held a copy of the row beside it.
* `NothingWithoutAuthorization` says what the caches of credentials may not do:
  let in who was never vouched for, or a token after its time. It promises
  nothing of the time of a cached API key, nor of which other services may start
  a refresh.
* Several properties bound a hazard rather than exclude it. `EventsInOrder`
  allows the end of the queue to be dropped at a stop, `StopEnds` and
  `ServiceInvariant` name in `missed` the stops that are not heard, the device
  properties name in `disturbed` the overlaps and failed statements after which
  they promise nothing, `PrunedWereGone` needs a whole listing, `OneAnswer` leaves
  out what is dropped unanswered. That nothing else goes wrong is what they say.

## 4 Bounds

* Catalog: two images, two threads. Every property is about one type, and about
  the flag, the cache entry and the row of at most two images; type B has none.
  Two threads give every pair of overlapping operations. The first image is the
  newer one and a release candidate, and either may be added first. `Word = 8` stands for 2^64, `Batch` of one
  for 50.
* Refresh: two names and pages of one or two objects give a name's objects on
  different pages and a page that ends between two names; two changes of the
  bucket let an object appear behind the listing and vanish before it. Records
  come from the pool `Ids` (one for each name and date, one twice); a refresh
  that finds the pool used up waits for ever, which `PoolUsedUp` excepts, since
  UUIDs do not run out.
* Tracking: devices are independent of each other, so one is enough; four
  messages are a connection, an upgrade, a delete and one more message, the
  longest story the properties distinguish.
* Updater: two entries of each device; times 0 to 2 with `Window = 1` are fresh,
  stale, and from the future.
* Report: three threads, so that one waits while two generate; three places for
  rows, pages of one row, one change of the table (each of add and delete shows
  its one effect); two times with `MaxAge = 0`, so that a report is young at its
  time and old at the next.
* Stop: one handler (the two are the same code) beside the registry's topic, one
  message, one keep-alive, one refused message, one crash.
* Registry: two peers at one end point and the service at another; an event
  takes at most one period of the bus timer (`MaxLag`), and an entry lives two
  (`MaxAge`) instead of the twelve that 120 s are at 10 s each: more than one is
  what keeps a live service listed. Two identities, so that one can be lost.
* Web-sockets: two connections, one log message in the queue. A third connection
  would be a second bystander.
* Objects: every type; one damaged member of each, and any two in those types of
  this service that have no more than eight members: fields of one document
  meet only where one throws and another is skipped, which two show.
* Requests: of the product of all fields of a request those slices that matter
  together: every route with every method on either server; every credential
  before every operation that changes something; every body of every operation
  that has one; every query of every reader. Every credential twice, so that one
  request finds what the other left in the cache; every body beside each writer
  of the same row; three writers of one row. The refresh is due at most twice
  (`due`): once beside two writers, twice beside one, so that the second may come
  while the first is ending; it adds one image (`Listed`), which is enough to
  write a row back. Any number of statements fail. Clients hang up only while
  the answer is being sent: earlier a handler cannot tell. Credentials run out
  or leave their cache only while somebody waits for their verdict (`Awaited`):
  at other times nobody sees it.
* `MaxFaults` is one where it is a constant: a failure in each place, one at a
  time. It is zero in `refresh`, which has `refresh_rest` beside it.

The theorems of section 6 need none of these bounds.

## 5 Fairness

* `refresh`: `WF(RunnerStep)`. The thread is scheduled, and each call to S3 or the
  database answers or fails (the AWS client and the database driver have
  time-outs). Nothing is assumed of the world: uploads, crashes and Stop may
  happen or not.
* `tracking`: `WF` for each worker, which loops and wakes at least every two
  seconds. A worker that an exception has ended is excepted by the property, not
  by the fairness.
* `updater`: `WF(TimerStep)`, since the timer's thread is scheduled and its
  requests time out; `WF(MainStep)`, since a Stop once begun is carried on. `Stop`
  itself, `ToBeUpgraded` and `Reset` are under no fairness.
* `stop`: `WF` for each thread of the process: the system schedules them, the
  event bus's and the workers' sleeps end. Nothing is assumed of messages, of
  the request to terminate or of crashes.
* `websocket`: `WF` for a thread that holds the lock and for the worker; `SF` for the
  logger, the cleaner and the reactor, which wait for a mutex that others take
  and release: the mutex is not withheld from one of them for ever.

The other runs check safety only and assume no fairness.

Deadlock is checked in `catalog`. The other cfgs say CHECK_DEADLOCK FALSE, as there the bounds on messages, requests, changes or the clock, or a stop,
let the system come to rest.

## 6 Proofs

The proofs hold for every value of the constants under the named assumption of
each module, which TLC evaluates in its runs:

* `CatalogAssumption`, `RefreshAssumption`: columns are functions on ids, dates
  and the clock fit 64 bits, the refresh is one of the threads, names are
  positive numbers, a page holds at least one object. The sets may be infinite;
  nothing says that the bucket is finite.
* `TrackingAssumption`, `UpdaterAssumption`: as above for devices and revisions.
* `ReportAssumption`: finitely many rows, numbered in the order in which the
  table is read; times and the age that is allowed do not wrap.
* `MicroserviceAssumption`: finitely many handlers, apart from the registry; one
  watcher for each topic.
* `RegistryAssumption`: finitely many other instances, none at the service's own
  end point; an entry is kept for longer than an event may be on its way. Both
  of the latter are about the deployment, not the code: another instance at the
  own address, or a broker slower than the time-out of 120 seconds, would make a
  registry by events alone wrong however it is written.
* `WebSocketAssumption`: finitely many connections, since users are counted; a
  log message can be queued.
* `ExchangeAssumption`: in each type a member is of one kind, in and out, and a
  list is read once (`WellFormed`); what is written is read but for `Losses`, and a
  from_json refuses but for `Lenient` (`Agree`); the objects hold no value that
  means something else on the wire. It speaks of the lists of fields alone, not
  of documents or of reading. A type added to the code enters the theorems by
  being added to the table and passing TLC's evaluation.
* `RequestAssumption`: a request asks for something a client can ask for, and
  not for an image that a request or the refresh adds, whose UUID it cannot
  know; how often the refresh is due is a number.

Two theorems have a hypothesis of their own, `WelcomeSound` and `LocksOrdered`:
asynchronous logging (`Asynch`), the default of the code; without it what they say
is false (section 8).

Every strengthening below was checked by TLC as an invariant of the run of its
module before it was proved, that of `ManifestRefresh` also on a larger instance
with pages of one object, misnamed manifests and a failing statement.

| Theorem | States | Inductive invariant |
|---|---|---|
| `FirmwareCatalogProofs!TypeCorrect` | `[]TypeOK` | `TypeInv`: with what each step of an operation has in hand (`InHand`), since AddFirmware's later statements read the type of `fw[t]` |
| `CacheCovers` | `[]CacheCoversDB` | `CoverInv`: not only the rows but every record that AddFirmware is still to insert, and everything offered, is covered by the cache |
| `AgeSound` | `[]AgeNeverWraps` | `AgeInv`: the row read first is covered by the cache, and so by the entry found later; `IdleHands`: an operation starts with empty hands |
| `CacheRefines`, `CandidateCacheRefines` | `Spec => AnyImageSpec`, `Spec => CandidateImageSpec` | each `AddToCache` is an `Offer`, `Restart` is `Forget`, every other step stutters |
| `CachesAlwaysAgree` | `[]CachesAgree` | itself, with `TypeInv` and the offers of `CoverInv` |
| `FirmwareCatalogProofs!OneFlag` | `[]OneLatestFlag` | `FlagInv`: see below |
| `DeviceTrackingProofs!TypeCorrect` | `[]TypeOK` | `TypeInv`: `InHand` (what the worker holds at each step) and `Numbered` (history entries, queued messages and the one in hand together are no more than the messages received) |
| `NeverBack` | `NoResurrection` | `TypeInv`: no row is in hand when a row is created |
| `HistoryKept`, `StoryConnects` | `[]HistoryHasDevice`, `[]HistoryConnects` | `StoryInv`: see below |
| `AutoUpdaterProofs!TypeCorrect` | `[]TypeOK` | itself |
| `SettingsSound` | `[]SettingsKnown` | itself, with `TypeOK` |
| `QuietSound` | `QuietAfterStop` | `QuietInv`: stopped means that the timer is off, and that means that no callback runs |
| `OnceSound` | `[]OncePerRequest` | `WithinAsked`: what was sent for a device, is in the timer's hand and still queued, together, is no more than what was asked |
| `FirmwareCatalogProofs!RefreshRefines` | `RefreshSpec => CatalogSpec` | `BaseInv` (`TypeInv` of the catalog, the types of the refresh, and `ControlOK`: the place of the runner in its statement, its locals and the flag agree with its step) |
| `CatalogKept` | `[]CacheCoversDB`, `[]OneLatestFlag`, `[]CachesAgree`, `[]AgeNeverWraps` beside refreshes | none: by `RefreshRefines` from the theorems of the catalog |
| `RefreshKeepsCaches` | `RefreshSpec => AnyImageSpec /\ CandidateImageSpec` | none: the refinements compose |
| `RefreshSound` | `[]RefreshInvariant` | `NothingSkipped`: see below |
| `RowsSound` | `[]RowPerRelease` | `OneRowEach`: whoever is about to insert a row knows of no other row of its name, or the name is excepted |
| `SyncSound` | `Synced` | `SyncInv`: see below |
| `DeviceReportProofs!ReportSound` | `[]ReportInvariant` | `OwnerOK` (a set flag has a thread that clears it; generations side by side are noted), `ServedOK` (until a report is stored none is handed out, and a report is valid only after), `StampOK` (stamp and report differ only between `Stamp` and `Store`) |
| `CountSound` | `[]CountedOnce` | `CountOK`: see below |
| `RecentSound`, `RefusalSound` | `CopiedIsRecent`, `RefusedForCause` | `RecentOK`: who copies has found the stamp young or waited for a generation that ended after he came |
| `MicroserviceProofs!ServiceSound` | `[]ServiceInvariant` | `StageOK` (how far the main thread is says which threads there are), `HandlersOK`, `TopicsOK` (who is registered is subscribed once the consumer has begun) |
| `EventsSound` | `[]EventsInOrder` | `EventsOK`: what was sent, then the note in hand, then the queue, is what was posted |
| `DeliverySound` | `[]DeliveryAccounted` | `PositionOK`, `QueuesOK`, `HandledOK`: see below |
| `WebSocketProofs!TableSound` | `[]WebSocketInvariant` | `OwnerOK` (the lock's owner is at a step under the lock, and nobody else is), `SubjectOK`, `TableOK`: see below |
| `WelcomeSound` | `[]WelcomeFirst`, if `Asynch` | `WelcomeOK`: an authenticated client that is still read has its welcome or the reactor is at the step that sends it |
| `LocksOrdered` | `[]NoCircle`, if `Asynch` | `SplitterOK` (the splitter's mutex is held from the test for clients to the end of the send), `OwnerOK`, and no thread but the logger's writes: see below |
| `ServiceRegistryProofs!RegistrySound` | `[]RegistryInvariant` | `LiveOK`, `BackOK`: see below |
| `DeadForgotten` | `[]DeadAreForgotten` | `NewsOK`, `EntryOK`: see below |
| `IdentitySound` | `IdentityKept` | `IdentityOK`: unless it is being written or a crash has torn it, the file holds the identity that was announced |
| `RestProofs!OnlyTrusted` | `NothingWithoutAuthorization` | `AuthorizedInv`: what is cached was vouched for; whoever is inside a handler past the authorization was, too, and has a role that he may have (`LetIn`); the web-socket, which lets everybody in, goes no further than its first step; the thread of the refresh is busy only while it adds (`RunnerAdds`) |
| `AnsweredOnce` | `[]RequestInvariant` | `AnsweredWhenDone`: nothing is on the wire before the handler is done, and only Send ends a handler, the web-socket's apart; for the types `CopyInHand`: a PUT about to write holds the copy of its row and no other. What is dropped is never done, and promised nothing |
| `AnswersTellOutcome` | `[]AnswerTellsOutcome` | `TellInv`: a handler at work has had no effect yet, the status it is about to send is true (`Told`), and stays true whatever the others and the refresh do, since no request asks for an image that one of them adds |
| `NotesStay` | `[]NotesKept` | `NoteInv`: while a PUT holds its copy the note is in it and every other thread that holds the row is beside it; once written, the row has the note and so has every copy that is still to be written over it |
| `RestProofs!ExchangeSound`, `RoundTripSound`, `HalfReadSound` | `[]ExchangeInvariant`, `[]RoundTrip`, `[]HalfReadIsRefused` | `Exchange`: see below |

`FlagInv` says of a type that nothing has disturbed: threads that are at work on
its flags together all do PUTs (`Alone`); one row is flagged (`Single`); an
AddFirmware that is clearing flags still holds every flagged row (`Caught`), so
when its list is empty no flag is left and it may insert its own; and a PUT that
read a flagged row names the one row that is flagged now or will be flagged by
another PUT (`PutsAgree`), so writing the old row back adds no second flag.
`Snapshot` ties what a thread has read to its record's type.

`StoryInv` has four parts beside the two properties. `Apart`: two workers at
work on one device have disturbed it. `Cleared`: between the two statements of
delete_device an undisturbed device has no history. `RowCurrent`: the row in the
connection worker's hand still agrees with the table. `UpdateAgrees`: before the
row is updated, the last entry already names the new revision. The last two are
what the two-statement update of SetDeviceRevision rests on, and the overlap of
the workers is what breaks them.

`NothingSkipped` and `SyncInv` speak of the listing while it is under way. Its
steps rest on one lemma, `PageListed`: a page holds exactly the objects that are
stored at that moment between the token and the next token, and all of the rest
when it is the last; it is proved from the order of the keys alone (`Rank` is
injective, every set of naturals has a least element), for buckets of any size.
`NothingSkipped` then says that a name whose image was never absent is recorded,
on the page, or beyond the token. `SyncInv` says of an undisturbed refresh what
has been recorded of each name so far (`Found`), that in the end it is what the
bucket holds (`Expected`), and that from then on every row belongs to a name of
the bucket or is among the victims, and every wanted name has a row, is pending,
or is being inserted.

`CountOK` relates a thread's counts to the table by rank: rows at a place up to
the offset have been counted unless one was deleted, and no row beyond it unless
one was added (`RankMoves` says how the ranks of the other rows move). An
exception to one half of the property is thus never used for the other.

`PositionOK` says that only the message in the consumer's hand separates what
was polled from what is committed; `QueuesOK` and `HandledOK` that a queue holds
a message once, that what was handled waits no more, and that only a message cut
off by a crash between callback and commit comes again.

`TableOK`, until Stop: the iterators that wait to be erased are of different
connections, all in the table, and the reactor reads exactly the others and the
one about to be inserted. It holds because every step that changes one of the
three is under the lock, which is what `OwnerOK` is for; Stop does not take it,
and the property ends there.

`NoCircle` is defined beside its proof: a thread that another waits for, at
LocalMutex_ or at the mutex of the splitter, does not wait itself. It is the part
of `LockIsReleased` that needs no fairness: the owner of LocalMutex_ never waits,
and for the splitter nobody does. The HTTP thread waits only with nothing in hand and is left out of
`Waits`; Stop takes neither mutex.

The registry is proved from one invariant, `Strong`, since its parts need each
other: what an event says of another instance counts only if it is not taken for
one's own, and that rests on the identity (`QueueOK` from `IdentityOK`). `NewsOK`: the
end point of an event has been silent for no longer than the event is old.
`EntryOK`: an entry is no older than the silence of its end point allows; once it
is due to be swept, an event that will cause the sweep is in the queue or the
service's own next one is due, for the sweep has no timer of its own. `LiveOK`: the
entry of a live instance is no older than its last sign still to be read
(`Coming`), so that it is never swept; `BackOK` says the same of how long an
evicted one has been gone.

`TypeOK` of the catalog, the devices and the updater, `CachesAgree` and `NoCircle`
are proved and not among the properties of a run.

The steps of the handlers of `RestRequest` are proved once for what they do to
the others: each takes its own request `Onward`, has at most its own effect
(`ByItself`), and writes a row only from a copy it held (`Handles`). The refresh
and the rest of the surroundings are `Aside`, and write rows as `Handles` says,
too. The invariants of a request under the steps of the others follow from these
alone, so a handler added to the model needs only those facts and its own step.

`Exchange` has two parts beside the types. `DocumentOK`: the document is what
to_json wrote of the sender's object, but for the names noted as damaged.
`ReadOK`: what the reader holds is `ReadInto` of the document and of what he held
before. The rest are lemmas about reading. `ReadIs`: the last field of a name that
was not skipped decides, and since fields of one name are of one kind any of them
tells its effect. `AfterSound`, `AfterNothing`, `AfterTwice`: what a sound value, a
missing one and a second reading leave. So a sound member that was not taken was
skipped, only an exception before it skips it, and that exception is what
`Accepts` reports, unless it stayed inside an inlined part.

Only model-checked:

* the liveness properties (`Handled`, `UpdaterProgress`, `StopEnds`,
  `LockIsReleased`, `EndedAreErased`, `RefreshEnds`): liveness under fairness and
  ENABLED are beyond the proof system's provers.

## 7 Disagreement between code and text

* `in_progress`, a run that TLC must find violated: a manifest that is not JSON
  makes `P.parse` (`ManifestCreator.cpp:257`) throw out of `run`; every later refresh
  is refused as "DB refresh already in progress" (line 33) until the process
  restarts.

## 8 Observations that are not runs

Seen while reading and modelling; the models show them, one look does, or no
text says what is right.

Catalog and refresh:

* Two adds of images of one type at the same time both find no flagged row and
  both insert one (`orm_firmwares.cpp:65`, against the comment of line 59).
  AddFirmware flags the image it adds even when it is older than the rows of its
  type; AddToCache always answers true.
* `run` ignores the result of ReadBucket: a listing cut short by Stop or by a
  failed request counts as the whole bucket, and the rows it did not reach are
  deleted (`ManifestCreator.cpp:239` and 248, against the comment of line 118).
* No delete tells the cache (`orm_firmwares.cpp:82`): ages of the type cannot be
  computed until a newer image or a restart, and `latestOnly` answers 404; it does
  so too between AddToCache and the insert of the row.
* A staging manifest whose image is missing is added: only entries with a URI
  are tested for their name (`ManifestCreator.cpp:109`). The comment at line 179
  says one hour for a timer of one minute.

Devices and updater:

* delete_device removes history and row while the other worker holds the row: an
  entry is then added for a device that is gone (`NewCommandHandler.cpp:57`).
* A provisioning answer found in the cache is not read: a second entry of a
  device in the same second is upgraded in spite of a "no" (`AutoUpdater.cpp:79`
  and 85). `AutoUpdaterEnabled_` is true until Start has read the configuration
  (`AutoUpdater.h:44`), and nothing bounds the queue.
* Two queries of HistoryDB have a stray `;)` in their SQL text and cannot succeed;
  the handlers answer an empty list. `GetRecord` with two fields answers true when
  there is no row.
* A device that connects with a revision without computable age updates
  DeviceCache but not its row.

Dashboard, bus, registry, web-sockets:

* Two generations may overlap; a thread with a valid copy may answer an error
  because another has begun to generate; a page that fails makes a short report
  that counts as valid.
* A Stop may hang: a producer at its last note misses the only wake-up; a worker
  or the event bus that begins after its Stop sets `Running_` again. A consumer
  told to stop before it set `Running_` outlives the stop. LEAVE may be dropped.
* The first start without `registry.json` aborts and leaves an empty file; the
  second works.
* A request goes to the first instance listed and to no other; a reply of an
  error that is not JSON is reported as a gateway timeout.
* UI Stop clears the table without the lock and leaves iterators to erase; with
  `logging.asynch = false` reactor and logger may wait for each other's mutex, and
  a log message may come before the welcome. This is why `websocket` is run with
  the default.

Requests:

* A PUT whose row is deleted meanwhile is answered 200 and stores nothing. Two
  PUTs of a row, or a PUT beside a POST or a refresh that takes the row's flag,
  may lose an accepted note. Notes that cannot be read are dropped with 200.
* `setloglevel` answers 200 for a subsystem or a level that there is not
  (`MicroService.cpp:629`), and for an element without one of the two
  (`RESTAPI_SystemCommand.h:99`).
* A cached API key is accepted only once its time is over; before that it is
  removed and asked for again (`AuthClient.cpp:122`). An API key that is not
  cached is not tested for its time here.
* `Firmware::from_json` answers true on any exception, so that the callers' test
  for an invalid document never fires; a POST without a body stores an empty
  image.
* DELETE revisionHistory answers 404 when it deleted and OK when it failed
  (`RESTAPI_historyHandler.cpp:60`).
* An internal caller has no user: `userRole` is read uninitialised
  (`RESTAPI_SecurityObjects.h:151`).
* A number longer than 64 bits drops the connection without an answer. A path
  that cannot be parsed is answered 501 by the external server, 500 by the
  internal one. `setloglevel` with a malformed second element answers 400 and
  leaves the first set. A refresh asked for while the last thread is ending is
  answered 400 and leaves the flag set.
* `deviceInformation` reports a latest image for a type that has none.
* "reload" runs ten seconds later in a detached thread: an exception there ends
  the process, and two may overlap.

Objects:

* `DeviceReport::from_json` reads nothing; `WebToken.errorCode` and the dates of
  `DefaultConfiguration` are only written; `Device.deviceType` is read and, in a build
  without TIP_GATEWAY_SERVICE, not written. An empty embedded configuration comes
  back as "{}". The type of a location or contact is reset when absent. Vectors
  of objects and of pairs are appended to on every read. An array or object of
  the wrong shape is ignored. A part read by `info.from_json` loses its rest
  silently. The status is "not connected" in the table and "disconnected" in the
  API description.

## 9 Not modelled

* FirmwareCache: started and never used.
* The security service, which is another repository: its verdict on a token or
  key is an input of `RestRequest`.
* Configuration validator: an embedded JSON schema and its evaluation, not
  called by this service.
* Rate limiter: no server of this service sets it.
* ALB health server, utilities, storage set-up: a constant answer, pure helpers,
  and the choice of the database.
* HTTP, TLS, SQL text, logging layout, encryption of files, command line.
* Of the REST framework, start and stop of the HTTP servers and the reload.
* Reads that change nothing: lists, their paging and order.

Where the modules are coarser than the code:

* `ManifestRefresh`: `Rank` lists the image and the manifest of a name next to each
  other; in S3 another name's key may come between them. `LastUpdate_`, which the
  firmwares handler only reports, is left out.
* `DeviceReport`: rows come and go during the scan, but are not updated
  (`orm_deviceInfo.cpp:42`). With PostgreSQL a scan without ORDER BY may meet an
  updated row at another place, which `CountedOnce` does not speak of.
* Objects: a member is called in the model as on the wire. Where to_json and
  from_json agree on a name that is not the member's (`RESTAPI_FMSObjects.cpp:146`,
  `RESTAPI_ProvObjects.cpp:275` and 276) the model cannot show it.
* `ServiceRegistry`: reloads that save registry.json at the same time are one save.
* `RestRequest`: all images with a type are of one type; two requests of one
  credential find each other's entry in the cache, requests of different
  credentials never compete for room.
