-------------------------- MODULE ManifestRefresh --------------------------
(***************************************************************************)
(* The refresh of the firmware table from an S3 bucket                     *)
(* (ManifestCreator.cpp), beside the REST threads and the table and cache  *)
(* of FirmwareCatalog.  Every statement of the refresh on the table is an  *)
(* action of FirmwareCatalog, done by the thread Runner; this module adds  *)
(* the bucket, the thread's control and its local variables.               *)
(*                                                                         *)
(* A release name stands for two objects of the bucket, its image          *)
(* (<name>-upgrade.bin) and its manifest (<name>.json).  Names are numbers *)
(* in the order S3 lists them; of one name the image is listed first.      *)
(***************************************************************************)
EXTENDS FirmwareCatalog

CONSTANTS
  Runner,         \* RunnerThread_
  Staging,        \* names that contain "-staging-"
  CompatibleOf,   \* device type in the manifest of a name
  TimestampOf,    \* build time in the manifest of a name
  UploadDates,    \* LastModified of images
  Manifests,      \* contents of a manifest that may be met
  PageSize,       \* SetMaxKeys, 100 in the code
  MaxAge,         \* firmwaredb.maxage
  MinNow, MaxNow, \* bound: the clock
  MaxChanges      \* bound: objects uploaded or removed

(* "misnamed" names another image, "incomplete" lacks a field, "malformed" *)
(* cannot be parsed.                                                       *)
ManifestKinds == {"good", "misnamed", "incomplete", "malformed"}
Contents == [image : UploadDates \cup {0}, json : Manifests \cup {"none"}]
Entries == [image : UploadDates \cup {0}, json : {"none", "good", "misnamed"}]
Objects == [name : Releases, json : BOOLEAN, date : UploadDates \cup {0}]

ASSUME RefreshAssumption ==
  /\ Runner \in Threads
  /\ Releases \subseteq Nat \ {0}
  /\ Staging \subseteq Releases
  /\ CompatibleOf \in [Releases -> Types]
  /\ TimestampOf \in [Releases -> Nat]
  /\ UploadDates \subseteq Nat \ {0}
  /\ Manifests \subseteq ManifestKinds
  /\ PageSize \in Nat \ {0}
  /\ MaxAge \in Nat /\ MinNow \in Nat /\ MaxNow \in Nat /\ MaxChanges \in Nat
  /\ MaxAge <= MinNow /\ MinNow <= MaxNow /\ MaxNow < Word
  /\ None \notin Entries

VARIABLES
  (* the world *)
  bucket,         \* the objects of each name
  changes,        \* changes of the bucket so far
  now,            \* the clock
  (* ManifestCreator *)
  running,        \* Running_
  updateRunning,  \* UpdateRunning_
  (* the runner thread and its locals *)
  step,           \* its next step; "none" when RunnerThread_ has no thread
  token,          \* the last object listed (the continuation token)
  page,           \* objects of the page still to be read
  truncated,      \* more pages follow
  seen,           \* BucketList
  pending,        \* its valid names, still to be added
  (* history *)
  whole,          \* the listing of this refresh was not cut short
  absent,         \* names without image at some time during this refresh
  calm,           \* nothing but the refresh has changed the world since
  loose           \* names added by POST, or after a look-up that failed

world == <<bucket, changes, now>>
flags == <<running, updateRunning>>
listing == <<token, page, truncated, seen, pending>>
history == <<whole, absent, calm, loose>>
refreshVars == <<vars, world, flags, step, listing, history>>

Limit == Sub64(now, MaxAge)
NoImage(b) == {n \in Releases : b[n].image = 0}
Listed == {n \in Releases : seen[n] # None}

Rank(o) == 2 * o.name + (IF o.json THEN 1 ELSE 0)
First(S) == CHOOSE o \in S : \A p \in S : Rank(o) <= Rank(p)
Least(S) == CHOOSE n \in S : \A m \in S : n <= m

(* What S3 lists: the images with their dates, and the manifests.          *)
Stored ==
  {[name |-> n, json |-> FALSE, date |-> bucket[n].image] : n \in Releases \ NoImage(bucket)}
  \cup {[name |-> n, json |-> TRUE, date |-> 0] : n \in {m \in Releases : bucket[m].json # "none"}}

Go(next) == step' = next
NoThread ==
  /\ step' = "none" /\ token' = 0 /\ page' = {} /\ truncated' = FALSE
  /\ seen' = [n \in Releases |-> None] /\ pending' = {}

RefreshInit ==
  /\ Init
  /\ bucket \in [Releases -> Contents] /\ changes = 0 /\ now = MinNow
  /\ running = TRUE /\ updateRunning = FALSE
  /\ step = "none" /\ token = 0 /\ page = {} /\ truncated = FALSE
  /\ seen = [n \in Releases |-> None] /\ pending = {}
  /\ whole = TRUE /\ absent = {} /\ calm = FALSE /\ loose = {}

----------------------------------------------------------------------------
(* RunUpdateTask, from the timer or from PUT firmwares?update=true.  When  *)
(* the flag is clear but the thread of the last refresh has not ended,     *)
(* RunnerThread_.start throws and the flag stays set.  Running_ is not     *)
(* tested; timer and REST servers start after the caches were loaded.      *)

RunUpdateTask ==
  /\ proc = "up" /\ ~updateRunning
  /\ updateRunning' = TRUE
  /\ IF step = "none"
       THEN /\ Go("expire")
            /\ whole' = TRUE /\ absent' = NoImage(bucket) /\ calm' = TRUE
            /\ UNCHANGED loose
       ELSE UNCHANGED <<step, history>>
  /\ UNCHANGED <<vars, world, running, listing>>

(* run(): an exception that leaves it ends the thread, and skips the line  *)
(* that clears the flag.                                                   *)
Throw == Go("end")

Expire ==
  /\ step = "expire"
  /\ RemoveOldFirmware(Runner, Limit)
  /\ Go("list")
  /\ UNCHANGED <<world, flags, listing, history>>

----------------------------------------------------------------------------
(* ReadBucket. *)

(* Mutant: the continuation token is not carried to the next request.      *)
ListSamePage ==
  /\ step = "list"
  /\ LET got == {o \in Stored : Cardinality({p \in Stored : Rank(p) <= Rank(o)}) <= PageSize}
     IN page' = got /\ truncated' = (Stored # got)
  /\ Go("read")
  /\ UNCHANGED <<vars, world, flags, token, seen, pending, history>>

(* Mutant: only the first page is read.                                    *)
ListFirstPage ==
  /\ step = "list"
  /\ LET got == {o \in Stored : Cardinality({p \in Stored : Rank(p) <= Rank(o)}) <= PageSize}
     IN page' = got /\ truncated' = FALSE
  /\ Go("read")
  /\ UNCHANGED <<vars, world, flags, token, seen, pending, history>>

ListObjects ==
  /\ step = "list"
  /\ LET later == {o \in Stored : Rank(o) > token}
         got == {o \in later : Cardinality({p \in later : Rank(p) <= Rank(o)}) <= PageSize}
     IN /\ page' = got
        /\ token' = IF got = {} THEN token
                    ELSE Rank(CHOOSE o \in got : \A p \in got : Rank(p) <= Rank(o))
        /\ truncated' = (later # got)
  /\ Go("read")
  /\ UNCHANGED <<vars, world, flags, seen, pending, history>>

(* The request fails: ReadBucket returns false, which run() ignores.       *)
ListFails ==
  /\ step = "list"
  /\ Fault
  /\ whole' = FALSE
  /\ Go("compute")
  /\ UNCHANGED <<db, used, volatile, caches, locals, disturbed, world, flags, listing, absent,
                 calm, loose>>

Reading == step = "read" /\ page # {} /\ running
Take(o) == page' = page \ {o}

ReadImage ==
  /\ Reading
  /\ LET o == First(page)
     IN /\ ~o.json
        /\ Take(o)
        /\ seen' = [seen EXCEPT ![o.name] =
                      [image |-> o.date, json |-> IF @ = None THEN "none" ELSE @.json]]
  /\ UNCHANGED <<vars, world, flags, step, token, truncated, pending, history>>

(* The manifest is fetched by a request of its own, after the listing.     *)
ReadManifest ==
  /\ Reading
  /\ LET o == First(page)  json == bucket[o.name].json
     IN /\ o.json
        /\ Take(o)
        /\ seen' = IF json \in {"good", "misnamed"}
                     THEN [seen EXCEPT ![o.name] =
                             [image |-> IF @ = None THEN 0 ELSE @.image, json |-> json]]
                     ELSE seen
        /\ IF json = "malformed" THEN Throw ELSE UNCHANGED step
  /\ UNCHANGED <<vars, world, flags, token, truncated, pending, history>>

ManifestUnreadable ==
  /\ Reading
  /\ First(page).json
  /\ Take(First(page))
  /\ Fault
  /\ UNCHANGED <<db, used, volatile, caches, locals, disturbed, world, flags, step, token,
                 truncated, seen, pending, history>>

(* Stop() was called: ReadBucket returns false with what it has.           *)
ReadStopped ==
  /\ step = "read" /\ page # {} /\ ~running
  /\ whole' = FALSE
  /\ Go("compute")
  /\ UNCHANGED <<vars, world, flags, listing, absent, calm, loose>>

PageRead ==
  /\ step = "read" /\ page = {}
  /\ Go(IF truncated THEN "list" ELSE "compute")
  /\ UNCHANGED <<vars, world, flags, listing, history>>

----------------------------------------------------------------------------
(* ComputeManifest, and the removal of staging names that begins           *)
(* AddManifestToDB: an entry has a URI once its image was listed.          *)

(* Mutant: staging names are kept.                                         *)
ComputeKeepsStaging ==
  /\ step = "compute"
  /\ pending' = {n \in Listed : seen[n].json = "good" /\ TimestampOf[n] > Limit}
  /\ Go("select")
  /\ UNCHANGED <<vars, world, flags, token, page, truncated, seen, history>>

ComputeManifest ==
  /\ step = "compute"
  /\ LET kept == Listed \ {n \in Staging : seen[n] # None /\ seen[n].image # 0}
     IN /\ seen' = [n \in Releases |-> IF n \in kept THEN seen[n] ELSE None]
        /\ pending' = {n \in kept : seen[n].json = "good" /\ TimestampOf[n] > Limit}
  /\ Go("select")
  /\ UNCHANGED <<vars, world, flags, token, page, truncated, history>>

SelectVictims ==
  /\ step = "select"
  /\ SelectNotInManifest(Runner, Listed)
  /\ Go("prune")
  /\ UNCHANGED <<world, flags, listing, history>>

SelectThrows ==           \* this one statement is not within a try
  /\ step = "select"
  /\ Fault
  /\ Throw
  /\ UNCHANGED <<db, used, volatile, caches, locals, disturbed, world, flags, listing, history>>

Prune ==
  /\ step = "prune"
  /\ RemoveNotInManifest(Runner)
  /\ UNCHANGED <<world, flags, step, listing, history>>

PruneEnds ==
  /\ step = "prune"
  /\ PruneDone(Runner)
  /\ Go("add")
  /\ UNCHANGED <<world, flags, listing, history>>

----------------------------------------------------------------------------
(* The rest of AddManifestToDB: each valid name is looked up and, when it  *)
(* is not found, added.                                                    *)

Known(n) == \E i \in Present : ReleaseOf[i] = n /\ DeviceTypeOf[i] = CompatibleOf[n]

EntryKnown ==
  /\ step = "add" /\ pending # {}
  /\ Known(Least(pending))
  /\ pending' = pending \ {Least(pending)}
  /\ UNCHANGED <<vars, world, flags, step, token, page, truncated, seen, history>>

(* Mutant: every valid name is added.                                      *)
EntryAlwaysMissing ==
  /\ step = "add" /\ pending # {}
  /\ Go("store")
  /\ UNCHANGED <<vars, world, flags, listing, history>>

EntryMissing ==
  /\ step = "add" /\ pending # {}
  /\ ~Known(Least(pending))
  /\ Go("store")
  /\ UNCHANGED <<vars, world, flags, listing, history>>

LookupFails ==
  /\ step = "add" /\ pending # {}
  /\ Fault
  /\ loose' = loose \cup {Least(pending)}
  /\ Go("store")
  /\ UNCHANGED <<db, used, volatile, caches, locals, disturbed, world, flags, listing, whole,
                 absent, calm>>

(* The record that is built from an entry. *)
MadeFrom(n) ==
  {i \in Ids : /\ ReleaseOf[i] = n
               /\ DeviceTypeOf[i] = CompatibleOf[n]
               /\ DateOf[i] = seen[n].image}

(* Mutant: the record is inserted without AddFirmware, past the cache.     *)
StoreDirectly ==
  /\ step = "store"
  /\ \E i \in MadeFrom(Least(pending)) :
       /\ i \notin used
       /\ used' = used \cup {i}
       /\ InsertRow(i, [latest |-> FALSE, notes |-> 0])
  /\ pending' = pending \ {Least(pending)}
  /\ Go("add")
  /\ UNCHANGED <<volatile, caches, locals, disturbed, faults, world, flags, token, page,
                 truncated, seen, history>>

Store ==
  /\ step = "store"
  /\ \E i \in MadeFrom(Least(pending)) : AddFirmware(Runner, i)
  /\ pending' = pending \ {Least(pending)}
  /\ Go("insert")
  /\ UNCHANGED <<world, flags, token, page, truncated, seen, history>>

Insert ==
  /\ step = "insert"
  /\ \/ (SelectLatest(Runner) \/ ClearLatest(Runner)) /\ UNCHANGED step
     \/ CreateRecord(Runner) /\ Go("add")
  /\ UNCHANGED <<world, flags, listing, history>>

Finish ==
  /\ step = "add" /\ pending = {}
  /\ updateRunning' = FALSE
  /\ Go("end")
  /\ UNCHANGED <<vars, world, running, listing, history>>

ThreadEnds ==
  /\ step = "end"
  /\ NoThread
  /\ UNCHANGED <<vars, world, flags, history>>

RunnerStep ==
  \/ Expire \/ ListObjects \/ ListFails \/ ReadImage \/ ReadManifest \/ ManifestUnreadable
  \/ ReadStopped \/ PageRead \/ ComputeManifest \/ SelectVictims \/ SelectThrows \/ Prune
  \/ PruneEnds \/ EntryKnown \/ EntryMissing \/ LookupFails \/ Store \/ Insert \/ Finish
  \/ ThreadEnds

----------------------------------------------------------------------------
(* What goes on beside the refresh.  Stop does not wait for the thread;    *)
(* the process ends some time later.                                       *)

Stop ==
  /\ running
  /\ running' = FALSE
  /\ calm' = FALSE
  /\ UNCHANGED <<vars, world, updateRunning, step, listing, whole, absent, loose>>

Upload(n, c) ==
  /\ changes < MaxChanges /\ changes' = changes + 1
  /\ bucket[n] # c /\ (bucket[n].image = c.image \/ bucket[n].json = c.json)
  /\ bucket' = [bucket EXCEPT ![n] = c]
  /\ absent' = absent \cup NoImage(bucket')
  /\ calm' = FALSE
  /\ UNCHANGED <<vars, now, flags, step, listing, whole, loose>>

Tick ==
  /\ now < MaxNow /\ now' = now + 1
  /\ calm' = FALSE
  /\ UNCHANGED <<vars, bucket, changes, flags, step, listing, whole, absent, loose>>

RestStep ==
  /\ \E t \in Threads \ {Runner} : RestOperation(t)
  /\ calm' = FALSE
  /\ loose' = loose \cup {ReleaseOf[i] : i \in used' \ used}
  /\ UNCHANGED <<world, flags, step, listing, whole, absent>>

Reboot ==
  /\ Restart
  /\ running' = TRUE /\ updateRunning' = FALSE
  /\ NoThread
  /\ whole' = TRUE /\ absent' = {} /\ calm' = FALSE
  /\ UNCHANGED <<world, loose>>

Load ==
  /\ LoadFails \/ LoadDone \/ \E i \in Ids : LoadRow(i)
  /\ UNCHANGED <<world, flags, step, listing, history>>

WorldStep ==
  \/ Stop \/ Tick \/ RestStep \/ Reboot \/ Load
  \/ \E n \in Releases, c \in Contents : Upload(n, c)

RefreshNext == RunUpdateTask \/ RunnerStep \/ WorldStep

RefreshSpec == RefreshInit /\ [][RefreshNext]_refreshVars

(* The thread is scheduled, and S3 and the database answer or fail.        *)
FairRefreshSpec == RefreshSpec /\ WF_refreshVars(RunnerStep)

----------------------------------------------------------------------------
(* Properties. *)

RefreshTypeOK ==
  /\ bucket \in [Releases -> Contents] /\ changes \in 0..MaxChanges
  /\ now \in MinNow..MaxNow
  /\ running \in BOOLEAN /\ updateRunning \in BOOLEAN
  /\ step \in {"none", "expire", "list", "read", "compute", "select", "prune", "add", "store",
               "insert", "end"}
  /\ token \in Nat /\ page \in SUBSET Objects /\ truncated \in BOOLEAN
  /\ seen \in [Releases -> Entries \cup {None}]
  /\ pending \in SUBSET Releases
  /\ whole \in BOOLEAN /\ calm \in BOOLEAN
  /\ absent \in SUBSET Releases /\ loose \in SUBSET Releases

(* A refresh whose listing was not cut short removes a row as "not in the  *)
(* manifest" only if its image was missing from the bucket at some time    *)
(* during the refresh, or its name is a staging name: nothing is lost      *)
(* between two pages, or when the bucket changes while it is listed.       *)
PrunedWereGone ==
  whole => \A i \in victims[Runner] : ReleaseOf[i] \in absent \cup Staging

(* The variables hold what they are meant to, and nothing is pruned that   *)
(* was there.                                                              *)
RefreshInvariant == RefreshTypeOK /\ PrunedWereGone

(* A name of the bucket has one row: GetFirmwareByName and AddFirmware are *)
(* separate steps, and a refresh may be cut off anywhere and start again.  *)
(* A POST of the name and a failed look-up are the only ways to a second.  *)
RowPerRelease ==
  \A i, j \in Present :
    /\ ReleaseOf[i] = ReleaseOf[j] /\ DeviceTypeOf[i] = DeviceTypeOf[j]
    /\ ReleaseOf[i] \notin loose
    => i = j

(* A refresh that met no failure and no change of the bucket, the clock or *)
(* the table from outside leaves the table equal to the bucket: each name  *)
(* with a valid manifest has its row, and each row's name has objects in   *)
(* the bucket and is not a staging name with an image.                     *)
Synced ==
  step = "end" /\ ~updateRunning /\ calm /\ whole /\ faults = 0 =>
    /\ \A n \in Releases :
         /\ bucket[n].json = "good" /\ TimestampOf[n] > Limit
         /\ n \notin Staging \/ bucket[n].image = 0
         => Known(n)
    /\ \A i \in Present :
         LET c == bucket[ReleaseOf[i]]
         IN IF c.image = 0 THEN c.json \in {"good", "misnamed"}
                           ELSE ReleaseOf[i] \notin Staging

(* Every refresh that begins ends, however the bucket changes meanwhile,   *)
(* whatever fails, and whether Stop is called or not (the bounded pool of  *)
(* records may also be used up, which UUIDs cannot be).                    *)
PoolUsedUp == step = "store" /\ MadeFrom(Least(pending)) \subseteq used
RefreshEnds == (step # "none") ~> (step = "none" \/ PoolUsedUp)

(* The refresh and the REST threads do on the table and the cache only     *)
(* what FirmwareCatalog allows its threads.                                *)
CatalogSpec == Spec

(* "DB refresh already in progress" (ManifestCreator.cpp:33): whenever     *)
(* RunUpdateTask says so, a refresh is in progress.                        *)
InProgressIsTrue == updateRunning => step \notin {"none", "end"}
============================================================================
