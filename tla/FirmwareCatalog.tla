-------------------------- MODULE FirmwareCatalog --------------------------
(***************************************************************************)
(* The firmware table (storage/orm_firmwares.cpp), the cache of the newest *)
(* image of each device type (LatestFirmwareCache.cpp), and the operations *)
(* that the REST threads and the manifest refresh run on the two.          *)
(*                                                                         *)
(* No operation holds a lock across its database statements: every         *)
(* statement, and every call on the cache (which locks its own mutex), is  *)
(* one action here, and the operations of different threads interleave     *)
(* between them.  A crash may happen between any two actions; the table    *)
(* survives it, everything else does not.                                  *)
(*                                                                         *)
(* Ids are the firmware records that may ever be created.  No operation    *)
(* changes a record's type, revision, date or release after its creation,  *)
(* so these are constants of the id; AddFirmware takes a fresh UUID, that  *)
(* is an id that was never used.  What does change, the latest flag and    *)
(* the notes, is in the table's rows.                                      *)
(***************************************************************************)
EXTENDS Integers, FiniteSets

CONSTANTS
  Ids,            \* UUIDs of firmware records
  Types,          \* device types ("compatible")
  Revisions,      \* revision strings
  RCs,            \* the revisions that IsRC recognises
  DeviceTypeOf, RevisionOf, DateOf, ReleaseOf,  \* columns of a record
  Threads,        \* REST handler threads and the manifest runner
  None,           \* no row, no cache entry, no record in hand
  Word,           \* 2^64 in the code: ages are unsigned
  Batch,          \* page size of ORM::Iterate, 50 in the code
  MaxNotes,       \* bound: notes on one record
  MaxFaults       \* bound: failed database statements

Rows == [latest : BOOLEAN, notes : 0..MaxNotes]
Snapshots == [id : Ids, row : Rows]
Ages == [latestId : Ids, latest : BOOLEAN, age : 0..(Word - 1)]
Questions == [type : Types, revision : Revisions]

Releases == {ReleaseOf[i] : i \in Ids}

ASSUME CatalogAssumption ==
  /\ RCs \subseteq Revisions
  /\ DeviceTypeOf \in [Ids -> Types]
  /\ RevisionOf \in [Ids -> Revisions]
  /\ Word \in Nat \ {0}
  /\ DateOf \in [Ids -> 0..(Word - 1)]
  /\ Batch \in Nat \ {0}
  /\ MaxNotes \in Nat
  /\ MaxFaults \in Nat
  /\ None \notin Ids
  /\ None \notin Rows
  /\ None \notin Ages
  /\ None \notin Questions

VARIABLES
  (* durable *)
  db,             \* table firmwares: the row of each id, or None
  used,           \* ids given out by MicroServiceCreateUUID
  (* the process *)
  proc,           \* "loading" while LatestFirmwareCache::Start runs, then "up"
  unread,         \* rows PopulateLatestFirmwareCache has still to read
  complete,       \* FALSE when a page of that load could not be read
  cache,          \* Cache_: id of the newest image of a type
  rcCache,        \* rcCache_: the same among release candidates
  revisionSet,    \* RevisionSet_
  deviceSet,      \* DeviceSet_
  (* the threads *)
  op,             \* the next step of each thread's operation
  fw,             \* the record in the thread's hands
  todo,           \* rows read and not yet written back
  victims,        \* IdsToBeRemoved
  ask,            \* arguments of ComputeFirmwareAge
  le,             \* the cache entry it found
  answer,         \* its result
  (* history and bounds *)
  offered,        \* ids handed to AddToCache since the start
  disturbed,      \* types with overlapping writers or a failed statement
  faults          \* failed statements so far

durable == <<db, used>>
volatile == <<proc, unread, complete>>
caches == <<cache, rcCache, revisionSet, deviceSet, offered>>
locals == <<op, fw, todo, victims, ask, le, answer>>
vars == <<db, used, proc, unread, complete, cache, rcCache, revisionSet,
          deviceSet, op, fw, todo, victims, ask, le, answer, offered, disturbed,
          faults>>

Present == {i \in Ids : db[i] # None}
OfType(t) == {i \in Ids : DeviceTypeOf[i] = t}
IsRC(r) == r \in RCs

(* Subtraction of uint64_t values. *)
Sub64(a, b) == (a - b) % Word

(* A statement throws: the ORM catches it and returns false. *)
Fault == faults < MaxFaults /\ faults' = faults + 1
NoFault == UNCHANGED faults

(* The type whose flags an operation in progress may write. *)
Adding(t) == op[t] \in {"select", "clear"}
Writes(t, type) ==
  /\ Adding(t) \/ op[t] = "put"
  /\ fw[t] # None /\ DeviceTypeOf[fw[t]] = type
Overlap(t, type) ==
  IF \E u \in Threads \ {t} : Writes(u, type) THEN {type} ELSE {}

----------------------------------------------------------------------------
(* LatestFirmwareCache::AddToCache, one critical section.  An entry's      *)
(* TimeStamp and Revision are its record's date and revision.              *)

(* Mutant: the last image added wins, whatever its date. *)
ReplacesAlways(i, c) == TRUE

Replaces(i, c) ==
  LET e == c[DeviceTypeOf[i]] IN e = None \/ DateOf[i] >= DateOf[e]

Enter(i, c) ==
  IF Replaces(i, c) THEN [c EXCEPT ![DeviceTypeOf[i]] = i] ELSE c

(* Mutant: the early return for revisions that are no candidates is gone. *)
AddToCacheNoReturn(i) ==
  /\ revisionSet' = revisionSet \cup {RevisionOf[i]}
  /\ deviceSet' = deviceSet \cup {DeviceTypeOf[i]}
  /\ cache' = Enter(i, cache)
  /\ rcCache' = Enter(i, rcCache)
  /\ offered' = offered \cup {i}

AddToCache(i) ==
  /\ revisionSet' = revisionSet \cup {RevisionOf[i]}
  /\ deviceSet' = deviceSet \cup {DeviceTypeOf[i]}
  /\ cache' = Enter(i, cache)
  /\ rcCache' = IF IsRC(RevisionOf[i]) THEN Enter(i, rcCache) ELSE rcCache
  /\ offered' = offered \cup {i}

----------------------------------------------------------------------------
(* Single statements of the ORM on the table. *)

InsertRow(i, row) == db' = [db EXCEPT ![i] = row]

UpdateRow(i, row) ==      \* no row matches: nothing happens, and it succeeds
  db' = IF db[i] = None THEN db ELSE [db EXCEPT ![i] = row]

DeleteRows(S) == db' = [i \in Ids |-> IF i \in S THEN None ELSE db[i]]

Goto(t, step) == op' = [op EXCEPT ![t] = step]
Idle(t) == proc = "up" /\ op[t] = "idle"
Return(t) ==
  /\ op' = [op EXCEPT ![t] = "idle"]
  /\ fw' = [fw EXCEPT ![t] = None]
  /\ todo' = [todo EXCEPT ![t] = {}]
  /\ victims' = [victims EXCEPT ![t] = {}]
  /\ ask' = [ask EXCEPT ![t] = None]
  /\ le' = [le EXCEPT ![t] = None]

Init ==
  /\ db = [i \in Ids |-> None]
  /\ used = {}
  /\ proc = "up" /\ unread = {} /\ complete = TRUE
  /\ cache = [t \in Types |-> None]
  /\ rcCache = [t \in Types |-> None]
  /\ revisionSet = {} /\ deviceSet = {}
  /\ op = [t \in Threads |-> "idle"]
  /\ fw = [t \in Threads |-> None]
  /\ todo = [t \in Threads |-> {}]
  /\ victims = [t \in Threads |-> {}]
  /\ ask = [t \in Threads |-> None]
  /\ le = [t \in Threads |-> None]
  /\ answer = [t \in Threads |-> None]
  /\ offered = {} /\ disturbed = {} /\ faults = 0

----------------------------------------------------------------------------
(* FirmwaresDB::AddFirmware, called by POST firmware and by the manifest   *)
(* refresh: the cache is told first, then the rows of the type that carry  *)
(* the latest flag are read and written back without it one by one, and    *)
(* the new row is inserted last.                                           *)

AddFirmware(t, i) ==
  /\ Idle(t) /\ i \notin used
  /\ used' = used \cup {i}
  /\ AddToCache(i)
  /\ fw' = [fw EXCEPT ![t] = i]
  /\ Goto(t, "select")
  /\ disturbed' = disturbed \cup Overlap(t, DeviceTypeOf[i])
  /\ UNCHANGED <<db, volatile, todo, victims, ask, le, answer, faults>>

Flagged(type) ==
  {i \in OfType(type) : db[i] # None /\ db[i].latest}

SelectLatest(t) ==
  /\ op[t] = "select"
  /\ \/ /\ todo' = [todo EXCEPT ![t] =
                      {[id |-> i, row |-> db[i]] : i \in Flagged(DeviceTypeOf[fw[t]])}]
        /\ UNCHANGED disturbed
        /\ NoFault
     \/ /\ Fault
        /\ disturbed' = disturbed \cup {DeviceTypeOf[fw[t]]}
        /\ UNCHANGED todo
  /\ Goto(t, "clear")
  /\ UNCHANGED <<durable, volatile, caches, fw, victims, ask, le, answer>>

ClearLatest(t) ==
  /\ op[t] = "clear"
  /\ \E s \in todo[t] :
       /\ \/ /\ UpdateRow(s.id, [s.row EXCEPT !.latest = FALSE])
             /\ UNCHANGED disturbed
             /\ NoFault
          \/ /\ Fault
             /\ disturbed' = disturbed \cup {DeviceTypeOf[fw[t]]}
             /\ UNCHANGED db
       /\ todo' = [todo EXCEPT ![t] = @ \ {s}]
  /\ UNCHANGED <<used, volatile, caches, op, fw, victims, ask, le, answer>>

(* Mutant: the row is inserted before the older flags are cleared. *)
CreateRecordEarly(t) ==
  /\ op[t] = "clear"
  /\ \/ InsertRow(fw[t], [latest |-> TRUE, notes |-> 0]) /\ NoFault
     \/ Fault /\ UNCHANGED db
  /\ Return(t)
  /\ UNCHANGED <<used, volatile, caches, answer, disturbed>>

CreateRecord(t) ==
  /\ op[t] = "clear" /\ todo[t] = {}
  /\ \/ InsertRow(fw[t], [latest |-> TRUE, notes |-> 0]) /\ NoFault
     \/ Fault /\ UNCHANGED db
  /\ Return(t)
  /\ UNCHANGED <<used, volatile, caches, answer, disturbed>>

----------------------------------------------------------------------------
(* RESTAPI_firmwareHandler: PUT reads the row, edits its notes and writes  *)
(* the whole row back; DELETE is one statement.                            *)

PutRead(t, i) ==
  /\ Idle(t) /\ db[i] # None /\ db[i].notes < MaxNotes
  /\ fw' = [fw EXCEPT ![t] = i]
  /\ todo' = [todo EXCEPT ![t] = {[id |-> i, row |-> db[i]]}]
  /\ Goto(t, "put")
  /\ disturbed' = disturbed \cup
       (IF \E u \in Threads \ {t} : Adding(u) /\ Writes(u, DeviceTypeOf[i])
          THEN {DeviceTypeOf[i]} ELSE {})
  /\ UNCHANGED <<durable, volatile, caches, victims, ask, le, answer, faults>>

PutWrite(t) ==
  /\ op[t] = "put"
  /\ \/ /\ \E s \in todo[t] : UpdateRow(s.id, [s.row EXCEPT !.notes = @ + 1])
        /\ NoFault
     \/ Fault /\ UNCHANGED db
  /\ Return(t)
  /\ UNCHANGED <<used, volatile, caches, answer, disturbed>>

DeleteFirmware(t, i) ==
  /\ Idle(t)
  /\ \/ DeleteRows({i}) /\ NoFault
     \/ Fault /\ UNCHANGED db
  /\ UNCHANGED <<used, volatile, caches, locals, disturbed>>

----------------------------------------------------------------------------
(* The clean-up that every manifest refresh does. *)

RemoveOldFirmware(t, limit) ==
  /\ Idle(t)
  /\ \/ DeleteRows({i \in Ids : DateOf[i] < limit}) /\ NoFault
     \/ Fault /\ UNCHANGED db
  /\ UNCHANGED <<used, volatile, caches, locals, disturbed>>

SelectNotInManifest(t, bucket) ==
  /\ Idle(t)
  /\ victims' = [victims EXCEPT ![t] =
                   {i \in Present : ReleaseOf[i] \notin bucket}]
  /\ Goto(t, "prune")
  /\ UNCHANGED <<durable, volatile, caches, fw, todo, ask, le, answer, disturbed,
                 faults>>

RemoveNotInManifest(t) ==
  /\ op[t] = "prune"
  /\ \E i \in victims[t] :
       /\ \/ DeleteRows({i}) /\ NoFault
          \/ Fault /\ UNCHANGED db
       /\ victims' = [victims EXCEPT ![t] = @ \ {i}]
  /\ UNCHANGED <<used, volatile, caches, op, fw, todo, ask, le, answer, disturbed>>

PruneDone(t) ==
  /\ op[t] = "prune" /\ victims[t] = {}
  /\ Return(t)
  /\ UNCHANGED <<durable, volatile, caches, answer, disturbed, faults>>

----------------------------------------------------------------------------
(* FirmwaresDB::ComputeFirmwareAge: the row of the revision the device     *)
(* runs, then the cache entry of its type, then the row of that entry.     *)

AgeCurrent(t, q) ==
  /\ Idle(t)
  /\ LET rows == {i \in OfType(q.type) \cap Present : RevisionOf[i] = q.revision}
     IN \/ /\ IF rows = {} THEN UNCHANGED fw
              ELSE \E i \in rows : fw' = [fw EXCEPT ![t] = i]
           /\ NoFault
        \/ Fault /\ UNCHANGED fw
  /\ ask' = [ask EXCEPT ![t] = q]
  /\ answer' = [answer EXCEPT ![t] = None]
  /\ Goto(t, "age")
  /\ UNCHANGED <<durable, volatile, caches, todo, victims, le, disturbed>>

AgeFindLatest(t) ==
  /\ op[t] = "age"
  /\ cache[ask[t].type] # None
  /\ le' = [le EXCEPT ![t] = cache[ask[t].type]]
  /\ Goto(t, "fetch")
  /\ UNCHANGED <<durable, volatile, caches, fw, todo, victims, ask, answer,
                 disturbed, faults>>

AgeNoLatest(t) ==         \* no entry for the type: the call returns false
  /\ op[t] = "age"
  /\ cache[ask[t].type] = None
  /\ Return(t)
  /\ UNCHANGED <<durable, volatile, caches, answer, disturbed, faults>>

AgeAnswer(t) ==
  /\ op[t] = "fetch"
  /\ db[le[t]] # None
  /\ answer' = [answer EXCEPT ![t] =
       [latestId |-> le[t],
        latest   |-> ask[t].revision = RevisionOf[le[t]],
        age      |-> IF fw[t] = None THEN 0 ELSE Sub64(DateOf[le[t]], DateOf[fw[t]])]]
  /\ Return(t)
  /\ UNCHANGED <<durable, volatile, caches, disturbed, faults>>

AgeRowMissing(t) ==       \* the entry's row is gone, or not inserted yet
  /\ op[t] = "fetch"
  /\ \/ db[le[t]] = None /\ NoFault
     \/ Fault
  /\ Return(t)
  /\ UNCHANGED <<durable, volatile, caches, answer, disturbed>>

----------------------------------------------------------------------------
(* The process dies and is started again; LatestFirmwareCache::Start then  *)
(* reads the table page by page, in no particular order, before any other  *)
(* thread runs.  A page that cannot be read ends the load without an error. *)

Restart ==
  /\ proc' = "loading" /\ complete' = TRUE
  /\ unread' = Present
  /\ cache' = [t \in Types |-> None]
  /\ rcCache' = [t \in Types |-> None]
  /\ revisionSet' = {} /\ deviceSet' = {} /\ offered' = {}
  /\ op' = [t \in Threads |-> "idle"]
  /\ fw' = [t \in Threads |-> None]
  /\ todo' = [t \in Threads |-> {}]
  /\ victims' = [t \in Threads |-> {}]
  /\ ask' = [t \in Threads |-> None]
  /\ le' = [t \in Threads |-> None]
  /\ answer' = [t \in Threads |-> None]
  /\ UNCHANGED <<durable, disturbed, faults>>

(* Mutant: only the rows that carry the latest flag are loaded. *)
LoadFlaggedRow(i) ==
  /\ proc = "loading" /\ i \in unread
  /\ IF db[i].latest THEN AddToCache(i) ELSE UNCHANGED caches
  /\ unread' = unread \ {i}
  /\ UNCHANGED <<durable, proc, complete, locals, disturbed, faults>>

LoadRow(i) ==
  /\ proc = "loading" /\ i \in unread
  /\ AddToCache(i)
  /\ unread' = unread \ {i}
  /\ UNCHANGED <<durable, proc, complete, locals, disturbed, faults>>

LoadFails ==
  /\ proc = "loading" /\ unread # {}
  /\ Cardinality(Present \ unread) % Batch = 0      \* between two pages
  /\ Fault
  /\ unread' = {} /\ complete' = FALSE
  /\ UNCHANGED <<durable, proc, caches, locals, disturbed>>

LoadDone ==
  /\ proc = "loading" /\ unread = {}
  /\ proc' = "up"
  /\ UNCHANGED <<durable, unread, complete, caches, locals, disturbed, faults>>

RestOperation(t) ==
  \/ \E i \in Ids : AddFirmware(t, i) \/ PutRead(t, i) \/ DeleteFirmware(t, i)
  \/ SelectLatest(t) \/ ClearLatest(t) \/ CreateRecord(t) \/ PutWrite(t)
  \/ \E q \in Questions : AgeCurrent(t, q)
  \/ AgeFindLatest(t) \/ AgeNoLatest(t) \/ AgeAnswer(t) \/ AgeRowMissing(t)

Cleanup(t) ==
  \/ \E limit \in 0..(Word - 1) : RemoveOldFirmware(t, limit)
  \/ \E bucket \in SUBSET Releases : SelectNotInManifest(t, bucket)
  \/ RemoveNotInManifest(t) \/ PruneDone(t)

Operation(t) == RestOperation(t) \/ Cleanup(t)

Lifecycle == Restart \/ LoadFails \/ LoadDone \/ \E i \in Ids : LoadRow(i)

Next == Lifecycle \/ \E t \in Threads : Operation(t)

Spec == Init /\ [][Next]_vars

----------------------------------------------------------------------------
(* Properties. *)

TypeOK ==
  /\ db \in [Ids -> Rows \cup {None}]
  /\ used \in SUBSET Ids
  /\ proc \in {"loading", "up"}
  /\ unread \in SUBSET Ids
  /\ complete \in BOOLEAN
  /\ cache \in [Types -> Ids \cup {None}]
  /\ rcCache \in [Types -> Ids \cup {None}]
  /\ revisionSet \in SUBSET Revisions
  /\ deviceSet \in SUBSET Types
  /\ op \in [Threads -> {"idle", "select", "clear", "put", "prune", "age", "fetch"}]
  /\ fw \in [Threads -> Ids \cup {None}]
  /\ todo \in [Threads -> SUBSET Snapshots]
  /\ victims \in [Threads -> SUBSET Ids]
  /\ ask \in [Threads -> Questions \cup {None}]
  /\ le \in [Threads -> Ids \cup {None}]
  /\ answer \in [Threads -> Ages \cup {None}]
  /\ offered \in SUBSET Ids
  /\ disturbed \in SUBSET Types
  /\ faults \in 0..MaxFaults

(* What the table holds, the cache knows: whatever the threads are doing,  *)
(* a row that the load did not skip is no newer than the cached image of   *)
(* its type (no newer than the cached release candidate, if it is one),    *)
(* and its revision and type are in the lists that GET firmwares?          *)
(* revisionSet and deviceSet return.  AddFirmware earns this by telling    *)
(* the cache before it inserts the row.                                    *)
CacheCoversDB ==
  complete => \A i \in Present \ unread :
    LET type == DeviceTypeOf[i]
    IN /\ cache[type] # None /\ DateOf[i] <= DateOf[cache[type]]
       /\ IsRC(RevisionOf[i]) =>
             rcCache[type] # None /\ DateOf[i] <= DateOf[rcCache[type]]
       /\ RevisionOf[i] \in revisionSet /\ type \in deviceSet

(* The two caches agree: a type with a release candidate has a newest      *)
(* image, at least as recent, and when the newest image is itself a        *)
(* release candidate both caches name it.  AddToCache updates them by two  *)
(* independent comparisons.                                                *)
CachesAgree ==
  \A type \in Types :
    LET new == cache[type]  rc == rcCache[type]
    IN /\ rc # None => new # None /\ DateOf[rc] <= DateOf[new] /\ IsRC(RevisionOf[rc])
       /\ new # None /\ IsRC(RevisionOf[new]) => rc = new

(* ComputeFirmwareAge subtracts two unsigned dates that it read in         *)
(* different statements, with adds, deletes and clean-ups in between: the  *)
(* difference never wraps around.                                          *)
AgeNeverWraps ==
  complete => \A t \in Threads :
    answer[t] # None => answer[t].age <= DateOf[answer[t].latestId]

(* Two rows of a type carry the latest flag only if two operations that    *)
(* write the flag overlapped on the type, or a statement of one failed; a  *)
(* crash between two statements of AddFirmware cannot do it.               *)
OneLatestFlag ==
  \A type \in Types \ disturbed :
    \A i, j \in Flagged(type) : i = j

(* For any one caller the cache is what LatestImage promises, for all      *)
(* images and for the release candidates.                                  *)
AnyImage == INSTANCE LatestImage WITH latest <- cache
CandidateImage == INSTANCE LatestImage WITH
  offered <- {i \in offered : IsRC(RevisionOf[i])}, latest <- rcCache

AnyImageSpec == AnyImage!Spec
CandidateImageSpec == CandidateImage!Spec
============================================================================
