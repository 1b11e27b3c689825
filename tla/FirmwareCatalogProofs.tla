----------------------- MODULE FirmwareCatalogProofs -----------------------
(***************************************************************************)
(* Proofs about FirmwareCatalog and about ManifestRefresh, which extends   *)
(* it, for every set of images, types, threads, every bucket and page size *)
(* and for every number of failing statements.                             *)
(*                                                                         *)
(* Of the catalog: the cache covers the table and is a LatestImage, ages   *)
(* do not wrap, one image of a type is flagged.  Of the refresh: it does   *)
(* on the table only what FirmwareCatalog allows, removes no row whose     *)
(* image stayed in the bucket, makes no second row of a name, and if       *)
(* nothing disturbs it leaves the table equal to the bucket.               *)
(***************************************************************************)
EXTENDS ManifestRefresh, FiniteSetTheorems, WellFoundedInduction, TLAPS

(* The rows that the operations write are rows.                            *)
LEMMA RowTypes ==
  /\ [latest |-> TRUE, notes |-> 0] \in Rows
  /\ \A r \in Rows : [r EXCEPT !.latest = FALSE] \in Rows
  /\ \A r \in Rows : r.notes < MaxNotes => [r EXCEPT !.notes = @ + 1] \in Rows
<1>1. MaxNotes \in Nat
  BY CatalogAssumption
<1>2. [latest |-> TRUE, notes |-> 0] \in Rows
  BY <1>1 DEF Rows
<1>3. ASSUME NEW r \in Rows PROVE [r EXCEPT !.latest = FALSE] \in Rows
  BY DEF Rows
<1>4. ASSUME NEW r \in Rows, r.notes < MaxNotes PROVE [r EXCEPT !.notes = @ + 1] \in Rows
  <2>1. r.notes + 1 \in 0..MaxNotes
    BY <1>1, <1>4 DEF Rows
  <2> QED
    BY <2>1 DEF Rows
<1> QED
  BY <1>2, <1>3, <1>4

(* An age is a record of the right shape.                                  *)
LEMMA AgeType ==
  ASSUME NEW i \in Ids, NEW r, NEW s, NEW a \in 0..(Word - 1)
  PROVE  [latestId |-> i, latest |-> r = s, age |-> a] \in Ages
<1> DEFINE same == r = s
<1>1. same \in BOOLEAN
  BY Zenon
<1> HIDE DEF same
<1>2. [latestId |-> i, latest |-> same, age |-> a] \in Ages
  BY <1>1 DEF Ages
<1> QED
  BY <1>2 DEF same

(* A remainder of a number below the modulus is the number.                *)
LEMMA SmallMod ==
  ASSUME NEW m \in Nat \ {0}, NEW a \in 0..(m - 1)
  PROVE  a % m = a
OBVIOUS

USE CatalogAssumption DEF Rows, Snapshots, Ages, Questions

(* What a thread needs for the rest of its operation is in its hands: the  *)
(* record it adds or edits, the question it answers, the entry it found.   *)
InHand ==
  \A t \in Threads :
    /\ op[t] \in {"select", "clear", "put"} => fw[t] \in Ids
    /\ op[t] \in {"age", "fetch"} => ask[t] \in Questions
    /\ op[t] = "fetch" => le[t] \in Ids
    /\ op[t] = "put" => \A s \in todo[t] : s.row.notes < MaxNotes

TypeInv == TypeOK /\ InHand

(* Entering an image in a cache keeps the cache well-formed.               *)
LEMMA EnterType ==
  ASSUME NEW c \in [Types -> Ids \cup {None}], NEW i \in Ids
  PROVE  Enter(i, c) \in [Types -> Ids \cup {None}]
BY DEF Enter

(* One call of AddToCache keeps the five variables it writes well-formed.  *)
LEMMA AddToCacheType ==
  ASSUME TypeOK, NEW i \in Ids, AddToCache(i)
  PROVE  /\ revisionSet' \in SUBSET Revisions
         /\ deviceSet' \in SUBSET Types
         /\ cache' \in [Types -> Ids \cup {None}]
         /\ rcCache' \in [Types -> Ids \cup {None}]
         /\ offered' \in SUBSET Ids
BY EnterType DEF TypeOK, AddToCache

LEMMA Sub64Type ==
  ASSUME NEW a \in Nat, NEW b \in Nat
  PROVE  Sub64(a, b) \in 0..(Word - 1)
BY DEF Sub64

LEMMA ReturnType ==
  ASSUME TypeOK, NEW t \in Threads, Return(t)
  PROVE  /\ op' \in [Threads -> {"idle", "select", "clear", "put", "prune", "age", "fetch"}]
         /\ fw' \in [Threads -> Ids \cup {None}]
         /\ todo' \in [Threads -> SUBSET Snapshots]
         /\ victims' \in [Threads -> SUBSET Ids]
         /\ ask' \in [Threads -> Questions \cup {None}]
         /\ le' \in [Threads -> Ids \cup {None}]
BY DEF TypeOK, Return

LEMMA ReturnHand ==
  ASSUME TypeInv, NEW t \in Threads, Return(t)
  PROVE  InHand'
BY DEF TypeInv, TypeOK, InHand, Return

(* The initial state is well-formed.                                       *)
LEMMA InitType == Init => TypeInv
BY DEF Init, TypeInv, TypeOK, InHand

(* Every step keeps the state well-formed.                                 *)
LEMMA NextType == TypeInv /\ [Next]_vars => TypeInv'
<1> SUFFICES ASSUME TypeOK, InHand, [Next]_vars PROVE TypeInv'
  BY DEF TypeInv
<1> USE DEF durable, volatile, caches, locals, Fault, NoFault, Goto, Idle, TypeInv, InHand
<1>1. ASSUME NEW t \in Threads, NEW i \in Ids, AddFirmware(t, i) PROVE TypeInv'
  BY <1>1, AddToCacheType DEF AddFirmware, TypeOK, Overlap
<1>2. ASSUME NEW t \in Threads, NEW i \in Ids, PutRead(t, i) PROVE TypeInv'
  BY <1>2 DEF PutRead, TypeOK
<1>3. ASSUME NEW t \in Threads, NEW i \in Ids, DeleteFirmware(t, i) PROVE TypeInv'
  BY <1>3 DEF DeleteFirmware, TypeOK, DeleteRows
<1>4. ASSUME NEW t \in Threads, SelectLatest(t) PROVE TypeInv'
  <2>1. fw[t] \in Ids /\ fw[t] # None /\ DeviceTypeOf[fw[t]] \in Types
    BY <1>4 DEF SelectLatest
  <2>2. {[id |-> i, row |-> db[i]] : i \in Flagged(DeviceTypeOf[fw[t]])} \in SUBSET Snapshots
    BY DEF Flagged, OfType, TypeOK
  <2>3. todo' \in [Threads -> SUBSET Snapshots]
    BY <1>4, <2>2 DEF SelectLatest, TypeOK
  <2>4. disturbed' \in SUBSET Types /\ faults' \in 0..MaxFaults
    BY <1>4, <2>1 DEF SelectLatest, TypeOK
  <2> QED
    BY <1>4, <2>3, <2>4 DEF SelectLatest, TypeOK
<1>5. ASSUME NEW t \in Threads, ClearLatest(t) PROVE TypeInv'
  <2>1. fw[t] \in Ids /\ DeviceTypeOf[fw[t]] \in Types
    BY <1>5 DEF ClearLatest
  <2>2. PICK s \in todo[t] : ClearLatest(t)!2!(s)
    BY <1>5 DEF ClearLatest
  <2>3. s \in Snapshots /\ [s.row EXCEPT !.latest = FALSE] \in Rows
    BY <2>2, RowTypes DEF TypeOK
  <2>4. db' \in [Ids -> Rows \cup {None}]
    BY <2>2, <2>3 DEF UpdateRow, TypeOK
  <2>5. disturbed' \in SUBSET Types /\ faults' \in 0..MaxFaults
    BY <2>1, <2>2 DEF TypeOK
  <2>6. todo' \in [Threads -> SUBSET Snapshots]
    BY <2>2 DEF TypeOK
  <2> QED
    BY <1>5, <2>4, <2>5, <2>6 DEF ClearLatest, TypeOK
<1>6. ASSUME NEW t \in Threads, CreateRecord(t) PROVE TypeInv'
  <2>1. fw[t] \in Ids
    BY <1>6 DEF CreateRecord
  <2>2. db' \in [Ids -> Rows \cup {None}] /\ faults' \in 0..MaxFaults
    <3>1. CASE Fault /\ UNCHANGED db
      BY <3>1 DEF TypeOK
    <3>2. CASE NoFault /\ InsertRow(fw[t], [latest |-> TRUE, notes |-> 0])
      BY <3>2, <2>1, RowTypes DEF InsertRow, TypeOK
    <3> QED
      BY <1>6, <3>1, <3>2 DEF CreateRecord
  <2>3. Return(t)
    BY <1>6 DEF CreateRecord
  <2>4. InHand'
    BY <2>3, ReturnHand
  <2> QED
    BY <1>6, <2>2, <2>3, <2>4, ReturnType DEF CreateRecord, TypeOK
<1>7. ASSUME NEW t \in Threads, PutWrite(t) PROVE TypeInv'
  <2>1. db' \in [Ids -> Rows \cup {None}] /\ faults' \in 0..MaxFaults
    <3>1. CASE Fault /\ UNCHANGED db
      BY <3>1 DEF TypeOK
    <3>2. CASE NoFault /\ \E s \in todo[t] : UpdateRow(s.id, [s.row EXCEPT !.notes = @ + 1])
      <4>1. PICK s \in todo[t] : UpdateRow(s.id, [s.row EXCEPT !.notes = @ + 1])
        BY <3>2
      <4>2. s \in Snapshots /\ s.row.notes < MaxNotes
        BY <1>7 DEF PutWrite, TypeOK
      <4>3. [s.row EXCEPT !.notes = @ + 1] \in Rows
        BY <4>2, RowTypes
      <4> QED
        BY <3>2, <4>1, <4>2, <4>3 DEF UpdateRow, TypeOK
    <3> QED
      BY <1>7, <3>1, <3>2 DEF PutWrite
  <2>2. Return(t)
    BY <1>7 DEF PutWrite
  <2>3. InHand'
    BY <2>2, ReturnHand
  <2> QED
    BY <1>7, <2>1, <2>2, <2>3, ReturnType DEF PutWrite, TypeOK
<1>8. ASSUME NEW t \in Threads, NEW limit \in 0..(Word - 1), RemoveOldFirmware(t, limit) PROVE TypeInv'
  BY <1>8 DEF RemoveOldFirmware, TypeOK, DeleteRows
<1>9. ASSUME NEW t \in Threads, NEW b \in SUBSET Releases, SelectNotInManifest(t, b) PROVE TypeInv'
  BY <1>9 DEF SelectNotInManifest, TypeOK, Present
<1>10. ASSUME NEW t \in Threads, RemoveNotInManifest(t) PROVE TypeInv'
  BY <1>10 DEF RemoveNotInManifest, TypeOK, DeleteRows
<1>11. ASSUME NEW t \in Threads, PruneDone(t) PROVE TypeInv'
  BY <1>11, ReturnType, ReturnHand DEF PruneDone, TypeOK
<1>12. ASSUME NEW t \in Threads, NEW q \in Questions, AgeCurrent(t, q) PROVE TypeInv'
  BY <1>12 DEF AgeCurrent, TypeOK, Present, OfType
<1>13. ASSUME NEW t \in Threads, AgeFindLatest(t) PROVE TypeInv'
  BY <1>13 DEF AgeFindLatest, TypeOK
<1>14. ASSUME NEW t \in Threads, AgeNoLatest(t) PROVE TypeInv'
  BY <1>14, ReturnType, ReturnHand DEF AgeNoLatest, TypeOK
<1>15. ASSUME NEW t \in Threads, AgeAnswer(t) PROVE TypeInv'
  <2>1. /\ le[t] \in Ids /\ ask[t] \in Questions
        /\ fw[t] = None \/ fw[t] \in Ids
    BY <1>15 DEF AgeAnswer, TypeOK
  <2> DEFINE age == IF fw[t] = None THEN 0 ELSE Sub64(DateOf[le[t]], DateOf[fw[t]])
             ans == [latestId |-> le[t],
                     latest |-> ask[t].revision = RevisionOf[le[t]],
                     age |-> age]
  <2>2. age \in 0..(Word - 1)
    <3>1. CASE fw[t] = None
      BY <3>1
    <3>2. CASE fw[t] \in Ids
      <4>1. DateOf[le[t]] \in Nat /\ DateOf[fw[t]] \in Nat
        BY <2>1, <3>2
      <4> QED
        BY <4>1, <3>2, Sub64Type
    <3> QED
      BY <2>1, <3>1, <3>2
  <2>3. ans \in Ages
    <3> HIDE DEF age
    <3> QED BY <2>1, <2>2, AgeType
  <2>4. answer' = [answer EXCEPT ![t] = ans]
    BY <1>15 DEF AgeAnswer
  <2> HIDE DEF ans
  <2>5. answer' \in [Threads -> Ages \cup {None}]
    BY <2>3, <2>4 DEF TypeOK
  <2>6. Return(t)
    BY <1>15 DEF AgeAnswer
  <2>7. InHand'
    BY <2>6, ReturnHand
  <2> QED
    BY <1>15, <2>5, <2>6, <2>7, ReturnType DEF AgeAnswer, TypeOK
<1>16. ASSUME NEW t \in Threads, AgeRowMissing(t) PROVE TypeInv'
  BY <1>16, ReturnType, ReturnHand DEF AgeRowMissing, TypeOK
<1>17. ASSUME Restart PROVE TypeInv'
  BY <1>17 DEF Restart, TypeOK, Present
<1>18. ASSUME NEW i \in Ids, LoadRow(i) PROVE TypeInv'
  BY <1>18, AddToCacheType DEF LoadRow, TypeOK
<1>19. ASSUME LoadFails PROVE TypeInv'
  <2>1. faults' \in 0..MaxFaults /\ unread' = {} /\ complete' = FALSE
    BY <1>19 DEF LoadFails, TypeOK
  <2>2. UNCHANGED <<db, used, proc, cache, rcCache, revisionSet, deviceSet, offered,
                    op, fw, todo, victims, ask, le, answer, disturbed>>
    BY <1>19 DEF LoadFails
  <2> QED
    BY <2>1, <2>2 DEF TypeOK
<1>20. ASSUME LoadDone PROVE TypeInv'
  BY <1>20 DEF LoadDone, TypeOK
<1>21. ASSUME UNCHANGED vars PROVE TypeInv'
  BY <1>21 DEF vars, TypeOK
<1> QED
  BY <1>1, <1>2, <1>3, <1>4, <1>5, <1>6, <1>7, <1>8, <1>9, <1>10, <1>11, <1>12,
     <1>13, <1>14, <1>15, <1>16, <1>17, <1>18, <1>19, <1>20, <1>21
     DEF Next, Lifecycle, Operation, RestOperation, Cleanup

(* Every reachable state is well-formed.                                   *)
THEOREM TypeCorrect == Spec => []TypeOK
BY InitType, NextType, PTL DEF Spec, TypeInv

----------------------------------------------------------------------------
(* The cache against the images offered since the start.                   *)

(* The caches and the listed sets account for image i.                     *)
Accounted(i) ==
  LET type == DeviceTypeOf[i]
  IN /\ cache[type] # None /\ DateOf[i] <= DateOf[cache[type]]
     /\ IsRC(RevisionOf[i]) =>
           rcCache[type] # None /\ DateOf[i] <= DateOf[rcCache[type]]
     /\ RevisionOf[i] \in revisionSet /\ type \in deviceSet

(* Every offered image is accounted for, and a cache entry is an offered   *)
(* image of its type (a release candidate, in the second cache).           *)
CacheInv ==
  /\ \A i \in offered : Accounted(i)
  /\ \A type \in Types :
       /\ cache[type] # None =>
            cache[type] \in offered /\ DeviceTypeOf[cache[type]] = type
       /\ rcCache[type] # None =>
            /\ rcCache[type] \in offered /\ DeviceTypeOf[rcCache[type]] = type
            /\ IsRC(RevisionOf[rcCache[type]])

(* The rows of the table were offered, except those a load has still to    *)
(* read or has skipped; a record is offered before it is inserted.         *)
RowsInv ==
  /\ proc = "up" => unread = {}
  /\ complete => Present \ unread \subseteq offered
  /\ \A t \in Threads : op[t] \in {"select", "clear"} => fw[t] \in offered

CoverInv == CacheInv /\ RowsInv

(* Entering an image keeps what a cache accounts for, adds the image to    *)
(* it, and changes no entry but that of the image's type.                  *)
LEMMA EnterCovers ==
  ASSUME NEW c \in [Types -> Ids \cup {None}], NEW i \in Ids,
         NEW d, d = Enter(i, c)
  PROVE  /\ d[DeviceTypeOf[i]] # None
         /\ DateOf[i] <= DateOf[d[DeviceTypeOf[i]]]
         /\ \A type \in Types : c[type] # None =>
              d[type] # None /\ DateOf[c[type]] <= DateOf[d[type]]
         /\ \A type \in Types : d[type] = c[type] \/ (d[type] = i /\ type = DeviceTypeOf[i])
<1> DEFINE T == DeviceTypeOf[i]
<1>1. T \in Types /\ \A j \in Ids : DateOf[j] \in Int
  OBVIOUS
<1>2. CASE Replaces(i, c)
  <2>1. d = [c EXCEPT ![T] = i]
    BY <1>2 DEF Enter
  <2>2. d[T] = i /\ \A type \in Types \ {T} : d[type] = c[type]
    BY <1>1, <2>1
  <2>3. c[T] # None => DateOf[c[T]] <= DateOf[i]
    BY <1>1, <1>2 DEF Replaces
  <2>4. ASSUME NEW type \in Types, c[type] # None
        PROVE  d[type] # None /\ DateOf[c[type]] <= DateOf[d[type]]
    <3>1. CASE type = T
      BY <1>1, <2>2, <2>3, <2>4, <3>1
    <3>2. CASE type # T
      BY <1>1, <2>2, <2>4, <3>2
    <3> QED
      BY <3>1, <3>2
  <2>5. d[T] # None /\ DateOf[i] <= DateOf[d[T]]
    BY <1>1, <2>2
  <2> QED
    BY <2>2, <2>4, <2>5
<1>3. CASE ~Replaces(i, c)
  <2>1. d = c
    BY <1>3 DEF Enter
  <2>2. c[T] # None /\ DateOf[i] <= DateOf[c[T]]
    BY <1>1, <1>3 DEF Replaces
  <2>3. ASSUME NEW type \in Types, c[type] # None
        PROVE  DateOf[c[type]] <= DateOf[c[type]]
    BY <1>1, <2>3
  <2> QED
    BY <2>1, <2>2, <2>3
<1> QED
  BY <1>2, <1>3

LEMMA AddToCacheCovers ==
  ASSUME TypeOK, CacheInv, NEW i \in Ids, AddToCache(i)
  PROVE  CacheInv'
<1> DEFINE T == DeviceTypeOf[i]
<1>1. /\ cache \in [Types -> Ids \cup {None}] /\ rcCache \in [Types -> Ids \cup {None}]
      /\ cache' = Enter(i, cache)
      /\ rcCache' = IF IsRC(RevisionOf[i]) THEN Enter(i, rcCache) ELSE rcCache
      /\ offered' = offered \cup {i} /\ offered \subseteq Ids
      /\ cache' \in [Types -> Ids \cup {None}] /\ rcCache' \in [Types -> Ids \cup {None}]
  BY EnterType DEF TypeOK, AddToCache
<1>2. ASSUME NEW j \in offered' PROVE Accounted(j)'
  <2>1. /\ cache'[DeviceTypeOf[j]] # None
        /\ DateOf[j] <= DateOf[cache'[DeviceTypeOf[j]]]
    <3>1. CASE j = i
      BY <1>1, <3>1, EnterCovers
    <3>2. CASE j \in offered
      <4>1. cache[DeviceTypeOf[j]] # None /\ DateOf[j] <= DateOf[cache[DeviceTypeOf[j]]]
        BY <3>2 DEF CacheInv, Accounted
      <4>2. /\ cache'[DeviceTypeOf[j]] # None
            /\ DateOf[cache[DeviceTypeOf[j]]] <= DateOf[cache'[DeviceTypeOf[j]]]
        BY <1>1, <3>2, <4>1, EnterCovers
      <4> QED
        BY <1>1, <3>2, <4>1, <4>2
    <3> QED
      BY <1>1, <3>1, <3>2
  <2>2. IsRC(RevisionOf[j]) =>
          rcCache'[DeviceTypeOf[j]] # None /\ DateOf[j] <= DateOf[rcCache'[DeviceTypeOf[j]]]
    <3> SUFFICES ASSUME IsRC(RevisionOf[j])
                 PROVE  rcCache'[DeviceTypeOf[j]] # None /\ DateOf[j] <= DateOf[rcCache'[DeviceTypeOf[j]]]
      OBVIOUS
    <3>1. CASE j = i
      BY <1>1, <3>1, EnterCovers
    <3>2. CASE j \in offered
      <4>1. rcCache[DeviceTypeOf[j]] # None /\ DateOf[j] <= DateOf[rcCache[DeviceTypeOf[j]]]
        BY <3>2 DEF CacheInv, Accounted
      <4>2. /\ rcCache'[DeviceTypeOf[j]] # None
            /\ DateOf[rcCache[DeviceTypeOf[j]]] <= DateOf[rcCache'[DeviceTypeOf[j]]]
        BY <1>1, <3>2, <4>1, EnterCovers
      <4> QED
        BY <1>1, <3>2, <4>1, <4>2
    <3> QED
      BY <1>1, <3>1, <3>2
  <2>3. RevisionOf[j] \in revisionSet' /\ DeviceTypeOf[j] \in deviceSet'
    BY <1>1 DEF AddToCache, CacheInv, Accounted
  <2> QED
    BY <2>1, <2>2, <2>3 DEF Accounted
<1>3. ASSUME NEW type \in Types, cache'[type] # None
      PROVE  cache'[type] \in offered' /\ DeviceTypeOf[cache'[type]] = type
  BY <1>1, <1>3, EnterCovers DEF CacheInv
<1>4. ASSUME NEW type \in Types, rcCache'[type] # None
      PROVE  /\ rcCache'[type] \in offered' /\ DeviceTypeOf[rcCache'[type]] = type
             /\ IsRC(RevisionOf[rcCache'[type]])
  BY <1>1, <1>4, EnterCovers DEF CacheInv
<1> QED
  BY <1>2, <1>3, <1>4 DEF CacheInv

(* The table changes by one statement: a row appears only by an insert.    *)
LEMMA TableFacts ==
  ASSUME TypeOK
  PROVE  /\ \A i \in Ids, row \in Rows : UpdateRow(i, row) => Present' = Present
         /\ \A i \in Ids, row \in Rows : InsertRow(i, row) => Present' \subseteq Present \cup {i}
         /\ \A S : DeleteRows(S) => Present' \subseteq Present
<1>1. ASSUME NEW i \in Ids, NEW row \in Rows, UpdateRow(i, row) PROVE Present' = Present
  <2>1. row # None
    OBVIOUS
  <2> QED
    BY <1>1, <2>1 DEF UpdateRow, Present, TypeOK
<1>2. ASSUME NEW i \in Ids, NEW row \in Rows, InsertRow(i, row)
      PROVE  Present' \subseteq Present \cup {i}
  BY <1>2 DEF InsertRow, Present, TypeOK
<1>3. ASSUME NEW S, DeleteRows(S) PROVE Present' \subseteq Present
  BY <1>3 DEF DeleteRows, Present
<1> QED
  BY <1>1, <1>2, <1>3

LEMMA CoverInit == Init => CoverInv
BY DEF Init, CoverInv, CacheInv, RowsInv, Present

LEMMA CoverNext == TypeInv /\ CoverInv /\ [Next]_vars => CoverInv'
<1> SUFFICES ASSUME TypeOK, InHand, CacheInv, RowsInv, [Next]_vars
             PROVE  CoverInv'
  BY DEF TypeInv, CoverInv
<1> USE DEF durable, volatile, caches, locals, Goto, Idle
<1>1. ASSUME NEW t \in Threads, NEW i \in Ids, AddFirmware(t, i) PROVE CoverInv'
  <2>1. CacheInv'
    BY <1>1, AddToCacheCovers DEF AddFirmware
  <2>2. RowsInv'
    BY <1>1 DEF AddFirmware, AddToCache, RowsInv, Present, TypeOK
  <2> QED
    BY <2>1, <2>2 DEF CoverInv
<1>2. ASSUME UNCHANGED caches PROVE CacheInv'
  BY <1>2 DEF CacheInv, Accounted
<1>3. ASSUME UNCHANGED <<offered, unread, complete, proc>>, Present' \subseteq Present,
             \A t \in Threads : op'[t] \in {"select", "clear"} => fw'[t] \in offered
      PROVE  RowsInv'
  BY <1>3 DEF RowsInv
<1>4. ASSUME NEW t \in Threads,
             \/ SelectLatest(t) \/ PruneDone(t) \/ AgeFindLatest(t) \/ AgeNoLatest(t)
             \/ AgeAnswer(t) \/ AgeRowMissing(t)
             \/ \E q \in Questions : AgeCurrent(t, q)
             \/ \E i \in Ids : PutRead(t, i)
             \/ \E b \in SUBSET Releases : SelectNotInManifest(t, b)
      PROVE  CoverInv'
  <2>1. UNCHANGED <<cache, rcCache, revisionSet, deviceSet, offered, db, unread, complete, proc>>
    BY <1>4 DEF SelectLatest, PruneDone, AgeFindLatest, AgeNoLatest, AgeAnswer, AgeRowMissing,
                AgeCurrent, PutRead, SelectNotInManifest
  <2>2. \A u \in Threads : op'[u] \in {"select", "clear"} =>
           op[u] \in {"select", "clear"} /\ fw'[u] = fw[u]
    BY <1>4 DEF SelectLatest, PruneDone, AgeFindLatest, AgeNoLatest, AgeAnswer, AgeRowMissing,
                AgeCurrent, PutRead, SelectNotInManifest, Return, TypeOK
  <2> QED
    BY <2>1, <2>2, <1>2, <1>3 DEF CoverInv, RowsInv, Present
<1>5. ASSUME NEW t \in Threads, ClearLatest(t) PROVE CoverInv'
  <2>1. Present' = Present
    <3>1. PICK s \in todo[t] : \/ UpdateRow(s.id, [s.row EXCEPT !.latest = FALSE])
                               \/ UNCHANGED db
      BY <1>5 DEF ClearLatest
    <3>2. s.id \in Ids /\ [s.row EXCEPT !.latest = FALSE] \in Rows
      BY <3>1, RowTypes DEF TypeOK
    <3> QED
      BY <3>1, <3>2, TableFacts DEF Present
  <2> QED
    BY <1>5, <2>1, <1>2, <1>3 DEF ClearLatest, CoverInv, RowsInv
<1>6. ASSUME NEW t \in Threads, PutWrite(t) PROVE CoverInv'
  <2>1. Present' = Present
    <3>1. CASE UNCHANGED db
      BY <3>1 DEF Present
    <3>2. CASE \E s \in todo[t] : UpdateRow(s.id, [s.row EXCEPT !.notes = @ + 1])
      <4>1. PICK s \in todo[t] : UpdateRow(s.id, [s.row EXCEPT !.notes = @ + 1])
        BY <3>2
      <4>2. s.id \in Ids /\ [s.row EXCEPT !.notes = @ + 1] \in Rows
        BY <1>6, <4>1, RowTypes DEF TypeOK, InHand, PutWrite
      <4> QED
        BY <4>1, <4>2, TableFacts
    <3> QED
      BY <1>6, <3>1, <3>2 DEF PutWrite
  <2>2. \A u \in Threads : op'[u] \in {"select", "clear"} =>
           op[u] \in {"select", "clear"} /\ fw'[u] = fw[u]
    BY <1>6 DEF PutWrite, Return, TypeOK
  <2> QED
    BY <1>6, <2>1, <2>2, <1>2, <1>3 DEF PutWrite, CoverInv, RowsInv
<1>7. ASSUME NEW t \in Threads, CreateRecord(t) PROVE CoverInv'
  <2>1. fw[t] \in offered /\ fw[t] \in Ids
    BY <1>7 DEF CreateRecord, RowsInv, InHand
  <2>2. Present' \subseteq Present \cup {fw[t]}
    <3>1. CASE UNCHANGED db
      BY <3>1 DEF Present
    <3>2. CASE InsertRow(fw[t], [latest |-> TRUE, notes |-> 0])
      BY <3>2, <2>1, RowTypes, TableFacts
    <3> QED
      BY <1>7, <3>1, <3>2 DEF CreateRecord
  <2>3. \A u \in Threads : op'[u] \in {"select", "clear"} =>
           op[u] \in {"select", "clear"} /\ fw'[u] = fw[u]
    BY <1>7 DEF CreateRecord, Return, TypeOK
  <2> QED
    BY <1>7, <2>1, <2>2, <2>3, <1>2 DEF CreateRecord, CoverInv, RowsInv
<1>8. ASSUME NEW t \in Threads, NEW S, DeleteRows(S) \/ UNCHANGED db,
             UNCHANGED <<used, volatile, caches, op, fw>>
      PROVE  CoverInv'
  <2>1. Present' \subseteq Present
    BY <1>8, TableFacts DEF Present
  <2> QED
    BY <1>8, <2>1, <1>2, <1>3 DEF CoverInv, RowsInv
<1>9. ASSUME NEW t \in Threads,
             \/ \E i \in Ids : DeleteFirmware(t, i)
             \/ \E limit \in 0..(Word - 1) : RemoveOldFirmware(t, limit)
      PROVE  CoverInv'
  BY <1>8, <1>9 DEF DeleteFirmware, RemoveOldFirmware
<1>10. ASSUME NEW t \in Threads, RemoveNotInManifest(t) PROVE CoverInv'
  <2>1. PICK i \in victims[t] : DeleteRows({i}) \/ UNCHANGED db
    BY <1>10 DEF RemoveNotInManifest
  <2> QED
    BY <1>8, <1>10, <2>1 DEF RemoveNotInManifest
<1>11. ASSUME Restart PROVE CoverInv'
  BY <1>11 DEF Restart, CoverInv, CacheInv, RowsInv, Present
<1>12. ASSUME NEW i \in Ids, LoadRow(i) PROVE CoverInv'
  <2>1. CacheInv'
    BY <1>12, AddToCacheCovers DEF LoadRow
  <2>2. RowsInv'
    BY <1>12 DEF LoadRow, AddToCache, RowsInv, Present, TypeOK
  <2> QED
    BY <2>1, <2>2 DEF CoverInv
<1>13. ASSUME LoadFails \/ LoadDone PROVE CoverInv'
  <2>1. UNCHANGED <<cache, rcCache, revisionSet, deviceSet, offered, db, op, fw>>
    BY <1>13 DEF LoadFails, LoadDone
  <2>2. /\ proc' = "up" => unread' = {}
        /\ complete' => complete /\ unread' = unread
    BY <1>13 DEF LoadFails, LoadDone, RowsInv
  <2> QED
    BY <2>1, <2>2, <1>2 DEF CoverInv, RowsInv, Present
<1>14. ASSUME UNCHANGED vars PROVE CoverInv'
  BY <1>14 DEF vars, CoverInv, CacheInv, Accounted, RowsInv, Present
<1> QED
  BY <1>1, <1>4, <1>5, <1>6, <1>7, <1>9, <1>10, <1>11, <1>12, <1>13, <1>14
     DEF Next, Lifecycle, Operation, RestOperation, Cleanup

(* Whatever the threads do and wherever the process dies, no row of the    *)
(* table is newer than the cached image of its type, unless the load that  *)
(* followed the last restart was cut short.                                *)
THEOREM CacheCovers == Spec => []CacheCoversDB
<1>1. CoverInv => CacheCoversDB
  BY DEF CoverInv, CacheInv, RowsInv, Accounted, CacheCoversDB, Present
<1> QED
  BY <1>1, InitType, NextType, CoverInit, CoverNext, PTL DEF Spec

----------------------------------------------------------------------------
(* What the service promises: LatestImage, for all images and for the      *)
(* release candidates.                                                     *)

(* The entries of cache c are newest ones of the images in S.              *)
Sums(c, S) ==
  /\ \A j \in S : /\ c[DeviceTypeOf[j]] # None
                  /\ DateOf[j] <= DateOf[c[DeviceTypeOf[j]]]
  /\ \A type \in Types : c[type] # None =>
        c[type] \in S /\ DeviceTypeOf[c[type]] = type

(* Entering an image makes its type's entry a newest one of the images     *)
(* offered so far.                                                         *)
LEMMA EnterIsOffer ==
  ASSUME NEW c \in [Types -> Ids \cup {None}], NEW i \in Ids, NEW S \in SUBSET Ids,
         Sums(c, S)
  PROVE  \E n \in AnyImage!Newest(S \cup {i}, DeviceTypeOf[i]) :
            Enter(i, c) = [c EXCEPT ![DeviceTypeOf[i]] = n]
<1> DEFINE T == DeviceTypeOf[i]
<1>1. T \in Types /\ \A j \in Ids : DateOf[j] \in Int
  OBVIOUS
<1>2. CASE Replaces(i, c)
  <2>1. Enter(i, c) = [c EXCEPT ![T] = i]
    BY <1>2 DEF Enter
  <2>2. ASSUME NEW j \in S, DeviceTypeOf[j] = T PROVE DateOf[j] <= DateOf[i]
    <3>1. c[T] \in Ids /\ DateOf[j] <= DateOf[c[T]] /\ DateOf[c[T]] <= DateOf[i]
      BY <1>1, <1>2, <2>2 DEF Replaces, Sums
    <3> QED
      BY <1>1, <3>1
  <2>3. i \in AnyImage!Newest(S \cup {i}, T)
    BY <1>1, <2>2 DEF AnyImage!Newest
  <2> QED
    BY <2>1, <2>3
<1>3. CASE ~Replaces(i, c)
  <2>1. Enter(i, c) = [c EXCEPT ![T] = c[T]]
    BY <1>3 DEF Enter
  <2>2. c[T] \in S /\ DeviceTypeOf[c[T]] = T /\ DateOf[i] <= DateOf[c[T]]
    BY <1>1, <1>3 DEF Replaces, Sums
  <2>3. c[T] \in AnyImage!Newest(S \cup {i}, T)
    BY <1>1, <2>2 DEF AnyImage!Newest, Sums
  <2> QED
    BY <2>1, <2>3
<1> QED
  BY <1>2, <1>3

(* A call of AddToCache is an offer of the image.                          *)
LEMMA AddIsOffer ==
  ASSUME TypeOK, CacheInv, NEW i \in Ids, AddToCache(i)
  PROVE  AnyImage!Offer(i)
<1>1. /\ cache \in [Types -> Ids \cup {None}] /\ offered \in SUBSET Ids
      /\ Sums(cache, offered)
  BY DEF TypeOK, CacheInv, Accounted, Sums
<1>2. \E n \in AnyImage!Newest(offered \cup {i}, DeviceTypeOf[i]) :
            Enter(i, cache) = [cache EXCEPT ![DeviceTypeOf[i]] = n]
  BY <1>1, EnterIsOffer
<1> QED
  BY <1>2 DEF AddToCache, AnyImage!Offer

(* Only AddToCache and Restart write the cache and the offered images.     *)
LEMMA StepsOnCache ==
  ASSUME [Next]_vars
  PROVE  \/ \E i \in Ids : AddToCache(i)
         \/ offered' = {} /\ cache' = [type \in Types |-> None]
                         /\ rcCache' = [type \in Types |-> None]
         \/ UNCHANGED <<offered, cache, rcCache>>
<1> USE DEF caches
<1>1. ASSUME NEW t \in Threads, Operation(t)
      PROVE  (\E i \in Ids : AddToCache(i)) \/ UNCHANGED <<offered, cache, rcCache>>
  BY <1>1 DEF Operation, RestOperation, Cleanup, AddFirmware, SelectLatest, ClearLatest, CreateRecord, PutRead, PutWrite,
     DeleteFirmware, RemoveOldFirmware, SelectNotInManifest, RemoveNotInManifest, PruneDone,
     AgeCurrent, AgeFindLatest, AgeNoLatest, AgeAnswer, AgeRowMissing
<1>2. CASE Lifecycle
  BY <1>2 DEF Lifecycle, Restart, LoadRow, LoadFails, LoadDone
<1>3. CASE UNCHANGED vars
  BY <1>3 DEF vars
<1> QED
  BY <1>1, <1>2, <1>3 DEF Next

(* The cache implements LatestImage: FindLatestFirmware answers with one   *)
(* of the newest images of the type that were offered since the start.     *)
THEOREM CacheRefines == Spec => AnyImageSpec
<1>1. Init => AnyImage!Init
  BY DEF Init, AnyImage!Init
<1>2. TypeInv /\ CoverInv /\ [Next]_vars => [AnyImage!Next]_(AnyImage!vars)
  <2> SUFFICES ASSUME TypeOK, CacheInv, [Next]_vars
               PROVE  AnyImage!Next \/ UNCHANGED AnyImage!vars
    BY DEF TypeInv, CoverInv
  <2>1. ASSUME NEW i \in Ids, AddToCache(i) PROVE AnyImage!Next
    BY <2>1, AddIsOffer DEF AnyImage!Next
  <2>2. CASE offered' = {} /\ cache' = [type \in Types |-> None]
    BY <2>2 DEF AnyImage!Next, AnyImage!Forget
  <2>3. CASE UNCHANGED <<offered, cache, rcCache>>
    BY <2>3 DEF AnyImage!vars
  <2> QED
    BY <2>1, <2>2, <2>3, StepsOnCache
<1> QED
  BY <1>1, <1>2, InitType, NextType, CoverInit, CoverNext, PTL
     DEF Spec, AnyImageSpec, AnyImage!Spec

(* For the second cache, a call of AddToCache is an offer of the image if  *)
(* it is a release candidate, and nothing otherwise.                       *)
Candidates == {i \in offered : IsRC(RevisionOf[i])}

LEMMA AddIsCandidate ==
  ASSUME TypeOK, CacheInv, NEW i \in Ids, AddToCache(i)
  PROVE  CandidateImage!Offer(i) \/ UNCHANGED CandidateImage!vars
<1>1. CASE IsRC(RevisionOf[i])
  <2>1. /\ rcCache \in [Types -> Ids \cup {None}] /\ Candidates \in SUBSET Ids
        /\ Sums(rcCache, Candidates)
    BY DEF TypeOK, CacheInv, Accounted, Sums, Candidates
  <2>2. \E n \in AnyImage!Newest(Candidates \cup {i}, DeviceTypeOf[i]) :
           Enter(i, rcCache) = [rcCache EXCEPT ![DeviceTypeOf[i]] = n]
    BY <2>1, EnterIsOffer
  <2>3. Candidates' = Candidates \cup {i} /\ rcCache' = Enter(i, rcCache)
    BY <1>1 DEF AddToCache, Candidates, IsRC
  <2>4. \E n \in CandidateImage!Newest(Candidates', DeviceTypeOf[i]) :
           rcCache' = [rcCache EXCEPT ![DeviceTypeOf[i]] = n]
    BY <2>2, <2>3 DEF AnyImage!Newest, CandidateImage!Newest
  <2> QED
    BY <2>3, <2>4 DEF CandidateImage!Offer, Candidates
<1>2. CASE ~IsRC(RevisionOf[i])
  BY <1>2 DEF AddToCache, CandidateImage!vars, IsRC
<1> QED
  BY <1>1, <1>2

(* The second cache implements LatestImage among the release candidates.   *)
THEOREM CandidateCacheRefines == Spec => CandidateImageSpec
<1>1. Init => CandidateImage!Init
  BY DEF Init, CandidateImage!Init
<1>2. TypeInv /\ CoverInv /\ [Next]_vars => [CandidateImage!Next]_(CandidateImage!vars)
  <2> SUFFICES ASSUME TypeOK, CacheInv, [Next]_vars
               PROVE  CandidateImage!Next \/ UNCHANGED CandidateImage!vars
    BY DEF TypeInv, CoverInv
  <2>1. ASSUME NEW i \in Ids, AddToCache(i)
        PROVE  CandidateImage!Next \/ UNCHANGED CandidateImage!vars
    BY <2>1, AddIsCandidate DEF CandidateImage!Next
  <2>2. CASE offered' = {} /\ rcCache' = [type \in Types |-> None]
    BY <2>2 DEF CandidateImage!Next, CandidateImage!Forget
  <2>3. CASE UNCHANGED <<offered, cache, rcCache>>
    BY <2>3 DEF CandidateImage!vars
  <2> QED
    BY <2>1, <2>2, <2>3, StepsOnCache
<1> QED
  BY <1>1, <1>2, InitType, NextType, CoverInit, CoverNext, PTL
     DEF Spec, CandidateImageSpec, CandidateImage!Spec

(* AddToCache keeps the two caches in agreement, although it compares the  *)
(* image with each of them separately.                                     *)
THEOREM CachesAlwaysAgree == Spec => []CachesAgree
<1>1. Init => CachesAgree
  BY DEF Init, CachesAgree
<1>2. TypeInv /\ CoverInv /\ CachesAgree /\ [Next]_vars => CachesAgree'
  <2> SUFFICES ASSUME TypeOK, CacheInv, CachesAgree, [Next]_vars PROVE CachesAgree'
    BY DEF TypeInv, CoverInv
  <2>1. ASSUME NEW i \in Ids, AddToCache(i) PROVE CachesAgree'
    <3> DEFINE T == DeviceTypeOf[i]
    <3>1. T \in Types /\ \A j \in Ids : DateOf[j] \in Int
      OBVIOUS
    <3>2. cache \in [Types -> Ids \cup {None}] /\ rcCache \in [Types -> Ids \cup {None}]
      BY DEF TypeOK
    <3>3. \A type \in Types \ {T} : cache'[type] = cache[type] /\ rcCache'[type] = rcCache[type]
      BY <2>1, <3>1, <3>2 DEF AddToCache, Enter
    <3>4. cache'[T] = IF Replaces(i, cache) THEN i ELSE cache[T]
      BY <2>1, <3>1, <3>2 DEF AddToCache, Enter
    <3>5. rcCache'[T] = IF IsRC(RevisionOf[i]) /\ Replaces(i, rcCache) THEN i ELSE rcCache[T]
      BY <2>1, <3>1, <3>2 DEF AddToCache, Enter
    <3>6. /\ rcCache[T] # None => /\ cache[T] # None /\ DateOf[rcCache[T]] <= DateOf[cache[T]]
                                  /\ IsRC(RevisionOf[rcCache[T]])
          /\ cache[T] # None /\ IsRC(RevisionOf[cache[T]]) => rcCache[T] = cache[T]
      BY <3>1 DEF CachesAgree
    <3>7. /\ Replaces(i, cache) <=> cache[T] = None \/ DateOf[i] >= DateOf[cache[T]]
          /\ Replaces(i, rcCache) <=> rcCache[T] = None \/ DateOf[i] >= DateOf[rcCache[T]]
      BY DEF Replaces
    <3>8. i # None /\ cache[T] \in Ids \cup {None} /\ rcCache[T] \in Ids \cup {None}
      BY <3>1, <3>2, CatalogAssumption
    <3>9. /\ rcCache'[T] # None => /\ cache'[T] # None /\ DateOf[rcCache'[T]] <= DateOf[cache'[T]]
                                   /\ IsRC(RevisionOf[rcCache'[T]])
          /\ cache'[T] # None /\ IsRC(RevisionOf[cache'[T]]) => rcCache'[T] = cache'[T]
      BY <3>1, <3>4, <3>5, <3>6, <3>7, <3>8
    <3> HIDE DEF T
    <3> QED
      BY <3>3, <3>9 DEF CachesAgree, IsRC
  <2>2. CASE cache' = [type \in Types |-> None] /\ rcCache' = [type \in Types |-> None]
    BY <2>2 DEF CachesAgree
  <2>3. CASE UNCHANGED <<offered, cache, rcCache>>
    BY <2>3 DEF CachesAgree, IsRC
  <2> QED
    BY <2>1, <2>2, <2>3, StepsOnCache
<1> QED
  BY <1>1, <1>2, InitType, NextType, CoverInit, CoverNext, PTL DEF Spec

----------------------------------------------------------------------------
(* The computed ages.                                                      *)

(* An idle thread holds no record; the row a thread found for the device   *)
(* was offered, so the entry it finds later is at least as recent.         *)
IdleHands == \A t \in Threads : op[t] = "idle" => fw[t] = None

AgeOK(t) ==
  /\ op[t] = "age" /\ fw[t] # None =>
       fw[t] \in offered /\ DeviceTypeOf[fw[t]] = ask[t].type
  /\ op[t] = "fetch" /\ fw[t] # None => DateOf[fw[t]] <= DateOf[le[t]]
  /\ answer[t] # None => answer[t].age <= DateOf[answer[t].latestId]

AgeInv == IdleHands /\ (complete => \A t \in Threads : AgeOK(t))

(* A date minus an earlier one does not wrap around.                       *)
LEMMA Sub64Small ==
  ASSUME NEW a \in 0..(Word - 1), NEW b \in 0..(Word - 1), b <= a
  PROVE  Sub64(a, b) <= a
<1>1. Word \in Nat \ {0} /\ a - b \in 0..(Word - 1)
  OBVIOUS
<1>2. (a - b) % Word = a - b
  BY <1>1, SmallMod
<1> QED
  BY <1>1, <1>2 DEF Sub64

LEMMA IdleHandsNext == TypeInv /\ IdleHands /\ [Next]_vars => IdleHands'
<1> SUFFICES ASSUME TypeOK, IdleHands, [Next]_vars PROVE IdleHands'
  BY DEF TypeInv
<1> USE DEF durable, volatile, caches, locals, Goto, Idle, IdleHands, TypeOK
<1>1. ASSUME NEW t \in Threads, Return(t) PROVE IdleHands'
  BY <1>1 DEF Return
<1>2. ASSUME NEW t \in Threads, Operation(t) PROVE IdleHands'
  <2>1. CASE CreateRecord(t) \/ PutWrite(t) \/ PruneDone(t) \/ AgeNoLatest(t) \/ AgeAnswer(t)
             \/ AgeRowMissing(t)
    BY <1>1, <2>1 DEF CreateRecord, PutWrite, PruneDone, AgeNoLatest, AgeAnswer, AgeRowMissing
  <2>2. CASE ClearLatest(t) \/ RemoveNotInManifest(t)
    BY <2>2 DEF ClearLatest, RemoveNotInManifest
  <2>3. ASSUME \/ \E i \in Ids : AddFirmware(t, i) \/ PutRead(t, i) \/ DeleteFirmware(t, i)
               \/ \E limit \in 0..(Word - 1) : RemoveOldFirmware(t, limit)
        PROVE  IdleHands'
    BY <2>3 DEF AddFirmware, PutRead, DeleteFirmware, RemoveOldFirmware
  <2>4. CASE SelectLatest(t) \/ AgeFindLatest(t)
    BY <2>4 DEF SelectLatest, AgeFindLatest
  <2>5. ASSUME NEW b \in SUBSET Releases, SelectNotInManifest(t, b) PROVE IdleHands'
    BY <2>5 DEF SelectNotInManifest
  <2>6. ASSUME NEW q \in Questions, AgeCurrent(t, q) PROVE IdleHands'
    BY <2>6 DEF AgeCurrent
  <2> QED
    BY <1>2, <2>1, <2>2, <2>3, <2>4, <2>5, <2>6 DEF Operation, RestOperation, Cleanup
<1>3. ASSUME Lifecycle \/ UNCHANGED vars PROVE IdleHands'
  BY <1>3 DEF Lifecycle, Restart, LoadFails, LoadDone, LoadRow, vars
<1> QED
  BY <1>2, <1>3 DEF Next

(* A step that leaves the answers alone and starts no question keeps what  *)
(* is known of the questions: the offered images only grow.                *)
AgesKept ==
  /\ offered \subseteq offered'
  /\ complete' => complete
  /\ UNCHANGED answer
  /\ \A u \in Threads : op'[u] \in {"age", "fetch"} =>
       op'[u] = op[u] /\ fw'[u] = fw[u] /\ ask'[u] = ask[u] /\ le'[u] = le[u]

LEMMA KeptAges ==
  ASSUME AgeInv, AgesKept, NEW u \in Threads, complete'
  PROVE  AgeOK(u)'
BY DEF AgeInv, AgeOK, AgesKept

LEMMA AgeNext == TypeInv /\ CoverInv /\ AgeInv /\ [Next]_vars => AgeInv'
<1> SUFFICES ASSUME TypeOK, InHand, CacheInv, RowsInv, AgeInv, [Next]_vars, complete',
                    NEW u \in Threads
             PROVE  AgeOK(u)'
  BY IdleHandsNext DEF TypeInv, CoverInv, AgeInv
<1> USE DEF durable, volatile, caches, locals, Goto, Idle
<1>1. ASSUME NEW t \in Threads, NEW q \in Questions, AgeCurrent(t, q) PROVE AgeOK(u)'
  <2>1. complete /\ unread = {} /\ Present \subseteq offered /\ AgeOK(u)
    BY <1>1 DEF AgeCurrent, RowsInv, AgeInv
  <2>2. fw'[t] # None => fw'[t] \in offered /\ DeviceTypeOf[fw'[t]] = q.type
    <3>1. fw'[t] = None \/ fw'[t] \in OfType(q.type) \cap Present
      BY <1>1 DEF AgeCurrent, TypeOK, AgeInv, IdleHands
    <3> QED
      BY <2>1, <3>1 DEF OfType
  <2> QED
    BY <1>1, <2>1, <2>2 DEF AgeCurrent, AgeOK, TypeOK
<1>2. ASSUME NEW t \in Threads, AgeFindLatest(t) PROVE AgeOK(u)'
  <2>1. complete /\ AgeOK(u) /\ AgeOK(t)
    BY <1>2 DEF AgeFindLatest, AgeInv
  <2>2. fw[t] # None => DateOf[fw[t]] <= DateOf[cache[ask[t].type]]
    BY <1>2, <2>1 DEF AgeFindLatest, AgeOK, CacheInv, Accounted
  <2> QED
    BY <1>2, <2>1, <2>2 DEF AgeFindLatest, AgeOK, TypeOK
<1>3. ASSUME NEW t \in Threads, AgeAnswer(t) PROVE AgeOK(u)'
  <2>1. complete /\ AgeOK(u) /\ AgeOK(t)
    BY <1>3 DEF AgeAnswer, AgeInv
  <2>2. le[t] \in Ids /\ op[t] = "fetch" /\ (fw[t] = None \/ fw[t] \in Ids)
    BY <1>3 DEF AgeAnswer, InHand, TypeOK
  <2> DEFINE age == IF fw[t] = None THEN 0 ELSE Sub64(DateOf[le[t]], DateOf[fw[t]])
  <2>3. age <= DateOf[le[t]]
    <3>1. CASE fw[t] = None
      BY <2>2, <3>1
    <3>2. CASE fw[t] # None
      <4>1. /\ DateOf[le[t]] \in 0..(Word - 1) /\ DateOf[fw[t]] \in 0..(Word - 1)
            /\ DateOf[fw[t]] <= DateOf[le[t]]
        BY <2>1, <2>2, <3>2 DEF AgeOK
      <4> QED
        BY <3>2, <4>1, Sub64Small
    <3> QED
      BY <3>1, <3>2
  <2>4. /\ answer'[t].age = age /\ answer'[t].latestId = le[t]
        /\ \A v \in Threads \ {t} : answer'[v] = answer[v]
    BY <1>3 DEF AgeAnswer, TypeOK
  <2> HIDE DEF age
  <2>5. answer'[u] # None => answer'[u].age <= DateOf[answer'[u].latestId]
    BY <2>1, <2>3, <2>4 DEF AgeOK
  <2>6. op'[u] \in {"age", "fetch"} =>
           u # t /\ op'[u] = op[u] /\ fw'[u] = fw[u] /\ ask'[u] = ask[u] /\ le'[u] = le[u]
    BY <1>3 DEF AgeAnswer, Return, TypeOK
  <2> QED
    BY <1>3, <2>1, <2>5, <2>6 DEF AgeAnswer, AgeOK
<1>4. ASSUME NEW t \in Threads, NEW i \in Ids, AddFirmware(t, i) PROVE AgesKept
  BY <1>4 DEF AddFirmware, AddToCache, AgesKept, TypeOK
<1>5. ASSUME NEW t \in Threads, Operation(t),
             ~ \E i \in Ids : AddFirmware(t, i),
             ~ \E q \in Questions : AgeCurrent(t, q),
             ~ AgeFindLatest(t), ~ AgeAnswer(t)
      PROVE  AgesKept
  <2>1. UNCHANGED <<offered, complete, answer>>
    BY <1>5 DEF Operation, RestOperation, Cleanup, SelectLatest, ClearLatest, CreateRecord, PutRead, PutWrite,
       DeleteFirmware, RemoveOldFirmware, SelectNotInManifest, RemoveNotInManifest, PruneDone,
       AgeNoLatest, AgeRowMissing
  <2> DEFINE Same == \A v \in Threads : op'[v] \in {"age", "fetch"} =>
           op'[v] = op[v] /\ fw'[v] = fw[v] /\ ask'[v] = ask[v] /\ le'[v] = le[v]
  <2>2. ASSUME Return(t) PROVE Same
    BY <2>2 DEF Return, TypeOK
  <2>3. ASSUME ClearLatest(t) \/ RemoveNotInManifest(t) PROVE Same
    BY <2>3 DEF ClearLatest, RemoveNotInManifest
  <2>4. ASSUME SelectLatest(t) PROVE Same
    BY <2>4 DEF SelectLatest, TypeOK
  <2>5. ASSUME \/ \E i \in Ids : PutRead(t, i) \/ DeleteFirmware(t, i)
               \/ \E limit \in 0..(Word - 1) : RemoveOldFirmware(t, limit)
        PROVE  Same
    <3>1. CASE \E i \in Ids : PutRead(t, i)
      BY <3>1 DEF PutRead, TypeOK
    <3>2. CASE \/ \E i \in Ids : DeleteFirmware(t, i)
               \/ \E limit \in 0..(Word - 1) : RemoveOldFirmware(t, limit)
      BY <3>2 DEF DeleteFirmware, RemoveOldFirmware
    <3> QED
      BY <2>5, <3>1, <3>2
  <2>6. ASSUME NEW b \in SUBSET Releases, SelectNotInManifest(t, b) PROVE Same
    BY <2>6 DEF SelectNotInManifest, TypeOK
  <2>7. CreateRecord(t) \/ PutWrite(t) \/ PruneDone(t) \/ AgeNoLatest(t) \/ AgeRowMissing(t)
          => Return(t)
    BY DEF CreateRecord, PutWrite, PruneDone, AgeNoLatest, AgeRowMissing
  <2> HIDE DEF Same
  <2>8. Same
    BY <1>5, <2>2, <2>3, <2>4, <2>5, <2>6, <2>7 DEF Operation, RestOperation, Cleanup
  <2> QED
    BY <2>1, <2>8 DEF AgesKept, Same
<1>6. CASE Restart
  BY <1>6 DEF Restart, AgeOK
<1>7. ASSUME NEW i \in Ids, LoadRow(i) PROVE AgesKept
  BY <1>7 DEF LoadRow, AddToCache, AgesKept
<1>8. ASSUME LoadFails \/ LoadDone \/ UNCHANGED vars PROVE AgesKept
  BY <1>8 DEF LoadFails, LoadDone, vars, AgesKept
<1>9. ASSUME NEW t \in Threads, Operation(t) PROVE AgeOK(u)'
  BY <1>1, <1>2, <1>3, <1>4, <1>5, <1>9, KeptAges
<1>10. CASE Lifecycle \/ UNCHANGED vars
  BY <1>6, <1>7, <1>8, <1>10, KeptAges DEF Lifecycle
<1> QED
  BY <1>9, <1>10 DEF Next

(* A computed age is never the result of a subtraction that wrapped, for   *)
(* any number of threads and any order of their statements: the cache was  *)
(* told of a row before the row could be read.                             *)
THEOREM AgeSound == Spec => []AgeNeverWraps
<1>1. Init => AgeInv
  BY DEF Init, AgeInv, IdleHands, AgeOK
<1>2. AgeInv => AgeNeverWraps
  BY DEF AgeInv, AgeOK, AgeNeverWraps
<1> QED
  BY <1>1, <1>2, InitType, NextType, CoverInit, CoverNext, AgeNext, PTL DEF Spec

----------------------------------------------------------------------------
(* One latest flag: two rows of one type are flagged only when operations  *)
(* that write the flag overlap on the type or a statement of one fails.    *)

(***************************************************************************)
(* The inductive invariant: what holds of a type that is not disturbed.    *)
(***************************************************************************)

(* The rows a thread has read and will write back are of its own type; a   *)
(* PUT has read its own row.                                               *)
Snapshot(t) ==
  /\ op[t] \notin {"clear", "put"} => todo[t] = {}
  /\ op[t] = "clear" => \A s \in todo[t] : DeviceTypeOf[s.id] = DeviceTypeOf[fw[t]]
  /\ op[t] = "put" => \A s \in todo[t] : s.id = fw[t]

(* Several threads at work on the type's flags all do PUTs.                *)
Alone(type) ==
  \A t, u \in Threads : t # u /\ Writes(t, type) /\ Writes(u, type) => ~Adding(t)

(* One row is flagged.                                                     *)
Single(type) == \A i, j \in Flagged(type) : i = j

(* AddFirmware has still to clear every row that is flagged.               *)
Caught(type) ==
  \A t \in Threads : op[t] = "clear" /\ Writes(t, type) =>
    \A i \in Flagged(type) : \E s \in todo[t] : s.id = i

(* A PUT that read a flagged row will flag no other row than the one that  *)
(* is flagged now, or that another PUT will flag.                          *)
Restores(t, i) == op[t] = "put" /\ \E s \in todo[t] : s.id = i /\ s.row.latest
PutsAgree(type) ==
  \A t \in Threads, i \in OfType(type) : Restores(t, i) =>
    /\ \A j \in Flagged(type) : j = i
    /\ \A u \in Threads, j \in OfType(type) : Restores(u, j) => j = i

FlagOK(type) == Alone(type) /\ Single(type) /\ Caught(type) /\ PutsAgree(type)

FlagInv ==
  /\ \A t \in Threads : Snapshot(t)
  /\ \A type \in Types \ disturbed : FlagOK(type)

HIDE DEF Ages, Questions

----------------------------------------------------------------------------
(* What a statement does to the flagged rows.                              *)

(* Writing one row flags no other row.                                     *)
LEMMA WriteFlags ==
  ASSUME TypeOK, NEW i \in Ids, NEW r \in Rows, InsertRow(i, r) \/ UpdateRow(i, r),
         NEW type \in Types, NEW j \in Flagged(type)'
  PROVE  \/ j # i /\ j \in Flagged(type)
         \/ j = i /\ r.latest /\ DeviceTypeOf[i] = type
<1>1. j \in Ids /\ DeviceTypeOf[j] = type /\ db'[j] # None /\ db'[j].latest
  BY DEF Flagged, OfType
<1>2. j # i => db'[j] = db[j]
  BY <1>1 DEF InsertRow, UpdateRow, TypeOK
<1>3. j = i => db'[j] = r
  BY <1>1 DEF InsertRow, UpdateRow, TypeOK
<1> QED
  BY <1>1, <1>2, <1>3 DEF Flagged, OfType

(* Deleting rows flags none.                                               *)
LEMMA DeleteFlags ==
  ASSUME TypeOK, NEW S, DeleteRows(S), NEW type \in Types
  PROVE  Flagged(type)' \subseteq Flagged(type)
BY DEF DeleteRows, Flagged, OfType, TypeOK

----------------------------------------------------------------------------
(* A thread whose step is none of the flag's leaves what holds of a type.  *)

Kept(t) == op'[t] = op[t] /\ fw'[t] = fw[t] /\ todo'[t] = todo[t]
Out(t) == op'[t] \notin {"select", "clear", "put"} /\ todo'[t] = {}

(* What a thread holds stays of its type if its step changes nothing of    *)
(* it, or ends the operation.                                              *)
LEMMA SnapshotKept ==
  ASSUME NEW t \in Threads, Snapshot(t), Kept(t) \/ Out(t)
  PROVE  Snapshot(t)'
BY DEF Snapshot, Kept, Out

(* A step that flags no row, and by which no thread starts work on a type, *)
(* leaves the type as it was.                                              *)
LEMMA Frame ==
  ASSUME NEW type \in Types, FlagOK(type), \A t \in Threads : Snapshot(t)',
         \A t \in Threads : Kept(t) \/ ~Writes(t, type)',
         Flagged(type)' \subseteq Flagged(type)
  PROVE  FlagOK(type)'
<1>1. ASSUME NEW t \in Threads, Kept(t)
      PROVE  /\ Writes(t, type)' = Writes(t, type) /\ Adding(t)' = Adding(t)
             /\ \A i \in OfType(type) : Restores(t, i)' = Restores(t, i)
  BY <1>1 DEF Kept, Writes, Adding, Restores
<1>2. ASSUME NEW t \in Threads, NEW i \in OfType(type), Restores(t, i)'
      PROVE  Kept(t)
  BY <1>2 DEF Restores, Snapshot, Writes, OfType
<1>3. Alone(type)'
  <2> SUFFICES ASSUME NEW t \in Threads, NEW u \in Threads, t # u,
                      Writes(t, type)', Writes(u, type)'
               PROVE  ~Adding(t)'
    BY DEF Alone
  <2> QED
    BY <1>1 DEF FlagOK, Alone
<1>4. Single(type)'
  BY DEF FlagOK, Single
<1>5. Caught(type)'
  <2> SUFFICES ASSUME NEW t \in Threads, (op[t] = "clear")', Writes(t, type)',
                      NEW i \in Flagged(type)'
               PROVE  \E s \in todo'[t] : s.id = i
    BY DEF Caught
  <2>1. Kept(t) /\ Writes(t, type) /\ i \in Flagged(type)
    BY <1>1
  <2> QED
    BY <2>1 DEF FlagOK, Caught, Kept
<1>6. PutsAgree(type)'
  <2> SUFFICES ASSUME NEW t \in Threads, NEW i \in OfType(type), Restores(t, i)'
               PROVE  /\ \A j \in Flagged(type)' : j = i
                      /\ \A u \in Threads, j \in OfType(type) : Restores(u, j)' => j = i
    BY DEF PutsAgree, OfType
  <2>1. Restores(t, i)
    BY <1>1, <1>2
  <2>2. \A j \in Flagged(type)' : j = i
    BY <2>1 DEF FlagOK, PutsAgree
  <2>3. ASSUME NEW u \in Threads, NEW j \in OfType(type), Restores(u, j)' PROVE j = i
    <3>1. Restores(u, j)
      BY <1>1, <1>2, <2>3
    <3> QED
      BY <2>1, <3>1 DEF FlagOK, PutsAgree
  <2> QED
    BY <2>2, <2>3
<1> QED
  BY <1>3, <1>4, <1>5, <1>6 DEF FlagOK

(* The same for all types, when the threads only end operations.           *)
LEMMA OutFrame ==
  ASSUME FlagInv, \A t \in Threads : Kept(t) \/ Out(t), disturbed \subseteq disturbed',
         \A type \in Types \ disturbed : Flagged(type)' \subseteq Flagged(type)
  PROVE  FlagInv'
<1>1. \A t \in Threads : Snapshot(t)'
  BY SnapshotKept DEF FlagInv
<1>2. \A t \in Threads, type \in Types : Kept(t) \/ ~Writes(t, type)'
  BY DEF Out, Writes, Adding
<1>3. ASSUME NEW type \in Types \ disturbed' PROVE FlagOK(type)'
  BY <1>1, <1>2, <1>3, Frame DEF FlagInv
<1> QED
  BY <1>1, <1>3 DEF FlagInv

----------------------------------------------------------------------------
(* The steps that flag no row and read none to write it back.              *)

(* The thread that returns is at work on no type, the others go on.        *)
LEMMA ReturnOut ==
  ASSUME TypeOK, NEW t \in Threads, Return(t)
  PROVE  \A u \in Threads : Kept(u) \/ Out(u)
BY DEF Return, TypeOK, Kept, Out

(* A step that leaves the table alone leaves the flags alone.              *)
LEMMA TableKept ==
  ASSUME UNCHANGED db, NEW type \in Types
  PROVE  Flagged(type)' \subseteq Flagged(type)
BY DEF Flagged, OfType

(* Restart and load, deletes and clean-ups, and the computation of ages.   *)
LEMMA QuietSteps ==
  ASSUME TypeInv, FlagInv,
         \/ Lifecycle \/ UNCHANGED vars
         \/ \E t \in Threads :
              \/ \E i \in Ids : DeleteFirmware(t, i)
              \/ Cleanup(t)
              \/ \E q \in Questions : AgeCurrent(t, q)
              \/ AgeFindLatest(t) \/ AgeNoLatest(t) \/ AgeAnswer(t) \/ AgeRowMissing(t)
  PROVE  FlagInv'
<1> USE DEF TypeInv, durable, volatile, caches, locals, Goto
<1>1. CASE Lifecycle \/ UNCHANGED vars
  <2>1. UNCHANGED <<db, disturbed>>
    BY <1>1 DEF Lifecycle, Restart, LoadFails, LoadDone, LoadRow, vars
  <2>2. \A u \in Threads : Kept(u) \/ Out(u)
    BY <1>1 DEF Lifecycle, Restart, LoadFails, LoadDone, LoadRow, vars, Kept, Out
  <2> QED
    BY <2>1, <2>2, TableKept, OutFrame
<1>2. ASSUME NEW t \in Threads,
             \/ \E i \in Ids : DeleteFirmware(t, i)
             \/ \E limit \in 0..(Word - 1) : RemoveOldFirmware(t, limit)
             \/ RemoveNotInManifest(t)
      PROVE  FlagInv'
  <2>1. UNCHANGED disturbed /\ \A u \in Threads : Kept(u)
    BY <1>2 DEF DeleteFirmware, RemoveOldFirmware, RemoveNotInManifest, Kept
  <2>2. UNCHANGED db \/ \E S : DeleteRows(S)
    BY <1>2 DEF DeleteFirmware, RemoveOldFirmware, RemoveNotInManifest
  <2> QED
    BY <2>1, <2>2, TableKept, DeleteFlags, OutFrame
<1>3. ASSUME NEW t \in Threads,
             \/ \E b \in SUBSET Releases : SelectNotInManifest(t, b)
             \/ \E q \in Questions : AgeCurrent(t, q)
             \/ AgeFindLatest(t)
      PROVE  FlagInv'
  <2>1. UNCHANGED <<db, disturbed, todo>>
    BY <1>3 DEF SelectNotInManifest, AgeCurrent, AgeFindLatest
  <2>2. op[t] \in {"idle", "age"} /\ todo[t] = {}
    BY <1>3 DEF SelectNotInManifest, AgeCurrent, AgeFindLatest, Idle, FlagInv, Snapshot
  <2>3. op'[t] \in {"prune", "age", "fetch"} /\ \A u \in Threads \ {t} : Kept(u)
    BY <1>3, <2>1 DEF SelectNotInManifest, AgeCurrent, AgeFindLatest, TypeOK, Kept
  <2>4. \A u \in Threads : Kept(u) \/ Out(u)
    BY <2>1, <2>2, <2>3 DEF Out
  <2> QED
    BY <2>1, <2>4, TableKept, OutFrame
<1>4. ASSUME NEW t \in Threads,
             PruneDone(t) \/ AgeNoLatest(t) \/ AgeAnswer(t) \/ AgeRowMissing(t)
      PROVE  FlagInv'
  <2>1. UNCHANGED <<db, disturbed>> /\ Return(t)
    BY <1>4 DEF PruneDone, AgeNoLatest, AgeAnswer, AgeRowMissing
  <2> QED
    BY <2>1, ReturnOut, TableKept, OutFrame
<1> QED
  BY <1>1, <1>2, <1>3, <1>4 DEF Cleanup

----------------------------------------------------------------------------
(* AddFirmware. *)

(* A thread that adds an image of an undisturbed type is alone with it.    *)
LEMMA AloneKept ==
  ASSUME NEW type \in Types, NEW t \in Threads, Alone(type), Adding(t), Writes(t, type),
         \A u \in Threads \ {t} : Kept(u)
  PROVE  \A u \in Threads \ {t} : ~(Writes(u, type)')
BY DEF Alone, Kept, Writes, Adding

(* A type with one thread at work on it, which is no PUT.                  *)
LEMMA Sole ==
  ASSUME NEW type \in Types, NEW t \in Threads, \A u \in Threads : Snapshot(u)',
         \A u \in Threads \ {t} : ~(Writes(u, type)'),
         op'[t] # "put", Single(type)',
         op'[t] = "clear" => \A i \in Flagged(type)' : \E s \in todo'[t] : s.id = i
  PROVE  FlagOK(type)'
<1>1. Alone(type)' /\ Caught(type)'
  BY DEF Alone, Caught
<1>2. ASSUME NEW u \in Threads, NEW j \in OfType(type) PROVE ~(Restores(u, j)')
  BY DEF Restores, Snapshot, Writes, OfType
<1>3. PutsAgree(type)'
  BY <1>2 DEF PutsAgree, OfType
<1> QED
  BY <1>1, <1>3 DEF FlagOK

(* The first step: an overlap with another writer disturbs the type.       *)
LEMMA AddSteps ==
  ASSUME TypeInv, FlagInv, NEW t \in Threads, NEW i \in Ids, AddFirmware(t, i)
  PROVE  FlagInv'
<1> USE DEF TypeInv
<1>1. /\ UNCHANGED <<db, todo>> /\ op[t] = "idle"
      /\ op' = [op EXCEPT ![t] = "select"] /\ fw' = [fw EXCEPT ![t] = i]
      /\ disturbed' = disturbed \cup Overlap(t, DeviceTypeOf[i])
  BY DEF AddFirmware, Goto, Idle
<1>2. op'[t] = "select" /\ fw'[t] = i /\ todo'[t] = {} /\ \A u \in Threads \ {t} : Kept(u)
  BY <1>1 DEF TypeOK, Kept, FlagInv, Snapshot
<1>3. \A u \in Threads : Snapshot(u)'
  BY <1>2, SnapshotKept DEF FlagInv, Snapshot
<1>4. ASSUME NEW type \in Types \ disturbed', type # DeviceTypeOf[i]
      PROVE  FlagOK(type)'
  <2>1. \A u \in Threads : Kept(u) \/ ~Writes(u, type)'
    BY <1>2, <1>4 DEF Writes
  <2> QED
    BY <1>1, <1>3, <1>4, <2>1, TableKept, Frame DEF FlagInv
<1>5. ASSUME NEW type \in Types \ disturbed', type = DeviceTypeOf[i]
      PROVE  FlagOK(type)'
  <2>1. type \notin disturbed /\ \A u \in Threads \ {t} : ~Writes(u, type)
    BY <1>1, <1>5 DEF Overlap
  <2>2. \A u \in Threads \ {t} : ~Writes(u, type)'
    BY <1>2, <2>1 DEF Kept, Writes, Adding
  <2>3. Single(type)'
    BY <1>1, <2>1 DEF FlagInv, FlagOK, Single, Flagged, OfType
  <2> QED
    BY <1>2, <1>3, <2>2, <2>3, Sole
<1> QED
  BY <1>3, <1>4, <1>5 DEF FlagInv

(* The flagged rows are read: all are caught, or the type is disturbed.    *)
LEMMA SelectSteps ==
  ASSUME TypeInv, FlagInv, NEW t \in Threads, SelectLatest(t)
  PROVE  FlagInv'
<1> USE DEF TypeInv
<1> DEFINE own == DeviceTypeOf[fw[t]]
           read == {[id |-> i, row |-> db[i]] : i \in Flagged(own)}
<1>1. /\ UNCHANGED <<db, fw>> /\ op[t] = "select" /\ op' = [op EXCEPT ![t] = "clear"]
      /\ \/ todo' = [todo EXCEPT ![t] = read] /\ UNCHANGED disturbed
         \/ UNCHANGED todo /\ disturbed' = disturbed \cup {own}
  BY DEF SelectLatest, Goto, durable
<1>2. fw[t] \in Ids /\ own \in Types /\ todo[t] = {}
  BY <1>1 DEF InHand, FlagInv, Snapshot
<1>3. op'[t] = "clear" /\ fw'[t] = fw[t] /\ todo'[t] \subseteq read
      /\ \A u \in Threads \ {t} : Kept(u)
  BY <1>1, <1>2 DEF TypeOK, Kept
<1>4. \A s \in read : DeviceTypeOf[s.id] = own
  BY DEF Flagged, OfType
<1>5. \A u \in Threads : Snapshot(u)'
  BY <1>3, <1>4, SnapshotKept DEF FlagInv, Snapshot
<1>6. ASSUME NEW type \in Types \ disturbed', type # own
      PROVE  FlagOK(type)'
  <2>1. \A u \in Threads : Kept(u) \/ ~Writes(u, type)'
    BY <1>3, <1>6 DEF Writes
  <2> QED
    BY <1>1, <1>5, <1>6, <2>1, TableKept, Frame DEF FlagInv
<1>7. ASSUME NEW type \in Types \ disturbed', type = own
      PROVE  FlagOK(type)'
  <2>1. todo'[t] = read /\ UNCHANGED disturbed
    <3> HIDE DEF read
    <3>1. type \notin disturbed \cup {own} \/ UNCHANGED disturbed
      BY <1>1, <1>7
    <3> QED
      BY <1>1, <1>7, <3>1 DEF TypeOK
  <2>2. FlagOK(type) /\ Writes(t, type) /\ Adding(t)
    BY <1>1, <1>2, <1>7, <2>1 DEF FlagInv, Writes, Adding
  <2>3. \A u \in Threads \ {t} : ~(Writes(u, type)')
    BY <1>3, <2>2, AloneKept DEF FlagOK
  <2>4. Flagged(type)' = Flagged(type)
    BY <1>1 DEF Flagged, OfType
  <2>5. \A i \in Flagged(type)' : \E s \in todo'[t] : s.id = i
    <3> SUFFICES ASSUME NEW i \in Flagged(own) PROVE \E s \in read : s.id = i
      BY <1>7, <2>1, <2>4
    <3>1. [id |-> i, row |-> db[i]] \in read /\ [id |-> i, row |-> db[i]].id = i
      OBVIOUS
    <3> QED
      BY <3>1
  <2>6. Single(type)'
    BY <2>2, <2>4 DEF FlagOK, Single
  <2> QED
    BY <1>3, <1>5, <2>3, <2>5, <2>6, Sole
<1> QED
  BY <1>5, <1>6, <1>7 DEF FlagInv

(* One row is written back: its flag is gone, the others are still caught. *)
LEMMA ClearSteps ==
  ASSUME TypeInv, FlagInv, NEW t \in Threads, ClearLatest(t)
  PROVE  FlagInv'
<1> USE DEF TypeInv
<1>1. PICK s \in todo[t] : ClearLatest(t)!2!(s)
  BY DEF ClearLatest
<1>2. /\ UNCHANGED <<fw, op>> /\ op[t] = "clear" /\ todo' = [todo EXCEPT ![t] = @ \ {s}]
      /\ \/ UpdateRow(s.id, [s.row EXCEPT !.latest = FALSE]) /\ UNCHANGED disturbed
         \/ UNCHANGED db /\ disturbed' = disturbed \cup {DeviceTypeOf[fw[t]]}
  BY <1>1 DEF ClearLatest
<1>3. fw[t] \in Ids /\ DeviceTypeOf[fw[t]] \in Types /\ s \in Snapshots
      /\ DeviceTypeOf[s.id] = DeviceTypeOf[fw[t]]
  BY <1>1, <1>2 DEF InHand, FlagInv, Snapshot, TypeOK
<1>4. todo'[t] = todo[t] \ {s} /\ \A u \in Threads \ {t} : Kept(u)
  BY <1>2 DEF TypeOK, Kept
<1>5. \A u \in Threads : Snapshot(u)'
  BY <1>2, <1>4, SnapshotKept DEF FlagInv, Snapshot
<1>6. \A type \in Types : Flagged(type)' \subseteq Flagged(type)
  <2>1. CASE UNCHANGED db
    BY <2>1, TableKept
  <2>2. CASE UpdateRow(s.id, [s.row EXCEPT !.latest = FALSE])
    <3>1. [s.row EXCEPT !.latest = FALSE] \in Rows /\ [s.row EXCEPT !.latest = FALSE].latest = FALSE
      BY <1>3, RowTypes
    <3> QED
      BY <1>3, <2>2, <3>1, WriteFlags
  <2> QED
    BY <1>2, <2>1, <2>2
<1>7. ASSUME NEW type \in Types \ disturbed', type # DeviceTypeOf[fw[t]]
      PROVE  FlagOK(type)'
  <2>1. \A u \in Threads : Kept(u) \/ ~Writes(u, type)'
    BY <1>2, <1>4, <1>7 DEF Writes
  <2>2. FlagOK(type)
    BY <1>2, <1>7 DEF FlagInv
  <2> QED
    BY <1>5, <1>6, <2>1, <2>2, Frame
<1>8. ASSUME NEW type \in Types \ disturbed', type = DeviceTypeOf[fw[t]]
      PROVE  FlagOK(type)'
  <2>1. FlagOK(type) /\ Writes(t, type) /\ Adding(t)
    BY <1>2, <1>3, <1>8 DEF FlagInv, Writes, Adding
  <2>2. \A u \in Threads \ {t} : ~(Writes(u, type)')
    BY <1>4, <2>1, AloneKept DEF FlagOK
  <2>3. Single(type)'
    BY <1>6, <2>1 DEF FlagOK, Single
  <2>4. UpdateRow(s.id, [s.row EXCEPT !.latest = FALSE])
    BY <1>2, <1>8
  <2>5. s.id \notin Flagged(type)'
    <3>1. [s.row EXCEPT !.latest = FALSE] \in Rows /\ [s.row EXCEPT !.latest = FALSE].latest = FALSE
      BY <1>3, RowTypes
    <3> QED
      BY <1>3, <2>4, <3>1, WriteFlags
  <2>6. \A i \in Flagged(type)' : \E r \in todo'[t] : r.id = i
    <3> SUFFICES ASSUME NEW i \in Flagged(type)' PROVE \E r \in todo'[t] : r.id = i
      OBVIOUS
    <3>1. i \in Flagged(type) /\ i # s.id
      BY <1>6, <2>5
    <3>2. PICK r \in todo[t] : r.id = i
      BY <1>2, <2>1, <3>1 DEF FlagOK, Caught
    <3> QED
      BY <1>4, <3>1, <3>2
  <2> QED
    BY <1>2, <1>5, <2>2, <2>3, <2>6, Sole
<1> QED
  BY <1>5, <1>7, <1>8 DEF FlagInv

(* The new row is inserted when no flag is left.                           *)
LEMMA CreateSteps ==
  ASSUME TypeInv, FlagInv, NEW t \in Threads, CreateRecord(t)
  PROVE  FlagInv'
<1> USE DEF TypeInv
<1> DEFINE row == [latest |-> TRUE, notes |-> 0]
<1>1. /\ op[t] = "clear" /\ todo[t] = {} /\ Return(t) /\ UNCHANGED disturbed
      /\ InsertRow(fw[t], row) \/ UNCHANGED db
  BY DEF CreateRecord
<1>2. fw[t] \in Ids /\ DeviceTypeOf[fw[t]] \in Types /\ row \in Rows
  BY <1>1, RowTypes DEF InHand
<1>3. /\ \A u \in Threads : Kept(u) \/ Out(u)
      /\ \A u \in Threads \ {t} : Kept(u)
      /\ op'[t] = "idle"
  BY <1>1, ReturnOut DEF Return, TypeOK, Kept
<1>4. \A u \in Threads : Snapshot(u)'
  BY <1>3, SnapshotKept DEF FlagInv
<1>5. ASSUME NEW type \in Types \ disturbed', type # DeviceTypeOf[fw[t]]
      PROVE  FlagOK(type)'
  <2>1. \A u \in Threads : Kept(u) \/ ~Writes(u, type)'
    BY <1>3 DEF Out, Writes, Adding
  <2>2. Flagged(type)' \subseteq Flagged(type)
    <3> HIDE DEF row
    <3>1. CASE InsertRow(fw[t], row)
      BY <1>2, <1>5, <3>1, WriteFlags
    <3>2. CASE UNCHANGED db
      BY <1>5, <3>2, TableKept
    <3> QED
      BY <1>1, <3>1, <3>2
  <2> QED
    BY <1>1, <1>4, <1>5, <2>1, <2>2, Frame DEF FlagInv
<1>6. ASSUME NEW type \in Types \ disturbed', type = DeviceTypeOf[fw[t]]
      PROVE  FlagOK(type)'
  <2>1. FlagOK(type) /\ Writes(t, type) /\ Adding(t)
    BY <1>1, <1>2, <1>6 DEF FlagInv, Writes, Adding
  <2>2. \A u \in Threads \ {t} : ~(Writes(u, type)')
    BY <1>3, <2>1, AloneKept DEF FlagOK
  <2>3. Flagged(type) = {}
    BY <1>1, <2>1 DEF FlagOK, Caught
  <2>4. \A i \in Flagged(type)' : i = fw[t]
    <3> HIDE DEF row
    <3>1. CASE InsertRow(fw[t], row)
      BY <1>2, <1>6, <2>3, <3>1, WriteFlags
    <3>2. CASE UNCHANGED db
      BY <1>6, <2>3, <3>2, TableKept
    <3> QED
      BY <1>1, <3>1, <3>2
  <2>5. Single(type)'
    BY <2>4 DEF Single
  <2> QED
    BY <1>3, <1>4, <2>2, <2>5, Sole
<1> QED
  BY <1>4, <1>5, <1>6 DEF FlagInv

----------------------------------------------------------------------------
(* PUT. *)

(* Threads that do PUTs on a type do not disturb one another.              *)
LEMMA Putting ==
  ASSUME NEW type \in Types, \A u \in Threads : Snapshot(u)',
         \A u \in Threads : Writes(u, type)' => ~(Adding(u)'),
         Single(type)', PutsAgree(type)'
  PROVE  FlagOK(type)'
<1>1. Alone(type)'
  BY DEF Alone
<1>2. Caught(type)'
  BY DEF Caught, Adding
<1> QED
  BY <1>1, <1>2 DEF FlagOK

(* The row read is the only flagged one, or not flagged.                   *)
LEMMA PutReadSteps ==
  ASSUME TypeInv, FlagInv, NEW t \in Threads, NEW i \in Ids, PutRead(t, i)
  PROVE  FlagInv'
<1> USE DEF TypeInv
<1> DEFINE own == DeviceTypeOf[i]
           copy == [id |-> i, row |-> db[i]]
<1>1. /\ UNCHANGED db /\ op[t] = "idle" /\ db[i] # None /\ disturbed \subseteq disturbed'
      /\ own \notin disturbed' => \A u \in Threads \ {t} : ~(Adding(u) /\ Writes(u, own))
  BY DEF PutRead, Idle, durable
<1>2. /\ op'[t] = "put" /\ fw'[t] = i /\ todo'[t] = {copy}
      /\ \A u \in Threads \ {t} : Kept(u)
  BY DEF PutRead, Goto, TypeOK, Kept
<1>3. \A u \in Threads : Snapshot(u)'
  BY <1>2, SnapshotKept DEF FlagInv, Snapshot
<1>4. \A type \in Types : Flagged(type)' = Flagged(type)
  BY <1>1 DEF Flagged, OfType
<1>5. ASSUME NEW type \in Types \ disturbed', type # own
      PROVE  FlagOK(type)'
  <2>1. \A u \in Threads : Kept(u) \/ ~Writes(u, type)'
    BY <1>2, <1>5 DEF Writes
  <2> QED
    BY <1>1, <1>3, <1>4, <1>5, <2>1, Frame DEF FlagInv
<1>6. ASSUME NEW type \in Types \ disturbed', type = own
      PROVE  FlagOK(type)'
  <2>1. FlagOK(type)
    BY <1>1, <1>6 DEF FlagInv
  <2>2. \A u \in Threads : Writes(u, type)' => ~(Adding(u)')
    BY <1>1, <1>2, <1>6 DEF Kept, Writes, Adding
  <2>3. Single(type)'
    BY <1>4, <2>1 DEF FlagOK, Single
  <2>4. ASSUME NEW u \in Threads, NEW j \in OfType(type), Restores(u, j)'
        PROVE  Restores(u, j) \/ (j = i /\ i \in Flagged(type))
    <3>1. CASE u = t
      BY <1>1, <1>2, <1>6, <2>4, <3>1 DEF Restores, Flagged, OfType
    <3>2. CASE u # t
      BY <1>2, <2>4, <3>2 DEF Restores, Kept
    <3> QED
      BY <3>1, <3>2
  <2>5. ASSUME NEW u \in Threads, NEW j \in OfType(type), Restores(u, j)'
        PROVE  \A k \in Flagged(type) : k = j
    BY <2>1, <2>4, <2>5 DEF FlagOK, Single, PutsAgree
  <2>6. ASSUME NEW u \in Threads, NEW j \in OfType(type), Restores(u, j)',
               NEW v \in Threads, NEW k \in OfType(type), Restores(v, k)'
        PROVE  k = j
    <3>1. CASE Restores(u, j) /\ Restores(v, k)
      BY <2>1, <3>1 DEF FlagOK, PutsAgree
    <3>2. CASE i \in Flagged(type) /\ j = i
      BY <2>5, <2>6, <3>2
    <3>3. CASE i \in Flagged(type) /\ k = i
      BY <2>5, <2>6, <3>3
    <3> QED
      BY <2>4, <2>6, <3>1, <3>2, <3>3
  <2>7. PutsAgree(type)'
    BY <1>4, <2>5, <2>6 DEF PutsAgree, OfType
  <2> QED
    BY <1>3, <2>2, <2>3, <2>7, Putting
<1> QED
  BY <1>3, <1>5, <1>6 DEF FlagInv

(* The row written back flags the row that is flagged already, if any.     *)
LEMMA PutWriteSteps ==
  ASSUME TypeInv, FlagInv, NEW t \in Threads, PutWrite(t)
  PROVE  FlagInv'
<1> USE DEF TypeInv
<1>1. op[t] = "put" /\ Return(t) /\ UNCHANGED disturbed
  BY DEF PutWrite
<1>2. \A u \in Threads : Kept(u) \/ Out(u)
  BY <1>1, ReturnOut
<1>3. CASE UNCHANGED db
  BY <1>1, <1>2, <1>3, TableKept, OutFrame
<1>4. ASSUME NEW s \in todo[t], UpdateRow(s.id, [s.row EXCEPT !.notes = @ + 1])
      PROVE  FlagInv'
  <2> DEFINE row == [s.row EXCEPT !.notes = @ + 1]
  <2>1. s \in Snapshots /\ s.id = fw[t] /\ fw[t] \in Ids /\ s.row.notes < MaxNotes
    BY <1>1 DEF InHand, FlagInv, Snapshot, TypeOK
  <2>2. row \in Rows /\ row.latest = s.row.latest
    BY <2>1, RowTypes
  <2>3. UpdateRow(s.id, row)
    BY <1>4
  <2> HIDE DEF row
  <2>4. \A u \in Threads : Snapshot(u)'
    BY <1>2, SnapshotKept DEF FlagInv
  <2>5. ASSUME NEW type \in Types \ disturbed', NEW j \in Flagged(type)'
        PROVE  \/ j # s.id /\ j \in Flagged(type)
               \/ j = s.id /\ s.row.latest /\ DeviceTypeOf[s.id] = type
    BY <2>1, <2>2, <2>3, WriteFlags
  <2>6. ASSUME NEW type \in Types \ disturbed' PROVE FlagOK(type)'
    <3>1. FlagOK(type)
      BY <1>1 DEF FlagInv
    <3>2. \A u \in Threads : Kept(u) \/ ~Writes(u, type)'
      BY <1>2 DEF Out, Writes, Adding
    <3>3. CASE ~(s.row.latest /\ DeviceTypeOf[s.id] = type)
      <4>1. Flagged(type)' \subseteq Flagged(type)
        BY <2>5, <3>3
      <4> QED
        BY <2>4, <3>1, <3>2, <4>1, Frame
    <3>4. CASE s.row.latest /\ DeviceTypeOf[s.id] = type
      <4>1. s.id \in OfType(type) /\ Restores(t, s.id) /\ Writes(t, type)
        BY <1>1, <2>1, <3>4 DEF OfType, Restores, Writes
      <4>2. \A j \in Flagged(type)' : j = s.id
        BY <2>5, <3>1, <4>1 DEF FlagOK, PutsAgree
      <4>3. \A u \in Threads : Writes(u, type)' => ~(Adding(u)')
        <5> SUFFICES ASSUME NEW u \in Threads, Writes(u, type)' PROVE ~(Adding(u)')
          OBVIOUS
        <5>1. Kept(u) /\ Writes(u, type)
          BY <3>2 DEF Kept, Writes, Adding
        <5>2. ~Adding(u)
          BY <1>1, <3>1, <4>1, <5>1 DEF FlagOK, Alone, Adding
        <5> QED
          BY <5>1, <5>2 DEF Kept, Adding
      <4>4. ASSUME NEW u \in Threads, NEW j \in OfType(type), Restores(u, j)'
            PROVE  j = s.id
        <5>1. Restores(u, j)
          BY <1>2, <4>4 DEF Kept, Out, Restores
        <5> QED
          BY <3>1, <4>1, <5>1 DEF FlagOK, PutsAgree
      <4>5. PutsAgree(type)'
        BY <4>2, <4>4 DEF PutsAgree, OfType
      <4>6. Single(type)'
        BY <4>2 DEF Single
      <4> QED
        BY <2>4, <4>3, <4>5, <4>6, Putting
    <3> QED
      BY <3>3, <3>4
  <2> QED
    BY <2>4, <2>6 DEF FlagInv
<1> QED
  BY <1>3, <1>4 DEF PutWrite

----------------------------------------------------------------------------
(* The theorem.                                                            *)

(* No row, no flag.                                                        *)
LEMMA FlagInit == Init => FlagInv
<1> SUFFICES ASSUME Init PROVE FlagInv
  OBVIOUS
<1>1. /\ \A t \in Threads : op[t] = "idle" /\ todo[t] = {}
      /\ \A type \in Types : Flagged(type) = {}
  BY DEF Init, Flagged, OfType
<1>2. \A t \in Threads : Snapshot(t)
  BY <1>1 DEF Snapshot
<1>3. ASSUME NEW type \in Types PROVE FlagOK(type)
  BY <1>1 DEF FlagOK, Alone, Single, Caught, PutsAgree, Restores, Adding
<1> QED
  BY <1>2, <1>3 DEF FlagInv

(* Every step of every thread keeps the invariant.                         *)
LEMMA FlagNext == TypeInv /\ FlagInv /\ [Next]_vars => FlagInv'
BY QuietSteps, AddSteps, SelectSteps, ClearSteps, CreateSteps, PutReadSteps, PutWriteSteps
   DEF Next, Operation, RestOperation

(* storage/orm_firmwares.cpp:59-74 ("find the older software and change to *)
(* latest = 0"): whatever the number of images, threads, crashes and       *)
(* failing statements, two rows of a type are flagged as latest only after *)
(* writers of the flag overlapped on that type or a statement of one failed. *)
THEOREM OneFlag == Spec => []OneLatestFlag
<1>1. Init => TypeInv /\ FlagInv
  BY InitType, FlagInit
<1>2. TypeInv /\ FlagInv /\ [Next]_vars => (TypeInv /\ FlagInv)'
  BY NextType, FlagNext
<1>3. FlagInv => OneLatestFlag
  BY DEF FlagInv, FlagOK, Single, OneLatestFlag
<1> QED
  BY <1>1, <1>2, <1>3, PTL DEF Spec

----------------------------------------------------------------------------
(* ManifestRefresh.                                                        *)

HIDE DEF Rows, Snapshots, Ages, Questions
USE CatalogAssumption, RefreshAssumption

----------------------------------------------------------------------------
(* The inductive invariant.                                                *)

(* The thread of the refresh lives only while the process is up; its place *)
(* in an operation on the table, its locals and the flag agree with its    *)
(* step.                                                                   *)
ControlOK ==
  /\ step # "none" => proc = "up"
  /\ step = "prune" => op[Runner] = "prune"
  /\ step = "insert" => op[Runner] \in {"select", "clear"}
  /\ step \notin {"prune", "insert"} => op[Runner] = "idle"
  /\ step # "prune" => victims[Runner] = {}
  /\ step \in {"none", "expire"} => token = 0 /\ seen = [n \in Releases |-> None]
  /\ step \in {"none", "expire", "list"} => page = {}
  /\ step = "store" => pending # {}
  /\ step \notin {"none", "end"} => updateRunning = TRUE

BaseInv == TypeInv /\ RefreshTypeOK /\ ControlOK

(* The image of n is on the page, still to be read.                        *)
OnPage(n) == \E o \in page : o.name = n /\ ~o.json
ManifestOnPage(n) == \E o \in page : o.name = n /\ o.json

(* A name whose image has been in the bucket throughout the refresh is     *)
(* recorded or on the page once the listing has passed it.                 *)
NothingSkipped ==
  /\ step # "none" => NoImage(bucket) \subseteq absent
  /\ whole => \A n \in Releases \ absent :
       /\ step = "list" /\ 2 * n <= token => seen[n] # None
       /\ step = "read" /\ (2 * n <= token \/ ~truncated) => seen[n] # None \/ OnPage(n)
       /\ step = "compute" => seen[n] # None
       /\ step = "select" => seen[n] # None \/ n \in Staging

(* Whoever is about to insert a row knows of no other row of its name, or  *)
(* the name is one that a POST or a failed look-up may double.             *)
NewName(n) == n \in loose \/ ~Known(n)
OneRowEach ==
  /\ RowPerRelease
  /\ \A t \in Threads \ {Runner} : Adding(t) => ReleaseOf[fw[t]] \in loose
  /\ step = "store" => NewName(Least(pending))
  /\ step = "insert" => /\ DeviceTypeOf[fw[Runner]] = CompatibleOf[ReleaseOf[fw[Runner]]]
                        /\ NewName(ReleaseOf[fw[Runner]])

(* What the listing of an unchanged bucket has found of a name so far, and *)
(* what it will have found in the end.                                     *)
Recorded == {"good", "misnamed"}
ImageRead(n) == bucket[n].image # 0 /\ 2 * n <= token /\ ~OnPage(n)
ManifestRead(n) == bucket[n].json \in Recorded /\ 2 * n + 1 <= token /\ ~ManifestOnPage(n)
Found(n) ==
  IF ImageRead(n) \/ ManifestRead(n)
    THEN [image |-> IF ImageRead(n) THEN bucket[n].image ELSE 0,
          json |-> IF ManifestRead(n) THEN bucket[n].json ELSE "none"]
    ELSE None
InBucket(n) == bucket[n].image # 0 \/ bucket[n].json \in Recorded
Expected(n) ==
  IF InBucket(n)
    THEN [image |-> bucket[n].image,
          json |-> IF bucket[n].json \in Recorded THEN bucket[n].json ELSE "none"]
    ELSE None

(* Names that have a place in the table, and those that must have a row.   *)
Belongs(n) == InBucket(n) /\ (n \in Staging => bucket[n].image = 0)
Wanted ==
  {n \in Releases : Belongs(n) /\ bucket[n].json = "good" /\ TimestampOf[n] > Limit}

(* Nothing has disturbed the refresh so far.                               *)
Quiet == calm /\ whole /\ faults = 0

ListingAgrees ==
  /\ step \in {"list", "read"} =>
       /\ page \subseteq Stored /\ \A o \in page : Rank(o) <= token
       /\ \A n \in Releases : seen[n] = Found(n)
  /\ step = "read" /\ ~truncated => \A o \in Stored : Rank(o) <= token
  /\ step = "compute" => \A n \in Releases : seen[n] = Expected(n)
  /\ step = "select" => \A n \in Releases : Belongs(n) <=> seen[n] # None
  /\ step \in {"select", "prune"} => pending = Wanted

TableAgrees ==
  /\ step = "prune" => \A i \in Present : Belongs(ReleaseOf[i]) \/ i \in victims[Runner]
  /\ step \in {"add", "store", "insert"} \/ (step = "end" /\ ~updateRunning) =>
       \A i \in Present : Belongs(ReleaseOf[i])
  /\ step \in {"add", "store", "insert"} => pending \subseteq Wanted
  /\ step = "insert" => ReleaseOf[fw[Runner]] \in Wanted
  /\ step \in {"add", "store", "insert"} \/ (step = "end" /\ ~updateRunning) =>
       \A n \in Wanted :
         \/ Known(n) 
         \/ step # "end" /\ n \in pending
         \/ step = "insert" /\ n = ReleaseOf[fw[Runner]]

SyncInv == Quiet => ListingAgrees /\ TableAgrees

----------------------------------------------------------------------------
(* Numbers and the order of the objects.                                   *)

LEMMA NatMin ==
  ASSUME NEW S \in SUBSET Nat, S # {}
  PROVE  \E m \in S : \A k \in S : m <= k
<1> DEFINE R == OpToRel(<, Nat)
<1>1. IsWellFoundedOn(R, Nat)
  BY NatLessThanWellFounded
<1> HIDE DEF R
<1>2. PICK m \in S : \A k \in S : ~ (<<k, m>> \in R)
  BY <1>1, WFMin
<1>3. ASSUME NEW k \in S PROVE m <= k
  <2>1. <<k, m>> \in R <=> k < m
    BY DEF R, OpToRel
  <2> QED
    BY <1>2, <2>1
<1> QED
  BY <1>3

LEMMA LeastIs ==
  ASSUME NEW S \in SUBSET Releases, S # {}
  PROVE  Least(S) \in S
<1>1. \E m \in S : \A k \in S : m <= k
  BY NatMin
<1> QED
  BY <1>1 DEF Least

LEMMA RankType ==
  ASSUME NEW o \in Objects
  PROVE  Rank(o) \in Nat \ {0}
<1>1. o.name \in Releases
  BY DEF Objects
<1>2. o.name \in Nat \ {0}
  BY <1>1
<1>3. (IF o.json THEN 1 ELSE 0) \in {0, 1}
  OBVIOUS
<1> QED
  BY <1>2, <1>3 DEF Rank

LEMMA FirstIs ==
  ASSUME NEW S \in SUBSET Objects, S # {}
  PROVE  First(S) \in S
<1> DEFINE T == {Rank(o) : o \in S}
<1>1. T \in SUBSET Nat /\ T # {}
  BY RankType
<1>2. PICK m \in T : \A k \in T : m <= k
  BY <1>1, NatMin
<1>3. PICK o \in S : m = Rank(o)
  BY <1>2
<1>4. \A p \in S : Rank(o) <= Rank(p)
  BY <1>2, <1>3
<1> QED
  BY <1>4 DEF First

LEMMA StoredType ==
  ASSUME bucket \in [Releases -> Contents]
  PROVE  Stored \in SUBSET Objects
<1>1. \A n \in Releases : bucket[n].image \in UploadDates \cup {0}
  BY DEF Contents
<1>2. ASSUME NEW n \in Releases \ NoImage(bucket)
      PROVE  [name |-> n, json |-> FALSE, date |-> bucket[n].image] \in Objects
  BY <1>1 DEF Objects
<1>3. ASSUME NEW n \in Releases PROVE [name |-> n, json |-> TRUE, date |-> 0] \in Objects
  BY DEF Objects
<1> QED
  BY <1>2, <1>3 DEF Stored

(* Objects of the bucket of one rank are the same object.                  *)
LEMMA RankInjective ==
  ASSUME bucket \in [Releases -> Contents], NEW o \in Stored, NEW p \in Stored,
         Rank(o) = Rank(p)
  PROVE  o = p
<1>1. /\ o.name \in Nat /\ p.name \in Nat /\ o.json \in BOOLEAN /\ p.json \in BOOLEAN
  BY StoredType DEF Objects
<1>2. o.name = p.name /\ o.json = p.json
  BY <1>1 DEF Rank
<1> QED
  BY <1>1, <1>2 DEF Stored

(* The objects up to a rank are finitely many.                             *)
LEMMA UpToIsFinite ==
  ASSUME bucket \in [Releases -> Contents], NEW S \in SUBSET Stored, NEW r \in Nat
  PROVE  IsFiniteSet({p \in S : Rank(p) <= r})
<1> DEFINE T == {p \in S : Rank(p) <= r}
           f == [p \in T |-> Rank(p)]
<1>1. IsFiniteSet(0..r)
  BY FS_Interval
<1>2. \A p \in T : Rank(p) \in 0..r
  BY StoredType, RankType
<1>3. \A p, q \in T : f[p] = f[q] => p = q
  BY RankInjective
<1>4. f \in Injection(T, 0..r)
  BY <1>2, <1>3 DEF Injection, IsInjective
<1> QED
  BY <1>1, <1>4, FS_Injection

(* A page holds what is stored between the old token and the new one.      *)
LEMMA PageListed ==
  ASSUME bucket \in [Releases -> Contents], token \in Nat, ListObjects
  PROVE  /\ page' \in SUBSET Stored /\ token' \in Nat /\ token <= token'
         /\ truncated' \in BOOLEAN
         /\ \A o \in page' : token < Rank(o) /\ Rank(o) <= token'
         /\ \A o \in Stored : token < Rank(o) /\ Rank(o) <= token' => o \in page'
         /\ ~truncated' => \A o \in Stored : Rank(o) <= token'
<1> DEFINE later == {o \in Stored : Rank(o) > token}
           before(o) == {p \in later : Rank(p) <= Rank(o)}
           got == {o \in later : Cardinality(before(o)) <= PageSize}
           last == CHOOSE o \in got : \A p \in got : Rank(p) <= Rank(o)
<1>1. /\ page' = got
      /\ token' = IF got = {} THEN token ELSE Rank(last)
  BY DEF ListObjects
<1>10. truncated' \in BOOLEAN /\ (~truncated' => later = got)
  BY Zenon DEF ListObjects
<1>2. \A o \in later : Rank(o) \in Nat /\ o \in Stored
  BY StoredType, RankType
<1>3. ASSUME NEW o \in later PROVE IsFiniteSet(before(o)) /\ Cardinality(before(o)) \in Nat
  <2>1. later \in SUBSET Stored /\ Rank(o) \in Nat
    BY <1>2
  <2>2. IsFiniteSet(before(o))
    BY <2>1, UpToIsFinite
  <2> QED
    BY <2>2, FS_CardinalityType
<1>4. ASSUME NEW o \in later, NEW p \in later, Rank(o) <= Rank(p)
      PROVE  /\ Cardinality(before(o)) <= Cardinality(before(p))
             /\ Rank(o) < Rank(p) => Cardinality(before(o)) # Cardinality(before(p))
  <2>1. before(o) \in SUBSET before(p)
    BY <1>2, <1>4
  <2>2. Rank(o) < Rank(p) => before(o) # before(p)
    <3> SUFFICES ASSUME Rank(o) < Rank(p) PROVE before(o) # before(p)
      OBVIOUS
    <3>1. p \in before(p) /\ p \notin before(o)
      BY <1>2
    <3> QED
      BY <3>1
  <2> QED
    BY <1>3, <2>1, <2>2, FS_Subset
<1> HIDE DEF before
<1>5. ASSUME got # {} PROVE last \in got /\ \A p \in got : Rank(p) <= Rank(last)
  <2> DEFINE room == {PageSize - Cardinality(before(o)) : o \in got}
  <2>1. room \in SUBSET Nat /\ room # {}
    BY <1>3, <1>5
  <2>2. PICK m \in room : \A k \in room : m <= k
    BY <2>1, NatMin
  <2>3. PICK o \in got : m = PageSize - Cardinality(before(o))
    BY <2>2
  <2>4. ASSUME NEW p \in got PROVE Rank(p) <= Rank(o)
    <3> SUFFICES ASSUME Rank(o) < Rank(p) PROVE FALSE
      BY <1>2
    <3>1. Cardinality(before(o)) < Cardinality(before(p))
      BY <1>2, <1>3, <1>4
    <3>2. m <= PageSize - Cardinality(before(p))
      BY <2>2
    <3> QED
      BY <1>3, <2>3, <3>1, <3>2
  <2> HIDE DEF got
  <2> QED
    BY <2>4
<1>6. ASSUME NEW o \in Stored, token < Rank(o), got # {}, Rank(o) <= Rank(last)
      PROVE  o \in got
  <2>1. o \in later /\ last \in later /\ Cardinality(before(last)) <= PageSize
    BY <1>5, <1>6
  <2>2. Cardinality(before(o)) <= Cardinality(before(last))
    BY <1>4, <1>6, <2>1
  <2> QED
    BY <1>3, <2>1, <2>2
<1> HIDE DEF last
<1>7. got \in SUBSET later
  OBVIOUS
<1> HIDE DEF got
<1>8. CASE got = {}
  <2>1. token' = token
    BY <1>1, <1>8
  <2>2. \A o \in Stored : Rank(o) \in Nat
    BY StoredType, RankType
  <2>3. ~truncated' => \A o \in Stored : Rank(o) <= token
    BY <1>10, <1>8, <2>2
  <2> QED
    BY <1>1, <1>8, <1>10, <2>1, <2>2, <2>3
<1>9. CASE got # {}
  <2>1. token' = Rank(last) /\ last \in later /\ \A p \in got : Rank(p) <= Rank(last)
    BY <1>1, <1>5, <1>7, <1>9
  <2>2. \A o \in Stored : Rank(o) \in Nat
    BY StoredType, RankType
  <2>3. Rank(last) \in Nat /\ token < Rank(last)
    BY <1>2, <2>1
  <2>4. ~truncated' => \A o \in Stored : Rank(o) <= Rank(last)
    <3> SUFFICES ASSUME later = got, NEW o \in Stored PROVE Rank(o) <= Rank(last)
      BY <1>10
    <3>1. CASE o \in later
      BY <2>1, <3>1
    <3>2. CASE o \notin later
      BY <2>2, <2>3, <3>2
    <3> QED
      BY <3>1, <3>2
  <2>5. \A o \in got : token < Rank(o) /\ o \in Stored
    BY <1>2, <1>7
  <2> QED
    BY <1>1, <1>6, <1>9, <1>10, <2>1, <2>3, <2>4, <2>5
<1> QED
  BY <1>8, <1>9

----------------------------------------------------------------------------
(* What the statements of FirmwareCatalog do to the table's rows and to    *)
(* the thread's hands.                                                     *)

(* Thread t leaves the hands of the others alone.                          *)
OthersKept(t) ==
  \A u \in Threads \ {t} : op'[u] = op[u] /\ fw'[u] = fw[u] /\ victims'[u] = victims[u]

LEMMA ReturnKeeps ==
  ASSUME TypeInv, NEW t \in Threads, Return(t)
  PROVE  /\ OthersKept(t)
         /\ op'[t] = "idle" /\ victims'[t] = {} /\ fw'[t] = None
BY DEF Return, OthersKept, TypeInv, TypeOK

LEMMA UpdateKeeps ==
  ASSUME TypeInv, NEW i \in Ids, NEW r \in Rows, UpdateRow(i, r)
  PROVE  Present' = Present
BY DEF UpdateRow, Present, TypeInv, TypeOK

LEMMA DeleteKeeps ==
  ASSUME NEW S, DeleteRows(S) \/ UNCHANGED db
  PROVE  Present' \subseteq Present
BY DEF DeleteRows, Present

LEMMA InsertKeeps ==
  ASSUME TypeInv, NEW i \in Ids, NEW r \in Rows, InsertRow(i, r)
  PROVE  Present' = Present \cup {i}
BY DEF InsertRow, Present, TypeInv, TypeOK

LEMMA SelectKeeps ==
  ASSUME TypeInv, NEW t \in Threads, SelectLatest(t)
  PROVE  /\ OthersKept(t) /\ UNCHANGED <<durable, volatile, fw, victims>> /\ Present' = Present
         /\ op[t] = "select" /\ op'[t] = "clear"
BY DEF SelectLatest, OthersKept, durable, volatile, Goto, Present, TypeInv, TypeOK

LEMMA ClearKeeps ==
  ASSUME TypeInv, NEW t \in Threads, ClearLatest(t)
  PROVE  /\ UNCHANGED <<used, volatile, op, fw, victims>> /\ Present' = Present
         /\ op[t] = "clear"
<1>1. PICK s \in todo[t] :
        UpdateRow(s.id, [s.row EXCEPT !.latest = FALSE]) \/ UNCHANGED db
  BY DEF ClearLatest
<1>2. s.id \in Ids /\ s.row \in Rows
  BY DEF TypeInv, TypeOK, Snapshots
<1>3. [s.row EXCEPT !.latest = FALSE] \in Rows
  BY <1>2, RowTypes
<1>4. Present' = Present
  BY <1>1, <1>2, <1>3, UpdateKeeps DEF Present
<1> QED
  BY <1>4 DEF ClearLatest, volatile

LEMMA CreateKeeps ==
  ASSUME TypeInv, NEW t \in Threads, CreateRecord(t)
  PROVE  /\ OthersKept(t) /\ UNCHANGED <<used, volatile>>
         /\ op[t] = "clear" /\ op'[t] = "idle" /\ victims'[t] = {} /\ fw[t] \in Ids
         /\ Present' = Present \cup {fw[t]} \/ Present' = Present
         /\ UNCHANGED faults => Present' = Present \cup {fw[t]}
<1>1. fw[t] \in Ids /\ op[t] = "clear"
  BY DEF CreateRecord, TypeInv, InHand
<1>2. [latest |-> TRUE, notes |-> 0] \in Rows
  BY RowTypes
<1>3. CASE InsertRow(fw[t], [latest |-> TRUE, notes |-> 0])
  BY <1>1, <1>2, <1>3, InsertKeeps, ReturnKeeps DEF CreateRecord, volatile
<1>4. CASE Fault /\ UNCHANGED db
  <2>1. faults' # faults
    BY <1>4 DEF Fault, TypeInv, TypeOK
  <2> QED
    BY <1>1, <1>4, <2>1, ReturnKeeps DEF CreateRecord, volatile, Present
<1> QED
  BY <1>3, <1>4 DEF CreateRecord

LEMMA AddKeeps ==
  ASSUME TypeInv, NEW t \in Threads, NEW i \in Ids, AddFirmware(t, i)
  PROVE  /\ OthersKept(t) /\ UNCHANGED <<volatile, victims, db, faults>> /\ Present' = Present
         /\ op'[t] = "select" /\ fw'[t] = i /\ i \in used' \ used
         /\ Idle(t)
BY DEF AddFirmware, OthersKept, volatile, Goto, Present, TypeInv, TypeOK

(* What a REST thread does, as the refresh sees it.                        *)
LEMMA RestFrame ==
  ASSUME TypeInv, NEW t \in Threads, RestOperation(t)
  PROVE  /\ OthersKept(t) /\ UNCHANGED volatile
         /\ Adding(t)' => (Adding(t) /\ fw'[t] = fw[t]) \/ fw'[t] \in used' \ used
         /\ \A i \in Present' : i \in Present \/ (Adding(t) /\ i = fw[t])
<1> USE DEF Adding
<1>1. ASSUME NEW i \in Ids, AddFirmware(t, i) PROVE
        /\ OthersKept(t) /\ UNCHANGED volatile
        /\ fw'[t] \in used' \ used /\ Present' = Present
  BY <1>1, AddKeeps
<1>2. ASSUME NEW i \in Ids, PutRead(t, i) PROVE
        /\ OthersKept(t) /\ UNCHANGED volatile
        /\ op'[t] = "put" /\ Present' = Present
  BY <1>2 DEF PutRead, OthersKept, durable, volatile, Goto, Present, TypeInv, TypeOK
<1>3. ASSUME NEW i \in Ids, DeleteFirmware(t, i) PROVE
        /\ OthersKept(t) /\ UNCHANGED volatile
        /\ op'[t] = op[t] /\ fw'[t] = fw[t] /\ Present' \subseteq Present
  BY <1>3, DeleteKeeps DEF DeleteFirmware, OthersKept, volatile, locals
<1>4. ASSUME PutWrite(t) PROVE
        /\ OthersKept(t) /\ UNCHANGED volatile
        /\ op'[t] = "idle" /\ Present' = Present
  <2>1. OthersKept(t) /\ UNCHANGED volatile /\ op'[t] = "idle"
    BY <1>4, ReturnKeeps DEF PutWrite, volatile
  <2>2. CASE UNCHANGED db
    BY <2>1, <2>2 DEF Present
  <2>3. ASSUME NEW s \in todo[t], UpdateRow(s.id, [s.row EXCEPT !.notes = @ + 1])
        PROVE  Present' = Present
    <3>1. s.id \in Ids /\ s.row \in Rows /\ s.row.notes < MaxNotes
      BY <1>4 DEF PutWrite, TypeInv, TypeOK, InHand, Snapshots
    <3>2. [s.row EXCEPT !.notes = @ + 1] \in Rows
      BY <3>1, RowTypes
    <3> QED
      BY <2>3, <3>1, <3>2, UpdateKeeps
  <2> QED
    BY <1>4, <2>1, <2>2, <2>3 DEF PutWrite
<1>5. ASSUME NEW q \in Questions, AgeCurrent(t, q) PROVE
        /\ OthersKept(t) /\ UNCHANGED volatile
        /\ op'[t] = "age" /\ Present' = Present
  BY <1>5 DEF AgeCurrent, OthersKept, durable, volatile, Goto, Present, TypeInv, TypeOK
<1>6. ASSUME AgeFindLatest(t) PROVE
        /\ OthersKept(t) /\ UNCHANGED volatile
        /\ op'[t] = "fetch" /\ Present' = Present
  BY <1>6 DEF AgeFindLatest, OthersKept, durable, volatile, Goto, Present, TypeInv, TypeOK
<1>7. ASSUME AgeNoLatest(t) \/ AgeAnswer(t) \/ AgeRowMissing(t) PROVE
        /\ OthersKept(t) /\ UNCHANGED volatile
        /\ op'[t] = "idle" /\ Present' = Present
  BY <1>7, ReturnKeeps DEF AgeNoLatest, AgeAnswer, AgeRowMissing, durable, volatile, Present
<1> QED
  BY <1>1, <1>2, <1>3, <1>4, <1>5, <1>6, <1>7, SelectKeeps, ClearKeeps, CreateKeeps
     DEF RestOperation, OthersKept

----------------------------------------------------------------------------
(* Each step of the composition is one of FirmwareCatalog, or changes none *)
(* of its variables.                                                       *)

LEMMA LimitType ==
  ASSUME RefreshTypeOK
  PROVE  Limit \in 0..(Word - 1)
<1>1. now \in Nat /\ MaxAge \in Nat
  BY DEF RefreshTypeOK
<1> QED
  BY <1>1, Sub64Type DEF Limit

(* A look-up or a request that fails costs the table's thread a failed     *)
(* statement that has no other effect.                                     *)
LEMMA FaultIsStep ==
  ASSUME Idle(Runner), Fault, UNCHANGED <<db, used, volatile, caches, locals, disturbed>>
  PROVE  Next
<1>1. RemoveOldFirmware(Runner, 0)
  BY DEF RemoveOldFirmware
<1>2. 0 \in 0..(Word - 1)
  OBVIOUS
<1> QED
  BY <1>1, <1>2 DEF Next, Operation, Cleanup

LEMMA RunnerIsStep ==
  ASSUME BaseInv, RunnerStep
  PROVE  Next \/ UNCHANGED vars
<1> USE DEF BaseInv, Operation, RestOperation, Cleanup, Next
<1>1. step \notin {"none", "prune", "insert"} => Idle(Runner)
  BY DEF ControlOK, Idle
<1>2. ASSUME Expire PROVE Next
  BY <1>2, LimitType DEF Expire
<1>3. ASSUME ListFails PROVE Next
  BY <1>1, <1>3, FaultIsStep DEF ListFails, Go
<1>4. ASSUME ManifestUnreadable PROVE Next
  BY <1>1, <1>4, FaultIsStep DEF ManifestUnreadable, Reading
<1>5. ASSUME SelectThrows PROVE Next
  BY <1>1, <1>5, FaultIsStep DEF SelectThrows
<1>6. ASSUME LookupFails PROVE Next
  BY <1>1, <1>6, FaultIsStep DEF LookupFails
<1>7. ASSUME SelectVictims PROVE Next
  BY <1>7 DEF SelectVictims, Listed
<1>8. ASSUME Prune \/ PruneEnds PROVE Next
  BY <1>8 DEF Prune, PruneEnds
<1>9. ASSUME Store PROVE Next
  BY <1>9 DEF Store, MadeFrom
<1>10. ASSUME Insert PROVE Next
  BY <1>10 DEF Insert
<1>11. ASSUME \/ ListObjects \/ ReadImage \/ ReadManifest \/ ReadStopped \/ PageRead
              \/ ComputeManifest \/ EntryKnown \/ EntryMissing \/ Finish \/ ThreadEnds
       PROVE  UNCHANGED vars
  BY <1>11, Zenon DEF ListObjects, ReadImage, ReadManifest, ReadStopped, PageRead,
    ComputeManifest, EntryKnown, EntryMissing, Finish, ThreadEnds
<1> HIDE DEF BaseInv, Operation, RestOperation, Cleanup, Next
<1> QED
  BY <1>2, <1>3, <1>4, <1>5, <1>6, <1>7, <1>8, <1>9, <1>10, <1>11 DEF RunnerStep

LEMMA StepIsStep ==
  ASSUME BaseInv, [RefreshNext]_refreshVars
  PROVE  [Next]_vars
<1>1. ASSUME RunUpdateTask \/ Stop \/ Tick \/ \E n \in Releases, c \in Contents : Upload(n, c)
      PROVE  UNCHANGED vars
  BY <1>1, Zenon DEF RunUpdateTask, Stop, Tick, Upload
<1>2. ASSUME RestStep PROVE Next
  BY <1>2 DEF RestStep, Next, Operation
<1>3. ASSUME Reboot \/ Load PROVE Next
  BY <1>3, Zenon DEF Reboot, Load, Next, Lifecycle
<1>4. ASSUME UNCHANGED refreshVars PROVE UNCHANGED vars
  BY <1>4 DEF refreshVars
<1> QED
  BY <1>1, <1>2, <1>3, <1>4, RunnerIsStep DEF RefreshNext, WorldStep

----------------------------------------------------------------------------
(* Types.                                                                  *)

LEMMA NoThreadType ==
  ASSUME NoThread
  PROVE  /\ step' = "none" /\ token' = 0 /\ page' = {} /\ truncated' \in BOOLEAN
         /\ seen' \in [Releases -> Entries \cup {None}] /\ pending' = {}
BY DEF NoThread

(* An entry made from an image and a manifest of the bucket.               *)
LEMMA EntryType ==
  ASSUME NEW d \in UploadDates \cup {0}, NEW j \in {"none", "good", "misnamed"}
  PROVE  [image |-> d, json |-> j] \in Entries
BY DEF Entries

LEMMA ReadImageType ==
  ASSUME RefreshTypeOK, ReadImage
  PROVE  page' \in SUBSET Objects /\ seen' \in [Releases -> Entries \cup {None}]
<1> DEFINE o == First(page)
           e == [image |-> o.date,
                 json |-> IF seen[o.name] = None THEN "none" ELSE seen[o.name].json]
<1>1. page \in SUBSET Objects /\ page # {} /\ page' = page \ {o}
      /\ seen' = [seen EXCEPT ![o.name] = e]
  BY DEF ReadImage, Reading, Take, RefreshTypeOK
<1>2. o \in Objects
  BY <1>1, FirstIs
<1>3. o.name \in Releases /\ o.date \in UploadDates \cup {0}
  BY <1>2 DEF Objects
<1>4. seen[o.name] \in Entries \cup {None}
  BY <1>3 DEF RefreshTypeOK
<1>5. (IF seen[o.name] = None THEN "none" ELSE seen[o.name].json) \in {"none", "good", "misnamed"}
  BY <1>4 DEF Entries
<1>6. e \in Entries
  BY <1>3, <1>5, EntryType
<1> HIDE DEF o, e
<1> QED
  BY <1>1, <1>3, <1>6 DEF RefreshTypeOK

LEMMA ReadManifestType ==
  ASSUME RefreshTypeOK, ReadManifest
  PROVE  page' \in SUBSET Objects /\ seen' \in [Releases -> Entries \cup {None}]
<1> DEFINE o == First(page)
           json == bucket[o.name].json
           e == [image |-> IF seen[o.name] = None THEN 0 ELSE seen[o.name].image,
                 json |-> json]
<1>1. page \in SUBSET Objects /\ page # {} /\ page' = page \ {o}
      /\ seen' = IF json \in {"good", "misnamed"} THEN [seen EXCEPT ![o.name] = e] ELSE seen
  BY DEF ReadManifest, Reading, Take, RefreshTypeOK
<1>2. o \in Objects
  BY <1>1, FirstIs
<1>3. o.name \in Releases
  BY <1>2 DEF Objects
<1>4. seen[o.name] \in Entries \cup {None}
  BY <1>3 DEF RefreshTypeOK
<1>5. (IF seen[o.name] = None THEN 0 ELSE seen[o.name].image) \in UploadDates \cup {0}
  BY <1>4 DEF Entries
<1>6. json \in {"good", "misnamed"} => e \in Entries
  BY <1>5, EntryType
<1> HIDE DEF o, e, json
<1> QED
  BY <1>1, <1>3, <1>6 DEF RefreshTypeOK

LEMMA ComputeType ==
  ASSUME RefreshTypeOK, ComputeManifest
  PROVE  seen' \in [Releases -> Entries \cup {None}] /\ pending' \in SUBSET Releases
<1>1. PICK kept \in SUBSET Listed :
        /\ seen' = [n \in Releases |-> IF n \in kept THEN seen[n] ELSE None]
        /\ pending' = {n \in kept : seen[n].json = "good" /\ TimestampOf[n] > Limit}
  BY DEF ComputeManifest
<1> QED
  BY <1>1 DEF RefreshTypeOK, Listed

Booleans ==
  /\ running \in BOOLEAN /\ updateRunning \in BOOLEAN
  /\ truncated \in BOOLEAN /\ whole \in BOOLEAN /\ calm \in BOOLEAN

Values ==
  /\ bucket \in [Releases -> Contents] /\ changes \in 0..MaxChanges
  /\ now \in MinNow..MaxNow
  /\ step \in {"none", "expire", "list", "read", "compute", "select", "prune", "add", "store",
               "insert", "end"}
  /\ token \in Nat /\ page \in SUBSET Objects
  /\ seen \in [Releases -> Entries \cup {None}]
  /\ pending \in SUBSET Releases
  /\ absent \in SUBSET Releases /\ loose \in SUBSET Releases

LEMMA BooleansNext ==
  ASSUME BaseInv, [RefreshNext]_refreshVars
  PROVE  Booleans'
<1>1. Booleans /\ bucket \in [Releases -> Contents] /\ token \in Nat
  BY DEF BaseInv, RefreshTypeOK, Booleans
<1>2. ListObjects => truncated' \in BOOLEAN
  BY <1>1, PageListed
<1> QED
  BY <1>1, <1>2, ZenonT(30) DEF Booleans, refreshVars, RefreshNext, RunUpdateTask, RunnerStep,
    Expire, ListObjects, ListFails, ReadImage, ReadManifest, ManifestUnreadable, ReadStopped,
    PageRead, ComputeManifest, SelectVictims, SelectThrows, Prune, PruneEnds, EntryKnown,
    EntryMissing, LookupFails, Store, Insert, Finish, ThreadEnds, NoThread, WorldStep, Stop,
    Upload, Tick, RestStep, Reboot, Load, world, flags, listing, history

LEMMA ValuesNext ==
  ASSUME BaseInv, [RefreshNext]_refreshVars
  PROVE  Values'
<1> USE DEF BaseInv, RefreshTypeOK, Values, world, flags, listing, history, Go, Throw
<1>1. CASE RunUpdateTask
  BY <1>1 DEF RunUpdateTask, NoImage
<1>2. CASE Expire
  BY <1>2 DEF Expire
<1>3. CASE ListObjects
  <2>1. page' \in SUBSET Objects /\ token' \in Nat /\ truncated' \in BOOLEAN
    BY <1>3, PageListed, StoredType
  <2> QED
    BY <1>3, <2>1 DEF ListObjects
<1>4. CASE ListFails \/ ReadStopped
  BY <1>4 DEF ListFails, ReadStopped
<1>5. CASE ReadImage
  <2>1. UNCHANGED <<world, flags, step, token, truncated, pending, history>>
    BY <1>5 DEF ReadImage
  <2> QED
    BY <1>5, <2>1, ReadImageType
<1>6. CASE ReadManifest
  <2>1. UNCHANGED <<world, flags, token, truncated, pending, history>>
        /\ (step' = "end" \/ UNCHANGED step)
    BY <1>6 DEF ReadManifest
  <2> QED
    BY <1>6, <2>1, ReadManifestType
<1>7. CASE ManifestUnreadable
  BY <1>7 DEF ManifestUnreadable, Take
<1>8. CASE PageRead
  BY <1>8 DEF PageRead
<1>9. CASE ComputeManifest
  <2>1. UNCHANGED <<world, flags, token, page, truncated, history>> /\ step' = "select"
    BY <1>9 DEF ComputeManifest
  <2> QED
    BY <1>9, <2>1, ComputeType
<1>10. CASE SelectVictims \/ SelectThrows \/ Prune \/ PruneEnds
  BY <1>10 DEF SelectVictims, SelectThrows, Prune, PruneEnds
<1>11. CASE EntryKnown \/ EntryMissing
  BY <1>11 DEF EntryKnown, EntryMissing
<1>12. CASE LookupFails
  <2>1. Least(pending) \in Releases
    BY <1>12, LeastIs DEF LookupFails
  <2> QED
    BY <1>12, <2>1 DEF LookupFails
<1>13. CASE Store
  BY <1>13 DEF Store
<1>14. CASE Insert
  BY <1>14 DEF Insert
<1>15. CASE Finish
  BY <1>15 DEF Finish
<1>16. CASE ThreadEnds
  BY <1>16, NoThreadType DEF ThreadEnds
<1>17. CASE Stop \/ Tick
  <2>1. UNCHANGED <<bucket, changes, step, listing, absent, loose>>
        /\ (UNCHANGED now \/ (now < MaxNow /\ now' = now + 1))
    BY <1>17, Zenon DEF Stop, Tick
  <2> QED
    BY <2>1
<1>18. ASSUME NEW n \in Releases, NEW c \in Contents, Upload(n, c) PROVE Values'
  <2>1. /\ UNCHANGED <<now, step, listing, loose>>
        /\ changes < MaxChanges /\ changes' = changes + 1
        /\ bucket' = [bucket EXCEPT ![n] = c] /\ absent' = absent \cup NoImage(bucket')
    BY <1>18, Zenon DEF Upload
  <2>2. NoImage(bucket') \subseteq Releases
    BY DEF NoImage
  <2>3. bucket' \in [Releases -> Contents] /\ absent' \in SUBSET Releases
    BY <2>1, <2>2
  <2>4. changes' \in 0..MaxChanges
    BY <2>1
  <2> QED
    BY <2>1, <2>3, <2>4
<1>19. CASE RestStep
  <2>1. \A i \in used' : ReleaseOf[i] \in Releases
    BY <1>19, StepIsStep, NextType DEF TypeInv, TypeOK, Releases
  <2>2. /\ UNCHANGED <<world, step, listing, absent>>
        /\ loose' = loose \cup {ReleaseOf[i] : i \in used' \ used}
    BY <1>19, Zenon DEF RestStep, flags
  <2>3. loose' \subseteq Releases
    <3>1. loose \subseteq Releases
      OBVIOUS
    <3>2. \A n \in {ReleaseOf[i] : i \in used' \ used} : n \in Releases
      BY <2>1
    <3> HIDE DEF BaseInv, RefreshTypeOK, Values
    <3> QED
      BY <2>2, <3>1, <3>2, Zenon
  <2> QED
    BY <2>2, <2>3
<1>20. CASE Reboot
  BY <1>20, NoThreadType DEF Reboot
<1>21. CASE Load
  BY <1>21 DEF Load
<1>22. CASE UNCHANGED refreshVars
  BY <1>22 DEF refreshVars
<1> QED
  BY <1>1, <1>2, <1>3, <1>4, <1>5, <1>6, <1>7, <1>8, <1>9, <1>10, <1>11, <1>12, <1>13,
     <1>14, <1>15, <1>16, <1>17, <1>18, <1>19, <1>20, <1>21, <1>22
     DEF RefreshNext, RunnerStep, WorldStep

LEMMA TypeNext ==
  ASSUME BaseInv, [RefreshNext]_refreshVars
  PROVE  RefreshTypeOK'
BY BooleansNext, ValuesNext DEF RefreshTypeOK, Booleans, Values

----------------------------------------------------------------------------
(* The thread's step agrees with its operation on the table.               *)

LEMMA ControlNext ==
  ASSUME BaseInv, [RefreshNext]_refreshVars
  PROVE  ControlOK'
<1> USE DEF BaseInv, ControlOK, flags, listing, Go, Throw
<1>1. CASE RunUpdateTask
  BY <1>1 DEF RunUpdateTask, vars
<1>2. CASE Expire
  BY <1>2 DEF Expire, RemoveOldFirmware, volatile, locals
<1>3. CASE ListObjects \/ ReadStopped \/ PageRead \/ ComputeManifest \/ EntryKnown \/ EntryMissing
  <2>1. UNCHANGED <<proc, op, victims, updateRunning>>
    BY <1>3, Zenon DEF ListObjects, ReadStopped, PageRead, ComputeManifest, EntryKnown,
      EntryMissing, vars, flags
  <2> QED
    BY <1>3, <2>1 DEF ListObjects, ReadStopped, PageRead, ComputeManifest, EntryKnown, EntryMissing
<1>4. CASE ListFails \/ ManifestUnreadable \/ SelectThrows \/ LookupFails
  <2>1. UNCHANGED <<proc, op, victims, updateRunning>>
    BY <1>4, Zenon DEF ListFails, ManifestUnreadable, SelectThrows, LookupFails, volatile,
      locals, flags
  <2> QED
    BY <1>4, <2>1 DEF ListFails, ManifestUnreadable, Reading, SelectThrows, LookupFails
<1>5. CASE ReadImage \/ ReadManifest
  <2>1. UNCHANGED <<proc, op, victims, updateRunning, token, pending>>
    BY <1>5, Zenon DEF ReadImage, ReadManifest, vars, flags
  <2>2. step = "read" /\ (step' = "end" \/ step' = step)
    BY <1>5 DEF ReadImage, ReadManifest, Reading
  <2> QED
    BY <2>1, <2>2
<1>6. CASE SelectVictims
  <2>1. op'[Runner] = "prune"
    BY <1>6 DEF SelectVictims, SelectNotInManifest, Goto, TypeInv, TypeOK
  <2> QED
    BY <1>6, <2>1 DEF SelectVictims, SelectNotInManifest, volatile
<1>7. CASE Prune
  BY <1>7 DEF Prune, RemoveNotInManifest, volatile
<1>8. CASE PruneEnds
  BY <1>8, ReturnKeeps DEF PruneEnds, PruneDone, volatile
<1>9. CASE Store
  <2>1. PICK i \in Ids : AddFirmware(Runner, i)
    BY <1>9 DEF Store, MadeFrom
  <2> QED
    BY <1>9, <2>1, AddKeeps DEF Store, volatile
<1>10. CASE Insert
  <2>1. ASSUME SelectLatest(Runner) \/ ClearLatest(Runner), UNCHANGED step PROVE ControlOK'
    BY <1>10, <2>1, SelectKeeps, ClearKeeps DEF Insert, volatile
  <2>2. ASSUME CreateRecord(Runner), step' = "add" PROVE ControlOK'
    BY <1>10, <2>2, CreateKeeps DEF Insert, volatile
  <2> QED
    BY <1>10, <2>1, <2>2 DEF Insert
<1>11. CASE Finish
  BY <1>11 DEF Finish, vars
<1>12. CASE ThreadEnds
  BY <1>12 DEF ThreadEnds, NoThread, vars
<1>13. CASE Stop \/ Tick
  <2>1. UNCHANGED <<vars, updateRunning, step, listing>>
    BY <1>13, Zenon DEF Stop, Tick, flags
  <2> QED
    BY <2>1 DEF vars
<1>14. ASSUME NEW n \in Releases, NEW c \in Contents, Upload(n, c) PROVE ControlOK'
  <2>1. UNCHANGED <<vars, updateRunning, step, listing>>
    BY <1>14, Zenon DEF Upload, flags
  <2> QED
    BY <2>1 DEF vars
<1>15. CASE RestStep
  <2>1. PICK t \in Threads \ {Runner} : RestOperation(t)
    BY <1>15 DEF RestStep
  <2>2. op'[Runner] = op[Runner] /\ victims'[Runner] = victims[Runner] /\ proc' = proc
    BY <2>1, RestFrame DEF OthersKept, volatile
  <2>3. UNCHANGED <<updateRunning, step, listing>>
    BY <1>15, Zenon DEF RestStep, flags
  <2> QED
    BY <2>2, <2>3
<1>16. CASE Reboot
  BY <1>16 DEF Reboot, Restart, NoThread
<1>17. CASE Load
  <2>1. UNCHANGED <<op, victims, updateRunning, step, listing>> /\ (proc' = proc \/ proc' = "up")
    BY <1>17, Zenon DEF Load, LoadFails, LoadDone, LoadRow, locals, flags
  <2> QED
    BY <2>1
<1>18. CASE UNCHANGED refreshVars
  BY <1>18 DEF refreshVars, vars
<1> QED
  BY <1>1, <1>2, <1>3, <1>4, <1>5, <1>6, <1>7, <1>8, <1>9, <1>10, <1>11, <1>12, <1>13,
     <1>14, <1>15, <1>16, <1>17, <1>18 DEF RefreshNext, RunnerStep, WorldStep

LEMMA BaseInit == RefreshInit => BaseInv
<1> SUFFICES ASSUME RefreshInit PROVE BaseInv
  OBVIOUS
<1>1. TypeInv /\ Init
  BY InitType DEF RefreshInit
<1>2. Booleans
  BY Zenon DEF RefreshInit, Booleans
<1>3. Values
  BY DEF RefreshInit, Values
<1>4. ControlOK
  BY DEF RefreshInit, Init, ControlOK
<1> QED
  BY <1>1, <1>2, <1>3, <1>4 DEF BaseInv, RefreshTypeOK, Booleans, Values

LEMMA BaseNext == BaseInv /\ [RefreshNext]_refreshVars => BaseInv'
BY StepIsStep, NextType, TypeNext, ControlNext DEF BaseInv

(* ManifestCreator and the REST threads together do on the table and the   *)
(* cache only what FirmwareCatalog lets its threads do, whatever is in the *)
(* bucket and wherever the refresh is cut off: what is proved of           *)
(* FirmwareCatalog holds of the service with its refresh.                  *)
THEOREM RefreshRefines == RefreshSpec => CatalogSpec
<1>1. RefreshInit => Init
  BY DEF RefreshInit
<1>2. BaseInv /\ [RefreshNext]_refreshVars => [Next]_vars
  BY StepIsStep
<1> QED
  BY <1>1, <1>2, BaseInit, BaseNext, PTL DEF RefreshSpec, CatalogSpec, Spec

(* So the cache covers the table, the latest flag is single, the two       *)
(* caches agree and no age wraps around while refreshes come and go.       *)
THEOREM CatalogKept ==
  RefreshSpec => [](CacheCoversDB /\ OneLatestFlag /\ CachesAgree /\ AgeNeverWraps)
BY RefreshRefines, CacheCovers, OneFlag, CachesAlwaysAgree, AgeSound, PTL DEF CatalogSpec

(* The refinements compose: while refreshes store and prune images, each   *)
(* of the two caches still answers with one of the newest images that it   *)
(* was offered since the start.                                            *)
THEOREM RefreshKeepsCaches == RefreshSpec => AnyImageSpec /\ CandidateImageSpec
BY RefreshRefines, CacheRefines, CandidateCacheRefines, PTL DEF CatalogSpec

----------------------------------------------------------------------------
(* Nothing that stays in the bucket is pruned.                             *)

(* An image in the bucket is stored, and has its rank.                     *)
LEMMA ImageStored ==
  ASSUME RefreshTypeOK, NEW n \in Releases, bucket[n].image # 0
  PROVE  \E o \in Stored : o.name = n /\ ~o.json /\ Rank(o) = 2 * n /\ o.date = bucket[n].image
<1> DEFINE o == [name |-> n, json |-> FALSE, date |-> bucket[n].image]
<1>1. n \notin NoImage(bucket)
  BY DEF NoImage
<1>2. o \in Stored
  BY <1>1 DEF Stored
<1>3. Rank(o) = 2 * n
  BY DEF Rank
<1> QED
  BY <1>2, <1>3

LEMMA ManifestStored ==
  ASSUME RefreshTypeOK, NEW n \in Releases, bucket[n].json # "none"
  PROVE  \E o \in Stored : o.name = n /\ o.json /\ Rank(o) = 2 * n + 1
<1> DEFINE o == [name |-> n, json |-> TRUE, date |-> 0]
<1>1. o \in Stored
  BY DEF Stored
<1>2. Rank(o) = 2 * n + 1
  BY DEF Rank
<1> QED
  BY <1>1, <1>2

(* What the two steps of reading record.                                   *)
LEMMA ReadImageSees ==
  ASSUME RefreshTypeOK, ReadImage
  PROVE  \E o \in page :
           /\ ~o.json /\ page' = page \ {o} /\ o.name \in Releases
           /\ seen' = [seen EXCEPT ![o.name] =
                [image |-> o.date,
                 json |-> IF seen[o.name] = None THEN "none" ELSE seen[o.name].json]]
           /\ seen'[o.name] # None
<1> DEFINE o == First(page)
<1>1. o \in page /\ o \in Objects
  BY FirstIs DEF ReadImage, Reading, RefreshTypeOK
<1>2. ~o.json /\ page' = page \ {o} /\ o.name \in Releases
  BY <1>1 DEF ReadImage, Take, Objects
<1>3. seen' = [seen EXCEPT ![o.name] =
        [image |-> o.date,
         json |-> IF seen[o.name] = None THEN "none" ELSE seen[o.name].json]]
  BY DEF ReadImage
<1>4. seen[o.name] \in Entries \cup {None} /\ o.date \in UploadDates \cup {0}
  BY <1>1, <1>2 DEF RefreshTypeOK, Objects
<1>5. (IF seen[o.name] = None THEN "none" ELSE seen[o.name].json) \in {"none", "good", "misnamed"}
  BY <1>4 DEF Entries
<1> HIDE DEF o
<1>6. seen'[o.name] \in Entries
  BY <1>2, <1>3, <1>4, <1>5, EntryType DEF RefreshTypeOK
<1>7. seen'[o.name] # None
  BY <1>6
<1> QED
  BY <1>1, <1>2, <1>3, <1>7

LEMMA ReadManifestSees ==
  ASSUME RefreshTypeOK, ReadManifest
  PROVE  \E o \in page :
           /\ o.json /\ page' = page \ {o} /\ o.name \in Releases
           /\ seen' = IF bucket[o.name].json \in Recorded
                THEN [seen EXCEPT ![o.name] =
                        [image |-> IF seen[o.name] = None THEN 0 ELSE seen[o.name].image,
                         json |-> bucket[o.name].json]]
                ELSE seen
           /\ \A n \in Releases : seen[n] # None => seen'[n] # None
           /\ (bucket[o.name].json = "malformed" /\ step' = "end") \/ UNCHANGED step
<1> DEFINE o == First(page)
           date == IF seen[o.name] = None THEN 0 ELSE seen[o.name].image
           e == [image |-> date, json |-> bucket[o.name].json]
<1>1. o \in page /\ o \in Objects
  BY FirstIs DEF ReadManifest, Reading, RefreshTypeOK
<1>2. o.json /\ page' = page \ {o} /\ o.name \in Releases
  BY <1>1 DEF ReadManifest, Take, Objects
<1>3. seen' = IF bucket[o.name].json \in Recorded THEN [seen EXCEPT ![o.name] = e] ELSE seen
  BY DEF ReadManifest, Recorded
<1>4. (bucket[o.name].json = "malformed" /\ step' = "end") \/ UNCHANGED step
  BY DEF ReadManifest, Throw, Go
<1>5. seen[o.name] \in Entries \cup {None}
  BY <1>1, <1>2 DEF RefreshTypeOK
<1>6. date \in UploadDates \cup {0}
  BY <1>5 DEF Entries
<1>7. bucket[o.name].json \in Recorded => e \in Entries /\ e # None
  <2> HIDE DEF date, o
  <2> QED
    BY <1>6, EntryType DEF Recorded
<1> HIDE DEF o, e
<1>8. \A n \in Releases : seen[n] # None => seen'[n] # None
  BY <1>2, <1>3, <1>7 DEF RefreshTypeOK
<1> QED
  BY <1>1, <1>2, <1>3, <1>4, <1>8 DEF e, date

LEMMA SkippedNext ==
  ASSUME BaseInv, NothingSkipped, [RefreshNext]_refreshVars
  PROVE  NothingSkipped'
<1> USE DEF BaseInv, Go, Throw
<1>a. \A n \in Releases : n \in Nat \ {0}
  OBVIOUS
<1>1. CASE RunUpdateTask
  BY <1>1 DEF RunUpdateTask, NothingSkipped, OnPage, NoImage, world, listing, history
<1>2. CASE Expire
  <2>1. step = "expire" /\ step' = "list" /\ UNCHANGED <<bucket, whole, absent, token, seen>>
    BY <1>2 DEF Expire, world, listing, history
  <2>2. token = 0
    BY <2>1 DEF ControlOK
  <2> QED
    BY <1>a, <2>1, <2>2 DEF NothingSkipped
<1>3. CASE ListObjects
  <2>1. /\ step = "list" /\ step' = "read" /\ UNCHANGED <<bucket, whole, absent, seen>>
    BY <1>3 DEF ListObjects, world, history
  <2>2. ASSUME NEW n \in Releases \ absent, whole', 2 * n <= token' \/ ~truncated'
        PROVE  seen[n] # None \/ OnPage(n)'
    <3>1. bucket[n].image # 0
      BY <2>1, <2>2 DEF NothingSkipped, NoImage
    <3>2. PICK o \in Stored : o.name = n /\ ~o.json /\ Rank(o) = 2 * n
      BY <3>1, ImageStored
    <3>3. 2 * n <= token' /\ (token < 2 * n => o \in page')
      BY <1>3, <2>2, <3>2, PageListed DEF RefreshTypeOK
    <3>4. CASE token < 2 * n
      BY <3>2, <3>3, <3>4 DEF OnPage
    <3>5. CASE 2 * n <= token
      BY <2>1, <2>2, <3>5 DEF NothingSkipped
    <3> QED
      BY <1>a, <3>4, <3>5 DEF RefreshTypeOK
  <2> QED
    BY <2>1, <2>2 DEF NothingSkipped
<1>4. CASE ReadImage
  <2>1. /\ step = "read" /\ UNCHANGED <<bucket, whole, absent, step, token, truncated>>
    BY <1>4 DEF ReadImage, Reading, world, history
  <2>2. PICK o \in page : /\ ~o.json /\ page' = page \ {o} /\ o.name \in Releases
                          /\ \A n \in Releases \ {o.name} : seen'[n] = seen[n]
                          /\ seen'[o.name] # None
    BY <1>4, ReadImageSees DEF RefreshTypeOK
  <2>3. \A n \in Releases : seen[n] # None \/ OnPage(n) => seen'[n] # None \/ OnPage(n)'
    BY <2>2 DEF OnPage
  <2> QED
    BY <2>1, <2>3 DEF NothingSkipped
<1>5. CASE ReadManifest
  <2>1. /\ step = "read" /\ UNCHANGED <<bucket, whole, absent, token, truncated>>
        /\ (step' = step \/ step' = "end")
    BY <1>5 DEF ReadManifest, Reading, world, history
  <2>2. PICK o \in page : /\ o.json /\ page' = page \ {o}
                          /\ \A n \in Releases : seen[n] # None => seen'[n] # None
    BY <1>5, ReadManifestSees
  <2>3. \A n \in Releases : seen[n] # None \/ OnPage(n) => seen'[n] # None \/ OnPage(n)'
    BY <2>2 DEF OnPage
  <2> QED
    BY <2>1, <2>3 DEF NothingSkipped
<1>6. CASE ManifestUnreadable
  <2>1. UNCHANGED <<bucket, whole, absent, step, token, truncated, seen>>
        /\ page' = page \ {First(page)} /\ First(page).json
    BY <1>6 DEF ManifestUnreadable, Take, world, history
  <2>2. \A n \in Releases : OnPage(n) => OnPage(n)'
    BY <2>1 DEF OnPage
  <2> QED
    BY <2>1, <2>2 DEF NothingSkipped
<1>7. CASE PageRead
  <2>1. /\ step = "read" /\ page = {} /\ step' = (IF truncated THEN "list" ELSE "compute")
        /\ UNCHANGED <<bucket, whole, absent, token, truncated, seen>>
    BY <1>7 DEF PageRead, world, listing, history
  <2> QED
    BY <2>1 DEF NothingSkipped, OnPage
<1>8. CASE ComputeManifest
  <2>1. /\ step = "compute" /\ step' = "select" /\ UNCHANGED <<bucket, whole, absent>>
        /\ \A n \in Releases : seen[n] # None /\ n \notin Staging => seen'[n] = seen[n]
    BY <1>8 DEF ComputeManifest, Listed, world, history
  <2> QED
    BY <2>1 DEF NothingSkipped
<1>9. CASE ListFails \/ ReadStopped
  <2>1. whole' = FALSE /\ UNCHANGED <<bucket, absent>> /\ step # "none"
    BY <1>9, Zenon DEF ListFails, ReadStopped, world
  <2> QED
    BY <2>1 DEF NothingSkipped
<1>10. CASE \/ SelectVictims \/ SelectThrows \/ Prune \/ PruneEnds \/ EntryKnown \/ EntryMissing
            \/ LookupFails \/ Store \/ Insert \/ Finish \/ ThreadEnds
  <2>1. UNCHANGED <<bucket, absent>>
    BY <1>10, Zenon DEF SelectVictims, SelectThrows, Prune, PruneEnds, EntryKnown, EntryMissing,
      LookupFails, Store, Insert, Finish, ThreadEnds, world, history
  <2>2. step # "none" /\ step' \notin {"list", "read", "compute", "select"}
    BY <1>10 DEF SelectVictims, SelectThrows, Prune, PruneEnds, EntryKnown, EntryMissing,
      LookupFails, Store, Insert, Finish, ThreadEnds, NoThread
  <2> QED
    BY <2>1, <2>2 DEF NothingSkipped
<1>11. CASE Stop \/ Tick \/ RestStep \/ Load \/ UNCHANGED refreshVars
  <2>1. UNCHANGED <<bucket, whole, absent, step, listing>>
    BY <1>11, Zenon DEF Stop, Tick, RestStep, Load, refreshVars, world, history
  <2> QED
    BY <2>1 DEF NothingSkipped, OnPage, listing
<1>12. ASSUME NEW n \in Releases, NEW c \in Contents, Upload(n, c) PROVE NothingSkipped'
  <2>1. UNCHANGED <<whole, step, listing>> /\ absent' = absent \cup NoImage(bucket')
    BY <1>12, Zenon DEF Upload
  <2>2. NoImage(bucket)' = NoImage(bucket')
    BY DEF NoImage
  <2> QED
    BY <2>1, <2>2 DEF NothingSkipped, OnPage, listing
<1>13. CASE Reboot
  BY <1>13 DEF Reboot, NoThread, NothingSkipped
<1> QED
  BY <1>1, <1>2, <1>3, <1>4, <1>5, <1>6, <1>7, <1>8, <1>9, <1>10, <1>11, <1>12, <1>13
     DEF RefreshNext, RunnerStep, WorldStep

LEMMA PrunedNext ==
  ASSUME BaseInv, NothingSkipped, PrunedWereGone, [RefreshNext]_refreshVars
  PROVE  PrunedWereGone'
<1> USE DEF BaseInv, Go
<1>1. CASE step' # "prune"
  <2>1. victims'[Runner] = {}
    BY <1>1, ControlNext DEF ControlOK
  <2> QED
    BY <2>1 DEF PrunedWereGone
<1>2. CASE step' = "prune" /\ SelectVictims
  <2>1. /\ victims'[Runner] = {i \in Present : ReleaseOf[i] \notin Listed}
        /\ UNCHANGED <<whole, absent>> /\ step = "select"
    BY <1>2 DEF SelectVictims, SelectNotInManifest, TypeInv, TypeOK, history
  <2>2. \A i \in Present : ReleaseOf[i] \in Releases
    BY DEF Present, Releases
  <2> QED
    BY <2>1, <2>2 DEF PrunedWereGone, NothingSkipped, Listed
<1>3. CASE Prune
  <2>1. UNCHANGED <<whole, absent>> /\ victims'[Runner] \subseteq victims[Runner]
    BY <1>3 DEF Prune, RemoveNotInManifest, TypeInv, TypeOK, history
  <2> QED
    BY <2>1 DEF PrunedWereGone
<1>4. CASE /\ step' = "prune" /\ step = "prune"
           /\ victims'[Runner] = victims[Runner] /\ UNCHANGED whole /\ absent \subseteq absent'
  BY <1>4 DEF PrunedWereGone
<1>5. ASSUME step' = "prune", ~SelectVictims, ~Prune
      PROVE  /\ step = "prune" /\ victims'[Runner] = victims[Runner]
             /\ UNCHANGED whole /\ absent \subseteq absent'
  <2>1. ASSUME RunUpdateTask PROVE UNCHANGED <<step, vars, history>>
    BY <1>5, <2>1 DEF RunUpdateTask
  <2>2. ~Reboot /\ ~RunnerStep
    BY <1>5 DEF Reboot, NoThread, RunnerStep, Expire, ListObjects, ListFails, ReadImage,
      ReadManifest, ManifestUnreadable, Reading, ReadStopped, PageRead, ComputeManifest,
      SelectThrows, PruneEnds, EntryKnown, EntryMissing, LookupFails, Store, Insert, Finish,
      ThreadEnds, Throw
  <2>3. ASSUME Stop \/ Tick \/ UNCHANGED refreshVars PROVE UNCHANGED <<step, vars, whole, absent>>
    BY <2>3, Zenon DEF Stop, Tick, refreshVars, history
  <2>4. ASSUME NEW n \in Releases, NEW c \in Contents, Upload(n, c)
        PROVE  UNCHANGED <<step, vars, whole>> /\ absent \subseteq absent'
    BY <2>4 DEF Upload
  <2>5. ASSUME Load PROVE UNCHANGED <<step, victims, whole, absent>>
    BY <2>5, Zenon DEF Load, LoadFails, LoadDone, LoadRow, locals, history
  <2>6. ASSUME RestStep PROVE UNCHANGED <<step, whole, absent>> /\ victims'[Runner] = victims[Runner]
    <3>1. PICK t \in Threads \ {Runner} : RestOperation(t)
      BY <2>6 DEF RestStep
    <3> QED
      BY <2>6, <3>1, RestFrame DEF RestStep, OthersKept
  <2> QED
    BY <1>5, <2>1, <2>2, <2>3, <2>4, <2>5, <2>6 DEF RefreshNext, WorldStep, vars, history
<1> QED
  BY <1>1, <1>2, <1>3, <1>4, <1>5

(* ManifestCreator.cpp:239-248 takes what it listed for the whole bucket   *)
(* and removes the rest of the table: unless the listing is cut short, no  *)
(* row goes whose image was in the bucket all the time, however the pages  *)
(* fall and whatever is uploaded or removed while they are read.           *)
THEOREM RefreshSound == RefreshSpec => []RefreshInvariant
<1>1. RefreshInit => NothingSkipped /\ PrunedWereGone
  BY DEF RefreshInit, Init, NothingSkipped, PrunedWereGone
<1>2. BaseInv /\ PrunedWereGone => RefreshInvariant
  BY DEF BaseInv, RefreshInvariant
<1> QED
  BY <1>1, <1>2, BaseInit, BaseNext, SkippedNext, PrunedNext, PTL DEF RefreshSpec

----------------------------------------------------------------------------
(* One row for each name.                                                  *)

(* Rows may go, and rows of doubled names may come.                        *)
LEMMA RowsKept ==
  ASSUME loose \subseteq loose',
         \A i \in Present' : i \in Present \/ ReleaseOf[i] \in loose'
  PROVE  /\ RowPerRelease => RowPerRelease'
         /\ \A n : NewName(n) => NewName(n)'
<1>1. RowPerRelease => RowPerRelease'
  BY DEF RowPerRelease
<1>2. ASSUME NEW n, NewName(n) PROVE NewName(n)'
  BY <1>2 DEF NewName, Known
<1> QED
  BY <1>1, <1>2

(* An operation that leaves the records of the others in their hands.      *)
LEMMA HandsKept ==
  ASSUME OneRowEach, loose \subseteq loose',
         \A i \in Present' : i \in Present \/ ReleaseOf[i] \in loose',
         \A t \in Threads \ {Runner} : Adding(t)' => Adding(t) /\ fw'[t] = fw[t],
         step' = "insert" => step = "insert" /\ fw'[Runner] = fw[Runner],
         step' = "store" => step = "store" /\ pending' = pending
  PROVE  OneRowEach'
<1>1. RowPerRelease' /\ \A n : NewName(n) => NewName(n)'
  BY RowsKept DEF OneRowEach
<1>2. step' = "store" => NewName(Least(pending))'
  BY <1>1 DEF OneRowEach, NewName, Known, Least
<1>3. step' = "insert" => NewName(ReleaseOf[fw[Runner]])'
  BY <1>1 DEF OneRowEach, NewName, Known
<1> QED
  BY <1>1, <1>2, <1>3 DEF OneRowEach, NewName, Known

LEMMA RowsNext ==
  ASSUME BaseInv, OneRowEach, [RefreshNext]_refreshVars
  PROVE  OneRowEach'
<1> USE DEF BaseInv, Go, Throw
<1>1. ASSUME UNCHANGED <<db, op, fw, loose>>,
             step' = "insert" => step = "insert",
             step' = "store" => step = "store" /\ pending' = pending
      PROVE  OneRowEach'
  BY <1>1, HandsKept DEF Present, Adding
<1>2. CASE \/ RunUpdateTask \/ ListObjects \/ ReadImage \/ ReadManifest \/ ReadStopped \/ PageRead
           \/ ComputeManifest \/ EntryKnown \/ Finish \/ ThreadEnds
  <2>1. UNCHANGED <<db, op, fw, loose>>
    BY <1>2, Zenon DEF RunUpdateTask, ListObjects, ReadImage, ReadManifest, ReadStopped, PageRead,
      ComputeManifest, EntryKnown, Finish, ThreadEnds, vars, history
  <2>2. (step' = step /\ pending' = pending) \/ step' \notin {"insert", "store"}
    BY <1>2 DEF RunUpdateTask, ListObjects, ReadImage, ReadManifest, Reading, ReadStopped, PageRead,
      ComputeManifest, EntryKnown, Finish, ThreadEnds, NoThread, listing
  <2> QED
    BY <1>1, <2>1, <2>2
<1>3. CASE ListFails \/ ManifestUnreadable \/ SelectThrows
  <2>1. UNCHANGED <<db, op, fw, loose>>
    BY <1>3, Zenon DEF ListFails, ManifestUnreadable, SelectThrows, locals, history
  <2>2. step' \notin {"insert", "store"}
    BY <1>3 DEF ListFails, ManifestUnreadable, Reading, SelectThrows
  <2> QED
    BY <1>1, <2>1, <2>2
<1>4. CASE EntryMissing
  <2>1. UNCHANGED <<db, op, fw, loose, pending>> /\ step' = "store" /\ ~Known(Least(pending))
    BY <1>4 DEF EntryMissing, vars, listing, history
  <2> QED
    BY <2>1 DEF OneRowEach, NewName, Known, RowPerRelease, Present, Adding
<1>5. CASE LookupFails
  <2>1. UNCHANGED <<db, op, fw, pending>> /\ step' = "store"
        /\ loose' = loose \cup {Least(pending)}
    BY <1>5 DEF LookupFails, locals, listing
  <2>2. RowPerRelease'
    BY <2>1, RowsKept DEF OneRowEach, Present
  <2>3. NewName(Least(pending))'
    BY <2>1 DEF NewName
  <2> QED
    BY <2>1, <2>2, <2>3 DEF OneRowEach, Adding
<1>6. CASE Expire
  <2>1. UNCHANGED <<op, fw, loose>> /\ step' = "list" /\ Present' \subseteq Present
    BY <1>6, DeleteKeeps DEF Expire, RemoveOldFirmware, locals, history
  <2> QED
    BY <2>1, HandsKept DEF Adding
<1>7. CASE SelectVictims
  <2>1. UNCHANGED <<fw, loose>> /\ step' = "prune" /\ Present' = Present
        /\ \A t \in Threads \ {Runner} : op'[t] = op[t]
    BY <1>7 DEF SelectVictims, SelectNotInManifest, Goto, Present, durable, history, TypeInv, TypeOK
  <2> QED
    BY <2>1, HandsKept DEF Adding
<1>8. CASE Prune
  <2>1. UNCHANGED <<op, fw, loose>> /\ step' = "prune" /\ Present' \subseteq Present
    BY <1>8, DeleteKeeps DEF Prune, RemoveNotInManifest, history
  <2> QED
    BY <2>1, HandsKept DEF Adding
<1>9. CASE PruneEnds
  <2>1. OthersKept(Runner) /\ UNCHANGED loose /\ step' = "add" /\ Present' = Present
    BY <1>9, ReturnKeeps DEF PruneEnds, PruneDone, Present, durable, history
  <2> QED
    BY <2>1, HandsKept DEF Adding, OthersKept
<1>10. CASE Store
  <2>1. PICK i \in MadeFrom(Least(pending)) : AddFirmware(Runner, i)
    BY <1>10 DEF Store
  <2>2. i \in Ids /\ ReleaseOf[i] = Least(pending) /\ DeviceTypeOf[i] = CompatibleOf[ReleaseOf[i]]
    BY DEF MadeFrom
  <2>3. OthersKept(Runner) /\ fw'[Runner] = i /\ Present' = Present
    BY <2>1, <2>2, AddKeeps
  <2>4. UNCHANGED loose /\ step = "store" /\ step' = "insert"
    BY <1>10 DEF Store, history
  <2>5. RowPerRelease' /\ NewName(ReleaseOf[i])'
    BY <2>2, <2>3, <2>4, RowsKept DEF OneRowEach
  <2> QED
    BY <2>2, <2>3, <2>4, <2>5 DEF OneRowEach, OthersKept, Adding, NewName, Known
<1>11. CASE Insert
  <2>1. ASSUME SelectLatest(Runner) \/ ClearLatest(Runner), UNCHANGED step PROVE OneRowEach'
    <3>1. UNCHANGED <<fw, loose, pending>> /\ Present' = Present
          /\ \A t \in Threads \ {Runner} : op'[t] = op[t]
      BY <1>11, <2>1, SelectKeeps, ClearKeeps DEF Insert, OthersKept, listing, history
    <3> QED
      BY <2>1, <3>1, HandsKept DEF Adding
  <2>2. ASSUME CreateRecord(Runner), step' = "add" PROVE OneRowEach'
    <3>1. /\ OthersKept(Runner) /\ UNCHANGED loose /\ step = "insert"
          /\ Present' = Present \cup {fw[Runner]} \/ Present' = Present
      BY <1>11, <2>2, CreateKeeps DEF Insert, history
    <3>2. RowPerRelease'
      BY <3>1 DEF OneRowEach, RowPerRelease, NewName, Known
    <3> QED
      BY <2>2, <3>1, <3>2 DEF OneRowEach, OthersKept, Adding
  <2> QED
    BY <1>11, <2>1, <2>2 DEF Insert
<1>12. CASE Stop \/ Tick \/ Load \/ UNCHANGED refreshVars
       \/ \E n \in Releases, c \in Contents : Upload(n, c)
  <2>1. UNCHANGED <<db, op, fw, loose, step, pending>>
    BY <1>12, Zenon DEF Stop, Tick, Upload, Load, LoadFails, LoadDone, LoadRow, durable, locals,
      vars, listing, history, refreshVars
  <2> QED
    BY <1>1, <2>1
<1>13. CASE RestStep
  <2>1. PICK t \in Threads \ {Runner} : RestOperation(t)
    BY <1>13 DEF RestStep
  <2>2. UNCHANGED <<step, pending>> /\ loose' = loose \cup {ReleaseOf[i] : i \in used' \ used}
    BY <1>13, Zenon DEF RestStep, listing
  <2>3. \A i \in Present' : i \in Present \/ ReleaseOf[i] \in loose
    BY <2>1, RestFrame DEF OneRowEach
  <2>4. Adding(t)' => ReleaseOf[fw'[t]] \in loose'
    BY <2>1, <2>2, RestFrame DEF OneRowEach
  <2>5. OthersKept(t)
    BY <2>1, RestFrame
  <2>6. RowPerRelease' /\ \A n : NewName(n) => NewName(n)'
    BY <2>2, <2>3, RowsKept DEF OneRowEach
  <2>7. \A u \in Threads \ {Runner} : Adding(u)' => ReleaseOf[fw'[u]] \in loose'
    BY <2>2, <2>4, <2>5 DEF OneRowEach, OthersKept, Adding
  <2>8. step' = "store" => NewName(Least(pending))'
    BY <2>2, <2>6 DEF OneRowEach, NewName, Known, Least
  <2>9. fw'[Runner] = fw[Runner]
    BY <2>1, <2>5 DEF OthersKept
  <2>10. step' = "insert" =>
           /\ DeviceTypeOf[fw'[Runner]] = CompatibleOf[ReleaseOf[fw'[Runner]]]
           /\ NewName(ReleaseOf[fw[Runner]])'
    BY <2>2, <2>6, <2>9 DEF OneRowEach, NewName, Known
  <2> QED
    BY <2>6, <2>7, <2>8, <2>9, <2>10 DEF OneRowEach, NewName, Known
<1>14. CASE Reboot
  <2>1. UNCHANGED <<db, loose>> /\ step' = "none" /\ \A t \in Threads : op'[t] = "idle"
    BY <1>14 DEF Reboot, Restart, NoThread, durable
  <2> QED
    BY <2>1, HandsKept DEF Present, Adding
<1> QED
  BY <1>2, <1>3, <1>4, <1>5, <1>6, <1>7, <1>8, <1>9, <1>10, <1>11, <1>12, <1>13, <1>14
     DEF RefreshNext, RunnerStep, WorldStep

(* ManifestCreator.cpp:123-139 looks a name up and adds it in another      *)
(* statement, and may be cut off in between and start again: a name gets a *)
(* second row only by a POST of it or after a look-up that failed.         *)
THEOREM RowsSound == RefreshSpec => []RowPerRelease
<1>1. RefreshInit => OneRowEach
  BY DEF RefreshInit, Init, OneRowEach, RowPerRelease, Present, Adding
<1>2. OneRowEach => RowPerRelease
  BY DEF OneRowEach
<1> QED
  BY <1>1, <1>2, BaseInit, BaseNext, RowsNext, PTL DEF RefreshSpec

----------------------------------------------------------------------------
(* A refresh that nothing disturbs.                                        *)

LEMMA FaultsGrow ==
  ASSUME TypeInv, [Next]_vars
  PROVE  faults' = faults \/ faults' = faults + 1
BY Zenon DEF Next, Lifecycle, Operation, RestOperation, Cleanup, vars, AddFirmware, PutRead,
  DeleteFirmware, SelectLatest, ClearLatest, CreateRecord, PutWrite, AgeCurrent, AgeFindLatest,
  AgeNoLatest, AgeAnswer, AgeRowMissing, RemoveOldFirmware, SelectNotInManifest,
  RemoveNotInManifest, PruneDone, Restart, LoadFails, LoadDone, LoadRow, Fault, NoFault

(* What is quiet after a step was quiet before it, unless a refresh began; *)
(* the world has not changed and no statement failed.                      *)
LEMMA QuietBefore ==
  ASSUME BaseInv, [RefreshNext]_refreshVars, Quiet'
  PROVE  /\ UNCHANGED <<bucket, now>> /\ faults = 0 /\ faults' = 0
         /\ ~RunUpdateTask => Quiet
         /\ ~ListFails /\ ~ReadStopped /\ ~ManifestUnreadable /\ ~SelectThrows /\ ~LookupFails
         /\ ~Stop /\ ~Tick /\ ~RestStep /\ ~Reboot
         /\ \A n \in Releases, c \in Contents : ~Upload(n, c)
<1>1. faults' = 0 /\ faults \in Nat
  BY DEF Quiet, BaseInv, TypeInv, TypeOK
<1>2. faults = 0
  BY <1>1, StepIsStep, FaultsGrow DEF BaseInv
<1>3. ~Fault
  BY <1>1, <1>2 DEF Fault
<1>4. ~ListFails /\ ~ManifestUnreadable /\ ~SelectThrows /\ ~LookupFails
  BY <1>3 DEF ListFails, ManifestUnreadable, SelectThrows, LookupFails
<1>5. ~ReadStopped
  BY Zenon DEF Quiet, ReadStopped
<1>6. /\ ~Stop /\ ~Tick /\ ~RestStep /\ ~Reboot
      /\ \A n \in Releases, c \in Contents : ~Upload(n, c)
  BY Zenon DEF Quiet, Stop, Tick, RestStep, Reboot, Upload
<1>7. /\ UNCHANGED <<bucket, now>>
      /\ ~RunUpdateTask => UNCHANGED <<calm, whole>>
  BY <1>4, <1>5, <1>6, ZenonT(30) DEF refreshVars, RefreshNext, RunnerStep, WorldStep,
    RunUpdateTask, Expire, ListObjects, ReadImage, ReadManifest, PageRead, ComputeManifest,
    SelectVictims, Prune, PruneEnds, EntryKnown, EntryMissing, Store, Insert, Finish, ThreadEnds,
    Load, world, history
<1>8. ~RunUpdateTask => Quiet
  BY <1>2, <1>7 DEF Quiet
<1> QED
  BY <1>1, <1>2, <1>4, <1>5, <1>6, <1>7, <1>8

(* The next page: nothing new has been read of a name yet.                 *)
LEMMA NextPage ==
  ASSUME BaseInv, ListObjects, UNCHANGED bucket, NEW n \in Releases
  PROVE  (ImageRead(n)' <=> ImageRead(n)) /\ (ManifestRead(n)' <=> ManifestRead(n))
<1> USE DEF BaseInv
<1>1. /\ page = {} /\ token <= token' /\ token \in Nat /\ token' \in Nat /\ n \in Nat
      /\ \A o \in page' : token < Rank(o) /\ o \in Stored
      /\ \A o \in Stored : token < Rank(o) /\ Rank(o) <= token' => o \in page'
  BY PageListed DEF ListObjects, ControlOK, RefreshTypeOK
<1>2. bucket[n].image # 0 /\ token < 2 * n /\ 2 * n <= token' => OnPage(n)'
  BY <1>1, ImageStored DEF OnPage
<1>3. 2 * n <= token => ~OnPage(n)'
  BY <1>1 DEF OnPage, Rank
<1>4. bucket[n].json # "none" /\ token < 2 * n + 1 /\ 2 * n + 1 <= token' => ManifestOnPage(n)'
  BY <1>1, ManifestStored DEF ManifestOnPage
<1>5. 2 * n + 1 <= token => ~ManifestOnPage(n)'
  BY <1>1 DEF ManifestOnPage, Rank
<1>6. ImageRead(n)' <=> ImageRead(n)
  BY <1>1, <1>2, <1>3 DEF ImageRead, OnPage
<1>7. ManifestRead(n)' <=> ManifestRead(n)
  BY <1>1, <1>4, <1>5 DEF ManifestRead, ManifestOnPage, Recorded
<1> QED
  BY <1>6, <1>7

(* An object of the page, and the others of it.                            *)
LEMMA TakeOne ==
  ASSUME RefreshTypeOK, page \subseteq Stored, NEW o \in page, page' = page \ {o},
         UNCHANGED <<bucket, token>>, Rank(o) <= token
  PROVE  /\ o.name \in Releases
         /\ ~o.json => /\ bucket[o.name].image # 0 /\ o.date = bucket[o.name].image
                       /\ ~ImageRead(o.name) /\ ImageRead(o.name)'
                       /\ \A n \in Releases : ManifestRead(n)' <=> ManifestRead(n)
                       /\ \A n \in Releases \ {o.name} : ImageRead(n)' <=> ImageRead(n)
         /\ o.json => /\ ~ManifestRead(o.name)
                      /\ ManifestRead(o.name)' <=> bucket[o.name].json \in Recorded
                      /\ \A n \in Releases : ImageRead(n)' <=> ImageRead(n)
                      /\ \A n \in Releases \ {o.name} : ManifestRead(n)' <=> ManifestRead(n)
<1>1. o \in Stored /\ o \in Objects
  BY StoredType DEF RefreshTypeOK
<1>2. o.name \in Releases /\ o.name \in Nat
  BY <1>1 DEF Objects
<1>3. \A p \in page : p.name = o.name /\ (p.json <=> o.json) => p = o
  <2> SUFFICES ASSUME NEW p \in page, p.name = o.name, p.json <=> o.json PROVE p = o
    OBVIOUS
  <2>1. Rank(p) = Rank(o)
    BY DEF Rank
  <2> QED
    BY <2>1, RankInjective DEF RefreshTypeOK
<1>4. ~o.json => bucket[o.name].image # 0 /\ o.date = bucket[o.name].image
                 /\ Rank(o) = 2 * o.name
  BY <1>1, <1>2 DEF Stored, NoImage, Rank
<1>5. o.json => Rank(o) = 2 * o.name + 1
  BY <1>2 DEF Rank
<1>6. \A n \in Releases \ {o.name} :
        (OnPage(n)' <=> OnPage(n)) /\ (ManifestOnPage(n)' <=> ManifestOnPage(n))
  BY DEF OnPage, ManifestOnPage
<1>7. ~o.json => /\ OnPage(o.name) /\ ~OnPage(o.name)'
                 /\ ManifestOnPage(o.name)' <=> ManifestOnPage(o.name)
  BY <1>3 DEF OnPage, ManifestOnPage
<1>8. o.json => /\ ManifestOnPage(o.name) /\ ~ManifestOnPage(o.name)'
                /\ OnPage(o.name)' <=> OnPage(o.name)
  BY <1>3 DEF OnPage, ManifestOnPage
<1>9. ASSUME ~o.json
      PROVE  /\ ~ImageRead(o.name) /\ ImageRead(o.name)'
             /\ \A n \in Releases : ManifestRead(n)' <=> ManifestRead(n)
             /\ \A n \in Releases \ {o.name} : ImageRead(n)' <=> ImageRead(n)
  BY <1>4, <1>6, <1>7, <1>9 DEF ImageRead, ManifestRead
<1>10. ASSUME o.json
       PROVE  /\ ~ManifestRead(o.name)
              /\ ManifestRead(o.name)' <=> bucket[o.name].json \in Recorded
              /\ \A n \in Releases : ImageRead(n)' <=> ImageRead(n)
              /\ \A n \in Releases \ {o.name} : ManifestRead(n)' <=> ManifestRead(n)
  BY <1>5, <1>6, <1>8, <1>10 DEF ImageRead, ManifestRead, Recorded
<1> QED
  BY <1>2, <1>4, <1>9, <1>10

(* What is found of a name depends on the two objects only.                *)
LEMMA FoundIs ==
  ASSUME RefreshTypeOK, NEW n \in Releases
  PROVE  /\ Found(n) # None <=> ImageRead(n) \/ ManifestRead(n)
         /\ Found(n) # None =>
              Found(n) = [image |-> IF ImageRead(n) THEN bucket[n].image ELSE 0,
                          json |-> IF ManifestRead(n) THEN bucket[n].json ELSE "none"]
<1> DEFINE d == IF ImageRead(n) THEN bucket[n].image ELSE 0
           j == IF ManifestRead(n) THEN bucket[n].json ELSE "none"
<1>1. d \in UploadDates \cup {0}
  BY DEF RefreshTypeOK, Contents
<1>2. j \in {"none", "good", "misnamed"}
  BY DEF ManifestRead, Recorded
<1> HIDE DEF d, j
<1>3. [image |-> d, json |-> j] # None
  BY <1>1, <1>2, EntryType
<1>4. Found(n) = IF ImageRead(n) \/ ManifestRead(n) THEN [image |-> d, json |-> j] ELSE None
  BY DEF Found, d, j
<1> QED
  BY <1>3, <1>4 DEF d, j

(* Nothing read, nothing found.                                            *)
LEMMA SameFound ==
  ASSUME UNCHANGED bucket, NEW n \in Releases,
         ImageRead(n)' <=> ImageRead(n), ManifestRead(n)' <=> ManifestRead(n)
  PROVE  Found(n)' = Found(n)
BY DEF Found

LEMMA ReadImageFinds ==
  ASSUME BaseInv, ReadImage, ListingAgrees, UNCHANGED bucket
  PROVE  ListingAgrees'
<1> USE DEF BaseInv
<1>1. /\ step = "read" /\ UNCHANGED <<step, token, truncated, pending>>
  BY DEF ReadImage, Reading
<1>2. PICK o \in page :
        /\ ~o.json /\ page' = page \ {o} /\ o.name \in Releases
        /\ seen' = [seen EXCEPT ![o.name] =
             [image |-> o.date,
              json |-> IF seen[o.name] = None THEN "none" ELSE seen[o.name].json]]
  BY ReadImageSees
<1>3. page \subseteq Stored /\ Rank(o) <= token /\ \A n \in Releases : seen[n] = Found(n)
  BY <1>1 DEF ListingAgrees
<1>4. /\ o.date = bucket[o.name].image /\ ~ImageRead(o.name) /\ ImageRead(o.name)'
      /\ \A n \in Releases : ManifestRead(n)' <=> ManifestRead(n)
      /\ \A n \in Releases \ {o.name} : ImageRead(n)' <=> ImageRead(n)
  BY <1>1, <1>2, <1>3, TakeOne
<1>5. ASSUME NEW n \in Releases, n # o.name PROVE seen'[n] = Found(n)'
  BY <1>2, <1>3, <1>4, <1>5, SameFound DEF RefreshTypeOK
<1>6. seen'[o.name] = Found(o.name)'
  <2> DEFINE j == IF seen[o.name] = None THEN "none" ELSE seen[o.name].json
  <2>4. /\ seen[o.name] # None <=> ManifestRead(o.name)
        /\ ManifestRead(o.name) => seen[o.name].json = bucket[o.name].json
    <3>1. seen[o.name] = Found(o.name)
      BY <1>2, <1>3
    <3>2. Found(o.name) # None <=> ManifestRead(o.name)
      BY <1>2, <1>4, FoundIs
    <3>3. ASSUME ManifestRead(o.name) PROVE Found(o.name).json = bucket[o.name].json
      <4>1. Found(o.name) = [image |-> 0, json |-> bucket[o.name].json]
        BY <1>2, <1>4, <3>2, <3>3, FoundIs
      <4> QED
        BY <4>1
    <3> QED
      BY <3>1, <3>2, <3>3
  <2>1. j = IF ManifestRead(o.name) THEN bucket[o.name].json ELSE "none"
    BY <2>4
  <2>2. seen'[o.name] = [image |-> bucket[o.name].image, json |-> j]
    BY <1>2, <1>4 DEF RefreshTypeOK
  <2>3. Found(o.name)' = [image |-> bucket[o.name].image,
                          json |-> IF ManifestRead(o.name) THEN bucket[o.name].json ELSE "none"]
    BY <1>2, <1>4 DEF Found
  <2> QED
    BY <2>1, <2>2, <2>3
<1>7. \A n \in Releases : seen'[n] = Found(n)'
  BY <1>5, <1>6
<1>8. Stored' = Stored
  BY DEF Stored, NoImage
<1> QED
  BY <1>1, <1>2, <1>7, <1>8 DEF ListingAgrees

LEMMA ReadManifestFinds ==
  ASSUME BaseInv, ReadManifest, ListingAgrees, UNCHANGED bucket
  PROVE  ListingAgrees'
<1> USE DEF BaseInv
<1>1. step = "read" /\ UNCHANGED <<token, truncated, pending>> /\ (step' = "end" \/ UNCHANGED step)
  BY DEF ReadManifest, Reading, Throw, Go
<1>2. PICK o \in page :
        /\ o.json /\ page' = page \ {o} /\ o.name \in Releases
        /\ seen' = IF bucket[o.name].json \in Recorded
             THEN [seen EXCEPT ![o.name] =
                     [image |-> IF seen[o.name] = None THEN 0 ELSE seen[o.name].image,
                      json |-> bucket[o.name].json]]
             ELSE seen
  BY ReadManifestSees
<1>3. page \subseteq Stored /\ Rank(o) <= token /\ \A n \in Releases : seen[n] = Found(n)
  BY <1>1 DEF ListingAgrees
<1>4. /\ ~ManifestRead(o.name)
      /\ ManifestRead(o.name)' <=> bucket[o.name].json \in Recorded
      /\ \A n \in Releases : ImageRead(n)' <=> ImageRead(n)
      /\ \A n \in Releases \ {o.name} : ManifestRead(n)' <=> ManifestRead(n)
  BY <1>1, <1>2, <1>3, TakeOne
<1>5. ASSUME NEW n \in Releases, n # o.name PROVE seen'[n] = Found(n)'
  BY <1>2, <1>3, <1>4, <1>5, SameFound DEF RefreshTypeOK
<1>6. ASSUME bucket[o.name].json \in Recorded PROVE seen'[o.name] = Found(o.name)'
  <2> DEFINE d == IF seen[o.name] = None THEN 0 ELSE seen[o.name].image
  <2>4. /\ seen[o.name] # None <=> ImageRead(o.name)
        /\ ImageRead(o.name) => seen[o.name].image = bucket[o.name].image
    <3>1. seen[o.name] = Found(o.name)
      BY <1>2, <1>3
    <3>2. Found(o.name) # None <=> ImageRead(o.name)
      BY <1>2, <1>4, FoundIs
    <3>3. ImageRead(o.name) => Found(o.name).image = bucket[o.name].image
      BY <1>2, <3>2, FoundIs
    <3> QED
      BY <3>1, <3>2, <3>3
  <2>1. d = IF ImageRead(o.name) THEN bucket[o.name].image ELSE 0
    BY <2>4
  <2>2. seen'[o.name] = [image |-> d, json |-> bucket[o.name].json]
    BY <1>2, <1>6 DEF RefreshTypeOK
  <2>3. Found(o.name)' = [image |-> IF ImageRead(o.name) THEN bucket[o.name].image ELSE 0,
                          json |-> bucket[o.name].json]
    BY <1>2, <1>4, <1>6 DEF Found
  <2> QED
    BY <2>1, <2>2, <2>3
<1>7. ASSUME bucket[o.name].json \notin Recorded PROVE seen'[o.name] = Found(o.name)'
  BY <1>2, <1>3, <1>4, <1>7, SameFound
<1>8. \A n \in Releases : seen'[n] = Found(n)'
  BY <1>5, <1>6, <1>7
<1>9. Stored' = Stored
  BY DEF Stored, NoImage
<1> QED
  BY <1>1, <1>2, <1>8, <1>9 DEF ListingAgrees

(* The last page has been read: every name is known as it is stored.       *)
LEMMA AllRead ==
  ASSUME RefreshTypeOK, page = {}, \A o \in Stored : Rank(o) <= token, NEW n \in Releases
  PROVE  Found(n) = Expected(n)
<1>1. ImageRead(n) <=> bucket[n].image # 0
  <2>1. ASSUME bucket[n].image # 0 PROVE 2 * n <= token
    <3>1. PICK o \in Stored : Rank(o) = 2 * n
      BY <2>1, ImageStored
    <3> QED
      BY <3>1
  <2>2. ~OnPage(n)
    BY DEF OnPage
  <2> QED
    BY <2>1, <2>2 DEF ImageRead
<1>2. ManifestRead(n) <=> bucket[n].json \in Recorded
  <2>1. ASSUME bucket[n].json \in Recorded PROVE 2 * n + 1 <= token
    <3>1. PICK o \in Stored : Rank(o) = 2 * n + 1
      BY <2>1, ManifestStored DEF Recorded
    <3> QED
      BY <3>1
  <2>2. ~ManifestOnPage(n)
    BY DEF ManifestOnPage
  <2> QED
    BY <2>1, <2>2 DEF ManifestRead
<1>3. ImageRead(n) \/ ManifestRead(n) <=> InBucket(n)
  BY <1>1, <1>2 DEF InBucket
<1>4. (IF ImageRead(n) THEN bucket[n].image ELSE 0) = bucket[n].image
  BY <1>1
<1> QED
  BY <1>2, <1>3, <1>4 DEF Found, Expected

LEMMA ExpectedIs ==
  ASSUME RefreshTypeOK, NEW n \in Releases
  PROVE  /\ Expected(n) # None <=> InBucket(n)
         /\ InBucket(n) => /\ Expected(n).image = bucket[n].image
                           /\ Expected(n).json = "good" <=> bucket[n].json = "good"
<1> DEFINE j == IF bucket[n].json \in Recorded THEN bucket[n].json ELSE "none"
<1>1. bucket[n].image \in UploadDates \cup {0}
  BY DEF RefreshTypeOK, Contents
<1>2. j \in {"none", "good", "misnamed"} /\ (j = "good" <=> bucket[n].json = "good")
  BY DEF Recorded
<1> HIDE DEF j
<1>3. [image |-> bucket[n].image, json |-> j] # None
  BY <1>1, <1>2, EntryType
<1>4. Expected(n) = IF InBucket(n) THEN [image |-> bucket[n].image, json |-> j] ELSE None
  BY DEF Expected, j
<1> QED
  BY <1>2, <1>3, <1>4

(* What ComputeManifest leaves are the names that belong in the table.     *)
LEMMA ComputeKeeps ==
  ASSUME RefreshTypeOK, ComputeManifest, \A n \in Releases : seen[n] = Expected(n)
  PROVE  /\ \A n \in Releases : Belongs(n) <=> seen'[n] # None
         /\ pending' = Wanted
<1> DEFINE kept == Listed \ {n \in Staging : seen[n] # None /\ seen[n].image # 0}
<1>1. /\ seen' = [n \in Releases |-> IF n \in kept THEN seen[n] ELSE None]
      /\ pending' = {n \in kept : seen[n].json = "good" /\ TimestampOf[n] > Limit}
  BY DEF ComputeManifest
<1>2. ASSUME NEW n \in Releases PROVE n \in kept <=> Belongs(n)
  BY ExpectedIs DEF Listed, Belongs
<1>3. kept \subseteq Releases /\ \A n \in kept : seen[n] # None
  BY DEF Listed
<1> HIDE DEF kept
<1>4. \A n \in Releases : Belongs(n) <=> seen'[n] # None
  BY <1>1, <1>2, <1>3
<1>5. \A n \in kept : seen[n].json = "good" <=> bucket[n].json = "good"
  BY <1>2, <1>3, ExpectedIs DEF Belongs
<1>6. pending' = Wanted
  BY <1>1, <1>2, <1>3, <1>5 DEF Wanted
<1> QED
  BY <1>4, <1>6

LEMMA ListingNext ==
  ASSUME BaseInv, SyncInv, [RefreshNext]_refreshVars, Quiet'
  PROVE  ListingAgrees'
<1> USE DEF BaseInv, Go, Throw
<1>1. UNCHANGED <<bucket, now>> /\ (~RunUpdateTask => Quiet)
  BY QuietBefore
<1>2. Stored' = Stored /\ Wanted' = Wanted /\ \A n \in Releases : Belongs(n)' <=> Belongs(n)
  BY <1>1 DEF Stored, NoImage, Wanted, Belongs, InBucket, Limit, Sub64
<1>3. CASE RunUpdateTask
  <2>1. step' \notin {"list", "read", "compute", "select", "prune"}
    BY <1>3 DEF RunUpdateTask, ControlOK
  <2> QED
    BY <2>1 DEF ListingAgrees
<1>4. ASSUME ~RunUpdateTask PROVE ListingAgrees
  BY <1>1, <1>4 DEF SyncInv
<1>5. CASE Expire
  <2>1. /\ step = "expire" /\ step' = "list" /\ UNCHANGED <<page, token, seen>>
    BY <1>5 DEF Expire, listing
  <2>2. page = {} /\ token = 0 /\ seen = [n \in Releases |-> None]
    BY <2>1 DEF ControlOK
  <2>3. \A n \in Releases : 2 * n > 0 /\ 2 * n + 1 > 0
    OBVIOUS
  <2>4. \A n \in Releases : ~ImageRead(n)' /\ ~ManifestRead(n)'
    BY <2>1, <2>2, <2>3 DEF ImageRead, ManifestRead
  <2>5. \A n \in Releases : seen'[n] = Found(n)'
    BY <2>1, <2>2, <2>4 DEF Found
  <2> QED
    BY <2>1, <2>2, <2>5 DEF ListingAgrees
<1>6. CASE ListObjects
  <2>1. step = "list" /\ step' = "read" /\ UNCHANGED seen /\ ~RunUpdateTask
    BY <1>6 DEF ListObjects, RunUpdateTask, vars, ControlOK
  <2>2. /\ page' \subseteq Stored /\ \A o \in page' : Rank(o) <= token'
        /\ ~truncated' => \A o \in Stored : Rank(o) <= token'
    BY <1>6, PageListed DEF RefreshTypeOK
  <2>3. \A n \in Releases : seen'[n] = Found(n)'
    BY <1>1, <1>4, <1>6, <2>1, NextPage, SameFound DEF ListingAgrees
  <2> QED
    BY <1>2, <2>1, <2>2, <2>3 DEF ListingAgrees
<1>7. CASE ReadImage
  <2>1. ~RunUpdateTask
    BY <1>7 DEF ReadImage, Reading, RunUpdateTask, ControlOK
  <2> QED
    BY <1>1, <1>4, <1>7, <2>1, ReadImageFinds
<1>8. CASE ReadManifest
  <2>1. ~RunUpdateTask
    BY <1>8 DEF ReadManifest, Reading, RunUpdateTask, ControlOK
  <2> QED
    BY <1>1, <1>4, <1>8, <2>1, ReadManifestFinds
<1>9. CASE PageRead
  <2>1. /\ step = "read" /\ page = {} /\ UNCHANGED <<token, page, truncated, seen>>
        /\ step' = (IF truncated THEN "list" ELSE "compute") /\ ~RunUpdateTask
    BY <1>9 DEF PageRead, RunUpdateTask, listing, ControlOK
  <2>2. \A n \in Releases : seen'[n] = Found(n)
    BY <1>4, <2>1 DEF ListingAgrees
  <2>3. \A n \in Releases : Found(n)' = Found(n)
    BY <1>1, <2>1 DEF Found, ImageRead, ManifestRead, OnPage, ManifestOnPage
  <2>4. CASE step' = "list"
    BY <2>1, <2>2, <2>3, <2>4 DEF ListingAgrees
  <2>5. CASE step' = "compute"
    <3>1. \A o \in Stored : Rank(o) <= token
      BY <1>4, <2>1, <2>5 DEF ListingAgrees
    <3>2. \A n \in Releases : Found(n) = Expected(n)
      BY <2>1, <3>1, AllRead
    <3>3. \A n \in Releases : seen'[n] = Expected(n)'
      BY <1>1, <2>2, <3>2 DEF Expected, InBucket
    <3> QED
      BY <2>5, <3>3 DEF ListingAgrees
  <2> QED
    BY <2>1, <2>4, <2>5
<1>10. CASE ComputeManifest
  <2>1. step = "compute" /\ step' = "select" /\ ~RunUpdateTask
    BY <1>10 DEF ComputeManifest, RunUpdateTask, ControlOK
  <2>2. /\ \A n \in Releases : Belongs(n) <=> seen'[n] # None
        /\ pending' = Wanted
    BY <1>4, <1>10, <2>1, ComputeKeeps DEF ListingAgrees
  <2> QED
    BY <1>2, <2>1, <2>2 DEF ListingAgrees
<1>11. CASE SelectVictims
  <2>1. step = "select" /\ step' = "prune" /\ UNCHANGED pending /\ ~RunUpdateTask
    BY <1>11 DEF SelectVictims, RunUpdateTask, listing, ControlOK
  <2> QED
    BY <1>2, <1>4, <2>1 DEF ListingAgrees
<1>12. CASE Prune
  <2>1. step = "prune" /\ step' = "prune" /\ UNCHANGED pending /\ ~RunUpdateTask
    BY <1>12 DEF Prune, RunUpdateTask, listing, ControlOK
  <2> QED
    BY <1>2, <1>4, <2>1 DEF ListingAgrees
<1>13. CASE PruneEnds \/ EntryKnown \/ EntryMissing \/ Store \/ Insert \/ Finish \/ ThreadEnds
  <2>1. step' \notin {"list", "read", "compute", "select", "prune"}
    BY <1>13 DEF PruneEnds, EntryKnown, EntryMissing, Store, Insert, Finish, ThreadEnds, NoThread
  <2> QED
    BY <2>1 DEF ListingAgrees
<1>14. CASE Load
  <2>1. step = "none" /\ step' = "none"
    BY <1>14, Zenon DEF Load, LoadFails, LoadDone, LoadRow, ControlOK
  <2> QED
    BY <2>1 DEF ListingAgrees
<1>15. CASE UNCHANGED refreshVars
  <2>1. ListingAgrees
    BY <1>15 DEF SyncInv, Quiet, refreshVars, vars, history
  <2>2. UNCHANGED <<step, token, page, truncated, seen, pending>>
    BY <1>15 DEF refreshVars, listing
  <2>3. \A n \in Releases : Found(n)' = Found(n) /\ Expected(n)' = Expected(n)
    BY <1>1, <2>2 DEF Found, ImageRead, ManifestRead, OnPage, ManifestOnPage, Expected, InBucket
  <2> QED
    BY <1>2, <2>1, <2>2, <2>3 DEF ListingAgrees
<1> QED
  BY <1>3, <1>5, <1>6, <1>7, <1>8, <1>9, <1>10, <1>11, <1>12, <1>13, <1>14, <1>15, QuietBefore
     DEF RefreshNext, RunnerStep, WorldStep

(* Fewer rows, but none that is known.                                     *)
LEMMA KnownKept ==
  ASSUME Present \subseteq Present'
  PROVE  \A n : Known(n) => Known(n)'
BY DEF Known

LEMMA TableNext ==
  ASSUME BaseInv, OneRowEach, SyncInv, [RefreshNext]_refreshVars, Quiet'
  PROVE  TableAgrees'
<1> USE DEF BaseInv, Go, Throw
<1>1. UNCHANGED <<bucket, now>> /\ UNCHANGED faults /\ ~Fault /\ (~RunUpdateTask => Quiet)
  BY QuietBefore DEF Fault
<1>2. Wanted' = Wanted /\ \A n \in Releases : Belongs(n)' <=> Belongs(n)
  BY <1>1 DEF Wanted, Belongs, InBucket, Limit, Sub64
<1>3. /\ \A i \in Ids : ReleaseOf[i] \in Releases
      /\ Present \subseteq Ids /\ Present' \subseteq Ids
      /\ \A n \in Wanted : n \in Releases /\ Belongs(n)
  BY DEF Releases, Present, Wanted
<1>4. CASE RunUpdateTask
  <2>1. /\ step' \notin {"prune", "add", "store", "insert"}
        /\ updateRunning' = TRUE
    BY <1>4 DEF RunUpdateTask, ControlOK
  <2> QED
    BY <2>1 DEF TableAgrees
<1>5. ASSUME ~RunUpdateTask PROVE ListingAgrees /\ TableAgrees
  BY <1>1, <1>5 DEF SyncInv
<1>6. CASE Expire \/ ListObjects \/ ReadImage \/ PageRead \/ ComputeManifest \/ ThreadEnds
  <2>1. step' \notin {"prune", "add", "store", "insert", "end"}
    BY <1>6 DEF Expire, ListObjects, ReadImage, Reading, PageRead, ComputeManifest, ThreadEnds,
      NoThread
  <2> QED
    BY <2>1 DEF TableAgrees
<1>7. CASE ReadManifest
  <2>1. step' \in {"read", "end"}
    BY <1>7 DEF ReadManifest, Reading
  <2>2. updateRunning' = TRUE
    BY <1>7 DEF ReadManifest, Reading, flags, ControlOK
  <2> QED
    BY <2>1, <2>2 DEF TableAgrees
<1>8. CASE SelectVictims
  <2>1. /\ step = "select" /\ step' = "prune" /\ Present' = Present
        /\ victims'[Runner] = {i \in Present : ReleaseOf[i] \notin Listed} /\ ~RunUpdateTask
    BY <1>8 DEF SelectVictims, SelectNotInManifest, RunUpdateTask, Present, durable, ControlOK,
      TypeInv, TypeOK
  <2>2. \A n \in Releases : Belongs(n) <=> n \in Listed
    BY <1>5, <2>1 DEF ListingAgrees, Listed
  <2> QED
    BY <1>2, <1>3, <2>1, <2>2 DEF TableAgrees
<1>9. CASE Prune
  <2>1. step = "prune" /\ step' = "prune" /\ ~RunUpdateTask
    BY <1>9 DEF Prune, RunUpdateTask, ControlOK
  <2>2. PICK i \in victims[Runner] : DeleteRows({i}) /\ victims'[Runner] = victims[Runner] \ {i}
    <3>1. PICK i \in victims[Runner] :
            DeleteRows({i}) /\ victims' = [victims EXCEPT ![Runner] = @ \ {i}]
      BY <1>1, <1>9 DEF Prune, RemoveNotInManifest
    <3> QED
      BY <3>1 DEF TypeInv, TypeOK
  <2>3. Present' = Present \ {i}
    BY <2>2 DEF DeleteRows, Present
  <2>4. \A j \in Present' : Belongs(ReleaseOf[j])' \/ j \in victims'[Runner]
    BY <1>2, <1>3, <1>5, <2>1, <2>2, <2>3 DEF TableAgrees
  <2> QED
    BY <2>1, <2>4 DEF TableAgrees
<1>10. CASE PruneEnds
  <2>1. /\ step = "prune" /\ step' = "add" /\ Present' = Present /\ UNCHANGED pending
        /\ victims[Runner] = {} /\ ~RunUpdateTask
    BY <1>10 DEF PruneEnds, PruneDone, RunUpdateTask, Present, durable, listing, ControlOK
  <2>2. pending = Wanted /\ \A i \in Present : Belongs(ReleaseOf[i])
    BY <1>5, <2>1 DEF ListingAgrees, TableAgrees
  <2> QED
    BY <1>2, <1>3, <2>1, <2>2 DEF TableAgrees
<1>11. CASE EntryKnown
  <2>1. /\ step = "add" /\ step' = "add" /\ Present' = Present /\ Known(Least(pending))
        /\ pending' = pending \ {Least(pending)} /\ ~RunUpdateTask
    BY <1>11 DEF EntryKnown, RunUpdateTask, vars, Present, ControlOK
  <2>2. \A n : Known(n)' <=> Known(n)
    BY <2>1 DEF Known
  <2> QED
    BY <1>2, <1>3, <1>5, <2>1, <2>2 DEF TableAgrees
<1>12. CASE EntryMissing
  <2>1. /\ step = "add" /\ step' = "store" /\ Present' = Present /\ UNCHANGED pending
        /\ ~RunUpdateTask
    BY <1>12 DEF EntryMissing, RunUpdateTask, vars, listing, Present, ControlOK
  <2>2. \A n : Known(n)' <=> Known(n)
    BY <2>1 DEF Known
  <2> QED
    BY <1>2, <1>3, <1>5, <2>1, <2>2 DEF TableAgrees
<1>13. CASE Store
  <2>1. PICK i \in MadeFrom(Least(pending)) : AddFirmware(Runner, i)
    BY <1>13 DEF Store
  <2>2. /\ step = "store" /\ step' = "insert" /\ pending' = pending \ {Least(pending)}
        /\ ~RunUpdateTask
    BY <1>13 DEF Store, RunUpdateTask, ControlOK
  <2>3. i \in Ids /\ ReleaseOf[i] = Least(pending) /\ fw'[Runner] = i /\ Present' = Present
    BY <2>1, AddKeeps DEF MadeFrom
  <2>4. Least(pending) \in pending
    BY <2>2, LeastIs DEF ControlOK, RefreshTypeOK
  <2>5. \A n : Known(n)' <=> Known(n)
    BY <2>3 DEF Known
  <2>6. pending \subseteq Wanted
    BY <1>5, <2>2 DEF TableAgrees
  <2> QED
    BY <1>2, <1>3, <1>5, <2>2, <2>3, <2>4, <2>5, <2>6 DEF TableAgrees
<1>14. CASE Insert
  <2>1. step = "insert" /\ UNCHANGED pending /\ ~RunUpdateTask
    BY <1>14 DEF Insert, listing, RunUpdateTask, ControlOK
  <2>2. TableAgrees
    BY <1>5, <2>1
  <2>3. ASSUME SelectLatest(Runner) \/ ClearLatest(Runner), UNCHANGED step PROVE TableAgrees'
    <3>1. UNCHANGED fw /\ Present' = Present
      BY <2>3, SelectKeeps, ClearKeeps
    <3>2. \A n : Known(n)' <=> Known(n)
      BY <3>1 DEF Known
    <3> QED
      BY <1>2, <1>3, <2>1, <2>2, <2>3, <3>1, <3>2 DEF TableAgrees
  <2>4. ASSUME CreateRecord(Runner), step' = "add" PROVE TableAgrees'
    <3>1. PICK i \in Ids : i = fw[Runner] /\ Present' = Present \cup {i}
      BY <1>1, <2>4, CreateKeeps
    <3>2. ReleaseOf[i] \in Wanted /\ DeviceTypeOf[i] = CompatibleOf[ReleaseOf[i]]
      BY <2>1, <2>2, <3>1 DEF TableAgrees, OneRowEach
    <3>3. \A n \in Wanted : Known(n) \/ n \in pending \/ n = ReleaseOf[i]
      BY <2>1, <2>2, <3>1 DEF TableAgrees
    <3>6. Known(ReleaseOf[i])'
      BY <3>1, <3>2 DEF Known
    <3>7. \A n : Known(n) => Known(n)'
      BY <3>1, KnownKept
    <3>4. \A n \in Wanted : Known(n)' \/ n \in pending
      BY <3>3, <3>6, <3>7
    <3>5. \A j \in Present' : Belongs(ReleaseOf[j])'
      BY <1>2, <1>3, <2>1, <2>2, <3>1, <3>2 DEF TableAgrees
    <3> QED
      BY <1>2, <2>1, <2>2, <2>4, <3>4, <3>5 DEF TableAgrees
  <2> QED
    BY <1>14, <2>3, <2>4 DEF Insert
<1>15. CASE Finish
  <2>1. /\ step = "add" /\ step' = "end" /\ pending = {} /\ Present' = Present /\ ~RunUpdateTask
    BY <1>15 DEF Finish, RunUpdateTask, vars, Present, ControlOK
  <2>2. \A n : Known(n)' <=> Known(n)
    BY <2>1 DEF Known
  <2> QED
    BY <1>2, <1>3, <1>5, <2>1, <2>2 DEF TableAgrees
<1>16. CASE Load
  <2>1. step' = "none"
    BY <1>16, Zenon DEF Load, LoadFails, LoadDone, LoadRow, ControlOK
  <2> QED
    BY <2>1 DEF TableAgrees
<1>17. CASE UNCHANGED refreshVars
  <2>1. TableAgrees
    BY <1>17 DEF SyncInv, Quiet, refreshVars, vars, history
  <2>2. UNCHANGED <<step, updateRunning, pending, fw, victims>> /\ Present' = Present
    BY <1>17, Zenon DEF refreshVars, vars, flags, listing, Present
  <2>3. \A n : Known(n)' <=> Known(n)
    BY <2>2 DEF Known
  <2> QED
    BY <1>2, <1>3, <2>1, <2>2, <2>3 DEF TableAgrees
<1> QED
  BY <1>4, <1>6, <1>7, <1>8, <1>9, <1>10, <1>11, <1>12, <1>13, <1>14, <1>15, <1>16, <1>17,
     QuietBefore DEF RefreshNext, RunnerStep, WorldStep

(* ManifestCreator.cpp:215-336 (ReadBucket), 50-105 (ComputeManifest), and *)
(* 107-147 (AddManifestToDB) together: a refresh that meets no failure and *)
(* no change from outside leaves a row for each valid name of the bucket   *)
(* and none of any other name, for any bucket, pages of any size and       *)
(* whatever the table held before.                                         *)
THEOREM SyncSound == RefreshSpec => []Synced
<1>1. RefreshInit => SyncInv
  BY DEF RefreshInit, SyncInv, ListingAgrees, TableAgrees
<1>2. BaseInv /\ OneRowEach /\ SyncInv /\ [RefreshNext]_refreshVars => SyncInv'
  BY ListingNext, TableNext DEF SyncInv
<1>3. SyncInv => Synced
  <2> SUFFICES ASSUME SyncInv, step = "end", ~updateRunning, calm, whole, faults = 0
               PROVE  /\ \A n \in Releases :
                           /\ bucket[n].json = "good" /\ TimestampOf[n] > Limit
                           /\ n \notin Staging \/ bucket[n].image = 0
                           => Known(n)
                      /\ \A i \in Present :
                           LET c == bucket[ReleaseOf[i]]
                           IN IF c.image = 0 THEN c.json \in {"good", "misnamed"}
                                             ELSE ReleaseOf[i] \notin Staging
    BY DEF Synced
  <2>1. /\ \A i \in Present : Belongs(ReleaseOf[i])
        /\ \A n \in Wanted : Known(n)
    BY DEF SyncInv, Quiet, TableAgrees
  <2>2. ASSUME NEW n \in Releases, bucket[n].json = "good", TimestampOf[n] > Limit,
               n \notin Staging \/ bucket[n].image = 0
        PROVE  n \in Wanted
    BY <2>2 DEF Wanted, Belongs, InBucket, Recorded
  <2> QED
    BY <2>1, <2>2 DEF Belongs, InBucket, Recorded
<1>4. RefreshInit => OneRowEach
  BY DEF RefreshInit, Init, OneRowEach, RowPerRelease, Present, Adding
<1> QED
  BY <1>1, <1>2, <1>3, <1>4, BaseInit, BaseNext, RowsNext, PTL DEF RefreshSpec

============================================================================
