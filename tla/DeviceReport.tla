---------------------------- MODULE DeviceReport ----------------------------
(***************************************************************************)
(* The device report (Dashboard.cpp): REST threads that reuse it while it  *)
(* is young, generate it, or wait for the one that does, over a table of   *)
(* devices that is read in pages (DevicesDB::GenerateDeviceReport with     *)
(* ORM::Iterate) while the workers add and delete rows.                    *)
(*                                                                         *)
(* The maps of a report count the rows read by type, revision, status and  *)
(* so on; here its rows are counted one by one while it is made (part),    *)
(* and once made it is named by its snapshot, 0 for a report that is still *)
(* empty.  A device is the place of its row: Iterate has no ORDER BY, and  *)
(* the database puts a new row where it likes.                             *)
(***************************************************************************)
EXTENDS Naturals, FiniteSets

CONSTANTS
  Readers,        \* REST threads that GET the report
  Devices,        \* rows that may be in the table, in its order
  Seed,           \* rows there at the start
  Batch,          \* rows of a page, 50 in the code
  MaxAge,         \* 120 in the code
  Word,           \* width of std::uint64_t
  MaxNow,         \* bound: the clock
  MaxRequests,    \* bound: requests
  MaxChanges,     \* bound: rows added or deleted
  MaxFaults       \* bound: pages that fail, generations that throw

ASSUME ReportAssumption ==
  /\ Devices \subseteq Nat /\ IsFiniteSet(Devices) /\ Seed \subseteq Devices
  /\ Batch \in Nat \ {0}
  /\ MaxAge \in Nat /\ MaxNow \in Nat \ {0} /\ Word \in Nat
  /\ MaxAge < Word /\ MaxNow < Word - MaxAge
  /\ MaxRequests \in Nat /\ MaxChanges \in Nat /\ MaxFaults \in Nat

VARIABLES
  table,          \* rows of devices
  now,            \* Utils::Now
  generating,     \* GeneratingDashboard_
  valid,          \* ValidDashboard_
  lastRun,        \* LastRun_
  DB,             \* DB_
  pc,             \* next step of each thread
  at,             \* Get: Now
  D,              \* Get: the caller's report
  offset,         \* Iterate: Offset
  part,           \* Generate: NewData
  ok,             \* what Get returned
  (* history and bounds *)
  stayed,         \* rows in the table since this thread began to read it
  calm,           \* changes of the table since: "none", "added", "deleted", "both"
  cut,            \* a page of this thread failed
  endedAt,        \* when the last generation ended
  overlap,        \* two threads have generated at the same time
  requests, changes, faults

dashboard == <<generating, valid, lastRun, DB>>
history == <<stayed, calm, cut, endedAt, overlap>>
bounds == <<requests, changes, faults>>
vars == <<table, now, dashboard, pc, at, D, offset, part, ok, history, bounds>>

Nothing == [d \in Devices |-> 0]
NoReport == 0
Reports == 0..MaxNow
Steps == {"idle", "valid", "age", "copy", "busy", "claim", "invalidate",
          "page", "stamp", "store", "clear", "wait", "return", "done"}
Generators == {r \in Readers : pc[r] \in {"claim", "invalidate", "page", "stamp", "store", "clear"}}

Go(r, next) == pc' = [pc EXCEPT ![r] = next]

(* The locals of Iterate and Generate go out of scope.                     *)
Leave(r) ==
  /\ offset' = [offset EXCEPT ![r] = 0] /\ part' = [part EXCEPT ![r] = Nothing]
  /\ stayed' = [stayed EXCEPT ![r] = {}] /\ calm' = [calm EXCEPT ![r] = "none"]
  /\ cut' = [cut EXCEPT ![r] = FALSE]
Since(u, v) == (u + Word - v) % Word       \* u - v on std::uint64_t

Init ==
  /\ table = Seed /\ now = 1
  /\ generating = FALSE /\ valid = FALSE /\ lastRun = 0 /\ DB = NoReport
  /\ pc = [r \in Readers |-> "idle"] /\ at = [r \in Readers |-> 0]
  /\ D = [r \in Readers |-> NoReport] /\ offset = [r \in Readers |-> 0]
  /\ part = [r \in Readers |-> Nothing] /\ ok = [r \in Readers |-> FALSE]
  /\ stayed = [r \in Readers |-> {}] /\ calm = [r \in Readers |-> "none"]
  /\ cut = [r \in Readers |-> FALSE] /\ endedAt = 0 /\ overlap = FALSE
  /\ requests = 0 /\ changes = 0 /\ faults = 0

----------------------------------------------------------------------------
(* Get. *)

Request(r) ==
  /\ pc[r] \in {"idle", "done"} /\ requests < MaxRequests
  /\ requests' = requests + 1
  /\ at' = [at EXCEPT ![r] = now]
  /\ D' = [D EXCEPT ![r] = NoReport]
  /\ Go(r, "valid")
  /\ UNCHANGED <<table, now, dashboard, offset, part, ok, history, changes, faults>>

TestValid(r) ==
  /\ pc[r] = "valid"
  /\ Go(r, IF valid THEN "age" ELSE "busy")
  /\ UNCHANGED <<table, now, dashboard, at, D, offset, part, ok, history, bounds>>

(* Mutant: age is not looked at.                                           *)
NeverTooOld(r) ==
  /\ pc[r] = "age"
  /\ Go(r, IF lastRun = 0 THEN "busy" ELSE "copy")
  /\ UNCHANGED <<table, now, dashboard, at, D, offset, part, ok, history, bounds>>

TestAge(r) ==
  /\ pc[r] = "age"
  /\ Go(r, IF lastRun = 0 \/ Since(at[r], lastRun) > MaxAge THEN "busy" ELSE "copy")
  /\ UNCHANGED <<table, now, dashboard, at, D, offset, part, ok, history, bounds>>

Copy(r) ==
  /\ pc[r] = "copy"
  /\ D' = [D EXCEPT ![r] = DB]
  /\ Go(r, "return")
  /\ UNCHANGED <<table, now, dashboard, at, offset, part, ok, history, bounds>>

Return(r) ==
  /\ pc[r] = "return"
  /\ ok' = [ok EXCEPT ![r] = valid]
  /\ Go(r, "done")
  /\ UNCHANGED <<table, now, dashboard, at, D, offset, part, history, bounds>>

----------------------------------------------------------------------------
(* Generate. *)

TestGenerating(r) ==
  /\ pc[r] = "busy"
  /\ Go(r, IF generating THEN "wait" ELSE "claim")
  /\ overlap' = (overlap \/ (~generating /\ Generators # {}))
  /\ UNCHANGED <<table, now, dashboard, at, D, offset, part, ok, stayed, calm, cut, endedAt, bounds>>

(* One turn of the loop that sleeps 100 ms.                                *)
Wait(r) ==
  /\ pc[r] = "wait" /\ ~generating
  /\ Go(r, "copy")
  /\ UNCHANGED <<table, now, dashboard, at, D, offset, part, ok, history, bounds>>

Claim(r) ==
  /\ pc[r] = "claim"
  /\ generating' = TRUE
  /\ Go(r, "invalidate")
  /\ UNCHANGED <<table, now, valid, lastRun, DB, at, D, offset, part, ok, history, bounds>>

Invalidate(r) ==
  /\ pc[r] = "invalidate"
  /\ valid' = FALSE
  /\ stayed' = [stayed EXCEPT ![r] = table]
  /\ Go(r, "page")
  /\ UNCHANGED <<table, now, generating, lastRun, DB, at, D, offset, part, ok, calm, cut, endedAt, overlap, bounds>>

(* GetRecords: Batch rows from place from on.                              *)
Page(from) ==
  {d \in table : Cardinality({e \in table : e <= d}) \in (from + 1)..(from + Batch)}

(* The callback of GenerateDeviceReport.                                   *)
Count(r, got) ==
  part' = [part EXCEPT ![r] = [d \in Devices |-> @[d] + (IF d \in got THEN 1 ELSE 0)]]

(* Mutant: the next page begins one row late.                              *)
ReadPageLate(r) ==
  /\ pc[r] = "page"
  /\ LET got == Page(offset[r])
         more == Cardinality(got) = Batch
     IN /\ Count(r, got)
        /\ offset' = [offset EXCEPT ![r] = IF more THEN @ + Batch + 1 ELSE @]
        /\ Go(r, IF more THEN "page" ELSE "stamp")
  /\ UNCHANGED <<table, now, dashboard, at, D, ok, history, bounds>>

(* An empty page makes GetRecords return false, a short one ends Iterate.  *)
ReadPage(r) ==
  /\ pc[r] = "page"
  /\ LET got == Page(offset[r])
         more == Cardinality(got) = Batch
     IN /\ Count(r, got)
        /\ offset' = [offset EXCEPT ![r] = IF more THEN @ + Batch ELSE @]
        /\ Go(r, IF more THEN "page" ELSE "stamp")
  /\ UNCHANGED <<table, now, dashboard, at, D, ok, history, bounds>>

(* A statement that fails ends Iterate like an empty page: it returns true.*)
FailPage(r) ==
  /\ pc[r] = "page" /\ faults < MaxFaults
  /\ faults' = faults + 1
  /\ cut' = [cut EXCEPT ![r] = TRUE]
  /\ Go(r, "stamp")
  /\ UNCHANGED <<table, now, dashboard, at, D, offset, part, ok, stayed, calm, endedAt, overlap, requests, changes>>

(* catch (...).                                                            *)
Throw(r) ==
  /\ pc[r] = "page" /\ faults < MaxFaults
  /\ faults' = faults + 1
  /\ Go(r, "clear") /\ Leave(r)
  /\ UNCHANGED <<table, now, dashboard, at, D, ok, endedAt, overlap, requests, changes>>

Stamp(r) ==
  /\ pc[r] = "stamp"
  /\ lastRun' = now
  /\ D' = [D EXCEPT ![r] = now]
  /\ Go(r, "store") /\ Leave(r)
  /\ UNCHANGED <<table, now, generating, valid, DB, at, ok, endedAt, overlap, bounds>>

(* Mutant: the report is stored but not marked valid.                      *)
StoreUnmarked(r) ==
  /\ pc[r] = "store"
  /\ DB' = D[r]
  /\ Go(r, "clear")
  /\ UNCHANGED <<table, now, generating, valid, lastRun, at, D, offset, part, ok, history, bounds>>

Store(r) ==
  /\ pc[r] = "store"
  /\ DB' = D[r] /\ valid' = TRUE
  /\ Go(r, "clear")
  /\ UNCHANGED <<table, now, generating, lastRun, at, D, offset, part, ok, history, bounds>>

(* Mutant: the flag is left set by a thread that ends.                     *)
ClearNothing(r) ==
  /\ pc[r] = "clear"
  /\ endedAt' = now
  /\ Go(r, "return")
  /\ UNCHANGED <<table, now, dashboard, at, D, offset, part, ok, stayed, calm, cut, overlap, bounds>>

Clear(r) ==
  /\ pc[r] = "clear"
  /\ generating' = FALSE
  /\ endedAt' = now
  /\ Go(r, "return")
  /\ UNCHANGED <<table, now, valid, lastRun, DB, at, D, offset, part, ok, stayed, calm, cut, overlap, bounds>>

----------------------------------------------------------------------------
(* The world: the workers' rows, and the clock.                            *)

Saw(change) ==
  calm' = [r \in Readers |-> IF pc[r] \notin {"page", "stamp"} THEN "none"
                             ELSE IF calm[r] \in {"none", change} THEN change ELSE "both"]

AddRow(d) ==
  /\ d \notin table /\ changes < MaxChanges
  /\ table' = table \cup {d} /\ changes' = changes + 1
  /\ Saw("added")
  /\ UNCHANGED <<now, dashboard, pc, at, D, offset, part, ok, stayed, cut, endedAt, overlap, requests, faults>>

DeleteRow(d) ==
  /\ d \in table /\ changes < MaxChanges
  /\ table' = table \ {d} /\ changes' = changes + 1
  /\ Saw("deleted")
  /\ stayed' = [r \in Readers |-> stayed[r] \ {d}]
  /\ UNCHANGED <<now, dashboard, pc, at, D, offset, part, ok, cut, endedAt, overlap, requests, faults>>

Tick ==
  /\ now < MaxNow
  /\ now' = now + 1
  /\ UNCHANGED <<table, dashboard, pc, at, D, offset, part, ok, history, bounds>>

GetStep(r) == TestValid(r) \/ TestAge(r) \/ Copy(r) \/ Return(r)
GenerateStep(r) ==
  \/ TestGenerating(r) \/ Wait(r) \/ Claim(r) \/ Invalidate(r) \/ ReadPage(r)
  \/ Stamp(r) \/ Store(r) \/ Clear(r)
Fault(r) == FailPage(r) \/ Throw(r)

Next ==
  \/ \E r \in Readers : Request(r) \/ GetStep(r) \/ GenerateStep(r) \/ Fault(r)
  \/ \E d \in Devices : AddRow(d) \/ DeleteRow(d)
  \/ Tick

Spec == Init /\ [][Next]_vars

----------------------------------------------------------------------------
(* Properties. *)

ReportTypeOK ==
  /\ table \subseteq Devices /\ now \in 1..MaxNow
  /\ generating \in BOOLEAN /\ valid \in BOOLEAN /\ lastRun \in 0..MaxNow /\ DB \in Reports
  /\ pc \in [Readers -> Steps] /\ at \in [Readers -> 0..MaxNow] /\ D \in [Readers -> Reports]
  /\ offset \in [Readers -> 0..Cardinality(Devices)] /\ part \in [Readers -> [Devices -> Nat]]
  /\ ok \in [Readers -> BOOLEAN]
  /\ stayed \in [Readers -> SUBSET Devices]
  /\ calm \in [Readers -> {"none", "added", "deleted", "both"}]
  /\ cut \in [Readers -> BOOLEAN] /\ endedAt \in 0..MaxNow /\ overlap \in BOOLEAN
  /\ requests \in 0..MaxRequests /\ changes \in 0..MaxChanges /\ faults \in 0..MaxFaults

Answered(r) == pc[r] = "done" /\ ok[r]

(* A report handed to a thread that did not make it was made at most       *)
(* MaxAge before the request, or its generation ended after it - unless    *)
(* two threads generated at once (the stamp of the slower makes the older  *)
(* data of the other look new), one threw (who waited for it copies the    *)
(* report before), or one stands between its stamp and its store, when the *)
(* stamp speaks for data that is not there yet.                            *)
CopiedIsRecent ==
  [][\A r \in Readers : Copy(r) /\ ~overlap /\ faults = 0 /\ (\A o \in Readers : pc[o] # "store")
       => DB + MaxAge >= at[r] \/ endedAt >= at[r]]_vars

(* Even with two threads at work, a thread that answers a valid report     *)
(* never hands out the empty DB_ of the start, as long as no generation    *)
(* throws.                                                                 *)
ServedIsReport ==
  \A r \in Readers : Answered(r) /\ faults = 0 => D[r] # 0

(* At its stamp a report has counted every device that was in the table    *)
(* all the time, unless a row was deleted meanwhile or a page failed, and  *)
(* none twice, unless a row was added: a delete shifts a row to a page     *)
(* already read, an added row shifts one to the next page.                 *)
CountedOnce ==
  \A r \in Readers : pc[r] = "stamp" =>
    /\ ~cut[r] /\ calm[r] \in {"none", "added"} => \A d \in stayed[r] : part[r][d] >= 1
    /\ calm[r] \in {"none", "deleted"} => \A d \in Devices : part[r][d] <= 1

(* While one thread generates at a time, nobody reads LastRun_ as the age  *)
(* of another report: whenever the report is valid, it is its stamp.       *)
StampIsOfReport == valid /\ ~overlap => lastRun = DB

(* An error is answered only when a generation has failed, or another      *)
(* thread is making the next report: Get looks at the flag after it has    *)
(* copied, so that a thread with a good report in hand may refuse it.      *)
RefusedForCause ==
  [][\A r \in Readers : Return(r) /\ ~ok'[r] =>
       faults > 0 \/ \E o \in Readers \ {r} : pc[o] \in {"page", "stamp", "store"}]_vars

(* Nobody waits for nobody: while the flag is set there is a thread that   *)
(* will clear it, whatever was thrown and however the threads overlapped.  *)
FlagHasOwner ==
  generating => \E r \in Readers : pc[r] \in {"invalidate", "page", "stamp", "store", "clear"}

(* The state invariants of the dashboard together: the variables hold what *)
(* they are meant to, no thread is handed the empty report, nobody waits   *)
(* for nobody, and the stamp is the one of the report.                     *)
ReportInvariant == ReportTypeOK /\ ServedIsReport /\ FlagHasOwner /\ StampIsOfReport
============================================================================
