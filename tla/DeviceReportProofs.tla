------------------------- MODULE DeviceReportProofs -------------------------
(***************************************************************************)
(* For any number of REST threads, rows, pages and faults: nobody waits    *)
(* for nobody, what is handed out is a report and recent enough, and its   *)
(* rows are counted once however the table changes while it is paged.      *)
(***************************************************************************)
EXTENDS DeviceReport, FiniteSetTheorems, FunctionTheorems, TLAPS

Below(T, d) == {e \in T : e <= d}
Rank(T, d) == Cardinality(Below(T, d))
Reading == {"page", "stamp"}
Serving == Reading \cup {"store"}

FlagsOK ==
  /\ generating \in BOOLEAN /\ valid \in BOOLEAN /\ overlap \in BOOLEAN
  /\ ok \in [Readers -> BOOLEAN] /\ cut \in [Readers -> BOOLEAN]

PlacesOK ==
  /\ table \subseteq Devices /\ now \in 1..MaxNow
  /\ lastRun \in 0..MaxNow /\ DB \in Reports /\ endedAt \in 0..MaxNow
  /\ pc \in [Readers -> Steps] /\ at \in [Readers -> 0..MaxNow] /\ D \in [Readers -> Reports]
  /\ calm \in [Readers -> {"none", "added", "deleted", "both"}]
  /\ requests \in 0..MaxRequests /\ changes \in 0..MaxChanges /\ faults \in 0..MaxFaults

(* Nobody waits for nobody, and threads that generate together are noted.  *)
OwnerOK ==
  /\ FlagHasOwner
  /\ overlap = FALSE => \A r, s \in Generators : r = s

(* Until a report is stored there is none to hand out, and who waits for a *)
(* generation waits until it is over.                                      *)
ServedOK ==
  /\ valid = TRUE => DB # 0
  /\ \A r \in Readers :
       /\ pc[r] = "age" => DB # 0
       /\ pc[r] = "wait" /\ faults = 0 => generating = TRUE \/ DB # 0
       /\ pc[r] \in {"copy", "return", "clear"} /\ faults = 0 => DB # 0
       /\ pc[r] = "store" => D[r] # 0
       /\ pc[r] \in {"return", "clear", "done"} /\ faults = 0 => D[r] # 0
  /\ valid = FALSE /\ DB # 0 /\ faults = 0 => \E r \in Readers : pc[r] \in Serving

(* The stamp and the report differ only between Stamp and Store.           *)
StampOK ==
  overlap = FALSE =>
    /\ (\A r \in Readers : pc[r] # "store") => lastRun = DB
    /\ \A r \in Readers : pc[r] \in Serving => valid = FALSE
    /\ \A r \in Readers : pc[r] = "store" => D[r] = lastRun

(* Who copies found the stamp young, or waited until a generation ended.   *)
RecentOK ==
  /\ lastRun <= now /\ endedAt <= now /\ \A r \in Readers : at[r] <= now
  /\ \A r \in Readers :
       /\ pc[r] = "wait" => generating = TRUE \/ endedAt >= at[r]
       /\ pc[r] = "copy" => lastRun + MaxAge >= at[r] \/ endedAt >= at[r]

(* What a thread has counted of the table so far: all rows up to its       *)
(* offset that were not added behind its back, and none of those beyond.   *)
AsNew(r) ==
  part[r] = Nothing /\ offset[r] = 0 /\ stayed[r] = {} /\ calm[r] = "none" /\ cut[r] = FALSE
OnlyRead(r) == \A d \in Devices : part[r][d] <= 1
OnlyBefore(r) == \A d \in table : part[r][d] >= 1 => Rank(table, d) <= offset[r]
AllRead(r) == \A d \in stayed[r] : part[r][d] >= 1
AllBefore(r) == \A d \in stayed[r] : part[r][d] >= 1 \/ Rank(table, d) > offset[r]
CountOf(r) ==
  /\ pc[r] \notin Reading => AsNew(r)
  /\ pc[r] \in Reading /\ calm[r] \in {"none", "deleted"} => OnlyRead(r)
  /\ pc[r] = "page" /\ calm[r] \in {"none", "deleted"} => OnlyBefore(r)
  /\ pc[r] = "page" => cut[r] = FALSE
  /\ pc[r] = "page" /\ calm[r] \in {"none", "added"} => AllBefore(r)
  /\ pc[r] = "stamp" /\ cut[r] = FALSE /\ calm[r] \in {"none", "added"} => AllRead(r)
CountOK ==
  /\ offset \in [Readers -> 0..Cardinality(Devices)] /\ part \in [Readers -> [Devices -> Nat]]
  /\ stayed \in [Readers -> SUBSET table]
  /\ \A r \in Readers : CountOf(r)

(* The inductive invariant. *)
Strong == FlagsOK /\ PlacesOK /\ OwnerOK /\ ServedOK /\ StampOK /\ RecentOK /\ CountOK

----------------------------------------------------------------------------
(* Pages of the table.  A row is on a page by its rank among the rows.     *)

(* There are no more rows than devices, and a rank is one of their number. *)
LEMMA RankBounds ==
  ASSUME NEW T \in SUBSET Devices
  PROVE  /\ IsFiniteSet(T) /\ Cardinality(T) \in Nat
         /\ Cardinality(Devices) \in Nat /\ Cardinality(T) <= Cardinality(Devices)
         /\ \A d \in T : IsFiniteSet(Below(T, d)) /\ Rank(T, d) \in 1..Cardinality(T)
<1>1. /\ IsFiniteSet(T) /\ Cardinality(T) \in Nat
      /\ Cardinality(Devices) \in Nat /\ Cardinality(T) <= Cardinality(Devices)
  BY ReportAssumption, FS_Subset, FS_CardinalityType
<1>2. ASSUME NEW d \in T PROVE IsFiniteSet(Below(T, d)) /\ Rank(T, d) \in 1..Cardinality(T)
  <2>1. Below(T, d) \in SUBSET T
    BY DEF Below
  <2>2. IsFiniteSet(Below(T, d)) /\ Cardinality(Below(T, d)) <= Cardinality(T)
    BY <1>1, <2>1, FS_Subset
  <2>3. d \in Below(T, d)
    BY ReportAssumption DEF Below
  <2>4. Cardinality(Below(T, d)) \in Nat /\ Cardinality(Below(T, d)) # 0
    BY <2>2, <2>3, FS_CardinalityType, FS_EmptySet
  <2> QED
    BY <1>1, <2>2, <2>4 DEF Rank
<1> QED
  BY <1>1, <1>2

(* No two rows have the same rank.                                         *)
LEMMA RankInjective ==
  ASSUME NEW T \in SUBSET Devices, NEW d \in T, NEW e \in T, Rank(T, d) = Rank(T, e)
  PROVE  d = e
<1>1. \A x, y \in T : x < y => Rank(T, x) # Rank(T, y)
  <2> SUFFICES ASSUME NEW x \in T, NEW y \in T, x < y, Rank(T, x) = Rank(T, y) PROVE FALSE
    OBVIOUS
  <2>1. x \in Nat /\ y \in Nat
    BY ReportAssumption
  <2>2. Below(T, x) \in SUBSET Below(T, y)
    <3> SUFFICES ASSUME NEW z \in T, z <= x PROVE z <= y
      BY DEF Below
    <3>1. z \in Nat
      BY ReportAssumption
    <3> QED
      BY <2>1, <3>1
  <2>3. y \in Below(T, y) /\ y \notin Below(T, x)
    BY <2>1 DEF Below
  <2>4. IsFiniteSet(Below(T, y))
    BY RankBounds
  <2>5. Below(T, y) = Below(T, x)
    BY <2>2, <2>4, FS_Subset DEF Rank
  <2> QED
    BY <2>3, <2>5
<1>2. d \in Nat /\ e \in Nat
  BY ReportAssumption
<1> QED
  BY <1>1, <1>2

(* There is a row of every rank up to their number.                        *)
LEMMA RankOfOne ==
  ASSUME NEW T \in SUBSET Devices, NEW k \in 1..Cardinality(T)
  PROVE  \E d \in T : Rank(T, d) = k
<1> DEFINE f == [d \in T |-> Rank(T, d)]
           all == 1..Cardinality(T)
<1>1. IsFiniteSet(T) /\ Cardinality(T) \in Nat
  BY RankBounds
<1>2. IsFiniteSet(all) /\ Cardinality(all) = Cardinality(T)
  BY <1>1, FS_Interval
<1>3. f \in Injection(T, all)
  <2>1. f \in [T -> all]
    BY RankBounds
  <2>2. \A a, b \in T : f[a] = f[b] => a = b
    BY RankInjective
  <2> QED
    BY <2>1, <2>2, Fun_IsInj
<1>4. f \in Surjection(T, all)
  BY <1>2, <1>3, FS_Injection
<1>5. \A t \in all : \E s \in T : f[s] = t
  BY <1>4 DEF Surjection, Range
<1> QED
  BY <1>5

(* A row that is added moves the others back, one that is deleted moves    *)
(* them forward.                                                           *)
LEMMA RankMoves ==
  ASSUME NEW T \in SUBSET Devices, NEW x \in Devices
  PROVE  /\ \A d \in T : Rank(T, d) <= Rank(T \cup {x}, d)
         /\ \A d \in T \ {x} : Rank(T \ {x}, d) <= Rank(T, d)
<1>1. T \cup {x} \in SUBSET Devices /\ T \ {x} \in SUBSET Devices
  OBVIOUS
<1>2. ASSUME NEW S \in SUBSET Devices, NEW U \in SUBSET S, NEW d \in U PROVE Rank(U, d) <= Rank(S, d)
  <2>1. Below(U, d) \in SUBSET Below(S, d)
    BY DEF Below
  <2>2. IsFiniteSet(Below(S, d))
    BY RankBounds
  <2> QED
    BY <2>1, <2>2, FS_Subset DEF Rank
<1>3. ASSUME NEW d \in T PROVE Rank(T, d) <= Rank(T \cup {x}, d)
  BY <1>1, <1>2
<1>4. ASSUME NEW d \in T \ {x} PROVE Rank(T \ {x}, d) <= Rank(T, d)
  BY <1>2
<1> QED
  BY <1>3, <1>4

(* A full page ends within the table, and a page beyond which there is a   *)
(* row is full.                                                            *)
LEMMA PageIsFull ==
  ASSUME table \in SUBSET Devices, NEW from \in Nat
  PROVE  /\ \A d \in table : d \in Page(from) <=> Rank(table, d) \in (from + 1)..(from + Batch)
         /\ Cardinality(Page(from)) = Batch => from + Batch <= Cardinality(Devices)
         /\ (\E d \in table : Rank(table, d) > from + Batch) => Cardinality(Page(from)) = Batch
<1> DEFINE few == (from + 1)..(from + Batch)
           f == [d \in Page(from) |-> Rank(table, d)]
<1>1. \A d \in table : d \in Page(from) <=> Rank(table, d) \in few
  BY DEF Page, Rank, Below
<1>2. /\ Batch \in Nat /\ Batch > 0
      /\ IsFiniteSet(few) /\ Cardinality(few) = Batch
  BY ReportAssumption, FS_Interval
<1>3. /\ Page(from) \subseteq table
      /\ Cardinality(table) \in Nat /\ Cardinality(Devices) \in Nat
      /\ Cardinality(table) <= Cardinality(Devices)
      /\ \A d \in table : Rank(table, d) \in 1..Cardinality(table)
  BY RankBounds DEF Page
<1>4. \A a, b \in Page(from) : f[a] = f[b] => a = b
  BY <1>3, RankInjective
<1>5. f \in Injection(Page(from), few)
  <2>1. f \in [Page(from) -> few]
    BY <1>1, <1>3
  <2> QED
    BY <1>4, <2>1, Fun_IsInj
<1>6. ASSUME Cardinality(Page(from)) = Batch PROVE from + Batch <= Cardinality(Devices)
  <2>1. f \in Surjection(Page(from), few)
    BY <1>2, <1>5, <1>6, FS_Injection
  <2>2. from + Batch \in few
    BY <1>2
  <2>3. PICK d \in Page(from) : Rank(table, d) = from + Batch
    BY <2>1, <2>2 DEF Surjection, Range
  <2> QED
    BY <1>2, <1>3, <2>3
<1>7. ASSUME NEW d \in table, Rank(table, d) > from + Batch PROVE Cardinality(Page(from)) = Batch
  <2>1. \A t \in few : \E s \in Page(from) : f[s] = t
    <3> TAKE t \in few
    <3>1. t \in 1..Cardinality(table)
      BY <1>2, <1>3, <1>7
    <3>2. PICK s \in table : Rank(table, s) = t
      BY <3>1, RankOfOne
    <3>3. s \in Page(from)
      BY <1>1, <3>2
    <3> QED
      BY <3>2, <3>3
  <2>2. f \in [Page(from) -> few]
    BY <1>1, <1>3
  <2>3. f \in Surjection(Page(from), few)
    BY <2>1, <2>2, Fun_IsSurj
  <2> QED
    BY <1>2, <1>5, <2>3, FS_Injection
<1> QED
  BY <1>1, <1>6, <1>7

----------------------------------------------------------------------------
(* Flags and places. *)

(* GeneratingDashboard_, ValidDashboard_ and what Get returns are Boolean. *)
LEMMA FlagsNext == FlagsOK /\ [Next]_vars => FlagsOK'
<1> SUFFICES ASSUME FlagsOK, [Next]_vars PROVE FlagsOK'
  OBVIOUS
<1>1. CASE UNCHANGED <<generating, valid, overlap, ok, cut>>
  BY <1>1 DEF FlagsOK
<1>2. ASSUME NEW r \in Readers, Request(r) \/ TestValid(r) \/ TestAge(r) \/ Copy(r) \/ Wait(r) \/ ReadPage(r)
      PROVE  FlagsOK'
  BY <1>1, <1>2 DEF Request, TestValid, TestAge, Copy, Wait, ReadPage, dashboard, history
<1>3. ASSUME NEW r \in Readers, Return(r) PROVE FlagsOK'
  BY <1>3, Zenon DEF FlagsOK, Return, dashboard, history
<1>4. ASSUME NEW r \in Readers, TestGenerating(r) PROVE FlagsOK'
  BY <1>4, Zenon DEF FlagsOK, TestGenerating, dashboard
<1>5. ASSUME NEW r \in Readers, Claim(r) \/ Invalidate(r) \/ Store(r) \/ Clear(r) PROVE FlagsOK'
  BY <1>5, Zenon DEF FlagsOK, Claim, Invalidate, Store, Clear, history
<1>6. ASSUME NEW r \in Readers, FailPage(r) \/ Throw(r) \/ Stamp(r) PROVE FlagsOK'
  BY <1>6, Zenon DEF FlagsOK, FailPage, Throw, Stamp, Leave, dashboard
<1>7. ASSUME NEW d \in Devices, AddRow(d) \/ DeleteRow(d) PROVE FlagsOK'
  BY <1>1, <1>7 DEF AddRow, DeleteRow, dashboard
<1>8. CASE Tick \/ UNCHANGED vars
  BY <1>1, <1>8 DEF Tick, vars, dashboard, history
<1> QED
  BY <1>2, <1>3, <1>4, <1>5, <1>6, <1>7, <1>8 DEF Next, GetStep, GenerateStep, Fault

(* The steps a thread can go to.                                           *)
LEMMA StepsAre ==
  Steps = {"idle", "valid", "age", "copy", "busy", "claim", "invalidate",
           "page", "stamp", "store", "clear", "wait", "return", "done"}
BY DEF Steps

(* A thread goes through the statements of Get and Generate, and the clock *)
(* and the counts stay within their bounds.                                *)
LEMMA PlacesNext == PlacesOK /\ [Next]_vars => PlacesOK'
<1> SUFFICES ASSUME PlacesOK, [Next]_vars PROVE PlacesOK'
  OBVIOUS
<1>0. /\ MaxNow \in Nat \ {0} /\ MaxRequests \in Nat /\ MaxChanges \in Nat /\ MaxFaults \in Nat
      /\ Reports = 0..MaxNow /\ now \in 0..MaxNow
  BY ReportAssumption DEF Reports, PlacesOK
<1>1. ASSUME NEW r \in Readers, NEW next \in Steps, Go(r, next) PROVE pc' \in [Readers -> Steps]
  BY <1>1 DEF PlacesOK, Go
<1>2. ASSUME NEW r \in Readers, TestValid(r) \/ TestAge(r) \/ Return(r) \/ TestGenerating(r) \/ Wait(r)
                                \/ Claim(r) \/ Invalidate(r) \/ ReadPage(r) \/ Clear(r)
      PROVE  PlacesOK'
  <2>1. pc' \in [Readers -> Steps]
    BY <1>1, <1>2, StepsAre DEF TestValid, TestAge, Return, TestGenerating, Wait, Claim, Invalidate,
      ReadPage, Clear
  <2>2. /\ UNCHANGED <<table, now, lastRun, DB, at, D, calm, requests, changes, faults>>
        /\ endedAt' \in {endedAt, now}
    BY <1>2 DEF TestValid, TestAge, Return, TestGenerating, Wait, Claim, Invalidate, ReadPage, Clear,
      dashboard, history, bounds
  <2> QED
    BY <1>0, <2>1, <2>2 DEF PlacesOK
<1>3. ASSUME NEW r \in Readers, Request(r) PROVE PlacesOK'
  <2>1. pc' \in [Readers -> Steps]
    BY <1>1, <1>3, StepsAre DEF Request
  <2>2. requests' \in 0..MaxRequests /\ at' \in [Readers -> 0..MaxNow] /\ D' \in [Readers -> Reports]
    BY <1>0, <1>3 DEF Request, PlacesOK, NoReport
  <2>3. UNCHANGED <<table, now, lastRun, DB, calm, endedAt, changes, faults>>
    BY <1>3 DEF Request, dashboard, history
  <2> QED
    BY <2>1, <2>2, <2>3 DEF PlacesOK
<1>4. ASSUME NEW r \in Readers, Copy(r) \/ Store(r) PROVE PlacesOK'
  <2>1. pc' \in [Readers -> Steps]
    BY <1>1, <1>4, StepsAre DEF Copy, Store
  <2>2. D' \in [Readers -> Reports] /\ DB' \in Reports
    BY <1>4 DEF Copy, Store, PlacesOK, dashboard
  <2>3. UNCHANGED <<table, now, lastRun, at, calm, endedAt, requests, changes, faults>>
    BY <1>4 DEF Copy, Store, dashboard, history, bounds
  <2> QED
    BY <2>1, <2>2, <2>3 DEF PlacesOK
<1>5. ASSUME NEW r \in Readers, FailPage(r) \/ Throw(r) \/ Stamp(r) PROVE PlacesOK'
  <2>1. pc' \in [Readers -> Steps]
    BY <1>1, <1>5, StepsAre DEF FailPage, Throw, Stamp
  <2>2. calm' \in [Readers -> {"none", "added", "deleted", "both"}]
    BY <1>5 DEF FailPage, Throw, Stamp, Leave, PlacesOK
  <2>3. D' \in [Readers -> Reports] /\ lastRun' \in 0..MaxNow
    BY <1>0, <1>5 DEF FailPage, Throw, Stamp, PlacesOK, dashboard
  <2>4. faults' \in 0..MaxFaults
    BY <1>0, <1>5 DEF FailPage, Throw, Stamp, PlacesOK, bounds
  <2>5. UNCHANGED <<table, now, DB, at, endedAt, requests, changes>>
    BY <1>5 DEF FailPage, Throw, Stamp, dashboard, bounds
  <2> QED
    BY <2>1, <2>2, <2>3, <2>4, <2>5 DEF PlacesOK
<1>6. ASSUME NEW d \in Devices, AddRow(d) \/ DeleteRow(d) PROVE PlacesOK'
  <2>1. calm' \in [Readers -> {"none", "added", "deleted", "both"}]
    BY <1>6 DEF AddRow, DeleteRow, Saw, PlacesOK
  <2>2. table' \subseteq Devices
    BY <1>6 DEF AddRow, DeleteRow, PlacesOK
  <2>3. changes' \in 0..MaxChanges
    BY <1>0, <1>6 DEF AddRow, DeleteRow, PlacesOK
  <2>4. UNCHANGED <<now, lastRun, DB, pc, at, D, endedAt, requests, faults>>
    BY <1>6 DEF AddRow, DeleteRow, dashboard
  <2> QED
    BY <2>1, <2>2, <2>3, <2>4 DEF PlacesOK
<1>7. CASE Tick
  <2>1. now' \in 1..MaxNow /\ UNCHANGED <<table, lastRun, DB, pc, at, D, calm, endedAt, requests, changes, faults>>
    BY <1>0, <1>7 DEF Tick, PlacesOK, dashboard, history, bounds
  <2> QED
    BY <2>1 DEF PlacesOK
<1>8. CASE UNCHANGED vars
  BY <1>8 DEF PlacesOK, vars, dashboard, history, bounds
<1> QED
  BY <1>2, <1>3, <1>4, <1>5, <1>6, <1>7, <1>8 DEF Next, GetStep, GenerateStep, Fault

----------------------------------------------------------------------------
(* Who generates. *)

(* One thread goes on, the others stay where they are.                     *)
LEMMA OneGoes ==
  ASSUME PlacesOK, NEW r \in Readers, NEW next, Go(r, next)
  PROVE  pc'[r] = next /\ \A o \in Readers \ {r} : pc'[o] = pc[o]
BY DEF PlacesOK, Go

(* The world outside the dashboard only changes the rows and the clock.    *)
World == Tick \/ (\E d \in Devices : AddRow(d) \/ DeleteRow(d)) \/ UNCHANGED vars
LEMMA WorldMoves ==
  ASSUME World
  PROVE  UNCHANGED <<dashboard, pc, at, D, ok, endedAt, overlap, faults>>
BY DEF World, Tick, AddRow, DeleteRow, vars, history, bounds

(* Owners of the flag. *)
Owners == {"invalidate", "page", "stamp", "store", "clear"}

(* The flag is set by one who will clear it, and who sets it beside        *)
(* another is noted.                                                       *)
LEMMA OwnerNext == FlagsOK /\ PlacesOK /\ OwnerOK /\ [Next]_vars => OwnerOK'
<1> SUFFICES ASSUME FlagsOK, PlacesOK, OwnerOK, [Next]_vars PROVE OwnerOK'
  OBVIOUS
<1>0. /\ generating = TRUE \/ generating = FALSE
      /\ overlap = TRUE \/ overlap = FALSE
      /\ generating = TRUE => \E r \in Readers : pc[r] \in Owners
      /\ overlap = FALSE => \A r, s \in Generators : r = s
      /\ Generators = {r \in Readers : pc[r] = "claim" \/ pc[r] \in Owners}
  <2>1. (generating = TRUE \/ generating = FALSE) /\ (overlap = TRUE \/ overlap = FALSE)
    BY Zenon DEF FlagsOK
  <2> QED
    BY <2>1 DEF OwnerOK, FlagHasOwner, Generators, Owners
<1>1. ASSUME generating' = TRUE => \E r \in Readers : pc'[r] \in Owners,
             overlap' = FALSE =>
               \A r, s \in Readers : pc'[r] \in Owners \cup {"claim"} /\ pc'[s] \in Owners \cup {"claim"} => r = s
      PROVE  OwnerOK'
  <2>1. generating' = TRUE \/ generating' = FALSE
    BY FlagsNext, Zenon DEF FlagsOK
  <2> QED
    BY <1>1, <2>1 DEF OwnerOK, FlagHasOwner, Generators, Owners
<1>2. ASSUME UNCHANGED <<generating, overlap>>,
             \A o \in Readers : pc'[o] \in Owners <=> pc[o] \in Owners,
             \A o \in Readers : pc'[o] = "claim" => pc[o] = "claim"
      PROVE  OwnerOK'
  BY <1>0, <1>1, <1>2
<1>3. CASE World
  BY <1>2, <1>3, WorldMoves DEF dashboard
<1>4. ASSUME NEW r \in Readers, Request(r) \/ TestValid(r) \/ TestAge(r) \/ Copy(r) \/ Return(r) \/ Wait(r)
      PROVE  OwnerOK'
  <2>1. UNCHANGED <<generating, overlap>>
    BY <1>4 DEF Request, TestValid, TestAge, Copy, Return, Wait, dashboard, history
  <2>2. /\ pc[r] \notin Owners /\ pc'[r] \notin Owners \cup {"claim"}
        /\ \A o \in Readers \ {r} : pc'[o] = pc[o]
    BY <1>4, OneGoes DEF Request, TestValid, TestAge, Copy, Return, Wait, Owners
  <2> QED
    BY <1>2, <2>1, <2>2
<1>5. ASSUME NEW r \in Readers, Invalidate(r) \/ ReadPage(r) \/ FailPage(r) \/ Throw(r) \/ Stamp(r) \/ Store(r)
      PROVE  OwnerOK'
  <2>1. UNCHANGED <<generating, overlap>>
    BY <1>5 DEF Invalidate, ReadPage, FailPage, Throw, Stamp, Store, dashboard, history
  <2>2. /\ pc[r] \in Owners /\ pc'[r] \in Owners /\ pc'[r] # "claim"
        /\ \A o \in Readers \ {r} : pc'[o] = pc[o]
    BY <1>5, OneGoes DEF Invalidate, ReadPage, FailPage, Throw, Stamp, Store, Owners
  <2> QED
    BY <1>2, <2>1, <2>2
<1>6. ASSUME NEW r \in Readers, TestGenerating(r) PROVE OwnerOK'
  <2>1. /\ generating' = generating /\ pc[r] = "busy"
        /\ overlap' = (overlap \/ (~generating /\ Generators # {}))
        /\ Go(r, IF generating THEN "wait" ELSE "claim")
    BY <1>6 DEF TestGenerating, dashboard
  <2>2. \A o \in Readers \ {r} : pc'[o] = pc[o]
    BY <2>1, OneGoes
  <2>3. CASE generating = TRUE
    <3>1. pc'[r] = "wait" /\ overlap' = overlap
      BY <1>0, <2>1, <2>3, OneGoes
    <3> QED
      BY <1>2, <2>1, <2>2, <3>1 DEF Owners
  <2>4. CASE generating = FALSE
    <3>1. overlap' = FALSE => overlap = FALSE /\ Generators = {}
      BY <1>0, <2>1, <2>4
    <3>2. overlap' = FALSE => \A o \in Readers : pc[o] \notin Owners \cup {"claim"}
      BY <1>0, <3>1
    <3> QED
      BY <1>1, <2>1, <2>2, <2>4, <3>2
  <2> QED
    BY <1>0, <2>3, <2>4
<1>7. ASSUME NEW r \in Readers, Claim(r) PROVE OwnerOK'
  <2>1. overlap' = overlap /\ pc[r] = "claim" /\ pc'[r] \in Owners /\ \A o \in Readers \ {r} : pc'[o] = pc[o]
    BY <1>7, OneGoes DEF Claim, history, Owners
  <2> QED
    BY <1>0, <1>1, <2>1
<1>8. ASSUME NEW r \in Readers, Clear(r) PROVE OwnerOK'
  <2>1. /\ generating' = FALSE /\ overlap' = overlap /\ pc'[r] \notin Owners \cup {"claim"}
        /\ \A o \in Readers \ {r} : pc'[o] = pc[o]
    BY <1>8, OneGoes DEF Clear, Owners
  <2> QED
    BY <1>0, <1>1, <2>1
<1> QED
  BY <1>1, <1>3, <1>4, <1>5, <1>6, <1>7, <1>8 DEF Next, GetStep, GenerateStep, Fault, World

----------------------------------------------------------------------------
(* What is handed out. *)

(* A report is in hand, or made, before a thread returns.                  *)
LEMMA ServedNext == FlagsOK /\ PlacesOK /\ ServedOK /\ [Next]_vars => ServedOK'
<1> SUFFICES ASSUME FlagsOK, PlacesOK, ServedOK, [Next]_vars PROVE ServedOK'
  OBVIOUS
<1> USE DEF ServedOK, Serving, Reading
<1>0. /\ generating = TRUE \/ generating = FALSE
      /\ valid = TRUE \/ valid = FALSE
      /\ now # 0 /\ faults \in Nat /\ pc \in [Readers -> Steps] /\ D \in [Readers -> Reports]
  <2>1. (generating = TRUE \/ generating = FALSE) /\ (valid = TRUE \/ valid = FALSE)
    BY Zenon DEF FlagsOK
  <2> QED
    BY <2>1, ReportAssumption DEF PlacesOK
<1>1. CASE World
  <2>1. UNCHANGED <<pc, generating, valid, DB, D, faults>>
    BY <1>1, WorldMoves DEF dashboard
  <2> QED
    BY <2>1
<1>2. ASSUME NEW r \in Readers, Request(r) PROVE ServedOK'
  <2>1. /\ UNCHANGED <<generating, valid, DB, faults>> /\ pc[r] \in {"idle", "done"} /\ pc'[r] = "valid"
        /\ \A o \in Readers \ {r} : pc'[o] = pc[o] /\ D'[o] = D[o]
    BY <1>0, <1>2, OneGoes DEF Request, dashboard
  <2> QED
    BY <2>1
<1>3. ASSUME NEW r \in Readers, TestValid(r) \/ TestAge(r) \/ Wait(r) \/ Return(r) \/ TestGenerating(r)
                                \/ Claim(r) \/ ReadPage(r)
      PROVE  ServedOK'
  <2>1. /\ UNCHANGED <<valid, DB, faults, D>> /\ \A o \in Readers \ {r} : pc'[o] = pc[o]
    BY <1>3, OneGoes DEF TestValid, TestAge, Wait, Return, TestGenerating, Claim, ReadPage, dashboard, bounds
  <2>2. ASSUME TestValid(r) PROVE ServedOK'
    <3>1. /\ generating' = generating /\ pc[r] = "valid" /\ pc'[r] = (IF valid THEN "age" ELSE "busy")
      BY <2>2, OneGoes DEF TestValid, dashboard
    <3> QED
      BY <1>0, <2>1, <3>1
  <2>3. ASSUME TestAge(r) PROVE ServedOK'
    <3>1. /\ generating' = generating /\ pc[r] = "age" /\ pc'[r] \in {"busy", "copy"}
      BY <2>3, OneGoes DEF TestAge, dashboard
    <3> QED
      BY <1>0, <2>1, <3>1
  <2>4. ASSUME Wait(r) PROVE ServedOK'
    <3>1. /\ generating' = generating /\ pc[r] = "wait" /\ ~generating /\ pc'[r] = "copy"
      BY <2>4, OneGoes DEF Wait, dashboard
    <3> QED
      BY <1>0, <2>1, <3>1
  <2>5. ASSUME Return(r) PROVE ServedOK'
    <3>1. /\ generating' = generating /\ pc[r] = "return" /\ pc'[r] = "done"
      BY <2>5, OneGoes DEF Return, dashboard
    <3> QED
      BY <1>0, <2>1, <3>1
  <2>6. ASSUME TestGenerating(r) PROVE ServedOK'
    <3>1. /\ generating' = generating /\ pc[r] = "busy" /\ pc'[r] = IF generating THEN "wait" ELSE "claim"
      BY <2>6, OneGoes DEF TestGenerating, dashboard
    <3> QED
      BY <1>0, <2>1, <3>1
  <2>7. ASSUME Claim(r) PROVE ServedOK'
    <3>1. /\ generating' = TRUE /\ pc[r] = "claim" /\ pc'[r] = "invalidate"
      BY <2>7, OneGoes DEF Claim
    <3> QED
      BY <1>0, <2>1, <3>1
  <2>8. ASSUME ReadPage(r) PROVE ServedOK'
    <3>1. /\ generating' = generating /\ pc[r] = "page" /\ pc'[r] \in {"page", "stamp"}
      BY <2>8, OneGoes DEF ReadPage, dashboard
    <3> QED
      BY <1>0, <2>1, <3>1
  <2> QED
    BY <1>3, <2>2, <2>3, <2>4, <2>5, <2>6, <2>7, <2>8
<1>4. ASSUME NEW r \in Readers, Copy(r) PROVE ServedOK'
  <2>1. /\ UNCHANGED <<generating, valid, DB, faults>> /\ pc[r] = "copy" /\ pc'[r] = "return" /\ D'[r] = DB
        /\ \A o \in Readers \ {r} : pc'[o] = pc[o] /\ D'[o] = D[o]
    BY <1>0, <1>4, OneGoes DEF Copy, dashboard, bounds
  <2> QED
    BY <1>0, <2>1
<1>5. ASSUME NEW r \in Readers, Invalidate(r) PROVE ServedOK'
  <2>1. /\ UNCHANGED <<generating, DB, D, faults>> /\ valid' = FALSE /\ pc[r] = "invalidate" /\ pc'[r] = "page"
        /\ \A o \in Readers \ {r} : pc'[o] = pc[o]
    BY <1>5, OneGoes DEF Invalidate, bounds
  <2> QED
    BY <1>0, <2>1
<1>6. ASSUME NEW r \in Readers, FailPage(r) \/ Throw(r) PROVE ServedOK'
  <2>1. /\ UNCHANGED <<generating, valid, DB, D>> /\ faults' # 0
        /\ pc[r] = "page" /\ pc'[r] \in {"stamp", "clear"}
        /\ \A o \in Readers \ {r} : pc'[o] = pc[o]
    BY <1>0, <1>6, OneGoes DEF FailPage, Throw, dashboard
  <2> QED
    BY <1>0, <2>1
<1>7. ASSUME NEW r \in Readers, Stamp(r) PROVE ServedOK'
  <2>1. /\ UNCHANGED <<generating, valid, DB, faults>> /\ pc[r] = "stamp" /\ pc'[r] = "store" /\ D'[r] = now
        /\ \A o \in Readers \ {r} : pc'[o] = pc[o] /\ D'[o] = D[o]
    BY <1>0, <1>7, OneGoes DEF Stamp, bounds
  <2> QED
    BY <1>0, <2>1
<1>8. ASSUME NEW r \in Readers, Store(r) PROVE ServedOK'
  <2>1. /\ UNCHANGED <<generating, D, faults>> /\ valid' = TRUE /\ DB' = D[r]
        /\ pc[r] = "store" /\ pc'[r] = "clear"
        /\ \A o \in Readers \ {r} : pc'[o] = pc[o]
    BY <1>8, OneGoes DEF Store, bounds
  <2> QED
    BY <1>0, <2>1
<1>9. ASSUME NEW r \in Readers, Clear(r) PROVE ServedOK'
  <2>1. /\ UNCHANGED <<valid, DB, D, faults>> /\ generating' = FALSE
        /\ pc[r] = "clear" /\ pc'[r] = "return"
        /\ \A o \in Readers \ {r} : pc'[o] = pc[o]
    BY <1>9, OneGoes DEF Clear, bounds
  <2> QED
    BY <1>0, <2>1
<1> QED
  BY <1>1, <1>2, <1>3, <1>4, <1>5, <1>6, <1>7, <1>8, <1>9 DEF Next, GetStep, GenerateStep, Fault, World

(* A remainder is what is left after taking the modulus away once.         *)
LEMMA Wraps ==
  ASSUME NEW n \in Nat, NEW w \in Nat \ {0}, n < w
  PROVE  (n + w) % w = n
<1>1. n % w = n /\ (n + w) % w = n % w
  OBVIOUS
<1> QED
  BY <1>1

(* The age of a stamp that is not in the future is their difference.       *)
LEMMA SinceIs ==
  ASSUME NEW u \in 0..MaxNow, NEW v \in 0..MaxNow, v <= u
  PROVE  Since(u, v) = u - v
<1>1. /\ MaxNow \in Nat \ {0} /\ MaxAge \in Nat /\ Word \in Nat
      /\ MaxAge < Word /\ MaxNow < Word - MaxAge
  BY ReportAssumption
<1>2. u - v \in Nat /\ u - v < Word /\ Word \in Nat \ {0} /\ u + Word - v = (u - v) + Word
  BY <1>1
<1>3. ((u - v) + Word) % Word = u - v
  BY <1>2, Wraps
<1> QED
  BY <1>2, <1>3 DEF Since

(* Only the one thread that generates moves the stamp, and it stores the   *)
(* report to it before anyone may read both.                               *)
LEMMA StampNext == FlagsOK /\ PlacesOK /\ OwnerOK /\ StampOK /\ [Next]_vars => StampOK'
<1> SUFFICES ASSUME FlagsOK, PlacesOK, OwnerOK, StampOK, [Next]_vars PROVE StampOK'
  OBVIOUS
<1> USE DEF Serving, Reading
<1>0. /\ overlap = TRUE \/ overlap = FALSE
      /\ D \in [Readers -> Reports]
      /\ overlap = FALSE =>
           \A r, s \in Readers : pc[r] \in Owners \cup {"claim"} /\ pc[s] \in Owners \cup {"claim"} => r = s
  <2>1. overlap = TRUE \/ overlap = FALSE
    BY Zenon DEF FlagsOK
  <2> QED
    BY <2>1 DEF PlacesOK, OwnerOK, Generators, Owners
<1>1. ASSUME NEW r \in Readers, UNCHANGED <<overlap, valid, lastRun, DB>>,
             pc[r] # "store", pc'[r] \notin {"store"},
             pc'[r] \in Serving => pc[r] \in Serving,
             \A o \in Readers \ {r} : pc'[o] = pc[o] /\ D'[o] = D[o]
      PROVE  StampOK'
  BY <1>1 DEF StampOK
<1>2. CASE World
  <2>1. UNCHANGED <<pc, valid, overlap, lastRun, DB, D>>
    BY <1>2, WorldMoves DEF dashboard
  <2> QED
    BY <2>1 DEF StampOK
<1>3. ASSUME NEW r \in Readers,
             Request(r) \/ TestValid(r) \/ TestAge(r) \/ Copy(r) \/ Wait(r) \/ Return(r) \/ Claim(r)
               \/ ReadPage(r) \/ FailPage(r) \/ Throw(r) \/ Clear(r)
      PROVE  StampOK'
  <2>1. UNCHANGED <<overlap, valid, lastRun, DB>>
    BY <1>3 DEF Request, TestValid, TestAge, Copy, Wait, Return, Claim, ReadPage, FailPage, Throw, Clear,
      dashboard, history
  <2>2. /\ pc[r] # "store" /\ pc'[r] # "store" /\ (pc'[r] \in Serving => pc[r] \in Serving)
        /\ \A o \in Readers \ {r} : pc'[o] = pc[o]
    BY <1>3, OneGoes DEF Request, TestValid, TestAge, Copy, Wait, Return, Claim, ReadPage, FailPage, Throw,
      Clear
  <2>3. \A o \in Readers \ {r} : D'[o] = D[o]
    BY <1>0, <1>3 DEF Request, TestValid, TestAge, Copy, Wait, Return, Claim, ReadPage, FailPage, Throw, Clear
  <2> QED
    BY <1>1, <2>1, <2>2, <2>3
<1>4. ASSUME NEW r \in Readers, TestGenerating(r) PROVE StampOK'
  <2>1. UNCHANGED <<valid, lastRun, DB, D>> /\ pc[r] = "busy" /\ pc'[r] \in {"wait", "claim"}
        /\ \A o \in Readers \ {r} : pc'[o] = pc[o]
    BY <1>4, OneGoes DEF TestGenerating, dashboard
  <2>2. overlap' = FALSE => overlap = FALSE
    BY <1>0, <1>4 DEF TestGenerating
  <2> QED
    BY <2>1, <2>2 DEF StampOK
<1>5. ASSUME NEW r \in Readers, Invalidate(r) PROVE StampOK'
  <2>1. UNCHANGED <<overlap, lastRun, DB, D>> /\ valid' = FALSE /\ pc[r] = "invalidate" /\ pc'[r] = "page"
        /\ \A o \in Readers \ {r} : pc'[o] = pc[o]
    BY <1>5, OneGoes DEF Invalidate
  <2> QED
    BY <2>1 DEF StampOK
<1>6. ASSUME NEW r \in Readers, Stamp(r) PROVE StampOK'
  <2>1. UNCHANGED <<overlap, valid, DB>> /\ lastRun' = now /\ D'[r] = now
        /\ pc[r] = "stamp" /\ pc'[r] = "store"
        /\ \A o \in Readers \ {r} : pc'[o] = pc[o]
    BY <1>0, <1>6, OneGoes DEF Stamp
  <2>2. overlap = FALSE => \A o \in Readers \ {r} : pc[o] \notin Owners
    BY <1>0, <2>1 DEF Owners
  <2> QED
    BY <2>1, <2>2 DEF StampOK, Owners
<1>7. ASSUME NEW r \in Readers, Store(r) PROVE StampOK'
  <2>1. UNCHANGED <<overlap, lastRun, D>> /\ valid' = TRUE /\ DB' = D[r]
        /\ pc[r] = "store" /\ pc'[r] = "clear"
        /\ \A o \in Readers \ {r} : pc'[o] = pc[o]
    BY <1>0, <1>7, OneGoes DEF Store, history
  <2>2. overlap = FALSE => \A o \in Readers \ {r} : pc[o] \notin Owners
    BY <1>0, <2>1 DEF Owners
  <2> QED
    BY <2>1, <2>2 DEF StampOK, Owners
<1> QED
  BY <1>2, <1>3, <1>4, <1>5, <1>6, <1>7 DEF Next, GetStep, GenerateStep, Fault, World

(* The clock never runs back, so that a stamp that was young enough for a  *)
(* request, and a generation that ended after it, stay so.                 *)
LEMMA RecentNext == FlagsOK /\ PlacesOK /\ RecentOK /\ [Next]_vars => RecentOK'
<1> SUFFICES ASSUME FlagsOK, PlacesOK, RecentOK, [Next]_vars PROVE RecentOK'
  OBVIOUS
<1>0. /\ generating = TRUE \/ generating = FALSE
      /\ MaxNow \in Nat /\ MaxAge \in Nat /\ now \in Nat /\ now \in 0..MaxNow /\ lastRun \in Nat /\ endedAt \in Nat
      /\ at \in [Readers -> Nat] /\ at \in [Readers -> 0..MaxNow] /\ lastRun \in 0..MaxNow
      /\ lastRun <= now /\ endedAt <= now /\ \A r \in Readers : at[r] <= now
      /\ \A r \in Readers : pc[r] = "wait" => generating = TRUE \/ endedAt >= at[r]
      /\ \A r \in Readers : pc[r] = "copy" => lastRun + MaxAge >= at[r] \/ endedAt >= at[r]
  <2>1. generating = TRUE \/ generating = FALSE
    BY Zenon DEF FlagsOK
  <2> QED
    BY <2>1, ReportAssumption DEF PlacesOK, RecentOK
<1>1. ASSUME NEW r \in Readers, UNCHANGED <<now, lastRun, endedAt, generating, at>>,
             pc'[r] \notin {"wait", "copy"}, \A o \in Readers \ {r} : pc'[o] = pc[o]
      PROVE  RecentOK'
  BY <1>0, <1>1 DEF RecentOK
<1>2. CASE World
  <2>1. /\ UNCHANGED <<pc, generating, lastRun, endedAt, at>> /\ now' \in Nat /\ now <= now'
    BY <1>0, <1>2, WorldMoves DEF World, Tick, AddRow, DeleteRow, vars, dashboard
  <2>2. \A r \in Readers : at[r] <= now'
    BY <1>0, <2>1
  <2> QED
    BY <1>0, <2>1, <2>2 DEF RecentOK
<1>3. ASSUME NEW r \in Readers,
             TestValid(r) \/ Copy(r) \/ Return(r) \/ Invalidate(r) \/ ReadPage(r) \/ FailPage(r) \/ Throw(r)
               \/ Store(r)
      PROVE  RecentOK'
  <2>1. UNCHANGED <<now, lastRun, endedAt, generating, at>>
    BY <1>3 DEF TestValid, Copy, Return, Invalidate, ReadPage, FailPage, Throw, Store, dashboard, history
  <2>2. /\ pc'[r] \notin {"wait", "copy"} /\ \A o \in Readers \ {r} : pc'[o] = pc[o]
    BY <1>3, OneGoes DEF TestValid, Copy, Return, Invalidate, ReadPage, FailPage, Throw, Store
  <2> QED
    BY <1>1, <2>1, <2>2
<1>4. ASSUME NEW r \in Readers, Request(r) PROVE RecentOK'
  <2>1. /\ UNCHANGED <<now, lastRun, endedAt, generating>> /\ pc'[r] = "valid"
        /\ \A o \in Readers \ {r} : pc'[o] = pc[o]
    BY <1>4, OneGoes DEF Request, dashboard, history
  <2>2. at'[r] = now /\ \A o \in Readers \ {r} : at'[o] = at[o]
    BY <1>0, <1>4 DEF Request
  <2> QED
    BY <1>0, <2>1, <2>2 DEF RecentOK
<1>5. ASSUME NEW r \in Readers, TestAge(r) PROVE RecentOK'
  <2>1. /\ UNCHANGED <<now, lastRun, endedAt, generating, at>>
        /\ pc'[r] = IF lastRun = 0 \/ Since(at[r], lastRun) > MaxAge THEN "busy" ELSE "copy"
        /\ \A o \in Readers \ {r} : pc'[o] = pc[o]
    BY <1>5, OneGoes DEF TestAge, dashboard, history
  <2>2. CASE pc'[r] = "busy"
    BY <1>1, <2>1, <2>2
  <2>3. CASE ~(Since(at[r], lastRun) > MaxAge)
    <3>1. CASE lastRun <= at[r]
      <4>1. Since(at[r], lastRun) = at[r] - lastRun
        BY <1>0, <3>1, SinceIs
      <4>2. lastRun + MaxAge >= at[r]
        BY <1>0, <2>3, <3>1, <4>1
      <4> QED
        BY <1>0, <2>1, <4>2 DEF RecentOK
    <3>2. CASE lastRun > at[r]
      <4>1. lastRun + MaxAge >= at[r]
        BY <1>0, <3>2
      <4> QED
        BY <1>0, <2>1, <4>1 DEF RecentOK
    <3> QED
      BY <1>0, <3>1, <3>2
  <2> QED
    BY <2>1, <2>2, <2>3
<1>6. ASSUME NEW r \in Readers, TestGenerating(r) PROVE RecentOK'
  <2>1. /\ UNCHANGED <<now, lastRun, endedAt, generating, at>>
        /\ pc'[r] = IF generating THEN "wait" ELSE "claim"
        /\ \A o \in Readers \ {r} : pc'[o] = pc[o]
    BY <1>6, OneGoes DEF TestGenerating, dashboard
  <2> QED
    BY <1>0, <2>1 DEF RecentOK
<1>7. ASSUME NEW r \in Readers, Wait(r) PROVE RecentOK'
  <2>1. /\ UNCHANGED <<now, lastRun, endedAt, generating, at>> /\ pc[r] = "wait" /\ ~generating
        /\ pc'[r] = "copy" /\ \A o \in Readers \ {r} : pc'[o] = pc[o]
    BY <1>7, OneGoes DEF Wait, dashboard, history
  <2> QED
    BY <1>0, <2>1 DEF RecentOK
<1>8. ASSUME NEW r \in Readers, Claim(r) PROVE RecentOK'
  <2>1. /\ UNCHANGED <<now, lastRun, endedAt, at>> /\ generating' = TRUE
        /\ pc'[r] = "invalidate" /\ \A o \in Readers \ {r} : pc'[o] = pc[o]
    BY <1>8, OneGoes DEF Claim, history
  <2> QED
    BY <1>0, <2>1 DEF RecentOK
<1>9. ASSUME NEW r \in Readers, Stamp(r) PROVE RecentOK'
  <2>1. /\ UNCHANGED <<now, endedAt, generating, at>> /\ lastRun' = now
        /\ pc'[r] = "store" /\ \A o \in Readers \ {r} : pc'[o] = pc[o]
    BY <1>9, OneGoes DEF Stamp
  <2>2. \A o \in Readers : now + MaxAge >= at[o]
    BY <1>0
  <2> QED
    BY <1>0, <2>1, <2>2 DEF RecentOK
<1>10. ASSUME NEW r \in Readers, Clear(r) PROVE RecentOK'
  <2>1. /\ UNCHANGED <<now, lastRun, at>> /\ generating' = FALSE /\ endedAt' = now
        /\ pc'[r] = "return" /\ \A o \in Readers \ {r} : pc'[o] = pc[o]
    BY <1>10, OneGoes DEF Clear
  <2>2. \A o \in Readers : now >= at[o]
    BY <1>0
  <2> QED
    BY <1>0, <2>1, <2>2 DEF RecentOK
<1> QED
  BY <1>2, <1>3, <1>4, <1>5, <1>6, <1>7, <1>8, <1>9, <1>10 DEF Next, GetStep, GenerateStep, Fault, World

----------------------------------------------------------------------------
(* What is counted. *)

(* A thread that does not read, or of which nothing changes, counts as     *)
(* before.                                                                 *)
LEMMA CountSame ==
  ASSUME NEW r \in Readers, CountOf(r), table' = table,
         part'[r] = part[r], offset'[r] = offset[r], stayed'[r] = stayed[r], calm'[r] = calm[r],
         cut'[r] = cut[r],
         pc'[r] = pc[r] \/ (pc[r] \notin Reading /\ pc'[r] \notin Reading)
  PROVE  CountOf(r)'
BY DEF CountOf, AsNew, OnlyRead, OnlyBefore, AllRead, AllBefore, Reading

(* The next page holds rows that were not read before, and the last page   *)
(* leaves none behind.                                                     *)
LEMMA CountOfPage ==
  ASSUME PlacesOK, CountOK, NEW r \in Readers, ReadPage(r)
  PROVE  /\ part' \in [Readers -> [Devices -> Nat]] /\ offset' \in [Readers -> 0..Cardinality(Devices)]
         /\ CountOf(r)'
<1> DEFINE got == Page(offset[r])
           more == Cardinality(got) = Batch
<1>0. /\ Batch \in Nat \ {0} /\ Cardinality(Devices) \in Nat /\ table \in SUBSET Devices
      /\ offset \in [Readers -> 0..Cardinality(Devices)] /\ offset[r] \in Nat
      /\ part \in [Readers -> [Devices -> Nat]] /\ stayed[r] \subseteq table
      /\ \A d \in table : Rank(table, d) \in Nat
  <2>1. table \in SUBSET Devices
    BY DEF PlacesOK
  <2>2. Cardinality(table) \in Nat /\ \A d \in table : Rank(table, d) \in 1..Cardinality(table)
    BY <2>1, RankBounds
  <2>3. Cardinality(Devices) \in Nat
    BY <2>1, RankBounds
  <2>4. \A d \in table : Rank(table, d) \in Nat
    BY <2>2
  <2> QED
    BY <2>1, <2>3, <2>4, ReportAssumption DEF CountOK
<1>1. /\ pc[r] = "page" /\ UNCHANGED <<table, stayed, calm, cut>>
      /\ part' = [part EXCEPT ![r] = [d \in Devices |-> @[d] + (IF d \in got THEN 1 ELSE 0)]]
      /\ offset' = [offset EXCEPT ![r] = IF more THEN @ + Batch ELSE @]
      /\ pc'[r] = IF more THEN "page" ELSE "stamp"
  BY OneGoes DEF ReadPage, Count, history
<1>2. /\ \A d \in table : d \in got <=> Rank(table, d) \in (offset[r] + 1)..(offset[r] + Batch)
      /\ got \subseteq table
      /\ more => offset[r] + Batch <= Cardinality(Devices)
      /\ (\E d \in table : Rank(table, d) > offset[r] + Batch) => more
  BY <1>0, PageIsFull DEF Page
<1>3. \A d \in Devices : part'[r][d] = part[r][d] + (IF d \in got THEN 1 ELSE 0) /\ part[r][d] \in Nat
  BY <1>0, <1>1
<1>4. part' \in [Readers -> [Devices -> Nat]]
  BY <1>0, <1>1
<1>5. /\ offset' \in [Readers -> 0..Cardinality(Devices)]
      /\ offset'[r] = IF more THEN offset[r] + Batch ELSE offset[r]
  BY <1>0, <1>1, <1>2
<1>6. /\ calm[r] \in {"none", "deleted"} => OnlyRead(r) /\ OnlyBefore(r)
      /\ calm[r] \in {"none", "added"} => AllBefore(r)
      /\ cut[r] = FALSE
  BY <1>1 DEF CountOK, CountOf, Reading
<1>7. ASSUME calm[r] \in {"none", "deleted"} PROVE OnlyRead(r)'
  <2> SUFFICES ASSUME NEW d \in Devices PROVE part'[r][d] <= 1
    BY DEF OnlyRead
  <2>1. CASE d \in got
    <3>1. d \in table /\ Rank(table, d) > offset[r]
      BY <1>0, <1>2, <2>1
    <3>2. ~(part[r][d] >= 1)
      BY <1>0, <1>6, <1>7, <3>1 DEF OnlyBefore
    <3> QED
      BY <1>3, <2>1, <3>2
  <2>2. CASE d \notin got
    BY <1>3, <1>6, <1>7, <2>2 DEF OnlyRead
  <2> QED
    BY <2>1, <2>2
<1>8. ASSUME calm[r] \in {"none", "deleted"}, more PROVE OnlyBefore(r)'
  <2> SUFFICES ASSUME NEW d \in table, part'[r][d] >= 1 PROVE Rank(table, d) <= offset[r] + Batch
    BY <1>1, <1>5, <1>8 DEF OnlyBefore
  <2>1. CASE d \in got
    BY <1>0, <1>2, <2>1
  <2>2. CASE d \notin got
    <3>1. Rank(table, d) <= offset[r]
      BY <1>0, <1>3, <1>6, <1>8, <2>2 DEF OnlyBefore
    <3> QED
      BY <1>0, <3>1
  <2> QED
    BY <2>1, <2>2
<1>9. ASSUME calm[r] \in {"none", "added"}, NEW d \in stayed[r]
      PROVE  part'[r][d] >= 1 \/ (more /\ Rank(table, d) > offset[r] + Batch)
  <2>1. d \in table /\ d \in Devices /\ (part[r][d] >= 1 \/ Rank(table, d) > offset[r])
    BY <1>0, <1>6, <1>9 DEF AllBefore
  <2>2. CASE d \in got \/ part[r][d] >= 1
    BY <1>3, <2>1, <2>2
  <2>3. CASE d \notin got /\ Rank(table, d) > offset[r]
    <3>1. Rank(table, d) > offset[r] + Batch
      BY <1>0, <1>2, <2>1, <2>3
    <3> QED
      BY <1>2, <2>1, <3>1
  <2> QED
    BY <2>1, <2>2, <2>3
<1>10. CASE more
  <2>1. pc'[r] = "page" /\ offset'[r] = offset[r] + Batch
    BY <1>1, <1>5, <1>10
  <2>2. calm[r] \in {"none", "added"} => AllBefore(r)'
    BY <1>1, <1>9, <2>1 DEF AllBefore
  <2>3. CountOf(r)'
    BY <1>1, <1>6, <1>7, <1>8, <1>10, <2>1, <2>2 DEF CountOf, Reading
  <2> QED
    BY <1>4, <1>5, <2>3
<1>11. CASE ~more
  <2>1. pc'[r] = "stamp"
    BY <1>1, <1>11
  <2>2. calm[r] \in {"none", "added"} => AllRead(r)'
    BY <1>1, <1>9, <1>11 DEF AllRead
  <2>3. CountOf(r)'
    BY <1>1, <1>7, <2>1, <2>2 DEF CountOf, Reading
  <2> QED
    BY <1>4, <1>5, <2>3
<1> QED
  BY <1>10, <1>11

(* A row that is added moves no row that has not been read to a page that  *)
(* has, one that is deleted moves none that has to a page that has not.    *)
LEMMA CountOfRows ==
  ASSUME PlacesOK, CountOK, NEW d \in Devices, AddRow(d) \/ DeleteRow(d)
  PROVE  CountOK'
<1>0. /\ table \in SUBSET Devices /\ calm \in [Readers -> {"none", "added", "deleted", "both"}]
      /\ UNCHANGED <<pc, offset, part, cut>>
      /\ stayed \in [Readers -> SUBSET table]
      /\ offset \in [Readers -> 0..Cardinality(Devices)] /\ Cardinality(Devices) \in Nat
      /\ \A r \in Readers : offset[r] \in Nat
      /\ \A x \in table : Rank(table, x) \in Nat
  <2>1. table \in SUBSET Devices /\ calm \in [Readers -> {"none", "added", "deleted", "both"}]
    BY DEF PlacesOK
  <2>2. Cardinality(table) \in Nat /\ \A x \in table : Rank(table, x) \in 1..Cardinality(table)
    BY <2>1, RankBounds
  <2>3. Cardinality(Devices) \in Nat
    BY <2>1, RankBounds
  <2>4. \A x \in table : Rank(table, x) \in Nat
    BY <2>2
  <2>5. UNCHANGED <<pc, offset, part, cut>>
    BY DEF AddRow, DeleteRow
  <2>6. stayed \in [Readers -> SUBSET table] /\ offset \in [Readers -> 0..Cardinality(Devices)]
    BY DEF CountOK
  <2>7. \A r \in Readers : offset[r] \in Nat
    BY <2>3, <2>6
  <2> QED
    BY <2>1, <2>3, <2>4, <2>5, <2>6, <2>7
<1>1. ASSUME AddRow(d) PROVE CountOK'
  <2>1. table' = table \cup {d} /\ stayed' = stayed /\ Saw("added")
    BY <1>1 DEF AddRow
  <2>2. stayed' \in [Readers -> SUBSET table']
    BY <1>0, <2>1
  <2>3. ASSUME NEW r \in Readers PROVE CountOf(r)'
    <3>1. CountOf(r)
      BY DEF CountOK
    <3>2. CASE pc[r] \notin Reading
      <4>1. calm'[r] = "none" /\ calm[r] = "none"
        BY <2>1, <3>1, <3>2 DEF Saw, Reading, CountOf, AsNew
      <4> QED
        BY <1>0, <2>1, <3>1, <3>2, <4>1 DEF CountOf, AsNew, Reading
    <3>3. CASE pc[r] \in Reading
      <4>1. calm'[r] \notin {"none", "deleted"} /\ (calm'[r] \in {"none", "added"} => calm[r] \in {"none", "added"})
        BY <1>0, <2>1, <3>3 DEF Saw, Reading
      <4>2. ASSUME AllBefore(r) PROVE AllBefore(r)'
        <5> SUFFICES ASSUME NEW x \in stayed[r], Rank(table, x) > offset[r]
                     PROVE  Rank(table', x) > offset[r]
          BY <1>0, <2>1, <4>2 DEF AllBefore
        <5>1. x \in table
          BY <1>0
        <5>2. Rank(table, x) <= Rank(table', x)
          BY <1>0, <2>1, <5>1, RankMoves
        <5>3. Rank(table', x) \in Nat
          <6>1. table' \in SUBSET Devices /\ x \in table'
            BY <1>0, <2>1, <5>1
          <6>2. Cardinality(table') \in Nat /\ Rank(table', x) \in 1..Cardinality(table')
            BY <6>1, RankBounds
          <6> QED
            BY <6>2
        <5> QED
          BY <1>0, <5>1, <5>2, <5>3
      <4>3. AllRead(r) => AllRead(r)'
        BY <1>0, <2>1 DEF AllRead
      <4> QED
        BY <1>0, <3>1, <3>3, <4>1, <4>2, <4>3 DEF CountOf, Reading
    <3> QED
      BY <3>2, <3>3
  <2> QED
    BY <1>0, <2>2, <2>3 DEF CountOK
<1>2. ASSUME DeleteRow(d) PROVE CountOK'
  <2>1. /\ table' = table \ {d} /\ Saw("deleted")
        /\ stayed' = [r \in Readers |-> stayed[r] \ {d}]
    BY <1>2 DEF DeleteRow
  <2>2. stayed' \in [Readers -> SUBSET table']
    BY <1>0, <2>1
  <2>3. ASSUME NEW r \in Readers PROVE CountOf(r)'
    <3>1. CountOf(r)
      BY DEF CountOK
    <3>2. CASE pc[r] \notin Reading
      <4>1. calm'[r] = "none" /\ calm[r] = "none" /\ stayed[r] = {} /\ stayed'[r] = {}
        BY <2>1, <3>1, <3>2 DEF Saw, Reading, CountOf, AsNew
      <4> QED
        BY <1>0, <3>1, <3>2, <4>1 DEF CountOf, AsNew, Reading
    <3>3. CASE pc[r] \in Reading
      <4>1. calm'[r] \notin {"none", "added"} /\ (calm'[r] \in {"none", "deleted"} => calm[r] \in {"none", "deleted"})
        BY <1>0, <2>1, <3>3 DEF Saw, Reading
      <4>2. ASSUME OnlyBefore(r) PROVE OnlyBefore(r)'
        <5> SUFFICES ASSUME NEW x \in table', Rank(table, x) <= offset[r]
                     PROVE  Rank(table', x) <= offset[r]
          BY <1>0, <2>1, <4>2 DEF OnlyBefore
        <5>1. x \in table /\ x \in table \ {d}
          BY <2>1
        <5>2. Rank(table', x) <= Rank(table, x)
          BY <1>0, <2>1, <5>1, RankMoves
        <5>3. Rank(table', x) \in Nat
          <6>1. table' \in SUBSET Devices
            BY <1>0, <2>1
          <6>2. Cardinality(table') \in Nat /\ Rank(table', x) \in 1..Cardinality(table')
            BY <6>1, RankBounds
          <6> QED
            BY <6>2
        <5> QED
          BY <1>0, <5>1, <5>2, <5>3
      <4>3. OnlyRead(r) => OnlyRead(r)'
        BY <1>0 DEF OnlyRead
      <4> QED
        BY <1>0, <3>1, <3>3, <4>1, <4>2, <4>3 DEF CountOf, Reading
    <3> QED
      BY <3>2, <3>3
  <2> QED
    BY <1>0, <2>2, <2>3 DEF CountOK
<1> QED
  BY <1>1, <1>2

(* Every step of every thread keeps the account of what it has counted.    *)
LEMMA CountNext == FlagsOK /\ PlacesOK /\ CountOK /\ [Next]_vars => CountOK'
<1> SUFFICES ASSUME FlagsOK, PlacesOK, CountOK, [Next]_vars PROVE CountOK'
  OBVIOUS
<1>0. /\ offset \in [Readers -> 0..Cardinality(Devices)] /\ part \in [Readers -> [Devices -> Nat]]
      /\ stayed \in [Readers -> SUBSET table] /\ \A r \in Readers : CountOf(r)
      /\ calm \in [Readers -> {"none", "added", "deleted", "both"}]
      /\ table \in SUBSET Devices /\ 0 \in 0..Cardinality(Devices) /\ Nothing \in [Devices -> Nat]
  <2>1. table \in SUBSET Devices
    BY DEF PlacesOK
  <2>2. 0 \in 0..Cardinality(Devices)
    BY <2>1, RankBounds
  <2>3. Nothing \in [Devices -> Nat]
    BY DEF Nothing
  <2> QED
    BY <2>1, <2>2, <2>3 DEF CountOK, PlacesOK
<1>00. cut \in [Readers -> BOOLEAN]
  BY DEF FlagsOK
<1>1. ASSUME NEW d \in Devices, AddRow(d) \/ DeleteRow(d) PROVE CountOK'
  BY <1>1, CountOfRows
<1>2. ASSUME UNCHANGED <<table, offset, part, stayed, calm, cut>>,
             \A r \in Readers : pc'[r] = pc[r] \/ (pc[r] \notin Reading /\ pc'[r] \notin Reading)
      PROVE  CountOK'
  <2>1. \A r \in Readers : CountOf(r)'
    BY <1>0, <1>2, CountSame
  <2> QED
    BY <1>0, <1>2, <2>1 DEF CountOK
<1>3. CASE Tick \/ UNCHANGED vars
  BY <1>2, <1>3 DEF Tick, vars, history
<1>4. ASSUME NEW r \in Readers,
             Request(r) \/ TestValid(r) \/ TestAge(r) \/ Copy(r) \/ Return(r) \/ TestGenerating(r) \/ Wait(r)
               \/ Claim(r) \/ Store(r) \/ Clear(r)
      PROVE  CountOK'
  <2>1. UNCHANGED <<table, offset, part, stayed, calm, cut>>
    BY <1>4 DEF Request, TestValid, TestAge, Copy, Return, TestGenerating, Wait, Claim, Store, Clear, history
  <2>2. pc[r] \notin Reading /\ pc'[r] \notin Reading /\ \A o \in Readers \ {r} : pc'[o] = pc[o]
    BY <1>4, OneGoes DEF Request, TestValid, TestAge, Copy, Return, TestGenerating, Wait, Claim, Store,
      Clear, Reading
  <2> QED
    BY <1>2, <2>1, <2>2
<1>5. ASSUME NEW r \in Readers, table' = table, \A o \in Readers \ {r} : pc'[o] = pc[o],
             \A o \in Readers \ {r} : part'[o] = part[o] /\ offset'[o] = offset[o]
                                      /\ stayed'[o] = stayed[o] /\ calm'[o] = calm[o] /\ cut'[o] = cut[o],
             offset' \in [Readers -> 0..Cardinality(Devices)], part' \in [Readers -> [Devices -> Nat]],
             stayed' \in [Readers -> SUBSET table], CountOf(r)'
      PROVE  CountOK'
  <2>1. ASSUME NEW o \in Readers \ {r} PROVE CountOf(o)'
    BY <1>0, <1>5, <2>1, CountSame
  <2> QED
    BY <1>5, <2>1 DEF CountOK
<1>6. ASSUME NEW r \in Readers, Invalidate(r) PROVE CountOK'
  <2>1. /\ pc[r] = "invalidate" /\ pc'[r] = "page" /\ \A o \in Readers \ {r} : pc'[o] = pc[o]
        /\ UNCHANGED <<table, offset, part, calm, cut>> /\ stayed' = [stayed EXCEPT ![r] = table]
    BY <1>6, OneGoes DEF Invalidate
  <2>2. part[r] = Nothing /\ offset[r] = 0 /\ cut[r] = FALSE
    BY <1>0, <2>1 DEF CountOf, AsNew, Reading
  <2>3. \A d \in Devices : part[r][d] = 0
    BY <2>2 DEF Nothing
  <2>4. \A d \in table : Rank(table, d) > 0
    <3>1. Cardinality(table) \in Nat /\ \A d \in table : Rank(table, d) \in 1..Cardinality(table)
      BY <1>0, RankBounds
    <3> QED
      BY <3>1
  <2>5. stayed' \in [Readers -> SUBSET table] /\ stayed'[r] = table /\ \A o \in Readers \ {r} : stayed'[o] = stayed[o]
    BY <1>0, <2>1
  <2>6. OnlyRead(r)' /\ OnlyBefore(r)'
    BY <1>0, <2>1, <2>3 DEF OnlyRead, OnlyBefore
  <2>7. AllBefore(r)'
    BY <2>1, <2>2, <2>4, <2>5 DEF AllBefore
  <2>8. CountOf(r)'
    BY <2>1, <2>2, <2>6, <2>7 DEF CountOf, Reading
  <2> QED
    BY <1>0, <1>5, <2>1, <2>5, <2>8
<1>7. ASSUME NEW r \in Readers, ReadPage(r) PROVE CountOK'
  <2>1. /\ \A o \in Readers \ {r} : pc'[o] = pc[o]
        /\ UNCHANGED <<table, stayed, calm, cut>>
    BY <1>7, OneGoes DEF ReadPage, history
  <2>2. \A o \in Readers \ {r} : part'[o] = part[o] /\ offset'[o] = offset[o]
    BY <1>0, <1>7 DEF ReadPage, Count
  <2>3. /\ part' \in [Readers -> [Devices -> Nat]] /\ offset' \in [Readers -> 0..Cardinality(Devices)]
        /\ CountOf(r)'
    BY <1>7, CountOfPage
  <2> QED
    BY <1>0, <1>5, <2>1, <2>2, <2>3
<1>8. ASSUME NEW r \in Readers, FailPage(r) PROVE CountOK'
  <2>1. /\ pc[r] = "page" /\ pc'[r] = "stamp" /\ \A o \in Readers \ {r} : pc'[o] = pc[o]
        /\ UNCHANGED <<table, offset, part, stayed, calm>> /\ cut' = [cut EXCEPT ![r] = TRUE]
    BY <1>8, OneGoes DEF FailPage
  <2>2. cut'[r] = TRUE /\ \A o \in Readers \ {r} : cut'[o] = cut[o]
    BY <1>00, <2>1, Zenon
  <2>3. OnlyRead(r) => OnlyRead(r)'
    BY <2>1 DEF OnlyRead
  <2>4. CountOf(r)'
    BY <1>0, <2>1, <2>2, <2>3 DEF CountOf, Reading
  <2> QED
    BY <1>0, <1>5, <2>1, <2>2, <2>4
<1>9. ASSUME NEW r \in Readers, Throw(r) \/ Stamp(r) PROVE CountOK'
  <2>1. /\ pc'[r] \notin Reading /\ \A o \in Readers \ {r} : pc'[o] = pc[o]
        /\ table' = table /\ Leave(r)
    BY <1>9, OneGoes DEF Throw, Stamp, Reading
  <2>2. cut'[r] = FALSE /\ \A o \in Readers \ {r} : cut'[o] = cut[o]
    BY <1>00, <2>1, Zenon DEF Leave
  <2>3. /\ offset'[r] = 0 /\ part'[r] = Nothing /\ stayed'[r] = {} /\ calm'[r] = "none"
        /\ \A o \in Readers \ {r} : part'[o] = part[o] /\ offset'[o] = offset[o]
                                    /\ stayed'[o] = stayed[o] /\ calm'[o] = calm[o]
    BY <1>0, <2>1 DEF Leave
  <2>4. /\ offset' \in [Readers -> 0..Cardinality(Devices)] /\ part' \in [Readers -> [Devices -> Nat]]
        /\ stayed' \in [Readers -> SUBSET table]
    BY <1>0, <2>1 DEF Leave
  <2>5. CountOf(r)'
    BY <2>1, <2>2, <2>3 DEF CountOf, AsNew, Reading
  <2> QED
    BY <1>5, <2>1, <2>2, <2>3, <2>4, <2>5
<1> QED
  BY <1>1, <1>3, <1>4, <1>6, <1>7, <1>8, <1>9 DEF Next, GetStep, GenerateStep, Fault

----------------------------------------------------------------------------
(* The specification. *)

(* At the start there is no report, nobody is at work and nothing counted. *)
LEMMA StrongInit == Init => Strong
<1> SUFFICES ASSUME Init PROVE Strong
  OBVIOUS
<1>0. /\ MaxNow \in Nat \ {0} /\ MaxRequests \in Nat /\ MaxChanges \in Nat /\ MaxFaults \in Nat
      /\ Seed \subseteq Devices /\ Reports = 0..MaxNow /\ MaxAge \in Nat
      /\ 0 \in 0..Cardinality(Devices) /\ Nothing \in [Devices -> Nat]
  <2>1. {} \in SUBSET Devices
    OBVIOUS
  <2>2. Cardinality(Devices) \in Nat
    BY <2>1, RankBounds
  <2> QED
    BY <2>2, ReportAssumption DEF Reports, Nothing
<1>1. FlagsOK
  BY Zenon DEF Init, FlagsOK
<1>2. PlacesOK
  <2>1. pc \in [Readers -> Steps]
    BY StepsAre DEF Init
  <2>2. /\ at \in [Readers -> 0..MaxNow] /\ D \in [Readers -> Reports]
        /\ calm \in [Readers -> {"none", "added", "deleted", "both"}]
    BY <1>0 DEF Init, NoReport
  <2>3. /\ table \subseteq Devices /\ now \in 1..MaxNow
        /\ lastRun \in 0..MaxNow /\ DB \in Reports /\ endedAt \in 0..MaxNow
        /\ requests \in 0..MaxRequests /\ changes \in 0..MaxChanges /\ faults \in 0..MaxFaults
    BY <1>0 DEF Init, NoReport
  <2> QED
    BY <2>1, <2>2, <2>3 DEF PlacesOK
<1>3. \A r \in Readers : pc[r] = "idle" /\ at[r] = 0
  BY DEF Init
<1>4. /\ generating = FALSE /\ valid = FALSE /\ lastRun = 0 /\ DB = 0 /\ now = 1 /\ endedAt = 0
  BY DEF Init, NoReport
<1>5. OwnerOK
  BY <1>3, <1>4 DEF OwnerOK, FlagHasOwner, Generators
<1>6. ServedOK /\ StampOK
  BY <1>3, <1>4 DEF ServedOK, StampOK, Serving, Reading
<1>7. RecentOK
  BY <1>0, <1>3, <1>4 DEF RecentOK
<1>8. CountOK
  <2>1. /\ offset = [r \in Readers |-> 0] /\ part = [r \in Readers |-> Nothing]
        /\ stayed = [r \in Readers |-> {}] /\ calm = [r \in Readers |-> "none"]
    BY DEF Init
  <2>2. \A r \in Readers : cut[r] = FALSE
    BY DEF Init
  <2>3. \A r \in Readers : CountOf(r)
    BY <1>3, <2>1, <2>2 DEF CountOf, AsNew, Reading
  <2> QED
    BY <1>0, <2>1, <2>3 DEF CountOK
<1> QED
  BY <1>1, <1>2, <1>5, <1>6, <1>7, <1>8 DEF Strong

(* Every step keeps every part of the invariant.                           *)
LEMMA StrongNext == Strong /\ [Next]_vars => Strong'
BY FlagsNext, PlacesNext, OwnerNext, ServedNext, StampNext, RecentNext, CountNext DEF Strong

(* The inductive invariant holds throughout.                               *)
THEOREM Inductive == Spec => []Strong
<1> QED
  BY StrongInit, StrongNext, PTL DEF Spec

(* For any number of threads, rows, pages and faults: no thread is handed  *)
(* the empty report, a flag that is set has a thread that will clear it,   *)
(* and the stamp is the one of the report.                                 *)
THEOREM ReportSound == Spec => []ReportInvariant
<1>1. ASSUME Strong PROVE ReportInvariant
  <2>0. FlagsOK /\ PlacesOK /\ OwnerOK /\ ServedOK /\ StampOK /\ CountOK
    BY <1>1 DEF Strong
  <2>1. /\ generating \in BOOLEAN /\ valid \in BOOLEAN /\ overlap \in BOOLEAN
        /\ ok \in [Readers -> BOOLEAN] /\ cut \in [Readers -> BOOLEAN]
    BY <2>0, Zenon DEF FlagsOK
  <2>2. stayed \in [Readers -> SUBSET Devices]
    BY <2>0 DEF CountOK, PlacesOK
  <2>3. ReportTypeOK
    BY <2>0, <2>1, <2>2 DEF ReportTypeOK, PlacesOK, CountOK
  <2>4. ServedIsReport
    BY <2>0 DEF ServedOK, ServedIsReport, Answered
  <2>5. FlagHasOwner
    BY <2>0 DEF OwnerOK
  <2>6. StampIsOfReport
    <3> SUFFICES ASSUME valid, ~overlap PROVE lastRun = DB
      BY DEF StampIsOfReport
    <3>1. valid = TRUE /\ overlap = FALSE
      BY <2>1, Zenon
    <3> QED
      BY <2>0, <3>1 DEF StampOK, Serving, Reading
  <2> QED
    BY <2>3, <2>4, <2>5, <2>6 DEF ReportInvariant
<1> QED
  BY <1>1, Inductive, PTL

(* Whatever the size of the pages, and however the table changes between   *)
(* them: at its stamp a report has counted the rows that stayed, and none  *)
(* twice, but for a failed page and the shifts that a delete or an added   *)
(* row causes.                                                             *)
THEOREM CountSound == Spec => []CountedOnce
<1>1. ASSUME Strong PROVE CountedOnce
  <2> SUFFICES ASSUME NEW r \in Readers, pc[r] = "stamp"
               PROVE  /\ ~cut[r] /\ calm[r] \in {"none", "added"} => \A d \in stayed[r] : part[r][d] >= 1
                      /\ calm[r] \in {"none", "deleted"} => \A d \in Devices : part[r][d] <= 1
    BY DEF CountedOnce
  <2>1. CountOf(r) /\ FlagsOK
    BY <1>1 DEF Strong, CountOK
  <2>2. ~cut[r] => cut[r] = FALSE
    BY <2>1, Zenon DEF FlagsOK
  <2> QED
    BY <2>1, <2>2 DEF CountOf, Reading, OnlyRead, AllRead
<1> QED
  BY <1>1, Inductive, PTL

(* For any age and any number of threads: what a thread copies was made at *)
(* most MaxAge before its request, or ended after it.                      *)
THEOREM RecentSound == Spec => CopiedIsRecent
<1>1. ASSUME Strong, NEW r \in Readers, Copy(r), ~overlap, \A o \in Readers : pc[o] # "store"
      PROVE  DB + MaxAge >= at[r] \/ endedAt >= at[r]
  <2>1. FlagsOK /\ StampOK /\ RecentOK
    BY <1>1 DEF Strong
  <2>2. overlap = FALSE
    BY <1>1, <2>1, Zenon DEF FlagsOK
  <2>3. lastRun = DB
    BY <1>1, <2>1, <2>2 DEF StampOK
  <2> QED
    BY <1>1, <2>1, <2>3 DEF RecentOK, Copy
<1>2. Strong => \A r \in Readers : Copy(r) /\ ~overlap /\ faults = 0 /\ (\A o \in Readers : pc[o] # "store")
                  => DB + MaxAge >= at[r] \/ endedAt >= at[r]
  BY <1>1
<1> QED
  BY <1>2, Inductive, PTL DEF CopiedIsRecent

(* For any number of threads: as long as nothing failed, an error is       *)
(* answered only while another thread makes the next report.               *)
THEOREM RefusalSound == Spec => RefusedForCause
<1>1. ASSUME Strong, NEW r \in Readers, Return(r), ~ok'[r]
      PROVE  faults > 0 \/ \E o \in Readers \ {r} : pc[o] \in {"page", "stamp", "store"}
  <2>1. FlagsOK /\ PlacesOK /\ ServedOK
    BY <1>1 DEF Strong
  <2>2. valid = FALSE
    <3>1. ok'[r] = valid
      BY <1>1, <2>1 DEF Return, FlagsOK
    <3> QED
      BY <1>1, <2>1, <3>1, Zenon DEF FlagsOK
  <2>3. pc[r] = "return" /\ (faults > 0 \/ faults = 0)
    BY <1>1, <2>1, ReportAssumption DEF Return, PlacesOK
  <2> QED
    BY <2>1, <2>2, <2>3 DEF ServedOK, Serving, Reading
<1>2. Strong => \A r \in Readers : Return(r) /\ ~ok'[r] =>
                  faults > 0 \/ \E o \in Readers \ {r} : pc[o] \in {"page", "stamp", "store"}
  BY <1>1
<1> QED
  BY <1>2, Inductive, PTL DEF RefusedForCause
============================================================================
