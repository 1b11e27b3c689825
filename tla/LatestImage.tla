---------------------------- MODULE LatestImage ----------------------------
(***************************************************************************)
(* What the service promises when it is asked for the newest firmware of a *)
(* device type: of all the images it was offered since it started, one     *)
(* with the greatest date.  Images are offered one at a time and in any    *)
(* order, a restart forgets them all.  Which of two images of one date is  *)
(* the answer is left open.                                                *)
(*                                                                         *)
(* FirmwareCatalog implements this specification twice: once with the      *)
(* cache of all images and once with the cache of release candidates.      *)
(***************************************************************************)
EXTENDS Integers

CONSTANTS
  Ids,            \* the images that may ever be offered
  Types,          \* device types
  DeviceTypeOf,   \* the device type of an image
  DateOf,         \* the date of an image
  None            \* no image known

VARIABLES
  offered,        \* the images offered since the last restart
  latest          \* the answer for each type

vars == <<offered, latest>>

(* The images of S that may be called the newest of type t. *)
Newest(S, t) ==
  { i \in S : /\ DeviceTypeOf[i] = t
              /\ \A j \in S : DeviceTypeOf[j] = t => DateOf[j] <= DateOf[i] }

Init ==
  /\ offered = {}
  /\ latest = [t \in Types |-> None]

Offer(i) ==
  /\ offered' = offered \cup {i}
  /\ \E n \in Newest(offered', DeviceTypeOf[i]) :
        latest' = [latest EXCEPT ![DeviceTypeOf[i]] = n]

Forget ==
  /\ offered' = {}
  /\ latest' = [t \in Types |-> None]

Next == Forget \/ \E i \in Ids : Offer(i)

Spec == Init /\ [][Next]_vars

----------------------------------------------------------------------------

TypeOK ==
  /\ offered \in SUBSET Ids
  /\ latest \in [Types -> Ids \cup {None}]

(* The answer for a type is a newest image of that type, and there is no   *)
(* answer exactly when no image of the type was offered.                   *)
LatestIsNewest ==
  \A t \in Types :
    IF \E i \in offered : DeviceTypeOf[i] = t
      THEN latest[t] \in Newest(offered, t)
      ELSE latest[t] = None
============================================================================
