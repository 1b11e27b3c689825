-------------------------- MODULE MCDeviceTracking --------------------------
(***************************************************************************)
(* Small instances of DeviceTracking.  A device's rows, history and        *)
(* messages are apart from every other's, so one device and three          *)
(* revisions show what can go wrong between the workers.                   *)
(***************************************************************************)
EXTENDS DeviceTracking, TLC

CONSTANTS s1, rA, rB, rC

MCSerials == {s1}
MCRevisions == {rA, rB, rC}
Symmetry == Permutations(MCRevisions)
=============================================================================
