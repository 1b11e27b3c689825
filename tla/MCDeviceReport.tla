--------------------------- MODULE MCDeviceReport ---------------------------
(***************************************************************************)
(* A small instance of DeviceReport: three threads, so that one can wait   *)
(* while two generate, and pages of one row.                               *)
(***************************************************************************)
EXTENDS DeviceReport, TLC

CONSTANTS g1, g2, g3
ThreeReaders == {g1, g2, g3}
AnyReader == Permutations(ThreeReaders)
============================================================================
