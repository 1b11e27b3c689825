--------------------------- MODULE MCAutoUpdater ---------------------------
(***************************************************************************)
(* Small instances of AutoUpdater: two devices, each asked for twice, and  *)
(* a clock with enough seconds for a setting to be fresh, stale, and from  *)
(* the future.                                                             *)
(***************************************************************************)
EXTENDS AutoUpdater, TLC

CONSTANTS d1, d2

MCDevices == {d1, d2}
MCDevice == {d1}
Symmetry == Permutations(MCDevices)
=============================================================================
