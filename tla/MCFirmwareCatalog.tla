------------------------- MODULE MCFirmwareCatalog -------------------------
(***************************************************************************)
(* A small instance of FirmwareCatalog.  Two images of type A, the second  *)
(* one older and no release candidate, and none of type B.  Two threads    *)
(* are enough for every pair of overlapping operations.                    *)
(***************************************************************************)
EXTENDS FirmwareCatalog, TLC

CONSTANTS i1, i2, A, B, r1, r2, r3, t1, t2

MCTypes == {A, B}
MCRevisions == {r1, r2, r3}
MCRCs == {r3}
MCThreads == {t1, t2}

TwoIds == {i1, i2}
TwoDeviceTypeOf == (i1 :> A) @@ (i2 :> A)
TwoRevisionOf == (i1 :> r3) @@ (i2 :> r2)
TwoDateOf == (i1 :> 2) @@ (i2 :> 1)
TwoReleaseOf == (i1 :> "v1") @@ (i2 :> "v2")

Symmetry == Permutations(MCThreads)
=============================================================================
