------------------------- MODULE MCManifestRefresh -------------------------
(***************************************************************************)
(* Small instances of ManifestRefresh: two names of one device type, each  *)
(* with the records its manifest and image may make, one of them twice.    *)
(***************************************************************************)
EXTENDS ManifestRefresh, TLC

CONSTANTS a0, a3, b0, b3, c3, A, r1, runner, rest

OneType == {A}
OneRevision == {r1}
NoRevision == {}
OnlyRunner == {runner}
RunnerAndRest == {runner, rest}

(* One record for each way to make one, c3 a second one of name 2.         *)
MCIds == {a0, a3, b0, b3, c3}
MCDeviceTypeOf == [i \in MCIds |-> A]
MCRevisionOf == [i \in MCIds |-> r1]
MCDateOf == (a0 :> 0) @@ (a3 :> 3) @@ (b0 :> 0) @@ (b3 :> 3) @@ (c3 :> 3)
MCReleaseOf == (a0 :> 1) @@ (a3 :> 1) @@ (b0 :> 2) @@ (b3 :> 2) @@ (c3 :> 2)
MCCompatibleOf == [n \in {1, 2} |-> A]
MCTimestampOf == (1 :> 4) @@ (2 :> 5)

(* Name 1 alone, for the runs with REST threads and failures.              *)
OneNameIds == {a0, a3}
OneNameDeviceTypeOf == [i \in OneNameIds |-> A]
OneNameRevisionOf == [i \in OneNameIds |-> r1]
OneNameDateOf == (a0 :> 0) @@ (a3 :> 3)
OneNameReleaseOf == [i \in OneNameIds |-> 1]
OneNameCompatibleOf == [n \in {1} |-> A]
OneNameTimestampOf == [n \in {1} |-> 5]
============================================================================
