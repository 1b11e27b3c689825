------------------------- MODULE MCServiceRegistry -------------------------
(***************************************************************************)
(* Two successive instances of another service, which share an end point,  *)
(* beside this one, which comes first in the order of the registry.        *)
(***************************************************************************)
EXTENDS ServiceRegistry

CONSTANTS old, new, myself
TwoPeers == {old, new}
Shared == [i \in {old, new, myself} |-> IF i = myself THEN 1 ELSE 2]
============================================================================
