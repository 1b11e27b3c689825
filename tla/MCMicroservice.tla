--------------------------- MODULE MCMicroservice ---------------------------
(***************************************************************************)
(* A small instance of Microservice: one worker with its topic beside the  *)
(* topic of service events.                                                *)
(***************************************************************************)
EXTENDS Microservice

CONSTANTS conn, registry
OneHandler == {conn}
TwoTopics == {conn, registry}
============================================================================
