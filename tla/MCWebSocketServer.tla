------------------------- MODULE MCWebSocketServer -------------------------
(***************************************************************************)
(* Two connections, with the asynchronous logging that is the default.     *)
(***************************************************************************)
EXTENDS WebSocketServer

CONSTANTS first, second
TwoConnections == {first, second}
============================================================================
