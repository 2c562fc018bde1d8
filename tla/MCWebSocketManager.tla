-------------------------- MODULE MCWebSocketManager --------------------------
(***************************************************************************)
(* One client that connects three times: chains of replaced connections.    *)
(* Clients share nothing but the cleanup's list of targets, and a second    *)
(* client's target only delays the first one's, which the model does anyway.*)
(***************************************************************************)
EXTENDS WebSocketManager

CONSTANT client

MCOwner == [s \in Sockets |-> client]
=============================================================================
