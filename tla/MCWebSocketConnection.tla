------------------------ MODULE MCWebSocketConnection ------------------------
(***************************************************************************)
(* A small instance of WebSocketConnection: one network, as in production. *)
(***************************************************************************)
EXTENDS WebSocketConnection
==============================================================================
