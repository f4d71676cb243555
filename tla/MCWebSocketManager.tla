------------------------- MODULE MCWebSocketManager -------------------------
(* Instances of WebSocketManager for TLC: the constants are model values. *)
EXTENDS WebSocketManager
=============================================================================
