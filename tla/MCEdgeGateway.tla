--------------------------- MODULE MCEdgeGateway ---------------------------
(* Instances of EdgeGateway for TLC: the constants are numbers. *)
EXTENDS EdgeGateway
=============================================================================
