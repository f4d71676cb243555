---------------------------- MODULE MCCacheLock ----------------------------
(* Instances of CacheLock for TLC. *)
EXTENDS CacheLock

CONSTANTS p1, p2, p3, k1, k2

\* Every process has a pid of its own.
OwnPid == [p \in Proc |-> p]

=============================================================================
