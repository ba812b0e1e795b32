---------------------------- MODULE MCPendingQueue ----------------------------
(* An instance of PendingQueue for TLC. *)
EXTENDS PendingQueue

MCBounds == {[attempts |-> 1, crashes |-> 2], [attempts |-> 2, crashes |-> 0]}
=============================================================================
