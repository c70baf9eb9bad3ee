------------------------- MODULE MCTgProxyController -------------------------
(* The system is finite as it is: one process with two threads. *)
EXTENDS TgProxyController
=============================================================================
