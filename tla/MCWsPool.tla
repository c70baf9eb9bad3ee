------------------------------ MODULE MCWsPool ------------------------------
(* The connections are model values, as many as the pool, its client and   *)
(* the closes under way hold at once, so that a close that hangs keeps no  *)
(* connect from starting.  Keys share nothing but the event loop: one key  *)
(* shows what a bucket does, and WsPoolProofs proves the bounds for every  *)
(* set of keys.  No symmetry: the run checks liveness.                     *)
EXTENDS WsPool
=============================================================================
