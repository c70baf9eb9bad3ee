----------------------------- MODULE ConnLedger -----------------------------
(***************************************************************************)
(* What the pool of WebSocket connections promises about each connection:  *)
(* one owner at a time, no way back, and only a usable connection is ever  *)
(* handed to a client.  WsPool is shown to implement this specification.   *)
(***************************************************************************)
CONSTANT Conn              \* the names a connection may have

VARIABLE state             \* the stage of its life each connection is in

Stage == {"none", "opening", "pooled", "spoiled", "lent", "closing"}

Init == state = [c \in Conn |-> "none"]

(* The edges of a connection's life: the one place an owner may change. *)
Edge ==
  { <<"none", "opening">>,     \* a refill asks for it
    <<"opening", "none">>,     \* the connect failed
    <<"opening", "pooled">>,   \* it stands ready
    <<"pooled", "spoiled">>,   \* it grew too old, or the peer closed it
    <<"pooled", "lent">>,      \* a client got it
    <<"spoiled", "closing">>,  \* a get threw it out
    <<"lent", "none">>,        \* its client closed it
    <<"closing", "none">> }    \* _quiet_close finished

Next ==
  /\ state' \in [Conn -> Stage]
  /\ \A c \in Conn : \/ state'[c] = state[c]
                     \/ <<state[c], state'[c]>> \in Edge

Spec == Init /\ [][Next]_state
=============================================================================
