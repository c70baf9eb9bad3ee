------------------------------ MODULE MCBridge ------------------------------
(* Short streams that, read as one transport or the other, have packets    *)
(* back to back, a long header, a packet that is never finished, and a      *)
(* length no packet has, first and later.  One answer closes the WebSocket, *)
(* the other leaves that to the connection.                                 *)
EXTENDS Session

SomeStreams == {<<1, 2, 1, 3>>, <<3, 1, 0, 1>>, <<1, 0, 0, 2>>, <<0, 1, 1>>}
(* No TLS; an end between two records or inside one, by the stream's        *)
(* length; an alert, which may be behind the end of the stream.             *)
SomeLayouts == {<<>>, <<2, Ccs, 2>>, <<1, 2, Alert>>}
SomeReplies == {<<"ping", "data", "close">>, <<"data", "data">>}

(* Two secrets, so that trying them in turn is seen. *)
SomeSecrets == <<"default", "added">>

(* Seconds, on both sides of the tolerance. *)
SomeClocks == {-121, -120, 0, 120, 121}
=============================================================================
