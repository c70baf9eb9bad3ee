---------------------------- MODULE MCTgProcess -----------------------------
(* Two handlers, which may be of one data centre, so that one learns a      *)
(* domain while the other is half way; a data centre the map is not filled  *)
(* for; a fetch that fails, or brings the list without one domain and with  *)
(* the other one twice.                                                     *)
EXTENDS TgProcess, TLC

CONSTANTS a, b

Times(x, y) == (a :> x) @@ (b :> y)
TwoDefaults == Times(1, 1)
SomeFetched == {Times(0, 0), Times(0, 2)}
TwoNew == <<"first", "second">>
=============================================================================
