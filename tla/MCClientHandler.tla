--------------------------- MODULE MCClientHandler ---------------------------
(* Two clients are enough for one to find what the other left in the        *)
(* blacklist or the cooldown while it is half way through itself.  The two  *)
(* keys differ: one may have a WebSocket, the other goes to the fallback.   *)
(* No symmetry: the run checks liveness.                                    *)
EXTENDS ClientHandler
=============================================================================
