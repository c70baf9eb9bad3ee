--------------------------- MODULE MCZapretService ---------------------------
(* Two strategies, so that a switch can change something; strings, because  *)
(* they share variables with "empty" and "missing".                         *)
EXTENDS ZapretService

TwoStrategies == {"alt13", "alt12"}
=============================================================================
