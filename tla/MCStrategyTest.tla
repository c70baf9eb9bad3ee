--------------------------- MODULE MCStrategyTest ---------------------------
(* Two strategies, as in MCZapretService, so that a test tries one or both. *)
EXTENDS StrategyTest

TwoStrategies == {"alt13", "alt12"}
=============================================================================
