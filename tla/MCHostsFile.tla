----------------------------- MODULE MCHostsFile -----------------------------
(* Two calls at a time: the service's and the user's (or install.sh's).    *)
EXTENDS HostsFile, TLC

CONSTANTS service, user

ApplyAndRemove == service :> {"apply"} @@ user :> {"remove"}
BothApply == service :> {"apply"} @@ user :> {"apply", "remove"}
OnlyOne == user :> {"apply", "remove"}
=============================================================================
