------------------------------ MODULE Session -------------------------------
(***************************************************************************)
(* A session with all its layers: the bridge carries numbers of bytes, and *)
(* below it are the ciphers it starts with (Obfuscation), the frames and   *)
(* records it sends (Frames) and the hellos by which a client with FakeTLS *)
(* was let in (FakeTls).                                                   *)
(***************************************************************************)
EXTENDS Bridge, Obfuscation, Frames, FakeTls

(* Keys, frames and hellos depend on no variable: it is enough to look at  *)
(* them while nothing was carried yet.                                     *)
Idle == read = 0 /\ inbox = 0 /\ bridge = "wait" /\ client = "open" /\ telegram = "open"

(* A bridge starts with ciphers that agree with both ends'. *)
CiphersInStep == Idle => CiphersAgree

(* Its frames and records hold what was put into them, and no more. *)
FramesInStep == Idle => FramesRoundTrip

(* A client with FakeTLS has been let in because it knows the secret. *)
HellosInStep == Idle => HellosAgree
=============================================================================
