------------------------------ MODULE TgSecret ------------------------------
(***************************************************************************)
(* The MTProto secret, which is kept in two files and read by two          *)
(* programs: zapret-cli tg, which prints the link for Telegram, and the    *)
(* service, whose tgproxy.py does not trust what it finds.                 *)
(*                                                                         *)
(* A file is missing, or holds UTF-8 text: something that is no secret, or *)
(* a secret with or without the dd of a link, in lower case or not.  (Of   *)
(* bytes that are no UTF-8, load_or_create_secret raises.)                 *)
(***************************************************************************)
LOCAL INSTANCE Naturals

CONSTANTS Mine,   \* secrets that somebody may have put into the files
          New,    \* two that tgproxy.py draws, one for each start
          Drawn   \* one that zapret-cli draws

Missing == <<>>
Text(secret, dd, lower) == [secret |-> secret, dd |-> dd, lower |-> lower]
Plain(secret) == Text(secret, FALSE, TRUE)  \* as the program itself writes it
Garbage == "none"  \* empty, too short, or no hex digits
NoSecret == Plain(Garbage)

ASSUME SecretsAreSecrets == Garbage \notin Mine \cup {New[1], New[2], Drawn}

Contents == {Missing, NoSecret} \cup {Text(s, dd, lower) : s \in Mine, dd \in BOOLEAN, lower \in BOOLEAN}

(* .secret and secret.txt *)
Candidates == <<"secret", "alt">>
Directories == [secret : Contents, alt : Contents]

Canonical(text) == text \notin {Missing, NoSecret} /\ ~text.dd /\ text.lower

(* The operators named Bug... are what a definition below would be if the  *)
(* code had a certain mistake.                                             *)
-----------------------------------------------------------------------------
(* tgproxy.py *)

(* A secret with dd is used without; then it must be what                  *)
(* _normalize_secret makes of it, and so in lower case.                    *)
Usable(text) == text \notin {Missing, NoSecret} /\ text.lower

(* open(dest, "w"), where OSError is passed over. *)
Save(files, secret, writable) ==
  [f \in DOMAIN files |-> IF f \in writable THEN Plain(secret) ELSE files[f]]

First(found) == Candidates[CHOOSE k \in found : \A j \in found : k <= j]

(* A new secret is not saved. *)
BugLoadOrCreateSecret(files, writable, new) ==
  LET found == {k \in DOMAIN Candidates : Usable(files[Candidates[k]])}
      secret == IF found = {} THEN new ELSE files[First(found)].secret
  IN  [secret |-> secret, files |-> IF found = {} THEN files ELSE Save(files, secret, writable)]

(* load_or_create_secret: the first file that will do, copied to both, or  *)
(* a new secret.                                                           *)
LoadOrCreateSecret(files, writable, new) ==
  LET found == {k \in DOMAIN Candidates : Usable(files[Candidates[k]])}
      secret == IF found = {} THEN new ELSE files[First(found)].secret
  IN  [secret |-> secret, files |-> Save(files, secret, writable)]

(* _collect_all_secrets, and the list _run makes of them: the one in use,  *)
(* and those in the files, in any case and with or without dd.             *)
CollectAllSecrets(secret, files) ==
  {secret} \cup {files[f].secret : f \in {f \in DOMAIN files : files[f] \notin {Missing, NoSecret}}}

(* The service starts: what it uses, accepts and leaves behind. *)
Serve(files, writable, new) ==
  LET loaded == LoadOrCreateSecret(files, writable, new)
  IN  [secret |-> loaded.secret, files |-> loaded.files,
       accepts |-> CollectAllSecrets(loaded.secret, loaded.files)]
-----------------------------------------------------------------------------
(* zapret-cli tg start, as root *)

(* A missing file is a copy of the other one, or both are a new secret.    *)
Fill(files) ==
  LET other == IF files.alt # Missing THEN files.alt ELSE Plain(Drawn)
      secret == IF files.secret # Missing THEN files.secret ELSE other
  IN  [secret |-> secret, alt |-> secret]

(* The link is made of what the file holds, whatever that is, before the   *)
(* service is restarted.                                                   *)
TgStart(files, new) ==
  LET filled == Fill(files)
  IN  [link |-> filled.secret, service |-> Serve(filled, DOMAIN files, new)]

(* Telegram takes dd and 32 hex digits, in any case. *)
Works(link, service) == link # NoSecret /\ ~link.dd /\ link.secret \in service.accepts
-----------------------------------------------------------------------------
(* A restart of the service keeps the secret, and with it every link given *)
(* out, if it could write one of the files or read it from one; and the    *)
(* link of zapret-cli is one the service takes, if the files hold nothing  *)
(* or what the program itself writes there, and in any case from the       *)
(* second start on, which gives out the secret the first one left.         *)
SecretKept ==
  /\ \A files \in Directories, writable \in SUBSET {"secret", "alt"} :
       LET service == Serve(files, writable, New[1])
       IN  writable # {} \/ (\E f \in DOMAIN files : Usable(files[f]))
             => Serve(service.files, writable, New[2]).secret = service.secret
  /\ \A files \in Directories :
       LET first == TgStart(files, New[1])
           second == TgStart(first.service.files, New[2])
       IN  /\ Canonical(Fill(files).secret) => Works(first.link, first.service)
           /\ Works(second.link, second.service)
           /\ second.service.secret = first.service.secret
=============================================================================
