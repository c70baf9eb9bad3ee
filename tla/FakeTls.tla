------------------------------ MODULE FakeTls -------------------------------
(***************************************************************************)
(* The hellos of FakeTLS: verify_client_hello and build_server_hello of    *)
(* fake_tls.py, and a client that knows a secret and the time.  Each side  *)
(* shows the secret by a random that is the HMAC of the hello it stands    *)
(* in; the client's holds the time, too.                                   *)
(*                                                                         *)
(* A hello is a record of its fields, a random two bytes, the last of them *)
(* for the four that hold the time; a byte is a set of atoms added by      *)
(* exclusive or.                                                           *)
(***************************************************************************)
LOCAL INSTANCE Integers

CONSTANTS Known,   \* secrets: the proxy's
          Guessed, \* and others
          Clocks   \* how much a client's clock may be ahead of the proxy's

ASSUME ClocksAssumption == Clocks \subseteq Int

TIMESTAMP_TOLERANCE == 120
NoRandom == << {}, {} >>
NoSession == "zeros"

Plus(a, b) == (a \ b) \cup (b \ a)
Hmac(secret, data) == << {<<"hmac", secret, data, 1>>}, {<<"hmac", secret, data, 2>>} >>
Time(t) == {<<"time", t>>}

(* A hello of a client whose clock shows t; a short one ends behind the    *)
(* random, a longer one has a session id of 32 bytes, or of another length.*)
Hello(secret, t, session) ==
  LET hello == [type |-> "handshake", message |-> "client_hello", random |-> NoRandom, session |-> session]
      mac == Hmac(secret, hello)
  IN  [hello EXCEPT !.random = <<mac[1], Plus(mac[2], Time(t))>>]

(* The operators named Bug... are what a definition below would be if the  *)
(* code had a certain mistake.                                             *)

Rejected == <<>>

(* Only a clock that is behind is looked for. *)
BugVerifyClientHello(data, secret) ==
  LET expected == Hmac(secret, [data EXCEPT !.random = NoRandom])
      fresh == {t \in Clocks : Time(t) = Plus(data.random[2], expected[2]) /\ -t <= TIMESTAMP_TOLERANCE}
  IN  IF data.type # "handshake" \/ data.message # "client_hello" \/ expected[1] # data.random[1] \/ fresh = {}
      THEN Rejected
      ELSE [random |-> data.random, session |-> IF data.session = "id" THEN "id" ELSE NoSession]

(* verify_client_hello; the proxy's clock is at 0. *)
VerifyClientHello(data, secret) ==
  LET expected == Hmac(secret, [data EXCEPT !.random = NoRandom])
      fresh == {t \in Clocks : Time(t) = Plus(data.random[2], expected[2])
                                 /\ t \in -TIMESTAMP_TOLERANCE..TIMESTAMP_TOLERANCE}
  IN  IF data.type # "handshake" \/ data.message # "client_hello" \/ expected[1] # data.random[1] \/ fresh = {}
      THEN Rejected
      ELSE [random |-> data.random, session |-> IF data.session = "id" THEN "id" ELSE NoSession]

(* build_server_hello: the HMAC goes over the client's random and all that *)
(* is sent, with zeros where it will stand.                                *)
BuildServerHello(secret, random, session) ==
  LET response == [random |-> NoRandom, session |-> session, key |-> "random", padding |-> "random"]
  IN  [response EXCEPT !.random = Hmac(secret, <<random, response>>)]

(* The client checks the same HMAC, and that its session id comes back.    *)
Accepts(hello, response, secret) ==
  /\ response.random = Hmac(secret, <<hello.random, [response EXCEPT !.random = NoRandom]>>)
  /\ hello.session = "id" => response.session = "id"
-----------------------------------------------------------------------------
(* A client is let in if it knows the secret, its clock is at most two     *)
(* minutes off either way and its hello was not changed; then it takes the *)
(* answer for one of a server that knows the secret.                       *)
HellosAgree ==
  \A secret \in Known, own \in Known \cup Guessed, t \in Clocks, session \in {"id", "other", "short"} :
    LET hello == Hello(own, t, session)
        changed == [hello EXCEPT !.session = IF session = "id" THEN "other" ELSE "id"]
        client == VerifyClientHello(hello, secret)
    IN  /\ VerifyClientHello(changed, secret) = Rejected
        /\ client # Rejected <=> own = secret /\ t <= TIMESTAMP_TOLERANCE /\ -t <= TIMESTAMP_TOLERANCE
        /\ client # Rejected => Accepts(hello, BuildServerHello(secret, client.random, client.session), secret)
=============================================================================
