---------------------------- MODULE Obfuscation -----------------------------
(***************************************************************************)
(* The keys of a session: _try_handshake, _generate_relay_init and         *)
(* _build_crypto_ctx of tg_ws_proxy.py, and MsgSplitter's cipher.  The     *)
(* client and Telegram derive theirs as MTProto's obfuscated transport     *)
(* does, the one with the proxy's secret, the other without.               *)
(*                                                                         *)
(* A byte is a set of atoms, which are added by exclusive or: one for      *)
(* every byte that is random or that a sender chose, one for every place   *)
(* in a keystream, which AES-CTR fixes by the key, the initial vector and  *)
(* the place.  A byte that was not decrypted well has atoms left over.     *)
(* The fields of the 64 bytes are one or two bytes long, so that the key   *)
(* and initial vector still differ from their reverse.                     *)
(***************************************************************************)
LOCAL INSTANCE Integers
LOCAL INSTANCE Sequences
LOCAL INSTANCE SequencesExt

CONSTANTS Secrets, \* the proxy's secrets, in the order they are tried
          Others,  \* secrets that it does not know
          Dcs      \* data centres that a client may ask for

Ours == {Secrets[k] : k \in DOMAIN Secrets}

ASSUME SecretsAssumption == Secrets \in Seq(Ours) /\ Ours \cap Others = {}
ASSUME DcsAssumption == \A d \in Dcs : d \in Nat \ {0}

Tags == {"abridged", "intermediate", "secure"}

SKIP_LEN == 1
PREKEY_LEN == 2
IV_LEN == 1
PROTO_TAG_POS == 4
DC_IDX_POS == 5
HANDSHAKE_LEN == 7

Xor(a, b) == (a \ b) \cup (b \ a)
Slice(s, from, to) == SubSeq(s, from + 1, to)
Random(who) == [i \in 1..HANDSHAKE_LEN |-> {<<"random", who, i>>}]
Tag(t) == {<<"tag", t>>}
DcIdx(d) == {<<"dc", d>>}

KeyIv(init) == Slice(init, SKIP_LEN, SKIP_LEN + PREKEY_LEN + IV_LEN)
sha256(secret, prekey) == <<"sha256", secret, prekey>>
Raw == "raw"

(* Cipher(AES(key), CTR(iv)).encryptor(); a raw key is not hashed. *)
Cipher(keyiv, secret) ==
  LET prekey == Slice(keyiv, 0, PREKEY_LEN)
  IN  [key |-> IF secret = Raw THEN <<Raw, prekey>> ELSE sha256(secret, prekey),
       iv |-> Slice(keyiv, PREKEY_LEN, PREKEY_LEN + IV_LEN),
       at |-> 0]

Update(cipher, data) ==
  [i \in DOMAIN data |-> Xor(data[i], {<<"stream", cipher.key, cipher.iv, cipher.at + i>>})]
Past(cipher, n) == [cipher EXCEPT !.at = @ + n]

(* The operators named Bug... are what a definition below would be if the  *)
(* code had a certain mistake.                                             *)
-----------------------------------------------------------------------------
(* The two ends: what one sends begins with init and goes on under the     *)
(* same cipher, what it receives is under the reversed key.                *)

ClientInit(secret, tag, dc) ==
  LET rnd == Random("client")
      plain == Slice(rnd, 0, PROTO_TAG_POS) \o <<Tag(tag), DcIdx(dc)>> \o Slice(rnd, DC_IDX_POS + 1, HANDSHAKE_LEN)
  IN  Slice(rnd, 0, PROTO_TAG_POS)
        \o Slice(Update(Cipher(KeyIv(rnd), secret), plain), PROTO_TAG_POS, HANDSHAKE_LEN)

Sending(init, secret) == Past(Cipher(KeyIv(init), secret), HANDSHAKE_LEN)
Receiving(init, secret) == Cipher(Reverse(KeyIv(init)), secret)
-----------------------------------------------------------------------------
(* The proxy *)

Refused == <<>>

(* _try_handshake: None without one of the tags. *)
TryHandshake(handshake, secret) ==
  LET plain == Update(Cipher(KeyIv(handshake), secret), handshake)
  IN  IF \A t \in Tags : plain[PROTO_TAG_POS + 1] # Tag(t) THEN Refused
      ELSE LET idx == CHOOSE i \in Dcs \cup {-d : d \in Dcs} : plain[DC_IDX_POS + 1] = DcIdx(i)
           IN  [dc |-> IF idx < 0 THEN -idx ELSE idx,
                media |-> idx < 0,
                tag |-> CHOOSE t \in Tags : plain[PROTO_TAG_POS + 1] = Tag(t),
                keyiv |-> KeyIv(handshake)]

(* The secrets are tried in turn; 0 if none fits. *)
SecretFor(handshake) ==
  LET fits == {k \in DOMAIN Secrets : TryHandshake(handshake, Secrets[k]) # Refused}
  IN  IF fits = {} THEN 0 ELSE CHOOSE k \in fits : \A j \in fits : k <= j

(* _generate_relay_init.  The keystream of the tail comes from encrypting  *)
(* the random bytes; a start that belongs to another protocol is drawn     *)
(* again, which leaves the bytes as random as they were.                   *)
GenerateRelayInit(tag, dc) ==
  LET rnd == Random("relay")
      full == Update(Cipher(KeyIv(rnd), Raw), rnd)
      tail == <<Tag(tag), DcIdx(dc)>> \o Slice(Random("tail"), DC_IDX_POS + 1, HANDSHAKE_LEN)
  IN  Slice(rnd, 0, PROTO_TAG_POS)
        \o [i \in DOMAIN tail |-> Xor(tail[i], Xor(full[PROTO_TAG_POS + i], rnd[PROTO_TAG_POS + i]))]

(* The cipher towards Telegram begins where relay_init does. *)
BugBuildCryptoCtx(keyiv, secret, relay) ==
  [clt_dec |-> Past(Cipher(keyiv, secret), HANDSHAKE_LEN),
   clt_enc |-> Cipher(Reverse(keyiv), secret),
   tg_enc  |-> Cipher(KeyIv(relay), Raw),
   tg_dec  |-> Cipher(Reverse(KeyIv(relay)), Raw)]

(* _build_crypto_ctx; update(ZERO_64) moves a cipher past the 64 bytes. *)
BuildCryptoCtx(keyiv, secret, relay) ==
  [clt_dec |-> Past(Cipher(keyiv, secret), HANDSHAKE_LEN),
   clt_enc |-> Cipher(Reverse(keyiv), secret),
   tg_enc  |-> Past(Cipher(KeyIv(relay), Raw), HANDSHAKE_LEN),
   tg_dec  |-> Cipher(Reverse(KeyIv(relay)), Raw)]

(* MsgSplitter.__init__ *)
SplitterDec(relay) == Past(Cipher(KeyIv(relay), Raw), HANDSHAKE_LEN)
-----------------------------------------------------------------------------
Up == <<{<<"up", 1>>}, {<<"up", 2>>}>>
Down == <<{<<"down", 1>>}, {<<"down", 2>>}>>

(* A client with any of the proxy's secrets, and no other, gets a session; *)
(* Telegram finds the tag and the data centre the client asked for in      *)
(* relay_init; then what either end sends, the other end and the splitter  *)
(* read byte for byte: five ciphers of the proxy and four of the two ends  *)
(* start with the same keys at the same places.                            *)
CiphersAgree ==
  \A secret \in Ours \cup Others, tag \in Tags, dc \in Dcs \cup {-d : d \in Dcs} :
    LET init == ClientInit(secret, tag, dc)
        k == SecretFor(init)
        client == TryHandshake(init, Secrets[k])
        relay == GenerateRelayInit(client.tag, IF client.media THEN -client.dc ELSE client.dc)
        ctx == BuildCryptoCtx(client.keyiv, Secrets[k], relay)
        first == Update(Cipher(KeyIv(relay), Raw), relay)
        up == Update(ctx.tg_enc, Update(ctx.clt_dec, Update(Sending(init, secret), Up)))
        down == Update(ctx.clt_enc, Update(ctx.tg_dec, Update(Receiving(relay, Raw), Down)))
    IN  IF secret \in Others THEN k = 0
        ELSE /\ k # 0 /\ Secrets[k] = secret
             /\ first[PROTO_TAG_POS + 1] = Tag(tag) /\ first[DC_IDX_POS + 1] = DcIdx(dc)
             /\ Update(Sending(relay, Raw), up) = Up
             /\ Update(SplitterDec(relay), up) = Up
             /\ Update(Receiving(init, secret), down) = Down
=============================================================================
