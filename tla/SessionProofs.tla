--------------------------- MODULE SessionProofs ----------------------------
(***************************************************************************)
(* For any secrets, data centres, clocks, payloads and data: the ciphers a *)
(* bridge starts with agree with the client's and Telegram's, what is read *)
(* from a frame is what was built into it, records hold the data they      *)
(* carry, and verify_client_hello lets in who knows the secret and the     *)
(* time, and nobody else.                                                  *)
(*                                                                         *)
(* Nothing here changes with time.  The formulas are equations between     *)
(* bytes that are sets of atoms: two keystreams, or masks, cancel when     *)
(* they have the same key and place (UpdateTwice, MasksAgree), and an atom *)
(* of another key stays for good (HandshakeIs).  Bytes of a header are     *)
(* numbers: what Pack takes apart, a byte at a time, Unpack puts together  *)
(* in the same order (Packs), as long as nothing is left at the end, which *)
(* the form of the header, or struct.pack, makes sure of.                  *)
(***************************************************************************)
EXTENDS Session, BridgeProofs

-----------------------------------------------------------------------------
(* Ciphers *)

(* Two equal keystreams cancel. *)
LEMMA XorTwice ==
  ASSUME NEW a, NEW b
  PROVE  Xor(Xor(a, b), b) = a
  BY DEF Xor

LEMMA UpdateTwice ==
  ASSUME NEW c, NEW data, data = [i \in DOMAIN data |-> data[i]]
  PROVE  Update(c, Update(c, data)) = data
  <1>1. Update(c, data) = [i \in DOMAIN data |-> Xor(data[i], {<<"stream", c.key, c.iv, c.at + i>>})]
    BY DEF Update
  <1>2. Update(c, Update(c, data)) = [i \in DOMAIN data |-> Xor(Update(c, data)[i], {<<"stream", c.key, c.iv, c.at + i>>})]
    BY <1>1 DEF Update
  <1>3. \A i \in DOMAIN data : Xor(Update(c, data)[i], {<<"stream", c.key, c.iv, c.at + i>>}) = data[i]
    BY <1>1, XorTwice
  <1> QED BY <1>2, <1>3

IsPart(t, s, m, n) == Len(t) = n - m + 1 /\ \A i \in 1..(n - m + 1) : t[i] = s[m + i - 1]
IsJoined(u, s, t) ==
  Len(u) = Len(s) + Len(t) /\ \A i \in 1..(Len(s) + Len(t)) : u[i] = IF i <= Len(s) THEN s[i] ELSE t[i - Len(s)]

(* Slices and joins of sequences, by their members. *)
LEMMA SubSeqIs ==
  ASSUME NEW S, NEW s \in Seq(S), NEW m \in 1..Len(s), NEW n \in m..Len(s),
         NEW t \in Seq(S), IsPart(t, s, m, n)
  PROVE  SubSeq(s, m, n) = t
  <1>1. m \in 1..(Len(s) + 1) /\ n \in m - 1..Len(s) /\ m <= n /\ Len(s) \in Nat
    OBVIOUS
  <1>2. \A i \in m..n : s[i] \in S
    BY <1>1, ElementOfSeq
  <1>3. /\ SubSeq(s, m, n) \in Seq(S)
        /\ Len(SubSeq(s, m, n)) = n - m + 1
        /\ \A i \in 1..(n - m + 1) : SubSeq(s, m, n)[i] = s[m + i - 1]
    BY <1>1, <1>2, SubSeqProperties
  <1> QED BY <1>3, SeqEqual DEF IsPart

LEMMA ConcatIs ==
  ASSUME NEW S, NEW s \in Seq(S), NEW t \in Seq(S), NEW u \in Seq(S), IsJoined(u, s, t)
  PROVE  s \o t = u
  <1>1. /\ s \o t \in Seq(S) /\ Len(s \o t) = Len(s) + Len(t)
        /\ \A i \in 1..(Len(s) + Len(t)) : (s \o t)[i] = IF i <= Len(s) THEN s[i] ELSE t[i - Len(s)]
    BY ConcatProperties
  <1> QED BY <1>1, SeqEqual DEF IsJoined

LEMMA JoinIs ==
  ASSUME NEW S, NEW s \in Seq(S), NEW t \in Seq(S)
  PROVE  s \o t \in Seq(S) /\ IsJoined(s \o t, s, t)
  <1>1. /\ s \o t \in Seq(S) /\ Len(s \o t) = Len(s) + Len(t)
        /\ \A i \in 1..(Len(s) + Len(t)) : (s \o t)[i] = IF i <= Len(s) THEN s[i] ELSE t[i - Len(s)]
    BY ConcatProperties
  <1> QED BY <1>1 DEF IsJoined

(* The 64 bytes, scaled down to seven, and what is cut from them.          *)
LEMMA SevenBytes ==
  ASSUME NEW a, NEW b, NEW c, NEW d, NEW e, NEW f, NEW g, NEW s, s = <<a, b, c, d, e, f, g>>
  PROVE  /\ KeyIv(s) = <<b, c, d>>
         /\ Slice(s, 0, PROTO_TAG_POS) = <<a, b, c, d>>
         /\ Slice(s, PROTO_TAG_POS, HANDSHAKE_LEN) = <<e, f, g>>
         /\ Slice(s, DC_IDX_POS + 1, HANDSHAKE_LEN) = <<g>>
  <1> DEFINE S == {a, b, c, d, e, f, g}
  <1>1. s \in Seq(S) /\ Len(s) = 7
    OBVIOUS
  <1>2. /\ <<b, c, d>> \in Seq(S) /\ <<a, b, c, d>> \in Seq(S) /\ <<e, f, g>> \in Seq(S) /\ <<g>> \in Seq(S)
        /\ Len(<<b, c, d>>) = 3 /\ Len(<<a, b, c, d>>) = 4 /\ Len(<<e, f, g>>) = 3 /\ Len(<<g>>) = 1
    OBVIOUS
  <1>3. /\ \A i \in 1..3 : <<b, c, d>>[i] = s[2 + i - 1] /\ <<e, f, g>>[i] = s[5 + i - 1]
        /\ \A i \in 1..4 : <<a, b, c, d>>[i] = s[1 + i - 1]
        /\ \A i \in 1..1 : <<g>>[i] = s[7 + i - 1]
    OBVIOUS
  <1> HIDE DEF S
  <1>4. SubSeq(s, 2, 4) = <<b, c, d>>
    <2>1. PICK t : t = <<b, c, d>>
      OBVIOUS
    <2>2. t \in Seq(S) /\ IsPart(t, s, 2, 4)
      BY <1>2, <1>3, <2>1 DEF IsPart
    <2>3. 2 \in 1..Len(s) /\ 4 \in 2..Len(s)
      BY <1>1
    <2> QED BY <1>1, <2>1, <2>2, <2>3, SubSeqIs
  <1>5. SubSeq(s, 1, 4) = <<a, b, c, d>>
    <2>1. PICK t : t = <<a, b, c, d>>
      OBVIOUS
    <2>2. t \in Seq(S) /\ IsPart(t, s, 1, 4)
      BY <1>2, <1>3, <2>1 DEF IsPart
    <2>3. 1 \in 1..Len(s) /\ 4 \in 1..Len(s)
      BY <1>1
    <2> QED BY <1>1, <2>1, <2>2, <2>3, SubSeqIs
  <1>6. SubSeq(s, 5, 7) = <<e, f, g>>
    <2>1. PICK t : t = <<e, f, g>>
      OBVIOUS
    <2>2. t \in Seq(S) /\ IsPart(t, s, 5, 7)
      BY <1>2, <1>3, <2>1 DEF IsPart
    <2>3. 5 \in 1..Len(s) /\ 7 \in 5..Len(s)
      BY <1>1
    <2> QED BY <1>1, <2>1, <2>2, <2>3, SubSeqIs
  <1>7. SubSeq(s, 7, 7) = <<g>>
    <2>1. PICK t : t = <<g>>
      OBVIOUS
    <2>2. t \in Seq(S) /\ IsPart(t, s, 7, 7)
      BY <1>2, <1>3, <2>1 DEF IsPart
    <2>3. 7 \in 1..Len(s) /\ 7 \in 7..Len(s)
      BY <1>1
    <2> QED BY <1>1, <2>1, <2>2, <2>3, SubSeqIs
  <1>8. KeyIv(s) = SubSeq(s, 2, 4)
    BY DEF KeyIv, Slice, SKIP_LEN, PREKEY_LEN, IV_LEN
  <1>9. /\ Slice(s, 0, PROTO_TAG_POS) = SubSeq(s, 1, 4)
        /\ Slice(s, PROTO_TAG_POS, HANDSHAKE_LEN) = SubSeq(s, 5, 7)
        /\ Slice(s, DC_IDX_POS + 1, HANDSHAKE_LEN) = SubSeq(s, 7, 7)
    BY DEF Slice, PROTO_TAG_POS, HANDSHAKE_LEN, DC_IDX_POS
  <1> QED BY <1>4, <1>5, <1>6, <1>7, <1>8, <1>9

LEMMA JoinsTwo ==
  ASSUME NEW e, NEW f, NEW g, NEW s, NEW t, s = <<e, f>>, t = <<g>>
  PROVE  s \o t = <<e, f, g>>
  <1> DEFINE S == {e, f, g}
  <1>1. PICK u : u = <<e, f, g>>
    OBVIOUS
  <1>2. s \in Seq(S) /\ t \in Seq(S) /\ u \in Seq(S) /\ Len(s) = 2 /\ Len(t) = 1 /\ Len(u) = 3
    BY <1>1
  <1> HIDE DEF S
  <1>3. IsJoined(u, s, t)
    BY <1>1, <1>2 DEF IsJoined
  <1> QED BY <1>1, <1>2, <1>3, ConcatIs

LEMMA JoinsFour ==
  ASSUME NEW a, NEW b, NEW c, NEW d, NEW e, NEW f, NEW g, NEW s, NEW t, s = <<a, b, c, d>>, t = <<e, f, g>>
  PROVE  s \o t = <<a, b, c, d, e, f, g>>
  <1> DEFINE S == {a, b, c, d, e, f, g}
  <1>1. PICK u : u = <<a, b, c, d, e, f, g>>
    OBVIOUS
  <1>2. s \in Seq(S) /\ t \in Seq(S) /\ u \in Seq(S) /\ Len(s) = 4 /\ Len(t) = 3 /\ Len(u) = 7
    BY <1>1
  <1> HIDE DEF S
  <1>3. IsJoined(u, s, t)
    BY <1>1, <1>2 DEF IsJoined
  <1> QED BY <1>1, <1>2, <1>3, ConcatIs

LEMMA JoinsThree ==
  ASSUME NEW a, NEW b, NEW c, NEW d, NEW e, NEW f, NEW g,
         NEW s, NEW t, NEW u, s = <<a, b, c, d>>, t = <<e, f>>, u = <<g>>
  PROVE  s \o t \o u = <<a, b, c, d, e, f, g>>
  <1> DEFINE S == {a, b, c, d, e, f, g}
  <1>1. s \in Seq(S) /\ t \in Seq(S) /\ u \in Seq(S)
    OBVIOUS
  <1> HIDE DEF S
  <1>2. s \o t \o u = s \o (t \o u)
    BY <1>1, ConcatAssociative
  <1>3. t \o u = <<e, f, g>>
    BY JoinsTwo
  <1>4. PICK v : v = t \o u
    OBVIOUS
  <1>5. s \o v = <<a, b, c, d, e, f, g>>
    BY <1>3, <1>4, JoinsFour
  <1> QED BY <1>2, <1>4, <1>5

LEMMA RandomIs ==
  ASSUME NEW who
  PROVE  LET r == Random(who) IN r = <<r[1], r[2], r[3], r[4], r[5], r[6], r[7]>>
  BY DEF Random, HANDSHAKE_LEN

(* The place i of a keystream. *)
Stream(c, i) == {<<"stream", c.key, c.iv, c.at + i>>}

LEMMA UpdateIs ==
  ASSUME NEW k, NEW a, NEW b, NEW c, NEW d, NEW e, NEW f, NEW g
  PROVE  Update(k, <<a, b, c, d, e, f, g>>)
           = <<Xor(a, Stream(k, 1)), Xor(b, Stream(k, 2)), Xor(c, Stream(k, 3)), Xor(d, Stream(k, 4)),
               Xor(e, Stream(k, 5)), Xor(f, Stream(k, 6)), Xor(g, Stream(k, 7))>>
  BY DEF Update, Stream

(* Another secret is another key, since SHA-256 has no collisions here. *)
LEMMA CipherIs ==
  ASSUME NEW keyiv, NEW s1, NEW s2, Cipher(keyiv, s1).key = Cipher(keyiv, s2).key
  PROVE  s1 = s2
  <1>1. PICK prekey : prekey = Slice(keyiv, 0, PREKEY_LEN)
    OBVIOUS
  <1>2. \A s : Cipher(keyiv, s).key = IF s = Raw THEN <<Raw, prekey>> ELSE sha256(s, prekey)
    BY <1>1 DEF Cipher
  <1>3. \A s, t : sha256(s, prekey) = sha256(t, prekey) => s = t
    BY DEF sha256
  <1>4. \A s : Len(sha256(s, prekey)) = 3 /\ Len(<<Raw, prekey>>) = 2
    BY DEF sha256
  <1> QED BY <1>2, <1>3, <1>4

(* The client's 64 bytes. *)
LEMMA ClientInitIs ==
  ASSUME NEW secret, NEW tag, NEW idx
  PROVE  LET r == Random("client")
             c == Cipher(<<r[2], r[3], r[4]>>, secret)
         IN  ClientInit(secret, tag, idx)
               = <<r[1], r[2], r[3], r[4], Xor(Tag(tag), Stream(c, 5)), Xor(DcIdx(idx), Stream(c, 6)), Xor(r[7], Stream(c, 7))>>
  <1>1. PICK r : r = Random("client")
    OBVIOUS
  <1>2. PICK c : c = Cipher(<<r[2], r[3], r[4]>>, secret)
    OBVIOUS
  <1>3. PICK bytes : bytes = <<r[1], r[2], r[3], r[4], Tag(tag), DcIdx(idx), r[7]>>
    OBVIOUS
  <1>4. r = <<r[1], r[2], r[3], r[4], r[5], r[6], r[7]>>
    BY <1>1, RandomIs
  <1>5. /\ KeyIv(r) = <<r[2], r[3], r[4]>>
        /\ Slice(r, 0, PROTO_TAG_POS) = <<r[1], r[2], r[3], r[4]>>
        /\ Slice(r, DC_IDX_POS + 1, HANDSHAKE_LEN) = <<r[7]>>
    BY <1>4, SevenBytes
  <1>6. Slice(r, 0, PROTO_TAG_POS) \o <<Tag(tag), DcIdx(idx)>> \o Slice(r, DC_IDX_POS + 1, HANDSHAKE_LEN) = bytes
    <2>1. PICK x, y, z : x = Slice(r, 0, PROTO_TAG_POS) /\ y = <<Tag(tag), DcIdx(idx)>> /\ z = Slice(r, DC_IDX_POS + 1, HANDSHAKE_LEN)
      OBVIOUS
    <2>2. x = <<r[1], r[2], r[3], r[4]>> /\ z = <<r[7]>>
      BY <1>5, <2>1
    <2>3. y = <<Tag(tag), DcIdx(idx)>>
      BY <2>1
    <2>4. x \o y \o z = <<r[1], r[2], r[3], r[4], Tag(tag), DcIdx(idx), r[7]>>
      BY <2>2, <2>3, JoinsThree
    <2> QED BY <1>3, <2>1, <2>4
  <1>7. Slice(Update(c, bytes), PROTO_TAG_POS, HANDSHAKE_LEN)
          = <<Xor(Tag(tag), Stream(c, 5)), Xor(DcIdx(idx), Stream(c, 6)), Xor(r[7], Stream(c, 7))>>
    <2>1. Update(c, bytes)
            = <<Xor(r[1], Stream(c, 1)), Xor(r[2], Stream(c, 2)), Xor(r[3], Stream(c, 3)), Xor(r[4], Stream(c, 4)),
                Xor(Tag(tag), Stream(c, 5)), Xor(DcIdx(idx), Stream(c, 6)), Xor(r[7], Stream(c, 7))>>
      BY <1>3, UpdateIs
    <2> QED BY <2>1, SevenBytes
  <1>8. ClientInit(secret, tag, idx)
          = Slice(r, 0, PROTO_TAG_POS) \o Slice(Update(c, bytes), PROTO_TAG_POS, HANDSHAKE_LEN)
    BY <1>1, <1>2, <1>5, <1>6 DEF ClientInit
  <1>9. PICK x, y : x = Slice(r, 0, PROTO_TAG_POS) /\ y = Slice(Update(c, bytes), PROTO_TAG_POS, HANDSHAKE_LEN)
    OBVIOUS
  <1>10. /\ x = <<r[1], r[2], r[3], r[4]>>
         /\ y = <<Xor(Tag(tag), Stream(c, 5)), Xor(DcIdx(idx), Stream(c, 6)), Xor(r[7], Stream(c, 7))>>
    BY <1>5, <1>7, <1>9
  <1>11. x \o y = <<r[1], r[2], r[3], r[4], Xor(Tag(tag), Stream(c, 5)), Xor(DcIdx(idx), Stream(c, 6)), Xor(r[7], Stream(c, 7))>>
    BY <1>10, JoinsFour
  <1> QED BY <1>1, <1>2, <1>8, <1>9, <1>11

(* Telegram's 64 bytes: the keystream that is added to tag and data centre *)
(* is the one relay_init itself is decrypted with.                         *)
LEMMA RelayInitIs ==
  ASSUME NEW tag, NEW idx
  PROVE  LET relay == GenerateRelayInit(tag, idx)
             first == Update(Cipher(KeyIv(relay), Raw), relay)
         IN  first[PROTO_TAG_POS + 1] = Tag(tag) /\ first[DC_IDX_POS + 1] = DcIdx(idx)
  <1>1. PICK r : r = Random("relay")
    OBVIOUS
  <1>2. PICK c : c = Cipher(<<r[2], r[3], r[4]>>, Raw)
    OBVIOUS
  <1>3. PICK full : full = Update(c, r)
    OBVIOUS
  <1>4. PICK z : z = Random("tail")[7]
    OBVIOUS
  <1>5. PICK relay : relay = GenerateRelayInit(tag, idx)
    OBVIOUS
  <1>6. r = <<r[1], r[2], r[3], r[4], r[5], r[6], r[7]>>
    BY <1>1, RandomIs
  <1>7. KeyIv(r) = <<r[2], r[3], r[4]>> /\ Slice(r, 0, PROTO_TAG_POS) = <<r[1], r[2], r[3], r[4]>>
    BY <1>6, SevenBytes
  <1>8. <<Tag(tag), DcIdx(idx)>> \o Slice(Random("tail"), DC_IDX_POS + 1, HANDSHAKE_LEN) = <<Tag(tag), DcIdx(idx), z>>
    <2>1. Slice(Random("tail"), DC_IDX_POS + 1, HANDSHAKE_LEN) = <<z>>
      BY <1>4, RandomIs, SevenBytes
    <2> QED BY <2>1, JoinsTwo
  <1>9. \A i \in 1..7 : full[i] = Xor(r[i], Stream(c, i))
    BY <1>1, <1>3 DEF Update, Stream, Random, HANDSHAKE_LEN
  <1>10. relay = <<r[1], r[2], r[3], r[4]>> \o
                 <<Xor(Tag(tag), Xor(full[5], r[5])), Xor(DcIdx(idx), Xor(full[6], r[6])), Xor(z, Xor(full[7], r[7]))>>
    <2>1. PICK tail : tail = <<Tag(tag), DcIdx(idx), z>>
      OBVIOUS
    <2>2. [i \in DOMAIN tail |-> Xor(tail[i], Xor(full[PROTO_TAG_POS + i], r[PROTO_TAG_POS + i]))]
            = <<Xor(Tag(tag), Xor(full[5], r[5])), Xor(DcIdx(idx), Xor(full[6], r[6])), Xor(z, Xor(full[7], r[7]))>>
      BY <2>1 DEF PROTO_TAG_POS
    <2> QED BY <1>1, <1>2, <1>3, <1>5, <1>7, <1>8, <2>1, <2>2 DEF GenerateRelayInit
  <1>11. relay = <<r[1], r[2], r[3], r[4], Xor(Tag(tag), Xor(full[5], r[5])), Xor(DcIdx(idx), Xor(full[6], r[6])),
                   Xor(z, Xor(full[7], r[7]))>>
    BY <1>10, JoinsFour
  <1>12. KeyIv(relay) = <<r[2], r[3], r[4]>>
    BY <1>11, SevenBytes
  <1>13. \A i \in {5, 6} : Xor(full[i], r[i]) = Stream(c, i)
    BY <1>9 DEF Xor
  <1>14. PICK first : first = Update(c, relay)
    OBVIOUS
  <1>15. first[5] = Xor(Xor(Tag(tag), Stream(c, 5)), Stream(c, 5)) /\ first[6] = Xor(Xor(DcIdx(idx), Stream(c, 6)), Stream(c, 6))
    <2>1. DOMAIN relay = 1..7 /\ relay[5] = Xor(Tag(tag), Stream(c, 5)) /\ relay[6] = Xor(DcIdx(idx), Stream(c, 6))
      BY <1>11, <1>13
    <2> QED BY <1>14, <2>1 DEF Update, Stream
  <1> QED BY <1>2, <1>5, <1>12, <1>14, <1>15, XorTwice DEF PROTO_TAG_POS, DC_IDX_POS

(* A client is accepted under its own secret only, and then the proxy has  *)
(* the tag and the data centre it asked for.                               *)
LEMMA HandshakeIs ==
  ASSUME NEW own, NEW secret, NEW tag \in Tags, NEW idx \in Dcs \cup {-d : d \in Dcs},
         NEW init, init = ClientInit(own, tag, idx),
         NEW found, found = TryHandshake(init, secret)
  PROVE  /\ found # Refused <=> secret = own
         /\ secret = own => /\ found.tag = tag
                            /\ (IF found.media THEN -found.dc ELSE found.dc) = idx
                            /\ found.keyiv = KeyIv(init)
  <1>1. PICK r : r = Random("client")
    OBVIOUS
  <1>2. PICK keyiv : keyiv = <<r[2], r[3], r[4]>>
    OBVIOUS
  <1>3. PICK c, k : c = Cipher(keyiv, own) /\ k = Cipher(keyiv, secret)
    OBVIOUS
  <1>4. init = <<r[1], r[2], r[3], r[4], Xor(Tag(tag), Stream(c, 5)), Xor(DcIdx(idx), Stream(c, 6)), Xor(r[7], Stream(c, 7))>>
    BY <1>1, <1>2, <1>3, ClientInitIs
  <1>5. KeyIv(init) = keyiv
    BY <1>2, <1>4, SevenBytes
  <1>6. PICK bytes : bytes = Update(k, init)
    OBVIOUS
  <1>7. /\ bytes[5] = Xor(Xor(Tag(tag), Stream(c, 5)), Stream(k, 5))
        /\ bytes[6] = Xor(Xor(DcIdx(idx), Stream(c, 6)), Stream(k, 6))
    <2>1. DOMAIN init = 1..7 /\ init[5] = Xor(Tag(tag), Stream(c, 5)) /\ init[6] = Xor(DcIdx(idx), Stream(c, 6))
      BY <1>4
    <2> QED BY <1>6, <2>1 DEF Update, Stream
  <1>8. found = IF \A t \in Tags : bytes[5] # Tag(t) THEN Refused
                 ELSE LET i == CHOOSE i \in Dcs \cup {-d : d \in Dcs} : bytes[6] = DcIdx(i)
                      IN  [dc |-> IF i < 0 THEN -i ELSE i, media |-> i < 0,
                           tag |-> CHOOSE t \in Tags : bytes[5] = Tag(t), keyiv |-> keyiv]
    <2>1. TryHandshake(init, secret)
            = IF \A t \in Tags : bytes[PROTO_TAG_POS + 1] # Tag(t) THEN Refused
              ELSE LET i == CHOOSE i \in Dcs \cup {-d : d \in Dcs} : bytes[DC_IDX_POS + 1] = DcIdx(i)
                   IN  [dc |-> IF i < 0 THEN -i ELSE i, media |-> i < 0,
                        tag |-> CHOOSE t \in Tags : bytes[PROTO_TAG_POS + 1] = Tag(t), keyiv |-> keyiv]
      BY <1>3, <1>5, <1>6 DEF TryHandshake
    <2>2. PROTO_TAG_POS + 1 = 5 /\ DC_IDX_POS + 1 = 6
      BY DEF PROTO_TAG_POS, DC_IDX_POS
    <2> QED BY <2>1, <2>2
  <1>9. ASSUME secret # own PROVE \A t \in Tags : bytes[5] # Tag(t)
    <2>1. PICK x, y : x = <<"stream", c.key, c.iv, c.at + 5>> /\ y = <<"stream", k.key, k.iv, k.at + 5>>
      OBVIOUS
    <2>2. x # y
      <3>1. c.key # k.key
        BY <1>3, <1>9, CipherIs
      <3>2. x[2] = c.key /\ y[2] = k.key
        BY <2>1
      <3> QED BY <3>1, <3>2
    <2>3. \A t : <<"tag", t>> # x /\ <<"tag", t>> # y
      <3>1. x[1] = "stream" /\ y[1] = "stream" /\ \A t : <<"tag", t>>[1] = "tag"
        BY <2>1
      <3> QED BY <3>1
    <2>4. bytes[5] = Xor(Xor({<<"tag", tag>>}, {x}), {y})
      BY <1>7, <2>1 DEF Tag, Stream
    <2>5. x \in bytes[5]
      BY <2>2, <2>3, <2>4 DEF Xor
    <2> QED BY <2>3, <2>5 DEF Tag
  <1>10. ASSUME secret = own PROVE bytes[5] = Tag(tag) /\ bytes[6] = DcIdx(idx)
    BY <1>3, <1>7, <1>10, XorTwice
  <1>11. ASSUME secret = own
         PROVE  /\ found # Refused /\ found.tag = tag /\ found.keyiv = keyiv
                /\ (IF found.media THEN -found.dc ELSE found.dc) = idx
    <2>1. \A t : Tag(t) = Tag(tag) <=> t = tag
      <3>1. ASSUME NEW t, Tag(t) = Tag(tag) PROVE t = tag
        <4>1. <<"tag", t>> = <<"tag", tag>>
          BY <3>1 DEF Tag
        <4> QED BY <4>1
      <3> QED BY <3>1
    <2>2. \A i : DcIdx(i) = DcIdx(idx) <=> i = idx
      <3>1. ASSUME NEW i, DcIdx(i) = DcIdx(idx) PROVE i = idx
        <4>1. <<"dc", i>> = <<"dc", idx>>
          BY <3>1 DEF DcIdx
        <4> QED BY <4>1
      <3> QED BY <3>1
    <2>3. (CHOOSE i \in Dcs \cup {-d : d \in Dcs} : bytes[6] = DcIdx(i)) = idx
      BY <1>10, <1>11, <2>2
    <2>4. (CHOOSE t \in Tags : bytes[5] = Tag(t)) = tag
      BY <1>10, <1>11, <2>1
    <2>5. found = [dc |-> IF idx < 0 THEN -idx ELSE idx, media |-> idx < 0, tag |-> tag, keyiv |-> keyiv]
      BY <1>8, <1>10, <1>11, <2>3, <2>4
    <2>6. idx \in Int
      BY DcsAssumption
    <2>7. found # Refused
      <3>1. DOMAIN found = {"dc", "media", "tag", "keyiv"} /\ DOMAIN Refused = {}
        BY <2>5 DEF Refused
      <3> QED BY <3>1
    <2>8. found.tag = tag /\ found.keyiv = keyiv
      BY <2>5
    <2>9. CASE idx < 0
      <3>1. found = [dc |-> -idx, media |-> TRUE, tag |-> tag, keyiv |-> keyiv]
        <4>1. (idx < 0) = TRUE
          BY <2>9
        <4> QED BY <2>5, <4>1
      <3> QED BY <2>6, <2>7, <2>8, <3>1
    <2>10. CASE ~(idx < 0)
      <3>1. found = [dc |-> idx, media |-> FALSE, tag |-> tag, keyiv |-> keyiv]
        <4>1. (idx < 0) = FALSE
          BY <2>10
        <4> QED BY <2>5, <4>1
      <3> QED BY <2>6, <2>7, <2>8, <3>1
    <2> QED BY <2>9, <2>10
  <1> QED BY <1>5, <1>8, <1>9, <1>11

(* The proxy finds the client's secret among its own, or none. *)
LEMMA SecretForIs ==
  ASSUME NEW own, NEW tag \in Tags, NEW idx \in Dcs \cup {-d : d \in Dcs},
         NEW init, init = ClientInit(own, tag, idx)
  PROVE  /\ own \in Ours => SecretFor(init) \in DOMAIN Secrets /\ SecretFor(init) # 0 /\ Secrets[SecretFor(init)] = own
         /\ own \notin Ours => SecretFor(init) = 0
  <1>1. PICK fits : fits = {k \in DOMAIN Secrets : TryHandshake(init, Secrets[k]) # Refused}
    OBVIOUS
  <1>2. fits = {k \in DOMAIN Secrets : Secrets[k] = own}
    BY <1>1, HandshakeIs
  <1>3. SecretFor(init) = IF fits = {} THEN 0 ELSE CHOOSE k \in fits : \A j \in fits : k <= j
    BY <1>1 DEF SecretFor
  <1>4. DOMAIN Secrets = 1..Len(Secrets) /\ Len(Secrets) \in Nat
    BY SecretsAssumption
  <1>5. fits \subseteq Nat
    BY <1>2, <1>4
  <1>6. fits # {} => SecretFor(init) \in fits
    BY <1>3, <1>5, NatMin
  <1>7. fits # {} <=> own \in Ours
    BY <1>2 DEF Ours
  <1>8. ASSUME own \notin Ours PROVE SecretFor(init) = 0
    BY <1>3, <1>7, <1>8
  <1>9. ASSUME own \in Ours
        PROVE  SecretFor(init) \in DOMAIN Secrets /\ SecretFor(init) # 0 /\ Secrets[SecretFor(init)] = own
    <2>1. SecretFor(init) \in fits
      BY <1>6, <1>7, <1>9
    <2> QED BY <1>2, <1>4, <2>1
  <1> QED BY <1>8, <1>9

LEMMA CiphersAgreeAlways == CiphersAgree
  <1> SUFFICES ASSUME NEW secret \in Ours \cup Others, NEW tag \in Tags, NEW dc \in Dcs \cup {-d : d \in Dcs}
               PROVE  LET init == ClientInit(secret, tag, dc)
                          k == SecretFor(init)
                          found == TryHandshake(init, Secrets[k])
                          relay == GenerateRelayInit(found.tag, IF found.media THEN -found.dc ELSE found.dc)
                          ctx == BuildCryptoCtx(found.keyiv, Secrets[k], relay)
                          first == Update(Cipher(KeyIv(relay), Raw), relay)
                          sent == Update(ctx.tg_enc, Update(ctx.clt_dec, Update(Sending(init, secret), Up)))
                          back == Update(ctx.clt_enc, Update(ctx.tg_dec, Update(Receiving(relay, Raw), Down)))
                      IN  IF secret \in Others THEN k = 0
                          ELSE /\ k # 0 /\ Secrets[k] = secret
                               /\ first[PROTO_TAG_POS + 1] = Tag(tag) /\ first[DC_IDX_POS + 1] = DcIdx(dc)
                               /\ Update(Sending(relay, Raw), sent) = Up
                               /\ Update(SplitterDec(relay), sent) = Up
                               /\ Update(Receiving(init, secret), back) = Down
    BY DEF CiphersAgree
  <1>1. PICK init : init = ClientInit(secret, tag, dc)
    OBVIOUS
  <1>2. PICK k : k = SecretFor(init)
    OBVIOUS
  <1>3. CASE secret \in Others
    <2>1. secret \notin Ours
      BY <1>3, SecretsAssumption
    <2> QED BY <1>1, <1>2, <1>3, <2>1, SecretForIs
  <1>4. CASE secret \notin Others
    <2>1. k # 0 /\ Secrets[k] = secret
      BY <1>1, <1>2, <1>4, SecretForIs
    <2>2. PICK found : found = TryHandshake(init, secret)
      OBVIOUS
    <2>3. found.tag = tag /\ (IF found.media THEN -found.dc ELSE found.dc) = dc /\ found.keyiv = KeyIv(init)
      BY <1>1, <2>2, HandshakeIs
    <2>4. PICK relay : relay = GenerateRelayInit(tag, dc)
      OBVIOUS
    <2>5. PICK ctx : ctx = BuildCryptoCtx(KeyIv(init), secret, relay)
      OBVIOUS
    <2>6. PICK a, b, c, d : /\ a = Sending(init, secret) /\ b = Sending(relay, Raw)
                            /\ c = Receiving(relay, Raw) /\ d = Receiving(init, secret)
      OBVIOUS
    <2>7. ctx.clt_dec = a /\ ctx.tg_enc = b /\ SplitterDec(relay) = b /\ ctx.tg_dec = c /\ ctx.clt_enc = d
      BY <2>5, <2>6 DEF BuildCryptoCtx, Sending, Receiving, SplitterDec
    <2>8. Up = [i \in DOMAIN Up |-> Up[i]] /\ Down = [i \in DOMAIN Down |-> Down[i]]
      BY DEF Up, Down
    <2>9. \A x : Update(x, Update(x, Up)) = Up /\ Update(x, Update(x, Down)) = Down
      BY <2>8, UpdateTwice
    <2>10. /\ Update(b, Update(b, Update(a, Update(a, Up)))) = Up
           /\ Update(d, Update(d, Update(c, Update(c, Down)))) = Down
      BY <2>9
    <2>11. /\ Update(Cipher(KeyIv(relay), Raw), relay)[PROTO_TAG_POS + 1] = Tag(tag)
           /\ Update(Cipher(KeyIv(relay), Raw), relay)[DC_IDX_POS + 1] = DcIdx(dc)
      BY <2>4, RelayInitIs
    <2> QED BY <1>1, <1>2, <1>4, <2>1, <2>2, <2>3, <2>4, <2>5, <2>6, <2>7, <2>10, <2>11
  <1> QED BY <1>3, <1>4

-----------------------------------------------------------------------------
(* Hellos *)

LEMMA TwoAtoms ==
  ASSUME NEW x, NEW y, x # y
  PROVE  Plus(Plus({x}, {y}), {x}) = {y}
  BY DEF Plus

(* An HMAC is that of one secret and one hello only, and who can compute  *)
(* it finds the time in the random.                                        *)
LEMMA HmacIsFree ==
  ASSUME NEW s, NEW d, NEW s2, NEW d2
  PROVE  /\ Hmac(s, d)[1] = Hmac(s2, d2)[1] => s = s2 /\ d = d2
         /\ \A t : Plus(Plus(Hmac(s, d)[2], Time(t)), Hmac(s, d)[2]) = Time(t)
  <1>1. ASSUME Hmac(s, d)[1] = Hmac(s2, d2)[1] PROVE s = s2 /\ d = d2
    <2>1. Hmac(s, d)[1] = {<<"hmac", s, d, 1>>} /\ Hmac(s2, d2)[1] = {<<"hmac", s2, d2, 1>>}
      BY DEF Hmac
    <2>2. <<"hmac", s, d, 1>> = <<"hmac", s2, d2, 1>>
      BY <1>1, <2>1
    <2> QED BY <2>2
  <1>2. ASSUME NEW t PROVE Plus(Plus(Hmac(s, d)[2], Time(t)), Hmac(s, d)[2]) = Time(t)
    <2>1. PICK x, y : x = <<"hmac", s, d, 2>> /\ y = <<"time", t>>
      OBVIOUS
    <2>2. x # y
      <3>1. x[1] = "hmac" /\ y[1] = "time"
        BY <2>1
      <3> QED BY <3>1
    <2>3. Hmac(s, d)[2] = {x} /\ Time(t) = {y}
      BY <2>1 DEF Hmac, Time
    <2> QED BY <2>2, <2>3, TwoAtoms
  <1> QED BY <1>1, <1>2

(* A hello with zeros for its random. *)
Bare(session) == [type |-> "handshake", message |-> "client_hello", random |-> NoRandom, session |-> session]

LEMMA HelloIs ==
  ASSUME NEW own, NEW t, NEW session
  PROVE  Hello(own, t, session)
           = [type |-> "handshake", message |-> "client_hello",
              random |-> <<Hmac(own, Bare(session))[1], Plus(Hmac(own, Bare(session))[2], Time(t))>>,
              session |-> session]
  BY DEF Hello, Bare

(* A hello is let in if it has the right HMAC and its time is near.        *)
LEMMA LetIn ==
  ASSUME NEW hello, hello.type = "handshake", hello.message = "client_hello",
         NEW own, NEW t \in Clocks, NEW was, NEW session, NEW secret,
         [hello EXCEPT !.random = NoRandom] = Bare(session),
         hello.random = <<Hmac(own, Bare(was))[1], Plus(Hmac(own, Bare(was))[2], Time(t))>>
  PROVE  LET seen == VerifyClientHello(hello, secret)
         IN  /\ seen # Rejected <=> own = secret /\ was = session /\ t \in -TIMESTAMP_TOLERANCE..TIMESTAMP_TOLERANCE
             /\ seen # Rejected => seen = [random |-> hello.random, session |-> IF hello.session = "id" THEN "id" ELSE NoSession]
  <1>1. PICK expected : expected = Hmac(secret, Bare(session))
    OBVIOUS
  <1>2. PICK fresh : fresh = {u \in Clocks : Time(u) = Plus(hello.random[2], expected[2])
                                               /\ u \in -TIMESTAMP_TOLERANCE..TIMESTAMP_TOLERANCE}
    OBVIOUS
  <1>3. PICK answer : answer = [random |-> hello.random, session |-> IF hello.session = "id" THEN "id" ELSE NoSession]
    OBVIOUS
  <1>4. VerifyClientHello(hello, secret)
          = IF expected[1] # hello.random[1] \/ fresh = {} THEN Rejected ELSE answer
    BY <1>1, <1>2, <1>3 DEF VerifyClientHello
  <1>5. answer # Rejected
    <2>1. DOMAIN answer = {"random", "session"} /\ DOMAIN Rejected = {}
      BY <1>3 DEF Rejected
    <2> QED BY <2>1
  <1>6. expected[1] = hello.random[1] <=> own = secret /\ was = session
    <2>1. Bare(was) = Bare(session) => was = session
      <3>1. Bare(was).session = was /\ Bare(session).session = session
        BY DEF Bare
      <3> QED BY <3>1
    <2>2. hello.random[1] = Hmac(own, Bare(was))[1]
      OBVIOUS
    <2> QED BY <1>1, <2>1, <2>2, HmacIsFree
  <1>7. ASSUME own = secret, was = session
        PROVE  fresh = {} <=> t \notin -TIMESTAMP_TOLERANCE..TIMESTAMP_TOLERANCE
    <2>1. hello.random[2] = Plus(expected[2], Time(t))
      BY <1>1, <1>7
    <2>2. Plus(hello.random[2], expected[2]) = Time(t)
      BY <1>1, <2>1, HmacIsFree
    <2>3. \A u : Time(u) = Time(t) <=> u = t
      <3>1. ASSUME NEW u, Time(u) = Time(t) PROVE u = t
        <4>1. <<"time", u>> = <<"time", t>>
          BY <3>1 DEF Time
        <4> QED BY <4>1
      <3> QED BY <3>1
    <2> QED BY <1>2, <2>2, <2>3
  <1> QED BY <1>3, <1>4, <1>5, <1>6, <1>7

(* The client takes the answer of build_server_hello. *)
LEMMA KnowsServer ==
  ASSUME NEW hello, NEW secret, NEW session, hello.session = "id" => session = "id"
  PROVE  Accepts(hello, BuildServerHello(secret, hello.random, session), secret)
  <1> DEFINE bare == [random |-> NoRandom, session |-> session, key |-> "random", padding |-> "random"]
  <1>1. PICK response : response = BuildServerHello(secret, hello.random, session)
    OBVIOUS
  <1>2. PICK mac : mac = Hmac(secret, <<hello.random, bare>>)
    OBVIOUS
  <1>5. response = [random |-> mac, session |-> session, key |-> "random", padding |-> "random"]
    <2>1. response = [bare EXCEPT !.random = mac]
      BY <1>1, <1>2 DEF BuildServerHello
    <2> QED BY <2>1
  <1>3. [response EXCEPT !.random = NoRandom] = bare
    BY <1>5
  <1>4. response.random = Hmac(secret, <<hello.random, bare>>) /\ response.session = session
    BY <1>2, <1>5
  <1> QED BY <1>1, <1>3, <1>4 DEF Accepts

LEMMA HellosAgreeAlways == HellosAgree
  <1> SUFFICES ASSUME NEW secret \in Known, NEW own \in Known \cup Guessed, NEW t \in Clocks,
                      NEW session \in {"id", "other", "short"}
               PROVE  LET hello == Hello(own, t, session)
                          changed == [hello EXCEPT !.session = IF session = "id" THEN "other" ELSE "id"]
                          seen == VerifyClientHello(hello, secret)
                      IN  /\ VerifyClientHello(changed, secret) = Rejected
                          /\ seen # Rejected <=> own = secret /\ t <= TIMESTAMP_TOLERANCE /\ -t <= TIMESTAMP_TOLERANCE
                          /\ seen # Rejected => Accepts(hello, BuildServerHello(secret, seen.random, seen.session), secret)
    BY DEF HellosAgree
  <1>1. PICK hello : hello = Hello(own, t, session)
    OBVIOUS
  <1>2. PICK edit : edit = IF session = "id" THEN "other" ELSE "id"
    OBVIOUS
  <1>3. PICK changed : changed = [hello EXCEPT !.session = edit]
    OBVIOUS
  <1>4. PICK random : random = <<Hmac(own, Bare(session))[1], Plus(Hmac(own, Bare(session))[2], Time(t))>>
    OBVIOUS
  <1>5. /\ hello = [type |-> "handshake", message |-> "client_hello", random |-> random, session |-> session]
        /\ changed = [type |-> "handshake", message |-> "client_hello", random |-> random, session |-> edit]
    BY <1>1, <1>3, <1>4, HelloIs
  <1>6. /\ [hello EXCEPT !.random = NoRandom] = Bare(session)
        /\ [changed EXCEPT !.random = NoRandom] = Bare(edit)
        /\ hello.type = "handshake" /\ hello.message = "client_hello" /\ hello.random = random /\ hello.session = session
        /\ changed.type = "handshake" /\ changed.message = "client_hello" /\ changed.random = random
    BY <1>5 DEF Bare
  <1>7. PICK seen : seen = VerifyClientHello(hello, secret)
    OBVIOUS
  <1>8. /\ seen # Rejected <=> own = secret /\ t \in -TIMESTAMP_TOLERANCE..TIMESTAMP_TOLERANCE
        /\ seen # Rejected => seen = [random |-> random, session |-> IF session = "id" THEN "id" ELSE NoSession]
    BY <1>4, <1>6, <1>7, LetIn
  <1>9. VerifyClientHello(changed, secret) = Rejected
    <2>1. edit # session
      BY <1>2
    <2> QED BY <1>4, <1>6, <2>1, LetIn
  <1>10. t \in -TIMESTAMP_TOLERANCE..TIMESTAMP_TOLERANCE <=> t <= TIMESTAMP_TOLERANCE /\ -t <= TIMESTAMP_TOLERANCE
    BY ClocksAssumption DEF TIMESTAMP_TOLERANCE
  <1>11. seen # Rejected => Accepts(hello, BuildServerHello(secret, seen.random, seen.session), secret)
    <2> SUFFICES ASSUME seen # Rejected
                 PROVE  Accepts(hello, BuildServerHello(secret, seen.random, seen.session), secret)
      OBVIOUS
    <2>1. seen.random = hello.random /\ (hello.session = "id" => seen.session = "id")
      BY <1>6, <1>8
    <2> QED BY <2>1, KnowsServer
  <1> QED BY <1>1, <1>2, <1>3, <1>7, <1>8, <1>9, <1>10, <1>11

-----------------------------------------------------------------------------
(* Frames and records *)

(* What is left of a number without its last byte, without its last two,   *)
(* and that byte.                                                          *)
Above(n) == n \div 256
Above2(n) == n \div 65536
LastByte(n) == n % 256

LEMMA AboveIsNat ==
  ASSUME NEW n \in Nat
  PROVE  Above(n) \in Nat
  BY DEF Above

LEMMA ByteByByte ==
  ASSUME NEW n \in Nat
  PROVE  Above(n) \in Nat /\ LastByte(n) \in Nat /\ Above(n) * 256 + LastByte(n) = n
  BY DEF Above, LastByte

LEMMA LastOfShort ==
  ASSUME NEW n \in Nat, n < 256
  PROVE  LastByte(n) = n
  BY DEF LastByte

LEMMA TwoBytes ==
  ASSUME NEW n \in Nat
  PROVE  Above(Above(n)) = Above2(n)
  BY DEF Above, Above2

LEMMA ShortAbove ==
  ASSUME NEW n \in Nat, Above2(n) = 0
  PROVE  Above(n) < 256
  BY DEF Above, Above2

(* The loops of struct.pack and unpack have an end. *)
Rests(n, size, g) == g = [k \in 0..(size - 1) |-> IF k = 0 THEN n ELSE Above(g[k - 1])]
Values(bytes, m, g) == g = [k \in 0..m |-> IF k = 0 THEN 0 ELSE g[k - 1] * 256 + bytes[k]]

LEMMA HasRests ==
  ASSUME NEW n \in Nat, NEW size \in Nat \ {0}
  PROVE  \E g : Rests(n, size, g)
  <1> DEFINE T == {j \in Nat \ {0} : ~\E g : Rests(n, j, g)}
  <1>1. SUFFICES ASSUME T # {} PROVE FALSE
    OBVIOUS
  <1>2. PICK j \in T : \A l \in T : j <= l
    <2>1. T \subseteq Nat
      OBVIOUS
    <2> HIDE DEF T
    <2> QED BY <1>1, <2>1, NatMin
  <1>3. CASE j = 1
    <2> DEFINE g == [k \in 0..0 |-> n]
    <2>1. Rests(n, 1, g)
      BY DEF Rests
    <2> QED BY <1>2, <1>3, <2>1
  <1>4. CASE j # 1
    <2>1. j \in Nat \ {0, 1} /\ j - 1 \notin T
      BY <1>2, <1>4
    <2>2. PICK g : Rests(n, j - 1, g)
      BY <2>1
    <2> DEFINE h == [k \in 0..(j - 1) |-> IF k = 0 THEN n ELSE Above(g[k - 1])]
    <2>3. g = [k \in 0..(j - 2) |-> IF k = 0 THEN n ELSE Above(g[k - 1])]
      BY <2>1, <2>2 DEF Rests
    <2>4. \A k \in 0..(j - 2) : k \in 0..(j - 1) /\ g[k] = h[k]
      BY <2>1, <2>3
    <2>5. \A k \in 0..(j - 1) : k # 0 => k - 1 \in 0..(j - 2)
      BY <2>1
    <2>6. \A k \in 0..(j - 1) : h[k] = IF k = 0 THEN n ELSE Above(h[k - 1])
      BY <2>4, <2>5
    <2>7. h = [k \in 0..(j - 1) |-> IF k = 0 THEN n ELSE Above(h[k - 1])]
      BY <2>6
    <2>8. Rests(n, j, h)
      <3> HIDE DEF h
      <3> QED BY <2>7 DEF Rests
    <2> QED BY <1>2, <2>8
  <1> QED BY <1>3, <1>4

LEMMA HasValues ==
  ASSUME NEW bytes, NEW m \in Nat
  PROVE  \E g : Values(bytes, m, g)
  <1> DEFINE T == {j \in Nat : ~\E g : Values(bytes, j, g)}
  <1>1. SUFFICES ASSUME T # {} PROVE FALSE
    OBVIOUS
  <1>2. PICK j \in T : \A l \in T : j <= l
    <2>1. T \subseteq Nat
      OBVIOUS
    <2> HIDE DEF T
    <2> QED BY <1>1, <2>1, NatMin
  <1>3. CASE j = 0
    <2> DEFINE g == [k \in 0..0 |-> 0]
    <2>1. Values(bytes, 0, g)
      BY DEF Values
    <2> QED BY <1>2, <1>3, <2>1
  <1>4. CASE j # 0
    <2>1. j \in Nat \ {0} /\ j - 1 \notin T
      BY <1>2, <1>4
    <2>2. PICK g : Values(bytes, j - 1, g)
      BY <2>1
    <2> DEFINE h == [k \in 0..j |-> IF k = 0 THEN 0 ELSE g[k - 1] * 256 + bytes[k]]
    <2>3. g = [k \in 0..(j - 1) |-> IF k = 0 THEN 0 ELSE g[k - 1] * 256 + bytes[k]]
      BY <2>2 DEF Values
    <2>4. \A k \in 0..(j - 1) : k \in 0..j /\ g[k] = h[k]
      BY <2>1, <2>3
    <2>5. \A k \in 0..j : k # 0 => k - 1 \in 0..(j - 1)
      BY <2>1
    <2>6. \A k \in 0..j : h[k] = IF k = 0 THEN 0 ELSE h[k - 1] * 256 + bytes[k]
      BY <2>4, <2>5
    <2>7. h = [k \in 0..j |-> IF k = 0 THEN 0 ELSE h[k - 1] * 256 + bytes[k]]
      BY <2>6
    <2>8. Values(bytes, j, h)
      <3> HIDE DEF h
      <3> QED BY <2>7 DEF Values
    <2> QED BY <1>2, <2>8
  <1> QED BY <1>3, <1>4

(* Pack takes the last byte of what is left, the last place first, and     *)
(* Unpack starts with the first.                                           *)
LEMMA PackIs ==
  ASSUME NEW n \in Nat, NEW size \in Nat \ {0}
  PROVE  \E g : /\ Rests(n, size, g) /\ Pack(n, size) = [k \in 1..size |-> LastByte(g[size - k])]
                /\ \A k \in 0..(size - 1) : g[k] \in Nat
  <1> DEFINE g == CHOOSE g : g = [k \in 0..(size - 1) |-> IF k = 0 THEN n ELSE Above(g[k - 1])]
  <1>1. Rests(n, size, g)
    BY HasRests DEF Rests
  <1>2. Pack(n, size) = [k \in 1..size |-> LastByte(g[size - k])]
    BY DEF Pack, Above, LastByte
  <1>3. \A k \in 0..(size - 1) : g[k] \in Nat
    <2> HIDE DEF g
    <2> DEFINE T == {j \in 0..(size - 1) : g[j] \notin Nat}
    <2>1. SUFFICES ASSUME T # {} PROVE FALSE
      OBVIOUS
    <2>2. PICK j \in T : \A l \in T : j <= l
      <3>1. T \subseteq Nat
        OBVIOUS
      <3> HIDE DEF T
      <3> QED BY <2>1, <3>1, NatMin
    <2>3. g[j] = IF j = 0 THEN n ELSE Above(g[j - 1])
      BY <1>1 DEF Rests
    <2>4. j = 0 \/ g[j - 1] \in Nat
      <3>1. ASSUME j # 0 PROVE j - 1 \in 0..(size - 1) /\ j - 1 \notin T
        BY <2>2, <3>1
      <3> QED BY <3>1
    <2> QED BY <2>2, <2>3, <2>4, AboveIsNat
  <1> QED BY <1>1, <1>2, <1>3

LEMMA UnpackIs ==
  ASSUME NEW bytes, Len(bytes) \in Nat
  PROVE  \E g : Values(bytes, Len(bytes), g) /\ Unpack(bytes) = g[Len(bytes)]
  <1> DEFINE g == CHOOSE g : g = [k \in 0..Len(bytes) |-> IF k = 0 THEN 0 ELSE g[k - 1] * 256 + bytes[k]]
  <1>1. Values(bytes, Len(bytes), g)
    BY HasValues DEF Values
  <1>2. Unpack(bytes) = g[Len(bytes)]
    BY DEF Unpack
  <1> QED BY <1>1, <1>2

(* Whatever is packed into enough bytes, unpacks. *)
Fits(g, size) == g[size - 1] < 256

Unpacks(n, size) == Pack(n, size) \in Seq(Nat) /\ Len(Pack(n, size)) = size /\ Unpack(Pack(n, size)) = n

LEMMA Packs ==
  ASSUME NEW n \in Nat, NEW size \in Nat \ {0}, NEW g, Rests(n, size, g), Fits(g, size)
  PROVE  Unpacks(n, size)
  <1>1. PICK bytes : bytes = Pack(n, size)
    OBVIOUS
  <1>2. /\ bytes = [k \in 1..size |-> LastByte(g[size - k])]
        /\ \A k \in 0..(size - 1) : g[k] \in Nat
    <2>1. PICK f : /\ Rests(n, size, f) /\ bytes = [k \in 1..size |-> LastByte(f[size - k])]
                   /\ \A k \in 0..(size - 1) : f[k] \in Nat
      BY <1>1, PackIs
    <2>2. f = g
      <3> DEFINE T == {j \in 0..(size - 1) : f[j] # g[j]}
      <3>1. DOMAIN f = 0..(size - 1) /\ DOMAIN g = 0..(size - 1) /\ f = [k \in 0..(size - 1) |-> f[k]] /\ g = [k \in 0..(size - 1) |-> g[k]]
        BY <2>1 DEF Rests
      <3>2. T = {}
        <4>1. SUFFICES ASSUME T # {} PROVE FALSE
          OBVIOUS
        <4>2. PICK j \in T : \A l \in T : j <= l
          <5>1. T \subseteq Nat
            OBVIOUS
          <5> HIDE DEF T
          <5> QED BY <4>1, <5>1, NatMin
        <4>3. f[j] = (IF j = 0 THEN n ELSE Above(f[j - 1])) /\ g[j] = (IF j = 0 THEN n ELSE Above(g[j - 1]))
          BY <2>1 DEF Rests
        <4>4. j = 0 \/ f[j - 1] = g[j - 1]
          <5>1. ASSUME j # 0 PROVE j - 1 \in 0..(size - 1) /\ j - 1 \notin T
            BY <4>2, <5>1
          <5> QED BY <5>1
        <4> QED BY <4>2, <4>3, <4>4
      <3> QED BY <3>1, <3>2
    <2> QED BY <2>1, <2>2
  <1>3. bytes \in Seq(Nat) /\ Len(bytes) = size
    <2>1. \A k \in 1..size : size - k \in 0..(size - 1) /\ LastByte(g[size - k]) \in Nat
      <3>1. \A k \in 1..size : size - k \in 0..(size - 1)
        OBVIOUS
      <3> QED BY <1>2, <3>1, ByteByByte
    <2>2. bytes \in [1..size -> Nat]
      BY <1>2, <2>1
    <2> QED BY <2>2
  <1>4. PICK v : Values(bytes, size, v) /\ Unpack(bytes) = v[size]
    BY <1>3, UnpackIs
  <1>5. \A k \in 1..size : v[k] = g[size - k]
    <2> DEFINE T == {j \in 1..size : v[j] # g[size - j]}
    <2>1. SUFFICES ASSUME T # {} PROVE FALSE
      OBVIOUS
    <2>2. PICK j \in T : \A l \in T : j <= l
      <3>1. T \subseteq Nat
        OBVIOUS
      <3> HIDE DEF T
      <3> QED BY <2>1, <3>1, NatMin
    <2>3. j \in 1..size /\ j \in 0..size /\ j - 1 \in 0..size
      BY <2>2
    <2>4. v[j] = v[j - 1] * 256 + bytes[j] /\ v[0] = 0
      BY <1>4, <2>3 DEF Values
    <2>5. bytes[j] = LastByte(g[size - j]) /\ g[size - j] \in Nat
      BY <1>2, <2>3
    <2>6. CASE j = 1
      <3>1. g[size - j] < 256
        BY <2>6 DEF Fits
      <3>2. bytes[j] = g[size - j]
        BY <2>5, <3>1, LastOfShort
      <3>3. v[j] = 0 * 256 + bytes[j]
        BY <2>4, <2>6
      <3>4. v[j] = g[size - j]
        BY <2>5, <3>2, <3>3
      <3> QED BY <2>2, <3>4
    <2>7. CASE j # 1
      <3>1. j - 1 \in 1..size /\ j - 1 \notin T /\ size - (j - 1) \in 1..(size - 1)
        BY <2>2, <2>3, <2>7
      <3>2. v[j - 1] = g[size - (j - 1)]
        BY <3>1
      <3>3. PICK a, b : a = g[size - (j - 1)] /\ b = g[size - j]
        OBVIOUS
      <3>4. a = Above(b)
        <4>1. (size - (j - 1)) - 1 = size - j /\ size - (j - 1) # 0 /\ size - (j - 1) \in 0..(size - 1)
          BY <2>3, <3>1
        <4>2. g[size - (j - 1)] = Above(g[(size - (j - 1)) - 1])
          BY <4>1 DEF Rests
        <4> QED BY <3>3, <4>1, <4>2
      <3>5. v[j] = a * 256 + LastByte(b) /\ b \in Nat
        BY <2>4, <2>5, <3>2, <3>3
      <3>6. v[j] = b
        BY <3>4, <3>5, ByteByByte
      <3> QED BY <2>2, <3>3, <3>6
    <2> QED BY <2>6, <2>7
  <1>6. v[size] = g[0] /\ g[0] = n
    <2>1. size \in 1..size /\ size - size = 0 /\ 0 \in 0..(size - 1)
      OBVIOUS
    <2>2. g[0] = n
      BY <2>1 DEF Rests
    <2> QED BY <1>5, <2>1, <2>2
  <1> QED BY <1>1, <1>3, <1>4, <1>6 DEF Unpacks

(* Two bytes hold what is below 65536, eight bytes what struct.pack takes. *)
LEMMA PacksTwo ==
  ASSUME NEW n \in Nat, n < 65536
  PROVE  Unpacks(n, 2)
  <1>1. PICK size : size = 2
    OBVIOUS
  <1>2. PICK g : Rests(n, size, g)
    BY <1>1, HasRests
  <1>3. size \in Nat \ {0} /\ size - 1 = 1
    BY <1>1
  <1>4. 0 \in 0..(size - 1) /\ 1 \in 0..(size - 1)
    BY <1>3
  <1>5. g[0] = n /\ g[1] = Above(g[0])
    BY <1>2, <1>4 DEF Rests
  <1>6. Above2(n) = 0
    BY DEF Above2
  <1>7. Fits(g, size)
    BY <1>3, <1>5, <1>6, ShortAbove DEF Fits
  <1>8. Unpacks(n, size)
    BY <1>2, <1>3, <1>7, Packs
  <1> QED BY <1>1, <1>8

(* struct.pack('>Q') does not raise. *)
FitsEight(n) == Above2(Above2(Above2(Above2(n)))) = 0

LEMMA PacksEight ==
  ASSUME NEW n \in Nat, FitsEight(n)
  PROVE  Unpacks(n, 8)
  <1>1. PICK size : size = 8
    OBVIOUS
  <1>2. PICK g : Rests(n, size, g)
    BY <1>1, HasRests
  <1>3. size \in Nat \ {0} /\ size - 1 = 7
    BY <1>1
  <1>4. PICK a, b, c, d, e, f, h : a = g[1] /\ b = g[2] /\ c = g[3] /\ d = g[4] /\ e = g[5] /\ f = g[6] /\ h = g[7]
    OBVIOUS
  <1>5. /\ a = Above(n) /\ b = Above(a) /\ c = Above(b) /\ d = Above(c)
        /\ e = Above(d) /\ f = Above(e) /\ h = Above(f)
    BY <1>2, <1>3, <1>4 DEF Rests
  <1>6. a \in Nat /\ b \in Nat /\ c \in Nat /\ d \in Nat /\ e \in Nat /\ f \in Nat
    BY <1>5, AboveIsNat
  <1>7. b = Above2(n) /\ d = Above2(b) /\ f = Above2(d)
    BY <1>5, <1>6, TwoBytes
  <1>8. Above2(Above2(Above2(Above2(n)))) = 0
    BY DEF FitsEight
  <1>9. h < 256
    BY <1>5, <1>6, <1>7, <1>8, ShortAbove
  <1>10. Fits(g, size)
    BY <1>3, <1>4, <1>9 DEF Fits
  <1>11. Unpacks(n, size)
    BY <1>2, <1>3, <1>10, Packs
  <1> QED BY <1>1, <1>11

(* A header is its two first bytes, and a length packed behind them. *)
IsHeader(h, a, b, p) == h = <<a>> \o (<<b>> \o p)
Begins(u, h, a, b, p, m) == Len(h) = m + 2 /\ u[1] = a /\ u[2] = b /\ SubSeq(u, 3, m + 2) = p

LEMMA HeaderIs ==
  ASSUME NEW a \in Nat, NEW b \in Nat, NEW p \in Seq(Nat), NEW z \in Seq(Nat), NEW m \in Nat \ {0}, m = Len(p),
         NEW h, IsHeader(h, a, b, p), NEW u, u = h \o z
  PROVE  Begins(u, h, a, b, p, m)
  <1>1. PICK s, t : s = <<a>> /\ t = <<b>>
    OBVIOUS
  <1>2. s \in Seq(Nat) /\ t \in Seq(Nat) /\ Len(s) = 1 /\ Len(t) = 1 /\ s[1] = a /\ t[1] = b
    BY <1>1
  <1>3. PICK v : v = t \o p
    OBVIOUS
  <1>4. v \in Seq(Nat) /\ Len(v) = m + 1 /\ \A i \in 1..(m + 1) : v[i] = IF i <= 1 THEN t[i] ELSE p[i - 1]
    <2>1. v \in Seq(Nat) /\ IsJoined(v, t, p)
      BY <1>2, <1>3, JoinIs
    <2>2. Len(t) + Len(p) = m + 1
      BY <1>2
    <2> QED BY <1>2, <2>1, <2>2 DEF IsJoined
  <1>5. h = s \o v
    BY <1>1, <1>3 DEF IsHeader
  <1>6. h \in Seq(Nat) /\ Len(h) = m + 2 /\ \A i \in 1..(m + 2) : h[i] = IF i <= 1 THEN s[i] ELSE v[i - 1]
    <2>1. IsJoined(h, s, v) /\ h \in Seq(Nat)
      BY <1>2, <1>4, <1>5, JoinIs
    <2>2. Len(s) + Len(v) = m + 2
      BY <1>2, <1>4
    <2> QED BY <1>2, <2>1, <2>2 DEF IsJoined
  <1>7. PICK k \in Nat : k = Len(z)
    OBVIOUS
  <1>8. u \in Seq(Nat) /\ Len(u) = m + 2 + k /\ \A i \in 1..(m + 2) : u[i] = h[i]
    <2>1. IsJoined(u, h, z) /\ u \in Seq(Nat)
      BY <1>6, JoinIs
    <2>2. \A i \in 1..(m + 2) : i \in 1..(Len(h) + Len(z)) /\ i <= Len(h)
      BY <1>6, <1>7
    <2> QED BY <1>6, <1>7, <2>1, <2>2 DEF IsJoined
  <1>9. u[1] = a
    <2>1. 1 \in 1..(m + 2)
      OBVIOUS
    <2> QED BY <1>2, <1>6, <1>8, <2>1
  <1>10. \A i \in 2..(m + 2) : u[i] = v[i - 1]
    <2>1. \A i \in 2..(m + 2) : i \in 1..(m + 2) /\ ~(i <= 1)
      OBVIOUS
    <2> QED BY <1>6, <1>8, <2>1
  <1>11. u[2] = b
    <2>1. 2 \in 2..(m + 2) /\ 1 \in 1..(m + 1) /\ 2 - 1 = 1
      OBVIOUS
    <2>2. v[1] = b
      BY <1>2, <1>4, <2>1
    <2> QED BY <1>10, <2>1, <2>2
  <1>12. \A i \in 1..m : u[i + 2] = p[i]
    <2>1. \A i \in 1..m : i + 2 \in 2..(m + 2) /\ (i + 2) - 1 = i + 1 /\ i + 1 \in 1..(m + 1) /\ ~(i + 1 <= 1) /\ (i + 1) - 1 = i
      OBVIOUS
    <2>2. \A i \in 1..m : u[i + 2] = v[i + 1]
      BY <1>10, <2>1
    <2>3. \A i \in 1..m : v[i + 1] = p[i]
      BY <1>4, <2>1
    <2> QED BY <2>2, <2>3
  <1>13. IsPart(p, u, 3, m + 2)
    <2>1. (m + 2) - 3 + 1 = m /\ \A i \in 1..m : 3 + i - 1 = i + 2
      OBVIOUS
    <2>2. \A i \in 1..m : p[i] = u[3 + i - 1]
      BY <1>12, <2>1
    <2> QED BY <2>1, <2>2 DEF IsPart
  <1>14. SubSeq(u, 3, m + 2) = p
    <2>1. 3 \in 1..Len(u) /\ m + 2 \in 3..Len(u)
      BY <1>7, <1>8
    <2> QED BY <1>8, <1>13, <2>1, SubSeqIs
  <1> QED BY <1>6, <1>9, <1>11, <1>14 DEF Begins

(* ... or its two first bytes and no more. *)
LEMMA ShortHeaderIs ==
  ASSUME NEW a \in Nat, NEW b \in Nat, NEW z \in Seq(Nat), NEW h, h = <<a>> \o <<b>>, NEW u, u = h \o z
  PROVE  Len(h) = 2 /\ u[1] = a /\ u[2] = b
  <1>1. PICK s, t : s = <<a>> /\ t = <<b>>
    OBVIOUS
  <1>2. s \in Seq(Nat) /\ t \in Seq(Nat) /\ Len(s) = 1 /\ Len(t) = 1 /\ s[1] = a /\ t[1] = b
    BY <1>1
  <1>3. h \in Seq(Nat) /\ Len(h) = 2 /\ h[1] = a /\ h[2] = b
    <2>1. h = s \o t
      BY <1>1
    <2>2. h \in Seq(Nat) /\ IsJoined(h, s, t)
      BY <1>2, <2>1, JoinIs
    <2>3. 1 \in 1..2 /\ 2 \in 1..2
      OBVIOUS
    <2> QED BY <1>2, <2>2, <2>3 DEF IsJoined
  <1>4. u[1] = h[1] /\ u[2] = h[2]
    <2>1. IsJoined(u, h, z)
      BY <1>3, JoinIs
    <2>2. Len(z) \in Nat
      OBVIOUS
    <2>3. 1 \in 1..(Len(h) + Len(z)) /\ 2 \in 1..(Len(h) + Len(z)) /\ 1 <= Len(h) /\ 2 <= Len(h)
      BY <1>3, <2>2
    <2> QED BY <2>1, <2>3 DEF IsJoined
  <1> QED BY <1>3, <1>4

(* The first two bytes hold four things, which do not run into each other. *)
Bit(mask) == IF mask THEN 128 ELSE 0

LEMMA BitIs ==
  ASSUME NEW opcode \in 1..10, NEW mask \in BOOLEAN, NEW first \in 0..127
  PROVE  /\ 128 + opcode \in Nat /\ Bit(mask) + first \in Nat
         /\ (128 + opcode) % 16 = opcode
         /\ (Bit(mask) + first) % 128 = first
         /\ Bit(mask) + first >= 128 <=> mask
  BY DEF Bit

(* What _read_frame makes of a header by its second byte, which says how   *)
(* many bytes hold the length.                                             *)
Reads(u, opcode, length, mask, used) ==
  ReadHeader(u) = [opcode |-> opcode, length |-> length, mask |-> mask, used |-> used]

LEMMA ReadsShort ==
  ASSUME NEW u, NEW opcode \in 1..10, NEW mask \in BOOLEAN, NEW first \in 0..125,
         u[1] = 128 + opcode, u[2] = Bit(mask) + first
  PROVE  Reads(u, opcode, first, mask, 2)
  <1>1. u[1] % 16 = opcode /\ u[2] % 128 = first /\ (u[2] >= 128) = mask /\ first < 126
    BY BitIs
  <1>2. PICK o, f, m : o = u[1] % 16 /\ f = u[2] % 128 /\ m = (u[2] >= 128)
    OBVIOUS
  <1>3. o = opcode /\ f = first /\ m = mask
    BY <1>1, <1>2
  <1>4. (CASE f < 126 -> 2 [] f = 126 -> 4 [] f = 127 -> 10) = 2
    BY <1>1, <1>3
  <1>5. ReadHeader(u) = [opcode |-> o, length |-> f, mask |-> m, used |-> 2]
    BY <1>2, <1>4 DEF ReadHeader
  <1> QED BY <1>3, <1>5 DEF Reads

LEMMA ReadsLong ==
  ASSUME NEW u, NEW opcode \in 1..10, NEW mask \in BOOLEAN, NEW first \in {126, 127},
         u[1] = 128 + opcode, u[2] = Bit(mask) + first, NEW used, used = IF first = 126 THEN 4 ELSE 10,
         NEW length, Unpack(SubSeq(u, 3, used)) = length
  PROVE  Reads(u, opcode, length, mask, used)
  <1>1. u[1] % 16 = opcode /\ u[2] % 128 = first /\ (u[2] >= 128) = mask /\ ~(first < 126)
    BY BitIs
  <1>2. PICK o, f, m : o = u[1] % 16 /\ f = u[2] % 128 /\ m = (u[2] >= 128)
    OBVIOUS
  <1>3. o = opcode /\ f = first /\ m = mask
    BY <1>1, <1>2
  <1>4. (CASE f < 126 -> 2 [] f = 126 -> 4 [] f = 127 -> 10) = used /\ used # 2
    BY <1>1, <1>3
  <1>5. ReadHeader(u) = [opcode |-> o, length |-> Unpack(SubSeq(u, 3, used)), mask |-> m, used |-> used]
    BY <1>2, <1>4 DEF ReadHeader
  <1> QED BY <1>3, <1>5 DEF Reads

(* The bytes behind a header, for the reader to find. *)
Behind == <<0, 0, 0, 0, 0, 0, 0, 0>>

(* _build_frame's three forms. *)
Three(n, x, y, z) == CASE n < 126 -> x [] n >= 126 /\ n < 65536 -> y [] n >= 65536 -> z

LEMMA ThreeIs ==
  ASSUME NEW n \in Nat, NEW x, NEW y, NEW z
  PROVE  /\ n < 126 => Three(n, x, y, z) = x /\ n \in 0..125
         /\ n >= 126 /\ n < 65536 => Three(n, x, y, z) = y
         /\ n >= 65536 => Three(n, x, y, z) = z
  BY DEF Three

(* Each form, packed, is what _read_frame unpacks. *)
AgreesOn(header, opcode, length, mask) == Reads(header \o Behind, opcode, length, mask, Len(header))

LEMMA HeadersAgree ==
  ASSUME NEW opcode \in {1, 2, 8, 9, 10}, NEW length \in Lengths, NEW mask \in BOOLEAN,
         NEW header, header = FrameHeader(opcode, length, mask)
  PROVE  AgreesOn(header, opcode, length, mask)
  <1>1. length \in Nat /\ opcode \in 1..10 /\ 128 + opcode \in Nat
    BY LengthsAssumption
  <1>2. PICK z : z = Behind
    OBVIOUS
  <1>3. z \in Seq(Nat)
    BY <1>2 DEF Behind
  <1>4. PICK a, u : a = 128 + opcode /\ u = header \o z
    OBVIOUS
  <1>5. PICK first, p, q : first = Bit(mask) /\ p = Pack(length, 2) /\ q = Pack(length, 8)
    OBVIOUS
  <1>6. PICK x, y, w : x = <<first + length>> /\ y = <<first + 126>> \o p /\ w = <<first + 127>> \o q
    OBVIOUS
  <1>11. header = <<a>> \o Three(length, x, y, w)
    <2>1. x = <<Bit(mask) + length>> /\ y = <<Bit(mask) + 126>> \o Pack(length, 2) /\ w = <<Bit(mask) + 127>> \o Pack(length, 8)
      BY <1>5, <1>6
    <2>2. FrameHeader(opcode, length, mask) = <<128 + opcode>> \o Three(length, x, y, w)
      BY <2>1 DEF FrameHeader, Three, Bit
    <2> QED BY <1>4, <2>2
  <1>7. a \in Nat /\ first + 126 \in Nat /\ first + 127 \in Nat
    BY <1>1, <1>4, <1>5, BitIs
  <1>8. CASE length < 126
    <2>1. header = <<a>> \o <<first + length>> /\ length \in 0..125
      <3>1. Three(length, x, y, w) = x /\ length \in 0..125
        BY <1>1, <1>8, ThreeIs
      <3> QED BY <1>6, <1>11, <3>1
    <2>2. length \in 0..127
      BY <2>1
    <2>3. first + length \in Nat
      BY <1>1, <1>5, <2>2, BitIs
    <2>4. Len(header) = 2 /\ u[1] = a /\ u[2] = first + length
      BY <1>3, <1>4, <1>7, <2>1, <2>3, ShortHeaderIs
    <2>5. Reads(u, opcode, length, mask, 2)
      BY <1>1, <1>4, <1>5, <2>1, <2>4, ReadsShort
    <2> QED BY <1>2, <1>4, <2>4, <2>5 DEF AgreesOn
  <1>9. CASE length >= 126 /\ length < 65536
    <2>1. PICK m, b : m = 2 /\ b = first + 126
      OBVIOUS
    <2>2. header = <<a>> \o (<<first + 126>> \o p) /\ length < 65536
      <3>1. Three(length, x, y, w) = y
        BY <1>1, <1>9, ThreeIs
      <3>2. header = <<a>> \o y
        BY <1>11, <3>1
      <3> QED BY <1>6, <1>9, <3>2
    <2>3. Unpacks(length, 2)
      BY <1>1, <2>2, PacksTwo
    <2>4. p \in Seq(Nat) /\ Len(p) = 2 /\ Unpack(p) = length
      BY <1>5, <2>3 DEF Unpacks
    <2>5. p \in Seq(Nat) /\ m \in Nat \ {0} /\ m = Len(p) /\ b \in Nat
      BY <1>7, <2>1, <2>4
    <2>6. IsHeader(header, a, b, p)
      BY <2>1, <2>2 DEF IsHeader
    <2>7. Begins(u, header, a, b, p, m)
      BY <1>3, <1>4, <1>7, <2>5, <2>6, HeaderIs
    <2>8. m + 2 = 4
      BY <2>1
    <2>9. Len(header) = 4 /\ u[1] = a /\ u[2] = b /\ SubSeq(u, 3, 4) = p
      BY <2>7, <2>8 DEF Begins
    <2>10. Reads(u, opcode, length, mask, 4)
      <3>1. PICK o, used : o = 126 /\ used = 4
        OBVIOUS
      <3>2. o \in {126, 127} /\ used = IF o = 126 THEN 4 ELSE 10
        BY <3>1
      <3>3. u[1] = 128 + opcode /\ u[2] = Bit(mask) + o /\ Unpack(SubSeq(u, 3, used)) = length
        BY <1>4, <1>5, <2>1, <2>4, <2>9, <3>1
      <3>4. Reads(u, opcode, length, mask, used)
        BY <1>1, <3>2, <3>3, ReadsLong
      <3> QED BY <3>1, <3>4
    <2> QED BY <1>2, <1>4, <2>9, <2>10 DEF AgreesOn
  <1>10. CASE length >= 65536
    <2>1. PICK m, b : m = 8 /\ b = first + 127
      OBVIOUS
    <2>2. header = <<a>> \o (<<first + 127>> \o q)
      <3>1. Three(length, x, y, w) = w
        BY <1>1, <1>10, ThreeIs
      <3> QED BY <1>6, <1>11, <3>1
    <2>3. Unpacks(length, 8)
      <3>1. FitsEight(length)
        BY LongestAssumption DEF FitsEight, Above2
      <3> QED BY <1>1, <3>1, PacksEight
    <2>4. q \in Seq(Nat) /\ Len(q) = 8 /\ Unpack(q) = length
      BY <1>5, <2>3 DEF Unpacks
    <2>5. q \in Seq(Nat) /\ m \in Nat \ {0} /\ m = Len(q) /\ b \in Nat
      BY <1>7, <2>1, <2>4
    <2>6. IsHeader(header, a, b, q)
      BY <2>1, <2>2 DEF IsHeader
    <2>7. Begins(u, header, a, b, q, m)
      BY <1>3, <1>4, <1>7, <2>5, <2>6, HeaderIs
    <2>8. m + 2 = 10
      BY <2>1
    <2>9. Len(header) = 10 /\ u[1] = a /\ u[2] = b /\ SubSeq(u, 3, 10) = q
      BY <2>7, <2>8 DEF Begins
    <2>10. Reads(u, opcode, length, mask, 10)
      <3>1. PICK o, used : o = 127 /\ used = 10
        OBVIOUS
      <3>2. o \in {126, 127} /\ used = IF o = 126 THEN 4 ELSE 10
        BY <3>1
      <3>3. u[1] = 128 + opcode /\ u[2] = Bit(mask) + o /\ Unpack(SubSeq(u, 3, used)) = length
        BY <1>4, <1>5, <2>1, <2>4, <2>9, <3>1
      <3>4. Reads(u, opcode, length, mask, used)
        BY <1>1, <3>2, <3>3, ReadsLong
      <3> QED BY <3>1, <3>4
    <2> QED BY <1>2, <1>4, <2>9, <2>10 DEF AgreesOn
  <1> QED BY <1>1, <1>8, <1>9, <1>10

(* The mask is as long as the data takes, and every fourth byte the same. *)
Fourth(n) == n \div 4
KeyByte(i) == ((i - 1) % 4) + 1

LEMMA FourthIs ==
  ASSUME NEW n \in Nat
  PROVE  Fourth(n) \in Nat /\ n <= (Fourth(n) + 1) * 4
  BY DEF Fourth

LEMMA KeyByteIs ==
  ASSUME NEW i \in Nat \ {0}
  PROVE  KeyByte(i) \in 1..4
  BY DEF KeyByte

LEMMA RepeatIs ==
  ASSUME NEW n \in Nat, NEW mask, Len(mask) = 4
  PROVE  Repeat(mask, n) = [i \in 1..(n * 4) |-> mask[KeyByte(i)]]
  BY DEF Repeat, KeyByte

(* A function on 1..n is a sequence of length n. *)
LEMMA OfLength ==
  ASSUME NEW n \in Nat, NEW f, f = [i \in 1..n |-> f[i]]
  PROVE  Len(f) = n /\ DOMAIN f = 1..n
  <1> DEFINE S == {f[i] : i \in 1..n}
  <1>1. \A i \in 1..n : f[i] \in S
    OBVIOUS
  <1> HIDE DEF S
  <1>2. f \in [1..n -> S]
    BY <1>1
  <1> QED BY <1>2

InTurns(data, mask, n) == [i \in 1..n |-> (data[i] \ mask[KeyByte(i)]) \cup (mask[KeyByte(i)] \ data[i])]

LEMMA XorMaskIs ==
  ASSUME NEW length \in Nat, NEW data, DOMAIN data = 1..length, Len(data) = length, NEW mask, Len(mask) = 4
  PROVE  XorMask(data, mask) = InTurns(data, mask, length)
  <1>1. PICK rep, f : rep = Repeat(mask, f + 1) /\ f = Fourth(length)
    OBVIOUS
  <1>2. XorMask(data, mask) = [i \in 1..length |-> (data[i] \ rep[i]) \cup (rep[i] \ data[i])]
    BY <1>1 DEF XorMask, Fourth
  <1>3. f \in Nat /\ length <= (f + 1) * 4
    BY <1>1, FourthIs
  <1>4. rep = [i \in 1..((f + 1) * 4) |-> mask[KeyByte(i)]]
    BY <1>1, <1>3, RepeatIs
  <1>5. \A i \in 1..length : i \in 1..((f + 1) * 4)
    BY <1>3
  <1>6. \A i \in 1..length : rep[i] = mask[KeyByte(i)]
    BY <1>4, <1>5
  <1> QED BY <1>2, <1>6 DEF InTurns

(* Masked, each byte has one atom more, and the same one takes it out.     *)
MasksTwice(n, data, mask, masked) ==
  /\ \A i \in 1..n : masked[i] = {<<"data", i>>, <<"mask", KeyByte(i)>>}
  /\ XorMask(masked, mask) = data

LEMMA MasksAgree ==
  ASSUME NEW length \in Nat,
         NEW data, data = [i \in 1..length |-> {<<"data", i>>}],
         NEW mask, mask = [i \in 1..4 |-> {<<"mask", i>>}],
         NEW masked, masked = XorMask(data, mask)
  PROVE  MasksTwice(length, data, mask, masked)
  <1>1. Len(mask) = 4 /\ Len(data) = length /\ DOMAIN data = 1..length
    <2>1. data = [i \in 1..length |-> data[i]] /\ mask = [i \in 1..4 |-> mask[i]]
      OBVIOUS
    <2>2. PICK n : n = 4
      OBVIOUS
    <2>3. n \in Nat /\ mask = [i \in 1..n |-> mask[i]]
      BY <2>1, <2>2
    <2> QED BY <2>1, <2>2, <2>3, OfLength
  <1>2. \A i \in 1..length : KeyByte(i) \in 1..4 /\ mask[KeyByte(i)] = {<<"mask", KeyByte(i)>>}
    <2>1. \A i \in 1..length : KeyByte(i) \in 1..4
      BY KeyByteIs
    <2> QED BY <2>1
  <1>3. masked = InTurns(data, mask, length)
    BY <1>1, XorMaskIs
  <1>4. \A i \in 1..length : masked[i] = {<<"data", i>>, <<"mask", KeyByte(i)>>}
    <2> TAKE i \in 1..length
    <2>1. PICK x, y : x = <<"data", i>> /\ y = <<"mask", KeyByte(i)>>
      OBVIOUS
    <2>2. x # y
      BY <2>1
    <2>3. data[i] = {x} /\ mask[KeyByte(i)] = {y}
      BY <1>2, <2>1
    <2>4. ({x} \ {y}) \cup ({y} \ {x}) = {x, y}
      BY <2>2
    <2>5. masked[i] = (data[i] \ mask[KeyByte(i)]) \cup (mask[KeyByte(i)] \ data[i])
      BY <1>3 DEF InTurns
    <2> QED BY <2>1, <2>3, <2>4, <2>5
  <1>5. DOMAIN masked = 1..length /\ Len(masked) = length
    <2>1. masked = [i \in 1..length |-> masked[i]]
      BY <1>3 DEF InTurns
    <2> QED BY <2>1, OfLength
  <1>6. XorMask(masked, mask) = InTurns(masked, mask, length)
    BY <1>1, <1>5, XorMaskIs
  <1>7. \A i \in 1..length : (masked[i] \ mask[KeyByte(i)]) \cup (mask[KeyByte(i)] \ masked[i]) = data[i]
    <2> TAKE i \in 1..length
    <2>1. PICK x, y : x = <<"data", i>> /\ y = <<"mask", KeyByte(i)>>
      OBVIOUS
    <2>2. x # y
      BY <2>1
    <2>3. data[i] = {x} /\ mask[KeyByte(i)] = {y} /\ masked[i] = {x, y}
      BY <1>2, <1>4, <2>1
    <2>4. ({x, y} \ {y}) \cup ({y} \ {x, y}) = {x}
      BY <2>2
    <2> QED BY <2>3, <2>4
  <1>8. XorMask(masked, mask) = data
    <2>1. InTurns(masked, mask, length) = [i \in 1..length |-> data[i]]
      BY <1>7 DEF InTurns
    <2>2. data = [i \in 1..length |-> data[i]]
      OBVIOUS
    <2> QED BY <1>6, <2>1, <2>2
  <1> QED BY <1>4, <1>8 DEF MasksTwice

(* How many records, and where one begins. *)
Count(size) == (size + TLS_APPDATA_MAX - 1) \div TLS_APPDATA_MAX

LEMMA CountIs ==
  ASSUME NEW size \in Nat
  PROVE  /\ Count(size) \in Nat
         /\ (Count(size) - 1) * TLS_APPDATA_MAX < size \/ Count(size) = 0
         /\ size <= Count(size) * TLS_APPDATA_MAX
  BY DEF Count, TLS_APPDATA_MAX

Record(size, k) ==
  LET offset == (k - 1) * TLS_APPDATA_MAX
      rest == size - offset
  IN  [from |-> offset, length |-> IF rest < TLS_APPDATA_MAX THEN rest ELSE TLS_APPDATA_MAX]

LEMMA RecordIs ==
  ASSUME NEW size, NEW k
  PROVE  /\ Record(size, k).from = (k - 1) * TLS_APPDATA_MAX
         /\ Record(size, k).length = IF size - (k - 1) * TLS_APPDATA_MAX < TLS_APPDATA_MAX
                                     THEN size - (k - 1) * TLS_APPDATA_MAX ELSE TLS_APPDATA_MAX
  BY DEF Record

(* Only the last record may be short: the others end where the next begins. *)
Gapless(records, size) ==
  /\ \A k \in DOMAIN records :
       /\ records[k].length \in 1..TLS_APPDATA_MAX
       /\ records[k].from = (IF k = 1 THEN 0 ELSE records[k - 1].from + records[k - 1].length)
       /\ k = Len(records) => records[k].from + records[k].length = size
  /\ records = <<>> => size = 0

LEMMA RecordsAgree ==
  ASSUME NEW size \in Nat, NEW records, records = WrapTlsRecord(size)
  PROVE  Gapless(records, size)
  <1>1. PICK n : n = Count(size)
    OBVIOUS
  <1>2. records = [k \in 1..n |-> Record(size, k)]
    BY <1>1 DEF WrapTlsRecord, Record, Count
  <1>3. n \in Nat /\ ((n - 1) * 16384 < size \/ n = 0) /\ size <= n * 16384
    BY <1>1, CountIs DEF TLS_APPDATA_MAX
  <1>4. DOMAIN records = 1..n /\ Len(records) = n
    <2>1. records = [k \in 1..n |-> records[k]]
      BY <1>2
    <2> QED BY <1>3, <2>1, OfLength
  <1>5. ASSUME NEW k \in 1..n
        PROVE  /\ records[k].from = (k - 1) * 16384
               /\ records[k].length = IF size - (k - 1) * 16384 < 16384 THEN size - (k - 1) * 16384 ELSE 16384
    BY <1>2, RecordIs DEF TLS_APPDATA_MAX
  <1>6. ASSUME NEW k \in 1..n
        PROVE  /\ records[k].length \in Nat /\ 1 <= records[k].length /\ records[k].length <= 16384
               /\ k # n => records[k].length = 16384
               /\ k = n => records[k].from + records[k].length = size
    <2>1. (k - 1) * 16384 < size
      BY <1>3
    <2>2. k # n => k * 16384 < size
      BY <1>3
    <2>3. PICK f, l : f = records[k].from /\ l = records[k].length
      OBVIOUS
    <2>4. f = (k - 1) * 16384 /\ l = IF size - (k - 1) * 16384 < 16384 THEN size - (k - 1) * 16384 ELSE 16384
      BY <1>5, <2>3
    <2>5. l \in Nat /\ 1 <= l /\ l <= 16384 /\ (k # n => l = 16384) /\ (k = n => f + l = size)
      BY <1>3, <2>1, <2>2, <2>4
    <2>6. records[k].length \in Nat /\ 1 <= records[k].length /\ records[k].length <= 16384 /\ (k # n => records[k].length = 16384)
      BY <2>3, <2>5
    <2>7. k = n => records[k].from + records[k].length = size
      BY <2>3, <2>5
    <2> QED BY <2>6, <2>7
  <1>7. ASSUME NEW k \in 1..n
        PROVE  records[k].from = (IF k = 1 THEN 0 ELSE records[k - 1].from + records[k - 1].length)
    <2>1. CASE k = 1
      BY <1>5, <2>1
    <2>2. CASE k # 1
      <3>1. k - 1 \in 1..n /\ k - 1 # n
        BY <1>3, <2>2
      <3>2. PICK f, l : f = records[k - 1].from /\ l = records[k - 1].length
        OBVIOUS
      <3>3. f = ((k - 1) - 1) * 16384 /\ l = 16384
        <4>1. PICK j : j = k - 1
          OBVIOUS
        <4>2. j \in 1..n /\ j # n
          BY <3>1, <4>1
        <4>3. records[j].from = (j - 1) * 16384
          BY <1>5, <4>2
        <4>4. records[j].length = 16384
          BY <1>6, <4>2
        <4> QED BY <3>2, <4>1, <4>3, <4>4
      <3>4. records[k].from = (k - 1) * 16384
        BY <1>5
      <3>5. (k - 1) * 16384 = f + l
        BY <1>3, <3>3
      <3> QED BY <2>2, <3>2, <3>4, <3>5
    <2> QED BY <2>1, <2>2
  <1>8. records = <<>> => size = 0
    BY <1>3, <1>4
  <1>9. ASSUME NEW k \in DOMAIN records
        PROVE  /\ records[k].length \in 1..TLS_APPDATA_MAX
               /\ records[k].from = (IF k = 1 THEN 0 ELSE records[k - 1].from + records[k - 1].length)
               /\ k = Len(records) => records[k].from + records[k].length = size
    <2>1. k \in 1..n
      BY <1>4
    <2>2. records[k].length \in 1..TLS_APPDATA_MAX
      <3>1. PICK l : l = records[k].length
        OBVIOUS
      <3>2. l \in Nat /\ 1 <= l /\ l <= 16384
        BY <1>6, <2>1, <3>1
      <3>3. l \in 1..TLS_APPDATA_MAX
        <4>1. PICK max : max = TLS_APPDATA_MAX
          OBVIOUS
        <4>2. max = 16384
          BY <4>1 DEF TLS_APPDATA_MAX
        <4>3. l \in 1..max
          BY <3>2, <4>2
        <4> QED BY <4>1, <4>3
      <3> QED BY <3>1, <3>3
    <2>3. records[k].from = (IF k = 1 THEN 0 ELSE records[k - 1].from + records[k - 1].length)
      BY <1>7, <2>1
    <2>4. k = Len(records) => records[k].from + records[k].length = size
      BY <1>4, <1>6, <2>1
    <2> QED BY <2>2, <2>3, <2>4
  <1> QED BY <1>8, <1>9 DEF Gapless

LEMMA FramesAgreeAlways == FramesRoundTrip
  <1>1. ASSUME NEW opcode \in {1, 2, 8, 9, 10}, NEW length \in Lengths, NEW mask \in BOOLEAN
        PROVE  LET header == FrameHeader(opcode, length, mask)
               IN  ReadHeader(header \o <<0, 0, 0, 0, 0, 0, 0, 0>>)
                     = [opcode |-> opcode, length |-> length, mask |-> mask, used |-> Len(header)]
    BY HeadersAgree DEF AgreesOn, Reads, Behind
  <1>2. ASSUME NEW length \in Lengths
        PROVE  LET data == [i \in 1..length |-> {<<"data", i>>}]
                   mask == [i \in 1..4 |-> {<<"mask", i>>}]
                   masked == XorMask(data, mask)
               IN  MasksTwice(length, data, mask, masked)
    <2>1. length \in Nat
      BY LengthsAssumption
    <2> QED BY <2>1, MasksAgree
  <1>3. ASSUME NEW size \in Sizes
        PROVE  Gapless(WrapTlsRecord(size), size)
    BY LengthsAssumption, RecordsAgree
  <1> QED BY <1>1, <1>2, <1>3 DEF FramesRoundTrip, MasksTwice, KeyByte, Gapless

-----------------------------------------------------------------------------
(* A bridge starts with the ciphers that its client and Telegram use, and  *)
(* finds tag and data centre in both their 64 bytes; a client that knows   *)
(* none of the proxy's secrets gets no bridge (_try_handshake,             *)
(* _generate_relay_init, _build_crypto_ctx).                               *)
THEOREM CiphersAreInStep == Spec => []CiphersInStep
  <1>1. CiphersInStep
    BY CiphersAgreeAlways DEF CiphersInStep
  <1> QED BY <1>1, PTL

(* The frames of _build_frame are read by _read_frame as they were built,  *)
(* whatever the length of the payload that eight bytes can hold; what      *)
(* _xor_mask masks is unmasked by masking it again; and the records of     *)
(* wrap_tls_record hold all of the data, in order, and none is empty.      *)
THEOREM FramesAreInStep == Spec => []FramesInStep
  <1>1. FramesInStep
    BY FramesAgreeAlways DEF FramesInStep
  <1> QED BY <1>1, PTL

(* verify_client_hello lets in a client with the proxy's secret whose      *)
(* clock is at most two minutes off either way, and no other and no hello  *)
(* that was changed; build_server_hello shows it that the proxy has the    *)
(* secret, too.                                                            *)
THEOREM HellosAreInStep == Spec => []HellosInStep
  <1>1. HellosInStep
    BY HellosAgreeAlways DEF HellosInStep
  <1> QED BY <1>1, PTL
=============================================================================
