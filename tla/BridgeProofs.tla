---------------------------- MODULE BridgeProofs ----------------------------
(***************************************************************************)
(* For any streams, TLS records and answers of any length, and chunks of   *)
(* any size: Telegram gets the client's bytes in order, a frame is a       *)
(* packet, a clean end loses nothing in either direction, and no frame     *)
(* follows a CLOSE.                                                        *)
(*                                                                         *)
(* The first part is about Split, whose loop is a recursive function: that *)
(* there is one (LoopIs) and that it cuts at the ends of packets (LoopCuts *)
(* and SplitCuts) goes by induction, for which NatMin, the least element   *)
(* of a set of numbers, is enough.  The second part is the invariant.      *)
(***************************************************************************)
EXTENDS Bridge, FiniteSetTheorems, SequenceTheorems, WellFoundedInduction, TLAPS

LEMMA NatMin ==
  ASSUME NEW T, T \subseteq Nat, T # {}
  PROVE  \E x \in T : \A y \in T : x <= y
  <1> DEFINE R == {p \in Nat \X Nat : p[1] < p[2]}
  <1>1. OpToRel(<, Nat) = R
    BY DEF OpToRel
  <1>2. IsWellFoundedOn(R, Nat)
    BY <1>1, NatLessThanWellFounded
  <1> HIDE DEF R
  <1>3. PICK x \in T : \A y \in T : <<y, x>> \notin R
    BY <1>2, WFMin
  <1>4. \A y \in T : ~(y < x)
    BY <1>3 DEF R
  <1>5. \A y \in T : x <= y
    BY <1>4
  <1> QED BY <1>5

(* What grows from each place to the next, grows. *)
LEMMA Monotone ==
  ASSUME NEW n \in Nat, NEW m \in [0..n -> Int], \A i \in 1..n : m[i - 1] <= m[i],
         NEW i \in 0..n, NEW j \in 0..n, i <= j
  PROVE  m[i] <= m[j]
  <1> DEFINE T == {k \in 0..n : i <= k /\ ~(m[i] <= m[k])}
  <1>1. SUFFICES ASSUME T # {} PROVE FALSE
    OBVIOUS
  <1>2. PICK k \in T : \A l \in T : k <= l
    <2>1. T \subseteq Nat
      OBVIOUS
    <2> HIDE DEF T
    <2> QED BY <1>1, <2>1, NatMin
  <1>3. k # i /\ k \in 1..n /\ k - 1 \in 0..n /\ i <= k - 1
    BY <1>2
  <1>4. k - 1 \notin T
    BY <1>2, <1>3
  <1>5. m[i] <= m[k - 1]
    BY <1>3, <1>4
  <1>6. m[k - 1] <= m[k] /\ m[k - 1] \in Int /\ m[k] \in Int /\ m[i] \in Int
    BY <1>3
  <1> QED BY <1>2, <1>5, <1>6

-----------------------------------------------------------------------------
(* One turn of the loop of split, at the place k of the buffers, given     *)
(* what the loop does from later places on.                                *)
From(p, k) == SubSeq(p, k + 1, Len(p))
LenAt(p, k) == NextPacketLen(From(p, k))

Turn(c, p, f, k) ==
  IF k = Len(p) \/ LenAt(p, k) = None THEN [parts |-> <<>>, used |-> k, off |-> FALSE]
  ELSE IF LenAt(p, k) = 0 THEN [parts |-> <<SubSeq(c, k + 1, Len(c))>>, used |-> Len(p), off |-> TRUE]
  ELSE [f[k + LenAt(p, k)] EXCEPT !.parts = <<SubSeq(c, k + 1, k + LenAt(p, k))>> \o @]

Loop(c, p) == CHOOSE f : f = [k \in 0..Len(p) |-> Turn(c, p, f, k)]

LEMMA SplitIsLoop ==
  ASSUME NEW c, NEW p
  PROVE  Split(c, p) = Loop(c, p)[0]
  BY DEF Split, Loop, Turn, LenAt, From

(* A length that a buffer shows is not longer than the buffer. *)
LEMMA PacketFits ==
  ASSUME NEW buf \in Seq(0..Long), Len(buf) >= 1
  PROVE  /\ Header(buf) \in {1, 2}
         /\ Len(buf) >= Header(buf) => Payload(buf) \in 0..Long
         /\ NextPacketLen(buf) = None \/ NextPacketLen(buf) \in 0..Len(buf)
  <1>1. Len(buf) \in Nat /\ Header(buf) \in {1, 2}
    BY DEF Header
  <1>2. Len(buf) >= Header(buf) => Payload(buf) \in 0..Long
    BY <1>1 DEF Payload, Header, Long
  <1>3. NextPacketLen(buf) = None \/ NextPacketLen(buf) \in 0..Len(buf)
    BY <1>1, <1>2 DEF NextPacketLen, Long
  <1> QED BY <1>1, <1>2, <1>3

LEMMA LenAtFits ==
  ASSUME NEW p \in Seq(0..Long), NEW k \in 0..Len(p), k # Len(p)
  PROVE  /\ From(p, k) \in Seq(0..Long) /\ Len(From(p, k)) = Len(p) - k
         /\ LenAt(p, k) = None \/ LenAt(p, k) \in 0..(Len(p) - k)
  <1>1. Len(p) \in Nat
    OBVIOUS
  <1>2. From(p, k) \in Seq(0..Long) /\ Len(From(p, k)) = Len(p) - k
    <2>1. k + 1 \in 1..(Len(p) + 1) /\ Len(p) \in k..Len(p)
      BY <1>1
    <2>2. \A i \in (k + 1)..Len(p) : p[i] \in 0..Long
      <3>1. \A i \in 1..Len(p) : p[i] \in 0..Long
        BY ElementOfSeq
      <3>2. \A i \in (k + 1)..Len(p) : i \in 1..Len(p)
        BY <1>1
      <3> QED BY <3>1, <3>2
    <2>3. /\ From(p, k) \in Seq(0..Long)
          /\ Len(From(p, k)) = IF k + 1 <= Len(p) THEN Len(p) - (k + 1) + 1 ELSE 0
      BY <1>1, <2>1, <2>2, SubSeqProperties DEF From
    <2> QED BY <1>1, <2>1, <2>3
  <1> QED BY <1>1, <1>2, PacketFits DEF LenAt

(* A turn looks at later places only. *)
LEMMA TurnIsLocal ==
  ASSUME NEW c, NEW p \in Seq(0..Long), NEW k \in 0..Len(p), NEW f, NEW g,
         \A i \in (k + 1)..Len(p) : f[i] = g[i]
  PROVE  Turn(c, p, f, k) = Turn(c, p, g, k)
  <1>1. CASE k = Len(p) \/ LenAt(p, k) = None \/ LenAt(p, k) = 0
    BY <1>1 DEF Turn
  <1>2. CASE k # Len(p) /\ LenAt(p, k) # None /\ LenAt(p, k) # 0
    <2>1. k + LenAt(p, k) \in (k + 1)..Len(p)
      BY <1>2, LenAtFits
    <2> QED BY <2>1 DEF Turn
  <1> QED BY <1>1, <1>2

(* The loop comes to its end, and is what its turns are. *)
LEMMA LoopIs ==
  ASSUME NEW c, NEW p \in Seq(0..Long)
  PROVE  \A k \in 0..Len(p) : Loop(c, p)[k] = Turn(c, p, Loop(c, p), k)
  <1> DEFINE L == Len(p)
             Is(j, g) == g = [k \in (L - j)..L |-> Turn(c, p, g, k)]
             T == {j \in 0..L : ~\E g : Is(j, g)}
  <1>1. L \in Nat
    OBVIOUS
  <1>2. \A j \in 0..L : \E g : Is(j, g)
    <2>1. SUFFICES ASSUME T # {} PROVE FALSE
      OBVIOUS
    <2>2. PICK j \in T : \A l \in T : j <= l
      <3>1. T \subseteq Nat
        OBVIOUS
      <3> HIDE DEF T
      <3> QED BY <2>1, <3>1, NatMin
    <2>3. CASE j = 0
      <3> DEFINE g == [k \in (L - 0)..L |-> [parts |-> <<>>, used |-> k, off |-> FALSE]]
      <3>1. \A k \in (L - 0)..L : k = L /\ Turn(c, p, g, k) = [parts |-> <<>>, used |-> k, off |-> FALSE]
        BY <1>1 DEF Turn
      <3>2. Is(0, g)
        BY <3>1
      <3> QED BY <2>2, <2>3, <3>2
    <2>4. CASE j # 0
      <3>0. j \in 0..L
        BY <2>2
      <3>1. j - 1 \in 0..L /\ j - 1 \notin T
        <4> HIDE DEF T, Is
        <4> QED BY <1>1, <2>2, <2>4, <3>0
      <3>2. PICK g : Is(j - 1, g)
        BY <3>1
      <3> DEFINE h == [k \in (L - j)..L |-> IF k = L - j THEN Turn(c, p, g, k) ELSE g[k]]
      <3>3. \A k \in (L - j)..L : k \in 0..L /\ \A i \in (k + 1)..L : h[i] = g[i]
        BY <1>1, <2>2
      <3>4. \A k \in (L - j)..L : Turn(c, p, h, k) = Turn(c, p, g, k)
        <4> HIDE DEF h
        <4> QED BY <3>3, TurnIsLocal
      <3>5. \A k \in (L - (j - 1))..L : g[k] = Turn(c, p, g, k)
        BY <3>2
      <3>6. \A k \in (L - j)..L : h[k] = Turn(c, p, g, k)
        <4>1. \A k \in (L - j)..L : k = L - j \/ k \in (L - (j - 1))..L
          BY <1>1, <2>2
        <4> QED BY <3>5, <4>1
      <3>7. Is(j, h)
        BY <3>4, <3>6
      <3> QED BY <2>2, <3>7
    <2> QED BY <2>3, <2>4
  <1>3. \E f : f = [k \in 0..L |-> Turn(c, p, f, k)]
    <2>1. L \in 0..L /\ L - L = 0
      BY <1>1
    <2> QED BY <1>2, <2>1
  <1>4. Loop(c, p) = [k \in 0..L |-> Turn(c, p, Loop(c, p), k)]
    BY <1>3 DEF Loop
  <1> QED BY <1>4

(* What the loop has made of the buffers from the place k on: m[i] is      *)
(* where the part i ends.                                                  *)
CutsAt(c, p, k, r, m) ==
  /\ r \in [parts : Seq(Seq(Nat)), used : k..Len(p), off : BOOLEAN]
  /\ m \in [0..Len(r.parts) -> k..Len(p)]
  /\ m[0] = k /\ m[Len(r.parts)] = r.used
  /\ \A i \in 1..Len(r.parts) :
       /\ m[i - 1] < m[i]
       /\ r.parts[i] = SubSeq(c, m[i - 1] + 1, m[i])
       /\ \/ LenAt(p, m[i - 1]) = m[i] - m[i - 1]
          \/ LenAt(p, m[i - 1]) = 0 /\ r.off /\ i = Len(r.parts)
  /\ r.off => /\ r.used = Len(p)
              /\ Len(r.parts) >= 1
              /\ LenAt(p, m[Len(r.parts) - 1]) = 0
  /\ ~r.off => r.used = Len(p) \/ LenAt(p, r.used) = None

LEMMA PartOf ==
  ASSUME NEW S, NEW c \in Seq(S), NEW a \in 0..Len(c), NEW z \in 0..Len(c), a <= z
  PROVE  /\ SubSeq(c, a + 1, z) \in Seq(S)
         /\ Len(SubSeq(c, a + 1, z)) = z - a
         /\ \A j \in 1..(z - a) : SubSeq(c, a + 1, z)[j] = c[a + j]
  <1>1. Len(c) \in Nat /\ \A i \in (a + 1)..z : c[i] \in S
    OBVIOUS
  <1>2. /\ SubSeq(c, a + 1, z) \in Seq(S)
        /\ Len(SubSeq(c, a + 1, z)) = IF a + 1 <= z THEN z - (a + 1) + 1 ELSE 0
        /\ \A j \in 1..(z - (a + 1) + 1) : SubSeq(c, a + 1, z)[j] = c[a + 1 + j - 1]
    BY <1>1, SubSeqProperties
  <1>3. \A j \in 1..(z - a) : j \in 1..(z - (a + 1) + 1) /\ a + 1 + j - 1 = a + j
    BY <1>1
  <1>4. \A j \in 1..(z - a) : SubSeq(c, a + 1, z)[j] = c[a + j]
    BY <1>2, <1>3
  <1> QED BY <1>1, <1>2, <1>4

LEMMA LoopCuts ==
  ASSUME NEW c \in Seq(Nat), NEW p \in Seq(0..Long), Len(c) = Len(p), NEW k \in 0..Len(p),
         \A l \in (k + 1)..Len(p) : \E m : CutsAt(c, p, l, Loop(c, p)[l], m)
  PROVE  \E m : CutsAt(c, p, k, Loop(c, p)[k], m)
  <1> DEFINE r == Loop(c, p)[k]
             n == LenAt(p, k)
  <1>1. Len(p) \in Nat /\ r = Turn(c, p, Loop(c, p), k)
    BY LoopIs
  <1>2. CASE k = Len(p) \/ n = None
    <2> DEFINE m == [i \in 0..0 |-> k]
    <2>1. r = [parts |-> <<>>, used |-> k, off |-> FALSE]
      BY <1>1, <1>2 DEF Turn
    <2> HIDE DEF r
    <2>2. CutsAt(c, p, k, r, m)
      BY <1>1, <1>2, <2>1 DEF CutsAt
    <2> QED BY <2>2 DEF r
  <1>3. CASE k # Len(p) /\ n = 0
    <2> DEFINE m == [i \in 0..1 |-> IF i = 0 THEN k ELSE Len(p)]
    <2>1. r = [parts |-> <<SubSeq(c, k + 1, Len(p))>>, used |-> Len(p), off |-> TRUE]
      BY <1>1, <1>3 DEF Turn, None
    <2> HIDE DEF r
    <2>2. SubSeq(c, k + 1, Len(p)) \in Seq(Nat)
      BY <1>1, <1>3, PartOf
    <2>3. CutsAt(c, p, k, r, m)
      BY <1>1, <1>3, <2>1, <2>2 DEF CutsAt
    <2> QED BY <2>3 DEF r
  <1>4. CASE k # Len(p) /\ n # None /\ n # 0
    <2>1. n \in 1..(Len(p) - k)
      BY <1>1, <1>4, LenAtFits
    <2>2. PICK m0 : CutsAt(c, p, k + n, Loop(c, p)[k + n], m0)
      BY <1>1, <2>1
    <2> DEFINE r0 == Loop(c, p)[k + n]
               part == SubSeq(c, k + 1, k + n)
               m == [i \in 0..(Len(r0.parts) + 1) |-> IF i = 0 THEN k ELSE m0[i - 1]]
    <2>3. r = [r0 EXCEPT !.parts = <<part>> \o @]
      BY <1>1, <1>4 DEF Turn
    <2>4. part \in Seq(Nat)
      BY <1>1, <2>1, PartOf
    <2> HIDE DEF r, r0, part
    <2>5. /\ r0 \in [parts : Seq(Seq(Nat)), used : (k + n)..Len(p), off : BOOLEAN]
          /\ CutsAt(c, p, k + n, r0, m0)
      BY <2>2 DEF r0, CutsAt
    <2> HIDE DEF n
    <2>6. /\ r \in [parts : Seq(Seq(Nat)), used : k..Len(p), off : BOOLEAN]
          /\ r.used = r0.used /\ r.off = r0.off
          /\ Len(r.parts) = Len(r0.parts) + 1
          /\ r.parts[1] = part
          /\ \A i \in 1..Len(r0.parts) : r.parts[i + 1] = r0.parts[i]
      <3> DEFINE q == <<part>> \o r0.parts
      <3>1. r0.parts \in Seq(Seq(Nat)) /\ r0.used \in (k + n)..Len(p) /\ r0.off \in BOOLEAN
        BY <2>5
      <3>2. /\ q \in Seq(Seq(Nat)) /\ Len(q) = Len(r0.parts) + 1
            /\ q[1] = part
            /\ \A i \in 1..Len(r0.parts) : q[i + 1] = r0.parts[i]
        BY <2>4, <3>1
      <3>3. r = [r0 EXCEPT !.parts = q]
        BY <2>3
      <3> HIDE DEF q
      <3>4. r.parts = q /\ r.used = r0.used /\ r.off = r0.off
        BY <2>5, <3>3
      <3>5. r0.used \in k..Len(p)
        BY <1>1, <2>1, <3>1
      <3>6. r = [parts |-> q, used |-> r0.used, off |-> r0.off]
        BY <2>5, <3>3
      <3> QED BY <3>1, <3>2, <3>4, <3>5, <3>6
    <2>7. Len(r0.parts) \in Nat
      BY <2>5
    <2>8. m \in [0..Len(r.parts) -> k..Len(p)] /\ m[0] = k /\ m[Len(r.parts)] = r.used
      <3>1. m0 \in [0..Len(r0.parts) -> (k + n)..Len(p)] /\ m0[Len(r0.parts)] = r0.used
        BY <2>5 DEF CutsAt
      <3>2. \A i \in 0..(Len(r0.parts) + 1) : i # 0 => m0[i - 1] \in k..Len(p)
        <4>1. \A i \in 0..(Len(r0.parts) + 1) : i # 0 => i - 1 \in 0..Len(r0.parts)
          BY <2>7
        <4>2. \A i \in 0..Len(r0.parts) : m0[i] \in k..Len(p)
          <5>1. \A i \in 0..Len(r0.parts) : m0[i] \in (k + n)..Len(p)
            BY <3>1
          <5>2. \A x \in (k + n)..Len(p) : x \in k..Len(p)
            BY <1>1, <2>1
          <5> QED BY <5>1, <5>2
        <4> QED BY <4>1, <4>2
      <3>3. m \in [0..(Len(r0.parts) + 1) -> k..Len(p)]
        BY <1>1, <3>2
      <3>4. m[0] = k /\ m[Len(r0.parts) + 1] = m0[Len(r0.parts)]
        BY <2>7
      <3> HIDE DEF m
      <3> QED BY <2>6, <3>1, <3>3, <3>4
    <2>9. ASSUME NEW i \in 1..Len(r.parts)
          PROVE  /\ m[i - 1] < m[i]
                 /\ r.parts[i] = SubSeq(c, m[i - 1] + 1, m[i])
                 /\ \/ LenAt(p, m[i - 1]) = m[i] - m[i - 1]
                    \/ LenAt(p, m[i - 1]) = 0 /\ r.off /\ i = Len(r.parts)
      <3>1. CASE i = 1
        <4>1. m[i - 1] = k /\ m[i] = k + n
          BY <2>5, <2>6, <2>7, <3>1 DEF CutsAt
        <4>2. LenAt(p, k) = n /\ k + n - k = n
          BY <2>1 DEF n
        <4>3. r.parts[i] = SubSeq(c, k + 1, k + n)
          BY <2>6, <3>1 DEF part
        <4> HIDE DEF m
        <4> QED BY <2>1, <4>1, <4>2, <4>3
      <3>2. CASE i # 1
        <4>1. /\ i - 1 \in 1..Len(r0.parts) /\ i - 2 \in 0..Len(r0.parts) /\ i - 1 - 1 = i - 2
              /\ i - 1 + 1 = i /\ i - 1 # 0 /\ i # 0
              /\ i \in 0..(Len(r0.parts) + 1) /\ i - 1 \in 0..(Len(r0.parts) + 1)
          <5>1. PICK l \in Nat : l = Len(r0.parts)
            BY <2>7
          <5>2. i \in 1..(l + 1) /\ i # 1
            <6>1. Len(r.parts) = l + 1
              BY <2>6, <5>1
            <6> QED BY <3>2, <6>1
          <5>3. /\ i - 1 \in 1..l /\ i - 2 \in 0..l /\ i - 1 - 1 = i - 2
                /\ i - 1 + 1 = i /\ i - 1 # 0 /\ i # 0
                /\ i \in 0..(l + 1) /\ i - 1 \in 0..(l + 1)
            BY <5>2
          <5> QED BY <5>1, <5>3
        <4>2. m[i - 1] = m0[i - 2] /\ m[i] = m0[i - 1]
          <5>1. \A x \in 0..(Len(r0.parts) + 1) : m[x] = IF x = 0 THEN k ELSE m0[x - 1]
            OBVIOUS
          <5> HIDE DEF m
          <5> QED BY <4>1, <5>1
        <4>3. r.parts[i] = r0.parts[i - 1]
          <5>1. PICK j : j = i - 1
            OBVIOUS
          <5>2. j \in 1..Len(r0.parts) /\ j + 1 = i
            BY <4>1, <5>1
          <5>3. r.parts[j + 1] = r0.parts[j]
            BY <2>6, <5>2
          <5> QED BY <5>1, <5>2, <5>3
        <4>4. /\ m0[i - 1 - 1] < m0[i - 1]
              /\ r0.parts[i - 1] = SubSeq(c, m0[i - 1 - 1] + 1, m0[i - 1])
              /\ \/ LenAt(p, m0[i - 1 - 1]) = m0[i - 1] - m0[i - 1 - 1]
                 \/ LenAt(p, m0[i - 1 - 1]) = 0 /\ r0.off /\ i - 1 = Len(r0.parts)
          BY <2>5, <4>1 DEF CutsAt
        <4>5. i - 1 = Len(r0.parts) => i = Len(r.parts)
          BY <2>6, <2>7
        <4>6. /\ m0[i - 2] < m0[i - 1]
              /\ r0.parts[i - 1] = SubSeq(c, m0[i - 2] + 1, m0[i - 1])
              /\ \/ LenAt(p, m0[i - 2]) = m0[i - 1] - m0[i - 2]
                 \/ LenAt(p, m0[i - 2]) = 0 /\ r.off /\ i = Len(r.parts)
          BY <2>6, <4>1, <4>4, <4>5
        <4> HIDE DEF m
        <4> QED BY <4>2, <4>3, <4>6
      <3> QED BY <3>1, <3>2
    <2>10. r.off => /\ r.used = Len(p)
                    /\ Len(r.parts) >= 1
                    /\ LenAt(p, m[Len(r.parts) - 1]) = 0
      <3> SUFFICES ASSUME r.off PROVE r.used = Len(p) /\ Len(r.parts) >= 1 /\ LenAt(p, m[Len(r.parts) - 1]) = 0
        OBVIOUS
      <3>1. r0.used = Len(p) /\ Len(r0.parts) >= 1 /\ LenAt(p, m0[Len(r0.parts) - 1]) = 0
        BY <2>5, <2>6 DEF CutsAt
      <3>2. m[Len(r.parts) - 1] = m0[Len(r0.parts) - 1]
        BY <2>6, <2>7, <3>1
      <3> HIDE DEF m
      <3> QED BY <2>6, <2>7, <3>1, <3>2
    <2>11. ~r.off => r.used = Len(p) \/ LenAt(p, r.used) = None
      BY <2>5, <2>6 DEF CutsAt
    <2> HIDE DEF m
    <2>12. CutsAt(c, p, k, r, m)
      BY <2>6, <2>8, <2>9, <2>10, <2>11 DEF CutsAt
    <2> QED BY <2>12 DEF r
  <1> QED BY <1>2, <1>3, <1>4

(* What split returns. *)
LEMMA SplitCuts ==
  ASSUME NEW c \in Seq(Nat), NEW p \in Seq(0..Long), Len(c) = Len(p)
  PROVE  \E m : CutsAt(c, p, 0, Split(c, p), m)
  <1> DEFINE L == Len(p)
             Good(k) == \E m : CutsAt(c, p, k, Loop(c, p)[k], m)
             T == {j \in 0..L : ~Good(L - j)}
  <1>1. L \in Nat
    OBVIOUS
  <1>2. ASSUME NEW k \in 0..L, \A l \in (k + 1)..L : Good(l) PROVE Good(k)
    BY <1>2, LoopCuts
  <1> HIDE DEF Good
  <1>3. T = {}
    <2>1. SUFFICES ASSUME T # {} PROVE FALSE
      OBVIOUS
    <2>2. PICK j \in T : \A i \in T : j <= i
      <3>1. T \subseteq Nat
        OBVIOUS
      <3> HIDE DEF T
      <3> QED BY <2>1, <3>1, NatMin
    <2>3. j \in 0..L /\ L - j \in 0..L /\ ~Good(L - j)
      BY <1>1, <2>2
    <2>4. ASSUME NEW l \in (L - j + 1)..L PROVE Good(l)
      <3>1. L - l \in 0..L /\ ~(j <= L - l) /\ L - (L - l) = l
        BY <1>1, <2>3
      <3> QED BY <2>2, <3>1
    <2> QED BY <1>2, <2>3, <2>4
  <1>4. L \in 0..L /\ L - L = 0
    BY <1>1
  <1>5. Good(0)
    BY <1>3, <1>4
  <1> QED BY <1>5, SplitIsLoop DEF Good

-----------------------------------------------------------------------------
(* The invariant.  s is the places a + 1 to z of the client's stream. *)
Run(s, a, z) == Len(s) = z - a /\ \A j \in 1..Len(s) : s[j] = a + j

(* m[i] is how many bytes of the client are in the first i frames. *)
Marks(m) ==
  /\ m \in [0..Len(wire) -> 0..read] /\ m[0] = 0
  /\ \A i \in 1..Len(wire) :
       /\ m[i - 1] <= m[i] /\ Run(wire[i].data, m[i - 1], m[i])
       /\ wire[i].op = "binary" <=> m[i - 1] < m[i]

(* The buffers of the splitter are what was read last, and begin with an   *)
(* unfinished packet.                                                      *)
Buffers ==
  /\ Run(cipher, read - Len(cipher), read)
  /\ \A i \in 1..Len(cipher) : plain[i] = conf.stream[read - Len(cipher) + i]
  /\ ~conf.split \/ disabled => cipher = <<>>
  /\ cipher # <<>> => NextPacketLen(plain) = None

(* Nothing is missing in between, unless Telegram is gone. *)
InStep(m) ==
  /\ telegram # "gone" /\ up # "done" => m[Len(wire)] + Len(cipher) = read
  /\ up = "tail" => cipher = <<>>
  /\ up = "drain" => read > 0

(* Frames are packets up to z, the first place at which no packet begins,  *)
(* and that is the end of the stream as long as none was seen.             *)
Packets(m, z) ==
  conf.split /\ up \in {"read", "drain"} =>
    /\ z <= Len(conf.stream) => Empty(z)
    /\ ~disabled => z = Len(conf.stream) + 1
    /\ disabled /\ telegram # "gone" => z < m[Len(wire)]
    /\ \A i \in 1..Len(wire) : wire[i].op = "binary" /\ m[i - 1] < z =>
         /\ ~Empty(m[i - 1])
         /\ PacketEnd(m[i - 1]) = m[i]
         /\ m[i] <= z

(* Who has closed the WebSocket, and that nobody writes afterwards. *)
Closing ==
  /\ bridge # "wait" => up = "done" /\ down = "done"
  /\ closed => down \in {"closing", "done"}
  /\ \A i \in 1..Len(wire) : wire[i].op = "close" => closed /\ i = Len(wire)

NoCloseYet == \A i \in 1..inbox : conf.replies[i] # "close"

(* Why a task has ended before the bridge did. *)
UpEnds(m) ==
  \/ client = "reset" \/ telegram = "gone" \/ ~NoCloseYet
  \/ telegram = "eof" /\ conf.kind = "ws" /\ read > 0
  \/ client = "eof" /\ BetweenRecords
  \/ m[Len(wire)] = read /\ (Stopped \/ (client = "eof" /\ read = Len(conf.stream)))
DownEnds ==
  \/ client = "reset" \/ telegram = "gone" \/ ~NoCloseYet
  \/ telegram = "eof" /\ inbox = Len(conf.replies)

Ends(m) ==
  /\ down = "closing" \/ (closed /\ bridge = "wait") => ~NoCloseYet
  /\ bridge = "wait" /\ up \in {"tail", "done"} => UpEnds(m)
  /\ bridge = "wait" /\ down = "done" => DownEnds
  /\ bridge # "wait" /\ ~cancelled => UpEnds(m) \/ DownEnds

(* What was received is delivered, in order, and a CLOSE is the last.      *)
Received ==
  /\ \A i, j \in 1..Len(delivered) : i < j => delivered[i] < delivered[j]
  /\ client # "reset" => \A i \in 1..inbox : conf.replies[i] = "data" => \E k \in 1..Len(delivered) : delivered[k] = i
  /\ \A i \in 1..inbox : conf.replies[i] = "close" => i = inbox /\ down \in {"closing", "done"}

BridgeInv ==
  /\ TypeOK /\ Buffers /\ Closing /\ Received
  /\ \E m \in [0..Len(wire) -> 0..read], z \in 0..(Len(conf.stream) + 1) :
       Marks(m) /\ InStep(m) /\ Packets(m, z) /\ Ends(m)

LEMMA ConfFacts ==
  ASSUME TypeOK
  PROVE  /\ conf.stream \in Seq(0..Long) /\ Len(conf.stream) \in Nat
         /\ conf.replies \in Seq({"data", "ping", "close", "other"}) /\ Len(conf.replies) \in Nat
         /\ read \in 0..Len(conf.stream) /\ read \in Nat
         /\ inbox \in 0..Len(conf.replies) /\ inbox \in Nat
  <1>1. conf.stream \in Streams /\ conf.replies \in Replies
    BY DEF TypeOK, Config
  <1>2. conf.stream \in Seq(0..Long) /\ conf.replies \in Seq({"data", "ping", "close", "other"})
    BY <1>1, StreamsAssumption, RepliesAssumption
  <1> QED BY <1>2 DEF TypeOK

(* What the splitter sees at the place k of its buffer is what there is    *)
(* in the stream, behind the a places that have left the buffer.           *)
LEMMA PacketAt ==
  ASSUME TypeOK, NEW p \in Seq(0..Long), NEW a \in Nat, a + Len(p) <= Len(conf.stream),
         \A i \in 1..Len(p) : p[i] = conf.stream[a + i],
         NEW k \in 0..Len(p), k # Len(p)
  PROVE  /\ LenAt(p, k) = 0 => Empty(a + k)
         /\ LenAt(p, k) \notin {None, 0} => ~Empty(a + k) /\ PacketEnd(a + k) = a + k + LenAt(p, k)
         /\ LenAt(p, k) = None => PacketEnd(a + k) > a + Len(p)
  <1> DEFINE L == Len(conf.stream)
             buf == From(p, k)
             rest == Rest(a + k)
  <1>1. L \in Nat /\ Len(p) \in Nat /\ conf.stream \in Seq(0..Long)
    BY ConfFacts
  <1>2. buf \in Seq(0..Long) /\ Len(buf) = Len(p) - k /\ \A i \in 1..Len(buf) : buf[i] = conf.stream[a + k + i]
    <2>1. /\ buf \in Seq(0..Long) /\ Len(buf) = Len(p) - k
          /\ \A i \in 1..(Len(p) - k) : buf[i] = p[k + i]
      <3>1. Len(p) \in 0..Len(p) /\ k <= Len(p)
        BY <1>1
      <3> QED BY <3>1, PartOf DEF From
    <2>2. \A i \in 1..(Len(p) - k) : k + i \in 1..Len(p) /\ a + (k + i) = a + k + i
      BY <1>1
    <2> QED BY <2>1, <2>2
  <1>3. rest \in Seq(0..Long) /\ Len(rest) = L - (a + k) /\ \A i \in 1..(L - (a + k)) : rest[i] = conf.stream[a + k + i]
    <2>1. a + k \in 0..L /\ L \in 0..L /\ a + k <= L
      BY <1>1
    <2> HIDE DEF L
    <2>2. /\ SubSeq(conf.stream, a + k + 1, L) \in Seq(0..Long)
          /\ Len(SubSeq(conf.stream, a + k + 1, L)) = L - (a + k)
          /\ \A i \in 1..(L - (a + k)) : SubSeq(conf.stream, a + k + 1, L)[i] = conf.stream[a + k + i]
      BY <1>1, <2>1, PartOf DEF L
    <2> QED BY <2>2 DEF Rest, L
  <1> HIDE DEF buf, rest, L
  <1>4. /\ Len(buf) >= 1 /\ Len(buf) <= Len(rest) /\ Len(rest) \in Nat
        /\ \A i \in 1..Len(buf) : buf[i] = rest[i]
    <2>1. L \in Nat /\ a + k + 1 <= L /\ a + k \in Nat /\ Len(p) \in Nat /\ a + Len(p) <= L
      BY <1>1 DEF L
    <2>2. Len(buf) >= 1 /\ Len(buf) <= Len(rest) /\ Len(rest) \in Nat
      BY <1>2, <1>3, <2>1
    <2>3. \A i \in 1..Len(buf) : i \in 1..(L - (a + k))
      BY <1>2, <2>1
    <2> QED BY <1>2, <1>3, <2>2, <2>3
  <1>5. buf[1] = rest[1] /\ (Len(buf) >= 2 => buf[2] = rest[2])
    BY <1>2, <1>4
  <1>6. Header(buf) = Header(rest) /\ Header(buf) \in {1, 2}
    BY <1>5 DEF Header
  <1>7. Len(buf) >= Header(buf) => Payload(buf) = Payload(rest) /\ Payload(buf) \in 0..Long
    BY <1>2, <1>4, <1>5, PacketFits DEF Header, Payload
  <1>8. Len(rest) >= Header(rest) => Payload(rest) \in 0..Long
    BY <1>3, <1>4, PacketFits
  <1>9. a + k < L /\ a + k + Len(buf) = a + Len(p) /\ a + k \in Nat
    BY <1>1, <1>2 DEF L
  <1>10. LenAt(p, k) = NextPacketLen(buf)
    BY DEF LenAt, buf
  <1>11. HasHeader(a + k) <=> Len(rest) >= Header(rest)
    BY <1>9 DEF HasHeader, rest, L
  <1>12. Empty(a + k) <=> Len(rest) >= Header(rest) /\ Payload(rest) = 0
    BY <1>11 DEF Empty, rest
  <1>13. PacketEnd(a + k) = IF Len(rest) >= Header(rest) THEN a + k + Header(rest) + Payload(rest) ELSE L + 1
    BY <1>11 DEF PacketEnd, rest, L
  <1>14. CASE Len(buf) < Header(buf)
    <2>1. NextPacketLen(buf) = None
      BY <1>14 DEF NextPacketLen
    <2>2. PacketEnd(a + k) > a + Len(p)
      BY <1>1, <1>2, <1>4, <1>6, <1>8, <1>9, <1>13, <1>14 DEF Long, L
    <2> QED BY <1>10, <2>1, <2>2 DEF None
  <1>15. CASE ~(Len(buf) < Header(buf))
    <2>1. Len(buf) >= Header(buf) /\ Len(rest) >= Header(rest)
      BY <1>2, <1>4, <1>6, <1>15
    <2>2. NextPacketLen(buf) = IF Payload(buf) = 0 THEN 0
                               ELSE IF Len(buf) < Header(buf) + Payload(buf) THEN None
                               ELSE Header(buf) + Payload(buf)
      BY <1>15 DEF NextPacketLen
    <2>3. PICK h \in {1, 2}, v \in 0..3 : h = Header(buf) /\ v = Payload(buf)
      BY <1>6, <1>7, <2>1 DEF Long
    <2>4. /\ LenAt(p, k) = IF v = 0 THEN 0 ELSE IF Len(buf) < h + v THEN None ELSE h + v
          /\ Empty(a + k) <=> v = 0
          /\ PacketEnd(a + k) = a + k + h + v
      BY <1>6, <1>7, <1>10, <1>12, <1>13, <2>1, <2>2, <2>3
    <2>5. CASE v = 0
      BY <2>4, <2>5 DEF None
    <2>6. CASE v # 0 /\ Len(buf) < h + v
      <3>1. LenAt(p, k) = None
        BY <2>4, <2>6
      <3>2. PacketEnd(a + k) > a + Len(p)
        BY <1>1, <1>2, <1>9, <2>4, <2>6
      <3> QED BY <3>1, <3>2 DEF None
    <2>7. CASE v # 0 /\ ~(Len(buf) < h + v)
      <3>1. LenAt(p, k) = h + v /\ ~Empty(a + k) /\ h + v > 0
        BY <2>4, <2>7
      <3>2. PacketEnd(a + k) = a + k + (h + v)
        BY <1>9, <2>4
      <3> QED BY <3>1, <3>2 DEF None
    <2> QED BY <2>5, <2>6, <2>7
  <1> QED BY <1>14, <1>15

Frame0(op, part) == [op |-> op, data |-> part]
Frames(op, parts) == [i \in DOMAIN parts |-> Frame0(op, parts[i])]
WireOf(n) == Seq([op : {"binary", "pong", "close"}, data : Seq(1..n)])

(* The parts make frames that go on from the place a, and end at mm[i]. *)
GoOn(op, parts, n, a, mm) ==
  /\ parts \in Seq(Seq(1..n))
  /\ mm \in [0..Len(parts) -> 0..n] /\ mm[0] = a
  /\ \A i \in 1..Len(parts) :
       /\ mm[i - 1] <= mm[i] /\ Run(parts[i], mm[i - 1], mm[i])
       /\ op = "binary" <=> mm[i - 1] < mm[i]

(* The frames w with those of the parts behind them, and their marks. *)
Grown(op, parts, w, x) ==
  /\ Len(x) = Len(w) + Len(parts)
  /\ \A i \in 1..Len(w) : x[i] = w[i]
  /\ \A i \in 1..Len(parts) : x[Len(w) + i] = Frame0(op, parts[i])
Joined(n, m, k, mm, l) ==
  /\ \A i \in 0..k : n[i] = m[i]
  /\ \A i \in 0..l : n[k + i] = mm[i]

LEMMA Wider ==
  ASSUME NEW n \in Nat, NEW k \in Nat, n <= k
  PROVE  WireOf(n) \subseteq WireOf(k) /\ Seq(1..n) \subseteq Seq(1..k)
  <1>1. 1..n \subseteq 1..k
    OBVIOUS
  <1>2. Seq(1..n) \subseteq Seq(1..k)
    BY <1>1
  <1>3. [op : {"binary", "pong", "close"}, data : Seq(1..n)] \subseteq [op : {"binary", "pong", "close"}, data : Seq(1..k)]
    BY <1>2
  <1>4. WireOf(n) \subseteq WireOf(k)
    <2> DEFINE A == [op : {"binary", "pong", "close"}, data : Seq(1..n)]
               B == [op : {"binary", "pong", "close"}, data : Seq(1..k)]
    <2>1. A \subseteq B
      BY <1>3
    <2> HIDE DEF A, B
    <2>2. Seq(A) \subseteq Seq(B)
      BY <2>1
    <2> QED BY <2>2 DEF WireOf, A, B
  <1> QED BY <1>2, <1>4

(* Frames that go on where those before them ended. *)
LEMMA Extended ==
  ASSUME TypeOK, NEW m, Marks(m), NEW op \in {"binary", "pong", "close"},
         read' \in Nat, read <= read',
         NEW parts, NEW mm, GoOn(op, parts, read', m[Len(wire)], mm),
         wire' = wire \o Frames(op, parts)
  PROVE  /\ wire' \in WireOf(read') /\ Grown(op, parts, wire, wire')
         /\ \E n \in [0..Len(wire') -> 0..read'] :
              Marks(n)' /\ Joined(n, m, Len(wire), mm, Len(parts))
  <1> DEFINE W == Len(wire)
             P == Len(parts)
             new == Frames(op, parts)
  <1>0. PICK n : n = [i \in 0..(W + P) |-> IF i <= W THEN m[i] ELSE mm[i - W]]
    OBVIOUS
  <1>1. W \in Nat /\ P \in Nat /\ read \in Nat
    BY ConfFacts DEF TypeOK, GoOn
  <1> USE DEF GoOn
  <1>2. wire \in WireOf(read')
    BY <1>1, Wider DEF TypeOK, WireOf
  <1>3. new \in WireOf(read') /\ Len(new) = P /\ \A i \in 1..P : new[i] = Frame0(op, parts[i])
    <2>1. \A i \in 1..P : Frame0(op, parts[i]) \in [op : {"binary", "pong", "close"}, data : Seq(1..read')]
      BY <1>1 DEF Frame0
    <2>2. DOMAIN parts = 1..P
      OBVIOUS
    <2> QED BY <1>1, <2>1, <2>2 DEF WireOf, Frames
  <1> HIDE DEF new
  <1>4. /\ wire' \in WireOf(read') /\ Len(wire') = W + P
        /\ \A i \in 1..W : wire'[i] = wire[i]
        /\ \A i \in 1..P : wire'[W + i] = Frame0(op, parts[i])
    <2>1. wire' = wire \o new
      BY DEF new
    <2> DEFINE F == [op : {"binary", "pong", "close"}, data : Seq(1..read')]
    <2>2. wire \in Seq(F) /\ new \in Seq(F)
      BY <1>2, <1>3 DEF WireOf
    <2> HIDE DEF F
    <2>3. wire' \in Seq(F) /\ Len(wire') = W + P
      <3>1. wire \o new \in Seq(F) /\ Len(wire \o new) = Len(wire) + Len(new)
        BY <2>2, ConcatProperties
      <3> QED BY <1>3, <2>1, <3>1
    <2>4. \A i \in 1..W : wire'[i] = wire[i]
      BY <1>1, <2>1, <2>2
    <2>5. \A i \in 1..P : wire'[W + i] = Frame0(op, parts[i])
      BY <1>1, <1>3, <2>1, <2>2
    <2> QED BY <2>3, <2>4, <2>5 DEF F, WireOf
  <1>5. /\ m \in [0..W -> 0..read] /\ m[0] = 0
        /\ \A i \in 1..W : /\ m[i - 1] <= m[i] /\ Run(wire[i].data, m[i - 1], m[i])
                           /\ wire[i].op = "binary" <=> m[i - 1] < m[i]
    BY DEF Marks
  <1>6. n \in [0..(W + P) -> 0..read']
    <2>1. \A i \in 0..W : m[i] \in 0..read'
      <3>1. \A i \in 0..W : m[i] \in 0..read
        BY <1>5
      <3>2. \A x \in 0..read : x \in 0..read'
        BY <1>1
      <3> QED BY <3>1, <3>2
    <2>2. \A i \in 0..(W + P) : (i <= W => i \in 0..W) /\ (~(i <= W) => i - W \in 0..P)
      BY <1>1
    <2>3. \A i \in 0..(W + P) : (IF i <= W THEN m[i] ELSE mm[i - W]) \in 0..read'
      BY <2>1, <2>2
    <2> QED BY <1>0, <2>3
  <1>7. \A i \in 0..W : n[i] = m[i]
    BY <1>0, <1>1
  <1>8. \A i \in 0..P : n[W + i] = mm[i]
    <2>1. ASSUME NEW i \in 0..P PROVE n[W + i] = mm[i]
      <3>1. CASE i = 0
        BY <1>0, <1>1, <3>1
      <3>2. CASE i # 0
        <4>1. W + i \in 0..(W + P) /\ ~(W + i <= W) /\ W + i - W = i
          BY <1>1, <3>2
        <4> QED BY <1>0, <4>1
      <3> QED BY <3>1, <3>2
    <2> QED BY <2>1
  <1>9. ASSUME NEW i \in 1..(W + P)
        PROVE  /\ n[i - 1] <= n[i] /\ Run(wire'[i].data, n[i - 1], n[i])
               /\ wire'[i].op = "binary" <=> n[i - 1] < n[i]
    <2>1. CASE i <= W
      <3>1. i \in 1..W /\ i \in 0..W /\ i - 1 \in 0..W
        BY <1>1, <2>1
      <3>2. n[i - 1] = m[i - 1] /\ n[i] = m[i] /\ wire'[i] = wire[i]
        BY <1>4, <1>7, <3>1
      <3> QED BY <1>5, <3>1, <3>2
    <2>2. CASE ~(i <= W)
      <3>1. PICK k \in 1..P : i = W + k
        <4>1. i - W \in 1..P /\ i = W + (i - W)
          BY <1>1, <2>2
        <4> QED BY <4>1
      <3>2. k \in 0..P /\ k - 1 \in 0..P /\ i - 1 = W + (k - 1)
        BY <1>1, <3>1
      <3>3. n[i] = mm[k] /\ n[i - 1] = mm[k - 1] /\ wire'[i] = Frame0(op, parts[k])
        BY <1>4, <1>8, <3>1, <3>2
      <3>4. wire'[i].op = op /\ wire'[i].data = parts[k]
        BY <3>3 DEF Frame0
      <3> QED BY <3>1, <3>3, <3>4
    <2> QED BY <2>1, <2>2
  <1>10. n[0] = 0
    BY <1>1, <1>5, <1>7
  <1>11. Len(wire') = W + P
    BY <1>4
  <1>12. n \in [0..Len(wire') -> 0..read']
    BY <1>6, <1>11
  <1>13. \A i \in 1..Len(wire') : /\ n[i - 1] <= n[i] /\ Run(wire'[i].data, n[i - 1], n[i])
                                  /\ wire'[i].op = "binary" <=> n[i - 1] < n[i]
    BY <1>9, <1>11
  <1>14. Marks(n)'
    BY <1>10, <1>12, <1>13 DEF Marks
  <1>15. Joined(n, m, W, mm, P)
    BY <1>7, <1>8 DEF Joined
  <1>16. wire' \in WireOf(read') /\ Grown(op, parts, wire, wire')
    BY <1>4 DEF Grown
  <1> QED BY <1>12, <1>14, <1>15, <1>16

LEMMA ConfSame ==
  ASSUME conf' = conf, NEW k
  PROVE  (Empty(k)' <=> Empty(k)) /\ PacketEnd(k)' = PacketEnd(k)
  BY DEF Empty, PacketEnd, HasHeader, Rest, Header, Payload

(* Steps that neither read from the client nor write to Telegram. *)
LEMMA Still ==
  ASSUME TypeOK, Buffers, NEW m, NEW z, Marks(m), InStep(m), Packets(m, z),
         conf' = conf, read' = read, cipher' = cipher, plain' = plain, disabled' = disabled, wire' = wire,
         telegram = "gone" => telegram' = "gone",
         up' = up \/ up' = "done" \/ (up = "drain" /\ up' = "read")
  PROVE  Buffers' /\ Marks(m)' /\ InStep(m)' /\ Packets(m, z)'
  <1>1. Buffers'
    BY DEF Buffers, NextPacketLen, Header, Payload
  <1>2. Marks(m)'
    BY DEF Marks
  <1>3. InStep(m)'
    BY DEF InStep
  <1>4. \A k : (Empty(k)' <=> Empty(k)) /\ PacketEnd(k)' = PacketEnd(k)
    BY ConfSame
  <1>5. Packets(m, z)'
    BY <1>4 DEF Packets
  <1> QED BY <1>1, <1>2, <1>3, <1>5

(* What has ended a task stays true. *)
LEMMA EndsStay ==
  ASSUME TypeOK, NEW m, NEW n, n[Len(wire')] = m[Len(wire)],
         conf' = conf, read' = read, inbox' \in {inbox, inbox + 1},
         client' = client \/ client = "open",
         telegram' = telegram \/ telegram = "open" \/ telegram' = "gone"
  PROVE  /\ UpEnds(m) => UpEnds(n)'
         /\ inbox' = inbox /\ DownEnds => DownEnds'
         /\ ~NoCloseYet => ~NoCloseYet'
  <1>1. inbox \in Nat
    BY ConfFacts
  <1>2. ~NoCloseYet => ~NoCloseYet'
    BY <1>1 DEF NoCloseYet
  <1>3. (Stopped' <=> Stopped) /\ (BetweenRecords' <=> BetweenRecords)
    BY DEF Stopped, Stops, RecordEnds, RecordEnd, BetweenRecords, Tls
  <1>4. UpEnds(m) => UpEnds(n)'
    BY <1>2, <1>3 DEF UpEnds, TypeOK
  <1>5. inbox' = inbox /\ DownEnds => DownEnds'
    BY <1>2 DEF DownEnds, TypeOK
  <1> QED BY <1>2, <1>4, <1>5

LEMMA StillSteps ==
  ASSUME BridgeInv,
         \/ Drained \/ ReadFails \/ RecvData \/ Delivered \/ RecvFails
         \/ FirstCompleted \/ Cancel \/ ClientEnds \/ TelegramEnds
  PROVE  BridgeInv'
  <1>1. TypeOK /\ Buffers /\ Closing /\ Received
    BY DEF BridgeInv
  <1>2. PICK m \in [0..Len(wire) -> 0..read], z \in 0..(Len(conf.stream) + 1) :
          Marks(m) /\ InStep(m) /\ Packets(m, z) /\ Ends(m)
    BY DEF BridgeInv
  <1>3. /\ Buffers' /\ Marks(m)' /\ InStep(m)' /\ Packets(m, z)'
        /\ m \in [0..Len(wire') -> 0..read'] /\ z \in 0..(Len(conf'.stream) + 1)
    <2>1. /\ conf' = conf /\ read' = read /\ cipher' = cipher /\ plain' = plain /\ disabled' = disabled /\ wire' = wire
          /\ telegram = "gone" => telegram' = "gone"
          /\ up' = up \/ up' = "done" \/ (up = "drain" /\ up' = "read")
      BY DEF Drained, ReadFails, RecvData, Delivered, RecvFails, FirstCompleted, Cancel, BothCancelled,
             ClientEnds, TelegramEnds, splitter, ends
    <2> QED BY <1>1, <1>2, <2>1, Still
  <1>4. /\ UpEnds(m) => UpEnds(m)'
        /\ inbox' = inbox /\ DownEnds => DownEnds'
        /\ ~NoCloseYet => ~NoCloseYet'
    <2>1. /\ conf' = conf /\ read' = read /\ inbox' \in {inbox, inbox + 1} /\ wire' = wire
          /\ client' = client \/ client = "open"
          /\ telegram' = telegram \/ telegram = "open" \/ telegram' = "gone"
      BY DEF Drained, ReadFails, RecvData, Delivered, RecvFails, FirstCompleted, Cancel, BothCancelled,
             ClientEnds, TelegramEnds, splitter, ends
    <2> QED BY <1>1, <2>1, EndsStay
  <1>5. CASE Drained
    <2>1. TypeOK'
      BY <1>1, <1>5 DEF TypeOK, Drained, splitter, ends
    <2>2. Closing'
      BY <1>1, <1>5 DEF TypeOK, Closing, Drained, splitter, ends
    <2>3. Received'
      BY <1>1, <1>5 DEF TypeOK, Received, Closing, Drained, splitter, ends
    <2>4. Ends(m)'
      <3>1. up' = "done" => UpEnds(m)
        <4>1. up = "tail" => bridge = "wait" /\ UpEnds(m)
          BY <1>1, <1>2, <1>5 DEF TypeOK, Ends, Closing
        <4>2. up = "drain" /\ up' = "done" => UpEnds(m)
          BY <1>2, <1>5 DEF Drained, InStep, UpEnds
        <4> QED BY <1>5, <4>1, <4>2 DEF Drained
      <3> QED BY <1>1, <1>2, <1>4, <1>5, <3>1 DEF Ends, Closing, Drained, ends
    <2> QED BY <1>3, <1>5, <2>1, <2>2, <2>3, <2>4 DEF BridgeInv, Drained
  <1>6. CASE ReadFails
    <2>1. TypeOK'
      BY <1>1, <1>6 DEF TypeOK, ReadFails, splitter, ends
    <2>2. Closing'
      BY <1>1, <1>6 DEF TypeOK, Closing, ReadFails, splitter, ends
    <2>3. Received'
      BY <1>1, <1>6 DEF TypeOK, Received, Closing, ReadFails, splitter, ends
    <2>4. Ends(m)'
      <3>1. UpEnds(m)
        BY <1>5, <1>6 DEF ReadFails, UpEnds, ClientDone
      <3> QED BY <1>1, <1>2, <1>4, <1>6, <3>1 DEF Ends, Closing, ReadFails, ends
    <2> QED BY <1>3, <1>6, <2>1, <2>2, <2>3, <2>4 DEF BridgeInv, ReadFails
  <1>7. CASE RecvData
    <2>1. TypeOK'
      <3>1. inbox \in Nat /\ inbox' = inbox + 1 /\ inbox' \in 0..Len(conf.replies)
        BY <1>1, <1>7, ConfFacts DEF RecvData, Arrived, TypeOK
      <3>2. delivered \in Seq(1..inbox') /\ inbox + 1 \in 1..inbox'
        BY <1>1, <3>1, Wider DEF TypeOK
      <3>3. delivered' \in Seq(1..inbox')
        <4>1. Append(delivered, inbox + 1) \in Seq(1..inbox')
          BY <3>2, AppendProperties
        <4> QED BY <1>7, <3>2, <4>1 DEF RecvData
      <3> QED BY <1>1, <1>7, <3>1, <3>3 DEF TypeOK, RecvData, splitter, ends
    <2>2. Closing'
      BY <1>1, <1>7 DEF TypeOK, Closing, RecvData, splitter, ends, Arrived, Frame
    <2>3. Received'
      <3>1. /\ inbox \in Nat /\ inbox' = inbox + 1 /\ delivered \in Seq(1..inbox)
            /\ conf.replies[inbox'] = "data" /\ down = "recv" /\ conf' = conf /\ client' = client
        BY <1>1, <1>7, ConfFacts DEF RecvData, Arrived, Frame, TypeOK, ends
      <3>2. /\ client = "reset" => delivered' = delivered
            /\ client # "reset" => delivered' = Append(delivered, inbox')
        BY <1>7, <3>1 DEF RecvData
      <3>3. Len(delivered) \in Nat /\ \A i \in 1..Len(delivered) : delivered[i] \in 1..inbox
        BY <3>1
      <3>4. client # "reset" =>
              /\ Len(delivered') = Len(delivered) + 1 /\ delivered'[Len(delivered) + 1] = inbox + 1
              /\ \A i \in 1..Len(delivered) : delivered'[i] = delivered[i]
        <4> SUFFICES ASSUME client # "reset"
                     PROVE  /\ Len(delivered') = Len(delivered) + 1 /\ delivered'[Len(delivered) + 1] = inbox + 1
                            /\ \A i \in 1..Len(delivered) : delivered'[i] = delivered[i]
          OBVIOUS
        <4>1. delivered \in Seq(Nat) /\ delivered' = Append(delivered, inbox + 1) /\ inbox + 1 \in Nat
          BY <3>1, <3>2
        <4> QED BY <3>3, <4>1, AppendProperties
      <3>5. \A i, j \in 1..Len(delivered') : i < j => delivered'[i] < delivered'[j]
        <4>1. CASE client = "reset"
          BY <1>1, <3>2, <4>1 DEF Received
        <4>2. CASE client # "reset"
          <5> SUFFICES ASSUME NEW i \in 1..Len(delivered'), NEW j \in 1..Len(delivered'), i < j
                       PROVE  delivered'[i] < delivered'[j]
            OBVIOUS
          <5>1. i \in 1..Len(delivered) /\ delivered'[i] = delivered[i] /\ delivered[i] \in 1..inbox
            BY <3>3, <3>4, <4>2
          <5>2. CASE j = Len(delivered) + 1
            BY <3>1, <3>4, <4>2, <5>1, <5>2
          <5>3. CASE j # Len(delivered) + 1
            <6>1. j \in 1..Len(delivered) /\ delivered'[j] = delivered[j]
              BY <3>3, <3>4, <4>2, <5>3
            <6> QED BY <1>1, <5>1, <6>1 DEF Received
          <5> QED BY <5>2, <5>3
        <4> QED BY <4>1, <4>2
      <3>6. client # "reset" => \A i \in 1..inbox' : conf.replies[i] = "data" => \E k \in 1..Len(delivered') : delivered'[k] = i
        <4> SUFFICES ASSUME client # "reset", NEW i \in 1..inbox', conf.replies[i] = "data"
                     PROVE  \E k \in 1..Len(delivered') : delivered'[k] = i
          OBVIOUS
        <4>1. /\ Len(delivered') = Len(delivered) + 1 /\ delivered'[Len(delivered) + 1] = inbox + 1
              /\ \A k \in 1..Len(delivered) : delivered'[k] = delivered[k]
          BY <3>4
        <4>2. CASE i = inbox + 1
          <5>1. Len(delivered) + 1 \in 1..Len(delivered')
            BY <3>3, <4>1
          <5> QED BY <4>1, <4>2, <5>1
        <4>3. CASE i # inbox + 1
          <5>1. PICK k \in 1..Len(delivered) : delivered[k] = i
            BY <1>1, <3>1, <4>3 DEF Received
          <5>2. k \in 1..Len(delivered')
            BY <3>3, <4>1
          <5> QED BY <4>1, <5>1, <5>2
        <4> QED BY <4>2, <4>3
      <3>7. \A i \in 1..inbox' : conf.replies[i] # "close"
        BY <1>1, <3>1 DEF Received
      <3> QED BY <3>1, <3>5, <3>6, <3>7 DEF Received
    <2>4. Ends(m)'
      BY <1>1, <1>2, <1>4, <1>7 DEF TypeOK, Ends, Closing, RecvData, ends, Arrived, Frame
    <2> QED BY <1>3, <1>7, <2>1, <2>2, <2>3, <2>4 DEF BridgeInv, RecvData
  <1>8. CASE Delivered
    <2>1. TypeOK'
      BY <1>1, <1>8 DEF TypeOK, Delivered, splitter, ends
    <2>2. Closing'
      BY <1>1, <1>8 DEF TypeOK, Closing, Delivered, splitter, ends
    <2>3. Received'
      BY <1>1, <1>8 DEF TypeOK, Received, Closing, Delivered, splitter, ends
    <2>4. Ends(m)'
      <3>1. down' = "done" => DownEnds
        BY <1>2, <1>8 DEF Delivered, DownEnds, Ends
      <3> QED BY <1>1, <1>2, <1>4, <1>8, <3>1 DEF Ends, Closing, Delivered, ends
    <2> QED BY <1>3, <1>8, <2>1, <2>2, <2>3, <2>4 DEF BridgeInv, Delivered
  <1>9. CASE RecvFails
    <2>1. TypeOK'
      BY <1>1, <1>9 DEF TypeOK, RecvFails, splitter, ends
    <2>2. Closing'
      BY <1>1, <1>9 DEF TypeOK, Closing, RecvFails, splitter, ends
    <2>3. Received'
      BY <1>1, <1>9 DEF TypeOK, Received, Closing, RecvFails, splitter, ends
    <2>4. Ends(m)'
      <3>1. DownEnds
        BY <1>9 DEF RecvFails, DownEnds
      <3> QED BY <1>1, <1>2, <1>4, <1>9, <3>1 DEF Ends, Closing, RecvFails, ends
    <2> QED BY <1>3, <1>9, <2>1, <2>2, <2>3, <2>4 DEF BridgeInv, RecvFails
  <1>10. CASE FirstCompleted
    <2>1. TypeOK'
      BY <1>1, <1>10 DEF TypeOK, FirstCompleted, splitter, ends, BothCancelled
    <2>2. Closing'
      BY <1>1, <1>10 DEF TypeOK, Closing, FirstCompleted, splitter, ends, BothCancelled
    <2>3. Received'
      BY <1>1, <1>10 DEF TypeOK, Received, Closing, FirstCompleted, splitter, ends, BothCancelled
    <2>4. Ends(m)'
      BY <1>1, <1>2, <1>4, <1>10 DEF TypeOK, Ends, Closing, FirstCompleted, ends, BothCancelled
    <2> QED BY <1>3, <1>10, <2>1, <2>2, <2>3, <2>4 DEF BridgeInv, FirstCompleted
  <1>11. CASE Cancel
    <2>1. TypeOK'
      BY <1>1, <1>11 DEF TypeOK, Cancel, splitter, ends, BothCancelled
    <2>2. Closing'
      BY <1>1, <1>11 DEF TypeOK, Closing, Cancel, splitter, ends, BothCancelled
    <2>3. Received'
      BY <1>1, <1>11 DEF TypeOK, Received, Closing, Cancel, splitter, ends, BothCancelled
    <2>4. Ends(m)'
      BY <1>1, <1>2, <1>4, <1>11 DEF TypeOK, Ends, Closing, Cancel, ends, BothCancelled
    <2> QED BY <1>3, <1>11, <2>1, <2>2, <2>3, <2>4 DEF BridgeInv, Cancel
  <1>12. CASE ClientEnds
    <2>1. TypeOK'
      BY <1>1, <1>12 DEF TypeOK, ClientEnds, splitter, ends
    <2>2. Closing'
      BY <1>1, <1>12 DEF TypeOK, Closing, ClientEnds, splitter, ends
    <2>3. Received'
      BY <1>1, <1>12 DEF TypeOK, Received, Closing, ClientEnds, splitter, ends
    <2>4. Ends(m)'
      BY <1>1, <1>2, <1>4, <1>12 DEF TypeOK, Ends, Closing, ClientEnds, ends
    <2> QED BY <1>3, <1>12, <2>1, <2>2, <2>3, <2>4 DEF BridgeInv, ClientEnds
  <1>13. CASE TelegramEnds
    <2>1. TypeOK'
      BY <1>1, <1>13 DEF TypeOK, TelegramEnds, splitter, ends
    <2>2. Closing'
      BY <1>1, <1>13 DEF TypeOK, Closing, TelegramEnds, splitter, ends
    <2>3. Received'
      BY <1>1, <1>13 DEF TypeOK, Received, Closing, TelegramEnds, splitter, ends
    <2>4. Ends(m)'
      BY <1>1, <1>2, <1>4, <1>13 DEF TypeOK, Ends, Closing, TelegramEnds, ends
    <2> QED BY <1>3, <1>13, <2>1, <2>2, <2>3, <2>4 DEF BridgeInv, TelegramEnds
  <1> QED BY <1>5, <1>6, <1>7, <1>8, <1>9, <1>10, <1>11, <1>12, <1>13

(* A PONG or a CLOSE holds no byte of the client. *)
LEMMA ControlFrame ==
  ASSUME TypeOK, Buffers, NEW m, NEW z, Marks(m), InStep(m), Packets(m, z),
         NEW op \in {"pong", "close"}, wire' = wire \/ Put(op, << <<>> >>),
         conf' = conf, read' = read, cipher' = cipher, plain' = plain, disabled' = disabled,
         telegram' = telegram, up' = up
  PROVE  /\ Buffers' /\ wire' \in WireOf(read')
         /\ \/ wire' = wire
            \/ /\ Len(wire') = Len(wire) + 1 /\ wire'[Len(wire) + 1].op = op
               /\ \A i \in 1..Len(wire) : wire'[i] = wire[i]
         /\ \E n \in [0..Len(wire') -> 0..read'] :
              Marks(n)' /\ InStep(n)' /\ Packets(n, z)' /\ n[Len(wire')] = m[Len(wire)]
  <1>1. Buffers'
    BY DEF Buffers, NextPacketLen, Header, Payload
  <1>2. \A k : (Empty(k)' <=> Empty(k)) /\ PacketEnd(k)' = PacketEnd(k)
    BY ConfSame
  <1>3. CASE wire' = wire
    <2>1. Marks(m)' /\ InStep(m)'
      BY <1>3 DEF Marks, InStep
    <2>2. Packets(m, z)'
      BY <1>2, <1>3 DEF Packets
    <2>3. m \in [0..Len(wire') -> 0..read'] /\ wire' \in WireOf(read')
      BY <1>3 DEF Marks, TypeOK, WireOf
    <2> QED BY <1>1, <1>3, <2>1, <2>2, <2>3
  <1>4. CASE wire' # wire
    <2> DEFINE parts == << <<>> >>
    <2>1. wire' = wire \o Frames(op, parts)
      BY <1>4 DEF Put, Frame0, Frames
    <2>2. /\ read \in Nat /\ Len(wire) \in Nat /\ Len(wire) \in 0..Len(wire)
          /\ m \in [0..Len(wire) -> 0..read] /\ m[Len(wire)] \in 0..read
      <3>1. read \in Nat /\ Len(wire) \in Nat
        BY ConfFacts DEF TypeOK
      <3>2. m \in [0..Len(wire) -> 0..read]
        BY DEF Marks
      <3> QED BY <3>1, <3>2
    <2>3. PICK mm \in [0..1 -> 0..read'] : mm[0] = m[Len(wire)] /\ mm[1] = m[Len(wire)]
      <3>1. PICK v \in 0..read' : v = m[Len(wire)]
        BY <2>2
      <3>2. [i \in 0..1 |-> v] \in [0..1 -> 0..read']
        OBVIOUS
      <3>3. [i \in 0..1 |-> v][0] = v /\ [i \in 0..1 |-> v][1] = v
        OBVIOUS
      <3> QED BY <3>1, <3>2, <3>3
    <2>4. parts \in Seq(Seq(1..read')) /\ Len(parts) = 1 /\ parts[1] = <<>>
      OBVIOUS
    <2> HIDE DEF parts
    <2>5. \A i \in 1..Len(parts) :
            /\ mm[i - 1] <= mm[i] /\ Run(parts[i], mm[i - 1], mm[i])
            /\ op = "binary" <=> mm[i - 1] < mm[i]
      BY <2>2, <2>3, <2>4 DEF Run
    <2>6. mm \in [0..Len(parts) -> 0..read'] /\ read' \in Nat /\ read <= read'
      BY <2>2, <2>3, <2>4
    <2>7. /\ wire' \in WireOf(read') /\ Grown(op, parts, wire, wire')
          /\ \E n \in [0..Len(wire') -> 0..read'] :
               Marks(n)' /\ Joined(n, m, Len(wire), mm, Len(parts))
      <3>1. GoOn(op, parts, read', m[Len(wire)], mm)
        BY <2>3, <2>4, <2>5, <2>6 DEF GoOn
      <3> QED BY <2>1, <2>6, <3>1, Extended
    <2>8. PICK n \in [0..Len(wire') -> 0..read'] : Marks(n)' /\ Joined(n, m, Len(wire), mm, Len(parts))
      BY <2>7
    <2>9. /\ Len(wire') = Len(wire) + 1 /\ wire'[Len(wire) + 1].op = op
          /\ \A i \in 1..Len(wire) : wire'[i] = wire[i]
      BY <2>4, <2>7 DEF Frame0, Grown
    <2>10. n[Len(wire')] = m[Len(wire)]
      BY <2>3, <2>4, <2>8, <2>9 DEF Joined
    <2>11. InStep(n)'
      BY <2>10 DEF InStep
    <2>12. Packets(n, z)'
      <3>1. ASSUME NEW i \in 1..Len(wire'), wire'[i].op = "binary"
            PROVE  i \in 1..Len(wire) /\ wire'[i] = wire[i] /\ n[i] = m[i] /\ n[i - 1] = m[i - 1]
        <4>1. i # Len(wire) + 1
          BY <2>9, <3>1
        <4>2. i \in 1..Len(wire) /\ i \in 0..Len(wire) /\ i - 1 \in 0..Len(wire)
          BY <2>2, <2>9, <4>1
        <4> QED BY <2>9, <2>8, <4>2 DEF Joined
      <3> QED BY <1>2, <2>10, <3>1 DEF Packets
    <2> QED BY <1>1, <2>7, <2>8, <2>9, <2>10, <2>11, <2>12
  <1> QED BY <1>3, <1>4

LEMMA ControlSteps ==
  ASSUME BridgeInv, RecvControl \/ RecvClose \/ Close
  PROVE  BridgeInv'
  <1>1. TypeOK /\ Buffers /\ Closing /\ Received
    BY DEF BridgeInv
  <1>2. PICK m \in [0..Len(wire) -> 0..read], z \in 0..(Len(conf.stream) + 1) :
          Marks(m) /\ InStep(m) /\ Packets(m, z) /\ Ends(m)
    BY DEF BridgeInv
  <1>3. PICK op \in {"pong", "close"} : (wire' = wire \/ Put(op, << <<>> >>)) /\ (op = "close" <=> ~RecvControl)
    BY DEF RecvControl, RecvClose, Close, Arrived
  <1>4. /\ Buffers' /\ wire' \in WireOf(read')
        /\ \/ wire' = wire
           \/ /\ Len(wire') = Len(wire) + 1 /\ wire'[Len(wire) + 1].op = op
              /\ \A i \in 1..Len(wire) : wire'[i] = wire[i]
        /\ \E n \in [0..Len(wire') -> 0..read'] :
             Marks(n)' /\ InStep(n)' /\ Packets(n, z)' /\ n[Len(wire')] = m[Len(wire)]
    <2>1. /\ conf' = conf /\ read' = read /\ cipher' = cipher /\ plain' = plain /\ disabled' = disabled
          /\ telegram' = telegram /\ up' = up
      BY DEF RecvControl, RecvClose, Close, splitter, ends
    <2> QED BY <1>1, <1>2, <1>3, <2>1, ControlFrame
  <1>5. PICK n \in [0..Len(wire') -> 0..read'] :
          Marks(n)' /\ InStep(n)' /\ Packets(n, z)' /\ n[Len(wire')] = m[Len(wire)]
    BY <1>4
  <1>6. /\ conf' = conf /\ read' = read /\ client' = client /\ telegram' = telegram
        /\ cipher' = cipher /\ plain' = plain /\ disabled' = disabled
        /\ up' = up /\ cancelled' = cancelled /\ delivered' = delivered
        /\ inbox' = IF Close THEN inbox ELSE inbox + 1
        /\ ~Close => bridge' = bridge /\ down = "recv" /\ inbox < Len(conf.replies)
    BY DEF RecvControl, RecvClose, Close, Arrived, ends, splitter
  <1>7. inbox \in Nat /\ conf.replies \in Seq({"data", "ping", "close", "other"}) /\ z \in 0..(Len(conf'.stream) + 1)
    BY <1>1, <1>6, ConfFacts
  <1>8. /\ UpEnds(m) => UpEnds(n)'
        /\ inbox' = inbox /\ DownEnds => DownEnds'
        /\ ~NoCloseYet => ~NoCloseYet'
    BY <1>1, <1>5, <1>6, EndsStay
  <1>9. delivered \in Seq(1..inbox')
    BY <1>1, <1>6, <1>7, Wider DEF TypeOK
  <1>10. ~closed => \A i \in 1..Len(wire') : wire'[i].op = "close" => op = "close" /\ i = Len(wire')
    <2> SUFFICES ASSUME ~closed, NEW i \in 1..Len(wire'), wire'[i].op = "close"
                 PROVE  op = "close" /\ i = Len(wire')
      OBVIOUS
    <2>1. \A j \in 1..Len(wire) : wire[j].op # "close"
      BY <1>1 DEF Closing
    <2>2. Len(wire) \in Nat
      BY <1>1 DEF TypeOK
    <2>3. wire' # wire
      BY <2>1
    <2>4. i = Len(wire) + 1 \/ i \in 1..Len(wire)
      BY <1>4, <2>2, <2>3
    <2> QED BY <1>4, <2>1, <2>3, <2>4
  <1>11. /\ \A i, j \in 1..Len(delivered') : i < j => delivered'[i] < delivered'[j]
         /\ client' # "reset" => \A i \in 1..inbox : conf'.replies[i] = "data" => \E k \in 1..Len(delivered') : delivered'[k] = i
         /\ down = "recv" => \A i \in 1..inbox : conf'.replies[i] # "close"
    BY <1>1, <1>6 DEF Received
  <1>12. CASE RecvControl
    <2>1. TypeOK'
      BY <1>1, <1>4, <1>6, <1>7, <1>9, <1>12 DEF TypeOK, WireOf, RecvControl
    <2>2. Closing'
      <3>1. down = "recv" /\ ~closed /\ closed' = closed /\ bridge' = bridge /\ op = "pong"
        BY <1>1, <1>3, <1>12 DEF Closing, RecvControl, Arrived
      <3> QED BY <1>1, <1>10, <3>1 DEF Closing
    <2>3. Received'
      <3>1. /\ down = "recv" /\ inbox' = inbox + 1 /\ conf' = conf
            /\ conf.replies[inbox + 1] # "data" /\ conf.replies[inbox + 1] # "close"
        BY <1>12 DEF RecvControl, Arrived, Frame
      <3>2. \A i \in 1..inbox' : i \in 1..inbox \/ i = inbox + 1
        BY <1>7, <3>1
      <3> QED BY <1>11, <3>1, <3>2 DEF Received
    <2>4. Ends(n)'
      BY <1>1, <1>2, <1>6, <1>8, <1>12 DEF Ends, Closing, RecvControl, Arrived
    <2> QED BY <1>4, <1>5, <1>7, <2>1, <2>2, <2>3, <2>4 DEF BridgeInv
  <1>13. CASE RecvClose
    <2>1. TypeOK'
      BY <1>1, <1>4, <1>6, <1>7, <1>9, <1>13 DEF TypeOK, WireOf, RecvClose
    <2>2. Closing'
      <3>1. down = "recv" /\ ~closed /\ closed' /\ bridge' = bridge /\ down' = "closing"
        BY <1>1, <1>13 DEF Closing, RecvClose, Arrived
      <3> QED BY <1>1, <1>10, <3>1 DEF Closing
    <2>3. Received'
      <3>1. /\ down = "recv" /\ down' = "closing" /\ inbox' = inbox + 1 /\ conf' = conf
            /\ conf.replies[inbox + 1] # "data"
        BY <1>13 DEF RecvClose, Arrived, Frame
      <3>2. \A i \in 1..inbox' : i \in 1..inbox \/ i = inbox'
        BY <1>7, <3>1
      <3> QED BY <1>11, <3>1, <3>2 DEF Received
    <2>4. Ends(n)'
      <3>1. ~NoCloseYet'
        <4>1. conf.replies[inbox + 1] = "close" /\ conf' = conf /\ inbox' = inbox + 1
          BY <1>13 DEF RecvClose, Frame
        <4>2. inbox + 1 \in 1..(inbox + 1)
          BY <1>7
        <4> QED BY <4>1, <4>2 DEF NoCloseYet
      <3> QED BY <1>1, <1>2, <1>6, <1>8, <1>13, <3>1 DEF Ends, Closing, RecvClose, Arrived
    <2> QED BY <1>4, <1>5, <1>7, <2>1, <2>2, <2>3, <2>4 DEF BridgeInv
  <1>14. CASE Close
    <2>1. TypeOK'
      BY <1>1, <1>4, <1>6, <1>7, <1>14 DEF TypeOK, WireOf, Close
    <2>2. Closing'
      <3>1. bridge = "close" /\ up' = "done" /\ down' = "done"
        BY <1>1, <1>14 DEF Closing, Close
      <3>2. CASE conf.kind = "ws" /\ ~closed
        <4>1. closed'
          BY <1>14, <3>2 DEF Close
        <4> QED BY <1>10, <3>1, <3>2, <4>1 DEF Closing
      <3>3. CASE ~(conf.kind = "ws" /\ ~closed)
        <4>1. wire' = wire /\ (closed => closed')
          BY <1>14, <3>3 DEF Close
        <4> QED BY <1>1, <3>1, <4>1 DEF Closing
      <3> QED BY <3>2, <3>3
    <2>3. Received'
      BY <1>1, <1>6, <1>14 DEF Received, Close
    <2>4. Ends(n)'
      BY <1>1, <1>2, <1>6, <1>8, <1>14 DEF Ends, Closing, Close, TypeOK
    <2> QED BY <1>4, <1>5, <1>7, <2>1, <2>2, <2>3, <2>4 DEF BridgeInv
  <1> QED BY <1>12, <1>13, <1>14
-----------------------------------------------------------------------------
(* The way up. *)

(* What a step of tcp_to_ws that begins with a read leaves as it is. *)
LEMMA UpLeaves ==
  ASSUME TypeOK, Closing, Received, up = "read", NEW m, Ends(m), NEW n,
         UNCHANGED <<conf, closed, inbox, delivered, down, bridge, ends, cancelled>>,
         NEW parts, Len(parts) \in Nat,
         wire' = wire \/ (~closed /\ Grown("binary", parts, wire, wire')),
         up' \in {"tail", "done"} => UpEnds(n)'
  PROVE  Closing' /\ Received' /\ Ends(n)'
  <1>1. bridge = "wait" /\ (closed => down \in {"closing", "done"})
    BY DEF Closing, TypeOK
  <1>2. UNCHANGED <<conf, closed, inbox, delivered, down, bridge, client, telegram, cancelled>>
    BY DEF ends
  <1>3. \A i \in 1..Len(wire') : wire'[i].op = "close" => closed /\ i = Len(wire')
    <2>1. CASE wire' = wire
      BY <2>1 DEF Closing
    <2>2. CASE ~closed /\ Grown("binary", parts, wire, wire')
      <3>1. \A i \in 1..Len(wire) : wire[i].op # "close"
        BY <2>2 DEF Closing
      <3>2. ASSUME NEW i \in 1..Len(wire') PROVE wire'[i].op # "close"
        <4>1. Len(wire) \in Nat /\ Len(wire') = Len(wire) + Len(parts)
          BY <2>2 DEF TypeOK, Grown
        <4>2. CASE i <= Len(wire)
          BY <2>2, <3>1, <4>1, <4>2 DEF Grown
        <4>3. CASE ~(i <= Len(wire))
          <5>1. i - Len(wire) \in 1..Len(parts) /\ Len(wire) + (i - Len(wire)) = i
            BY <4>1, <4>3
          <5>2. wire'[i] = Frame0("binary", parts[i - Len(wire)])
            BY <2>2, <5>1 DEF Grown
          <5> QED BY <5>2 DEF Frame0
        <4> QED BY <4>2, <4>3
      <3> QED BY <3>2
    <2> QED BY <2>1, <2>2
  <1>4. Closing'
    BY <1>1, <1>2, <1>3 DEF Closing
  <1>5. Received'
    BY <1>2 DEF Received
  <1>6. Ends(n)'
    <2>1. (NoCloseYet' <=> NoCloseYet) /\ (DownEnds' <=> DownEnds)
      BY <1>2 DEF NoCloseYet, DownEnds
    <2> QED BY <1>1, <1>2, <2>1 DEF Ends
  <1> QED BY <1>4, <1>5, <1>6

(* A frame of whatever else there is. *)
LEMMA OneFrame ==
  ASSUME NEW r \in Nat, NEW a \in 0..r, NEW s \in Seq(1..r), Run(s, a, r), s # <<>>
  PROVE  \E mm : GoOn("binary", <<s>>, r, a, mm) /\ mm[1] = r
  <1>1. PICK mm : mm = [i \in 0..1 |-> IF i = 0 THEN a ELSE r]
    OBVIOUS
  <1>2. mm \in [0..1 -> 0..r] /\ mm[0] = a /\ mm[1] = r
    BY <1>1
  <1>3. a < r
    BY DEF Run
  <1>4. PICK parts : parts = <<s>>
    OBVIOUS
  <1>5. parts \in Seq(Seq(1..r)) /\ Len(parts) = 1 /\ parts[1] = s
    BY <1>4
  <1>6. \A i \in 1..Len(parts) : i = 1 /\ i - 1 = 0
    BY <1>5
  <1>7. GoOn("binary", parts, r, a, mm)
    BY <1>2, <1>3, <1>5, <1>6 DEF GoOn
  <1> QED BY <1>2, <1>4, <1>7

LEMMA EofStep ==
  ASSUME BridgeInv, Eof
  PROVE  BridgeInv'
  <1>1. TypeOK /\ Buffers /\ Closing /\ Received
    BY DEF BridgeInv
  <1>2. PICK m \in [0..Len(wire) -> 0..read], z \in 0..(Len(conf.stream) + 1) :
          Marks(m) /\ InStep(m) /\ Packets(m, z) /\ Ends(m)
    BY DEF BridgeInv
  <1>3. /\ AtEof /\ up = "read" /\ cipher' = <<>> /\ plain' = <<>> /\ read' = read /\ disabled' = disabled
        /\ UNCHANGED <<conf, closed, inbox, delivered, down, bridge, ends, cancelled>>
        /\ conf' = conf /\ telegram' = telegram /\ client' = client /\ inbox' = inbox /\ closed' = closed
    BY DEF Eof, AtEof, ends
  <1>4. read \in Nat /\ Len(cipher) \in Nat /\ Len(wire) \in Nat /\ m[Len(wire)] \in 0..read /\ Len(wire) \in 0..Len(wire)
    <2>1. read \in Nat /\ Len(cipher) \in Nat /\ Len(wire) \in Nat
      BY <1>1, ConfFacts DEF TypeOK
    <2> QED BY <2>1
  <1>5. Buffers'
    BY <1>3, <1>4 DEF Buffers, Run
  <1>6. /\ (Stopped' <=> Stopped) /\ (BetweenRecords' <=> BetweenRecords)
        /\ NoCloseYet' <=> NoCloseYet
    BY <1>3 DEF Stopped, Stops, RecordEnds, RecordEnd, BetweenRecords, Tls, NoCloseYet
  <1>7. Stopped' \/ (client' = "eof" /\ read' = Len(conf'.stream))
    BY <1>3, <1>6 DEF AtEof, ClientDone
  <1>8. closed => ~NoCloseYet' /\ bridge = "wait"
    BY <1>1, <1>2, <1>3, <1>6 DEF Ends, Closing, TypeOK
  <1>9. wire' \in WireOf(read') /\ up' \in {"tail", "done"} => TypeOK'
    <2>1. <<>> \in Seq(1..read') /\ <<>> \in Seq(0..Long) /\ Len(<<>>) = 0
      OBVIOUS
    <2> QED BY <1>1, <1>3, <2>1 DEF TypeOK, WireOf, ends
  <1>10. z \in 0..(Len(conf'.stream) + 1)
    BY <1>3
  <1>11. CASE cipher = <<>> \/ closed \/ telegram = "gone"
    <2>0. wire' = wire
      BY <1>11 DEF Eof, Send, Put
    <2>1. up' \in {"tail", "done"} /\ (up' = "done" \/ telegram = "gone")
      BY <1>11 DEF Eof, Send
    <2>2. UpEnds(m)'
      <3>1. telegram # "gone" /\ ~closed => cipher = <<>> /\ m[Len(wire)] = read
        <4> SUFFICES ASSUME telegram # "gone", ~closed PROVE cipher = <<>> /\ m[Len(wire)] = read
          OBVIOUS
        <4>1. cipher = <<>>
          BY <1>11
        <4> QED BY <1>2, <1>3, <1>4, <4>1 DEF InStep
      <3> QED BY <1>3, <1>7, <1>8, <2>0, <3>1 DEF UpEnds
    <2>3. Closing' /\ Received' /\ Ends(m)'
      <3>1. Len(<<>>) \in Nat
        OBVIOUS
      <3> QED BY <1>1, <1>2, <1>3, <2>0, <2>2, <3>1, UpLeaves
    <2>4. Marks(m)' /\ m \in [0..Len(wire') -> 0..read']
      BY <1>2, <1>3, <2>0 DEF Marks
    <2>5. InStep(m)' /\ Packets(m, z)'
      BY <1>3, <2>1 DEF InStep, Packets
    <2>6. wire' \in WireOf(read')
      BY <1>1, <1>3, <2>0 DEF TypeOK, WireOf
    <2> QED BY <1>5, <1>9, <1>10, <2>1, <2>3, <2>4, <2>5, <2>6 DEF BridgeInv
  <1>12. CASE cipher # <<>> /\ ~closed /\ telegram # "gone"
    <2>1. up' = "tail"
      BY <1>12 DEF Eof, Send
    <2>2. PICK parts : parts = << cipher >>
      OBVIOUS
    <2>3. wire' = wire \o Frames("binary", parts)
      BY <1>12, <2>2 DEF Eof, Send, Put, Frames, Frame0
    <2>4. m[Len(wire)] = read - Len(cipher)
      <3>1. m[Len(wire)] + Len(cipher) = read
        BY <1>2, <1>3, <1>12 DEF InStep
      <3> QED BY <1>4, <3>1
    <2>5. PICK mm : GoOn("binary", parts, read', m[Len(wire)], mm) /\ mm[1] = read'
      <3>1. cipher \in Seq(1..read') /\ Run(cipher, m[Len(wire)], read') /\ read' \in Nat /\ m[Len(wire)] \in 0..read'
        BY <1>1, <1>3, <1>4, <2>4 DEF TypeOK, Buffers
      <3> QED BY <1>12, <2>2, <3>1, OneFrame
    <2>6. /\ wire' \in WireOf(read') /\ Grown("binary", parts, wire, wire')
          /\ \E n \in [0..Len(wire') -> 0..read'] : Marks(n)' /\ Joined(n, m, Len(wire), mm, Len(parts))
      <3>1. "binary" \in {"binary", "pong", "close"} /\ read' \in Nat /\ read <= read'
        BY <1>3, <1>4
      <3> QED BY <1>1, <1>2, <2>3, <2>5, <3>1, Extended
    <2>7. PICK n \in [0..Len(wire') -> 0..read'] : Marks(n)' /\ Joined(n, m, Len(wire), mm, Len(parts))
      BY <2>6
    <2>8. Len(parts) = 1
      BY <2>2
    <2>9. n[Len(wire')] = read'
      BY <2>5, <2>6, <2>7, <2>8 DEF Joined, Grown
    <2>10. UpEnds(n)'
      BY <1>7, <2>9 DEF UpEnds
    <2>11. Closing' /\ Received' /\ Ends(n)'
      <3>1. Len(parts) \in Nat
        BY <2>8
      <3> QED BY <1>1, <1>2, <1>3, <1>12, <2>6, <2>10, <3>1, UpLeaves
    <2>12. InStep(n)' /\ Packets(n, z)'
      BY <1>3, <1>4, <2>1, <2>9 DEF InStep, Packets
    <2> QED BY <1>5, <1>9, <1>10, <2>1, <2>6, <2>7, <2>11, <2>12 DEF BridgeInv
  <1> QED BY <1>11, <1>12

(* p is what the stream has behind the place a, c and p are the places a + *)
(* 1 to z and what the stream has there.                                   *)
InStream(p, a) ==
  a + Len(p) <= Len(conf.stream) /\ \A i \in 1..Len(p) : p[i] = conf.stream[a + i]
Holds(c, p, a, z) ==
  /\ c \in Seq(1..z) /\ Run(c, a, z)
  /\ p \in Seq(0..Long) /\ Len(p) = Len(c) /\ InStream(p, a)

Chunk(n) == [i \in 1..n |-> read + i]

(* The buffers of the splitter with a chunk of n units in them. *)
LEMMA Buffered ==
  ASSUME TypeOK, Buffers, NEW n \in 1..Len(conf.stream), read + n <= Len(conf.stream)
  PROVE  Holds(cipher \o Chunk(n), plain \o SubSeq(conf.stream, read + 1, read + n),
               read - Len(cipher), read + n)
  <1>0. PICK c, p : c = cipher \o Chunk(n) /\ p = plain \o SubSeq(conf.stream, read + 1, read + n)
    OBVIOUS
  <1>1. PICK chunk : chunk = Chunk(n)
    OBVIOUS
  <1>2. PICK more : more = SubSeq(conf.stream, read + 1, read + n)
    OBVIOUS
  <1>3. /\ read \in Nat /\ n \in Nat /\ Len(conf.stream) \in Nat /\ conf.stream \in Seq(0..Long)
        /\ Len(cipher) \in Nat /\ Len(plain) = Len(cipher)
    BY ConfFacts DEF TypeOK
  <1>4. chunk \in Seq(1..(read + n)) /\ Len(chunk) = n /\ \A i \in 1..n : chunk[i] = read + i
    <2>1. \A i \in 1..n : read + i \in 1..(read + n)
      BY <1>3
    <2> QED BY <1>1, <1>3, <2>1 DEF Chunk
  <1>5. more \in Seq(0..Long) /\ Len(more) = n /\ \A i \in 1..n : more[i] = conf.stream[read + i]
    <2>1. PICK z \in 0..Len(conf.stream) : z = read + n /\ read \in 0..Len(conf.stream) /\ read <= z /\ z - read = n
      BY <1>3
    <2>2. /\ more = SubSeq(conf.stream, read + 1, z)
          /\ SubSeq(conf.stream, read + 1, z) \in Seq(0..Long)
          /\ Len(SubSeq(conf.stream, read + 1, z)) = z - read
          /\ \A j \in 1..(z - read) : SubSeq(conf.stream, read + 1, z)[j] = conf.stream[read + j]
      BY <1>2, <1>3, <2>1, PartOf
    <2> QED BY <2>1, <2>2
  <1>6. cipher \in Seq(1..(read + n)) /\ plain \in Seq(0..Long)
    BY <1>3, Wider DEF TypeOK
  <1>7. /\ c \in Seq(1..(read + n)) /\ Len(c) = Len(cipher) + n
        /\ \A i \in 1..Len(c) : c[i] = IF i <= Len(cipher) THEN cipher[i] ELSE chunk[i - Len(cipher)]
    <2>1. c = cipher \o chunk
      BY <1>0, <1>1
    <2>2. /\ cipher \o chunk \in Seq(1..(read + n)) /\ Len(cipher \o chunk) = Len(cipher) + Len(chunk)
          /\ \A i \in 1..Len(cipher) + Len(chunk) :
               (cipher \o chunk)[i] = IF i <= Len(cipher) THEN cipher[i] ELSE chunk[i - Len(cipher)]
      <3>1. PICK S : S = 1..(read + n)
        OBVIOUS
      <3>2. cipher \in Seq(S) /\ chunk \in Seq(S)
        BY <1>4, <1>6, <3>1
      <3> QED BY <3>1, <3>2, ConcatProperties
    <2> QED BY <1>4, <2>1, <2>2
  <1>8. /\ p \in Seq(0..Long) /\ Len(p) = Len(cipher) + n
        /\ \A i \in 1..Len(p) : p[i] = IF i <= Len(plain) THEN plain[i] ELSE more[i - Len(plain)]
    <2>1. p = plain \o more
      BY <1>0, <1>2
    <2>2. /\ plain \o more \in Seq(0..Long) /\ Len(plain \o more) = Len(plain) + Len(more)
          /\ \A i \in 1..Len(plain) + Len(more) :
               (plain \o more)[i] = IF i <= Len(plain) THEN plain[i] ELSE more[i - Len(plain)]
      <3>1. PICK S : S = 0..Long
        OBVIOUS
      <3>2. plain \in Seq(S) /\ more \in Seq(S)
        BY <1>5, <1>6, <3>1
      <3> QED BY <3>1, <3>2, ConcatProperties
    <2> QED BY <1>3, <1>5, <2>1, <2>2
  <1>9. Run(c, read - Len(cipher), read + n)
    <2>1. PICK a, z : a = read - Len(cipher) /\ z = read + n
      OBVIOUS
    <2>4. Len(c) = z - a
      BY <1>3, <1>7, <2>1
    <2>2. ASSUME NEW i \in 1..Len(c) PROVE c[i] = read - Len(cipher) + i
      <3>1. CASE i <= Len(cipher)
        <4>1. i \in 1..Len(cipher)
          BY <1>3, <1>7, <3>1
        <4> QED BY <1>7, <3>1, <4>1 DEF Buffers, Run
      <3>2. CASE ~(i <= Len(cipher))
        <4>1. i - Len(cipher) \in 1..n
          BY <1>3, <1>7, <3>2
        <4>2. c[i] = read + (i - Len(cipher))
          BY <1>4, <1>7, <3>2, <4>1
        <4> QED BY <1>3, <4>2
      <3> QED BY <3>1, <3>2
    <2>3. \A j \in 1..Len(c) : c[j] = a + j
      BY <2>1, <2>2
    <2>5. Run(c, a, z)
      BY <2>3, <2>4 DEF Run
    <2> QED BY <2>1, <2>5
  <1>10. ASSUME NEW i \in 1..Len(p) PROVE p[i] = conf.stream[read - Len(cipher) + i]
    <2>1. CASE i <= Len(plain)
      <3>1. i \in 1..Len(cipher)
        BY <1>3, <1>8, <2>1
      <3> QED BY <1>8, <2>1, <3>1 DEF Buffers
    <2>2. CASE ~(i <= Len(plain))
      <3>1. i - Len(plain) \in 1..n /\ read + (i - Len(plain)) = read - Len(cipher) + i
        BY <1>3, <1>8, <2>2
      <3>2. p[i] = more[i - Len(plain)]
        BY <1>8, <2>2
      <3> QED BY <1>5, <3>1, <3>2
    <2> QED BY <2>1, <2>2
  <1>11. InStream(p, read - Len(cipher))
    <2>1. read - Len(cipher) + Len(p) <= Len(conf.stream)
      BY <1>3, <1>8
    <2> QED BY <1>10, <2>1 DEF InStream
  <1>12. Holds(c, p, read - Len(cipher), read + n)
    BY <1>7, <1>8, <1>9, <1>11 DEF Holds
  <1> QED BY <1>0, <1>12

(* mm is m, a farther. *)
Farther(mm, m, k, a) == \A i \in 0..k : mm[i] = a + m[i]

(* The parts that split returns make frames that go on from the place a. *)
LEMMA PartsGoOn ==
  ASSUME NEW r \in Nat, NEW a \in 0..r, NEW c \in Seq(1..r), Run(c, a, r),
         NEW p \in Seq(0..Long), Len(p) = Len(c),
         NEW s, NEW m, CutsAt(c, p, 0, s, m)
  PROVE  /\ Len(s.parts) \in Nat
         /\ \E mm : GoOn("binary", s.parts, r, a, mm) /\ Farther(mm, m, Len(s.parts), a)
  <1>1. PICK P : P = Len(s.parts)
    OBVIOUS
  <1>2. PICK mm : mm = [i \in 0..P |-> a + m[i]]
    OBVIOUS
  <1>3. /\ s \in [parts : Seq(Seq(Nat)), used : 0..Len(p), off : BOOLEAN]
        /\ m \in [0..P -> 0..Len(p)] /\ m[0] = 0
        /\ \A i \in 1..P : m[i - 1] < m[i] /\ s.parts[i] = SubSeq(c, m[i - 1] + 1, m[i])
    BY <1>1 DEF CutsAt
  <1>4. P \in Nat /\ s.parts \in Seq(Seq(Nat)) /\ Len(c) = r - a
    BY <1>1, <1>3 DEF Run
  <1>5. mm \in [0..P -> 0..r] /\ mm[0] = a /\ \A i \in 0..P : mm[i] = a + m[i]
    <2>1. \A i \in 0..P : m[i] \in 0..Len(p)
      BY <1>3
    <2>2. \A i \in 0..P : a + m[i] \in 0..r
      BY <1>4, <2>1
    <2>3. \A i \in 0..P : mm[i] = a + m[i]
      BY <1>2
    <2>4. mm[0] = a
      BY <1>3, <1>4, <2>3
    <2> QED BY <1>2, <2>2, <2>3, <2>4
  <1>6. ASSUME NEW i \in 1..P
        PROVE  s.parts[i] \in Seq(1..r) /\ mm[i - 1] < mm[i] /\ Run(s.parts[i], mm[i - 1], mm[i])
    <2>1. i \in 0..P /\ i - 1 \in 0..P /\ Len(c) \in Nat
      BY <1>4
    <2>2. PICK x \in 0..Len(c), y \in 0..Len(c) : x = m[i - 1] /\ y = m[i] /\ x < y /\ x <= y
      <3>1. m[i - 1] \in 0..Len(c) /\ m[i] \in 0..Len(c) /\ m[i - 1] < m[i]
        BY <1>3, <2>1
      <3> QED BY <2>1, <3>1
    <2>3. mm[i - 1] = a + x /\ mm[i] = a + y /\ s.parts[i] = SubSeq(c, x + 1, y)
      BY <1>3, <1>5, <2>1, <2>2
    <2>4. /\ SubSeq(c, x + 1, y) \in Seq(1..r) /\ Len(SubSeq(c, x + 1, y)) = y - x
          /\ \A j \in 1..(y - x) : SubSeq(c, x + 1, y)[j] = c[x + j]
      <3>1. PICK S : S = 1..r
        OBVIOUS
      <3>2. c \in Seq(S) /\ x <= y
        BY <2>2, <3>1
      <3>3. /\ SubSeq(c, x + 1, y) \in Seq(S) /\ Len(SubSeq(c, x + 1, y)) = y - x
            /\ \A j \in 1..(y - x) : SubSeq(c, x + 1, y)[j] = c[x + j]
        BY <3>2, PartOf
      <3> QED BY <3>1, <3>3
    <2>5. ASSUME NEW j \in 1..(y - x) PROVE SubSeq(c, x + 1, y)[j] = a + x + j
      <3>1. x + j \in 1..Len(c)
        BY <2>1
      <3>2. c[x + j] = a + (x + j)
        BY <3>1 DEF Run
      <3> QED BY <2>4, <3>2
    <2>6. Run(SubSeq(c, x + 1, y), a + x, a + y)
      <3>1. y - x = a + y - (a + x)
        BY <2>1
      <3> QED BY <2>4, <2>5, <3>1 DEF Run
    <2>7. a + x < a + y
      BY <2>1, <2>2
    <2> QED BY <2>3, <2>4, <2>6, <2>7
  <1>7. s.parts \in Seq(Seq(1..r))
    <2>1. \A i \in 1..Len(s.parts) : s.parts[i] \in Seq(1..r)
      BY <1>1, <1>6
    <2>2. s.parts = [i \in 1..Len(s.parts) |-> s.parts[i]] /\ Len(s.parts) \in Nat
      BY <1>4, LenProperties
    <2>3. PICK l \in Nat : l = Len(s.parts)
      BY <2>2
    <2>4. [i \in 1..l |-> s.parts[i]] \in Seq(Seq(1..r))
      BY <2>1, <2>3
    <2> QED BY <2>2, <2>3, <2>4
  <1>8. \A i \in 1..P : mm[i - 1] <= mm[i] /\ Run(s.parts[i], mm[i - 1], mm[i]) /\ mm[i - 1] < mm[i]
    <2>1. \A i \in 1..P : mm[i - 1] \in 0..r /\ mm[i] \in 0..r
      BY <1>4, <1>5
    <2> QED BY <1>6, <2>1
  <1>9. GoOn("binary", s.parts, r, a, mm)
    BY <1>1, <1>5, <1>7, <1>8 DEF GoOn
  <1>10. Farther(mm, m, P, a)
    BY <1>5 DEF Farther
  <1> QED BY <1>1, <1>4, <1>9, <1>10

(* Frames that split has made, behind those before, are packets still. *)
LEMMA PacketsGoOn ==
  ASSUME TypeOK, NEW m, NEW z, Marks(m), Packets(m, z), conf.split, ~disabled, up = "read",
         NEW a, a = m[Len(wire)], NEW c \in Seq(Nat),
         NEW p \in Seq(0..Long), Len(p) = Len(c), InStream(p, a),
         NEW s, NEW m0, CutsAt(c, p, 0, s, m0), conf' = conf, disabled' = s.off,
         NEW mm, Farther(mm, m0, Len(s.parts), a),
         NEW n, Joined(n, m, Len(wire), mm, Len(s.parts)), Grown("binary", s.parts, wire, wire')
  PROVE  \E y \in 0..(Len(conf'.stream) + 1) : Packets(n, y)'
  <1>1. PICK L, W, P : L = Len(conf.stream) /\ W = Len(wire) /\ P = Len(s.parts)
    OBVIOUS
  <1>2. /\ m \in [0..W -> 0..read] /\ m[0] = 0
        /\ \A i \in 1..W : m[i - 1] <= m[i]
        /\ m0 \in [0..P -> 0..Len(p)] /\ s.off \in BOOLEAN
        /\ s.parts \in Seq(Seq(Nat))
    BY <1>1 DEF Marks, CutsAt
  <1>3. L \in Nat /\ W \in Nat /\ P \in Nat /\ read \in 0..L /\ Len(p) \in Nat
    BY <1>1, <1>2, ConfFacts DEF TypeOK
  <1>4. a \in 0..read /\ a \in Nat
    <2>1. W \in 0..W
      BY <1>3
    <2> QED BY <1>1, <1>2, <1>3, <2>1
  <1>5. z = L + 1
    BY <1>1 DEF Packets
  <1>6. ASSUME NEW i \in 1..W
        PROVE  /\ wire'[i] = wire[i] /\ n[i] = m[i] /\ n[i - 1] = m[i - 1]
               /\ m[i - 1] \in 0..read /\ m[i] \in 0..read /\ m[i] <= a
               /\ wire[i].op = "binary" => ~Empty(m[i - 1]) /\ PacketEnd(m[i - 1]) = m[i]
    <2>1. i \in 0..W /\ i - 1 \in 0..W /\ W \in 0..W /\ i <= W
      BY <1>3
    <2>2. wire'[i] = wire[i] /\ n[i] = m[i] /\ n[i - 1] = m[i - 1]
      BY <1>1, <2>1 DEF Grown, Joined
    <2>3. m[i - 1] \in 0..read /\ m[i] \in 0..read
      BY <1>2, <2>1
    <2>4. m[i] <= a
      <3>1. m \in [0..W -> Int]
        BY <1>2, <1>3
      <3> QED BY <1>1, <1>2, <1>3, <2>1, <3>1, Monotone
    <2>5. m[i - 1] < z
      BY <1>3, <1>5, <2>3
    <2>6. wire[i].op = "binary" => ~Empty(m[i - 1]) /\ PacketEnd(m[i - 1]) = m[i]
      BY <1>1, <2>5 DEF Packets
    <2> QED BY <2>2, <2>3, <2>4, <2>6
  <1>7. ASSUME NEW k \in 1..P
        PROVE  /\ n[W + k] = a + m0[k] /\ n[W + k - 1] = a + m0[k - 1]
               /\ m0[k - 1] \in 0..Len(p) /\ m0[k] \in 0..Len(p) /\ m0[k - 1] < m0[k]
               /\ \/ ~Empty(a + m0[k - 1]) /\ PacketEnd(a + m0[k - 1]) = a + m0[k]
                  \/ Empty(a + m0[k - 1]) /\ s.off /\ k = P
               /\ s.off /\ k = P => Empty(a + m0[k - 1])
    <2>1. k \in 0..P /\ k - 1 \in 0..P /\ W + k - 1 = W + (k - 1)
      BY <1>3
    <2>2. n[W + k] = a + m0[k] /\ n[W + k - 1] = a + m0[k - 1]
      BY <1>1, <2>1 DEF Joined, Farther
    <2>3. PICK x \in 0..Len(p), y \in 0..Len(p) : x = m0[k - 1] /\ y = m0[k]
      BY <1>2, <2>1
    <2>4. /\ x < y
          /\ LenAt(p, x) = y - x \/ (LenAt(p, x) = 0 /\ s.off /\ k = P)
          /\ s.off /\ k = P => LenAt(p, x) = 0
      BY <1>1, <2>3 DEF CutsAt
    <2>5. /\ LenAt(p, x) = 0 => Empty(a + x)
          /\ LenAt(p, x) \notin {None, 0} => ~Empty(a + x) /\ PacketEnd(a + x) = a + x + LenAt(p, x)
      <3>1. x # Len(p)
        BY <1>3, <2>4
      <3> QED BY <1>4, <3>1, PacketAt DEF InStream
    <2>6. LenAt(p, x) = y - x => LenAt(p, x) \notin {None, 0} /\ a + x + LenAt(p, x) = a + y
      BY <1>3, <1>4, <2>4 DEF None
    <2> QED BY <2>2, <2>3, <2>4, <2>5, <2>6
  <1>8. Len(wire') = W + P /\ \A i \in 1..(W + P) : i \in 1..W \/ \E k \in 1..P : i = W + k
    <2>1. Len(wire') = W + P
      BY <1>1 DEF Grown
    <2>2. ASSUME NEW i \in 1..(W + P), i \notin 1..W PROVE \E k \in 1..P : i = W + k
      <3>1. i - W \in 1..P /\ i = W + (i - W)
        BY <1>3, <2>2
      <3> QED BY <3>1
    <2> QED BY <2>1, <2>2
  <1>9. \A k : (Empty(k)' <=> Empty(k)) /\ PacketEnd(k)' = PacketEnd(k)
    BY ConfSame
  <1>10. Len(conf'.stream) = L
    BY <1>1
  <1>11. CASE ~s.off
    <2>1. PICK y : y = L + 1
      OBVIOUS
    <2>2. \A i \in 1..(W + P) : wire'[i].op = "binary" => ~Empty(n[i - 1]) /\ PacketEnd(n[i - 1]) = n[i] /\ n[i] <= y
      <3>1. ASSUME NEW i \in 1..W, wire'[i].op = "binary"
            PROVE  ~Empty(n[i - 1]) /\ PacketEnd(n[i - 1]) = n[i] /\ n[i] <= y
        BY <1>3, <1>6, <2>1, <3>1
      <3>2. ASSUME NEW k \in 1..P
            PROVE  ~Empty(n[W + k - 1]) /\ PacketEnd(n[W + k - 1]) = n[W + k] /\ n[W + k] <= y
        <4>1. a + m0[k] <= y
          <5>1. m0[k] \in 0..Len(p)
            BY <1>7
          <5> QED BY <1>1, <1>3, <1>4, <2>1, <5>1 DEF InStream
        <4> QED BY <1>7, <1>11, <4>1
      <3>3. ASSUME NEW i \in 1..(W + P), wire'[i].op = "binary"
            PROVE  ~Empty(n[i - 1]) /\ PacketEnd(n[i - 1]) = n[i] /\ n[i] <= y
        <4>1. CASE i \in 1..W
          BY <3>1, <3>3, <4>1
        <4>2. CASE i \notin 1..W
          <5>1. PICK k \in 1..P : i = W + k
            BY <1>8, <4>2
          <5>2. n[i] = n[W + k] /\ n[i - 1] = n[W + k - 1]
            BY <1>3, <5>1
          <5> QED BY <3>2, <3>3, <5>2
        <4> QED BY <4>1, <4>2
      <3> QED BY <3>3
    <2>3. Packets(n, y)'
      BY <1>3, <1>8, <1>9, <1>10, <1>11, <2>1, <2>2 DEF Packets
    <2> QED BY <1>3, <1>10, <2>1, <2>3
  <1>12. CASE s.off
    <2>1. P \in 1..P
      BY <1>1, <1>3, <1>12 DEF CutsAt
    <2>2. PICK y : y = a + m0[P - 1]
      OBVIOUS
    <2>3. y \in 0..L /\ a <= y /\ Empty(y) /\ y < n[W + P]
      <3>1. /\ n[W + P] = a + m0[P] /\ m0[P - 1] \in 0..Len(p) /\ m0[P] \in 0..Len(p) /\ m0[P - 1] < m0[P]
            /\ Empty(a + m0[P - 1])
        BY <1>7, <1>12, <2>1
      <3>2. PICK v \in 0..Len(p), w \in 0..Len(p) : v = m0[P - 1] /\ w = m0[P]
        BY <3>1
      <3>3. y = a + v /\ n[W + P] = a + w
        BY <2>2, <3>1, <3>2
      <3>4. v < w /\ a + Len(p) <= L /\ Len(p) \in Nat /\ a \in Nat /\ L \in Nat
        BY <1>1, <1>3, <1>4, <3>1, <3>2 DEF InStream
      <3>5. y \in 0..L /\ a <= y /\ y < n[W + P]
        <4>1. a + v \in 0..L /\ a <= a + v /\ a + v < a + w
          BY <3>4
        <4> QED BY <3>3, <4>1
      <3> QED BY <2>2, <3>1, <3>5
    <2>4. \A i \in 1..(W + P) : wire'[i].op = "binary" /\ n[i - 1] < y => ~Empty(n[i - 1]) /\ PacketEnd(n[i - 1]) = n[i] /\ n[i] <= y
      <3>1. ASSUME NEW i \in 1..W, wire'[i].op = "binary"
            PROVE  ~Empty(n[i - 1]) /\ PacketEnd(n[i - 1]) = n[i] /\ n[i] <= y
        <4>1. m[i] <= y
          BY <1>3, <1>4, <1>6, <2>3
        <4> QED BY <1>6, <3>1, <4>1
      <3>2. ASSUME NEW k \in 1..P, n[W + k - 1] < y
            PROVE  ~Empty(n[W + k - 1]) /\ PacketEnd(n[W + k - 1]) = n[W + k] /\ n[W + k] <= y
        <4>1. k # P
          <5>1. k = P => n[W + k - 1] = y
            BY <1>7, <2>2
          <5> QED BY <2>3, <3>2, <5>1
        <4>2. m0[k] <= m0[P - 1]
          <5>1. /\ k \in 0..P /\ P - 1 \in 0..P /\ k <= P - 1 /\ m0 \in [0..P -> Int]
            BY <1>2, <1>3, <4>1
          <5>2. \A i \in 1..P : m0[i - 1] <= m0[i]
            BY <1>3, <1>7
          <5> QED BY <1>3, <5>1, <5>2, Monotone
        <4>3. a + m0[k] <= y
          <5>1. m0[k] \in 0..Len(p) /\ m0[P - 1] \in 0..Len(p)
            BY <1>7, <2>1
          <5> QED BY <1>3, <1>4, <2>2, <4>2, <5>1
        <4> QED BY <1>7, <4>1, <4>3
      <3>3. ASSUME NEW i \in 1..(W + P), wire'[i].op = "binary", n[i - 1] < y
            PROVE  ~Empty(n[i - 1]) /\ PacketEnd(n[i - 1]) = n[i] /\ n[i] <= y
        <4>1. CASE i \in 1..W
          BY <3>1, <3>3, <4>1
        <4>2. CASE i \notin 1..W
          <5>1. PICK k \in 1..P : i = W + k
            BY <1>8, <4>2
          <5>2. n[i] = n[W + k] /\ n[i - 1] = n[W + k - 1]
            BY <1>3, <5>1
          <5> QED BY <3>2, <3>3, <5>2
        <4> QED BY <4>1, <4>2
      <3> QED BY <3>3
    <2>5. Packets(n, y)'
      BY <1>3, <1>8, <1>9, <1>10, <1>12, <2>3, <2>4 DEF Packets
    <2> QED BY <1>3, <1>10, <2>3, <2>5
  <1> QED BY <1>11, <1>12

(* What is left in the buffers. *)
LEMMA BuffersKept ==
  ASSUME TypeOK, read' \in 0..Len(conf.stream), conf' = conf, conf.split,
         NEW a \in 0..read', NEW c \in Seq(1..read'), Run(c, a, read'),
         NEW p \in Seq(0..Long), Len(p) = Len(c), InStream(p, a),
         NEW s, NEW m, CutsAt(c, p, 0, s, m),
         cipher' = SubSeq(c, s.used + 1, Len(c)), plain' = SubSeq(p, s.used + 1, Len(p)), disabled' = s.off
  PROVE  /\ cipher' \in Seq(1..read') /\ plain' \in Seq(0..Long) /\ disabled' \in BOOLEAN
         /\ s.used \in 0..Len(c) /\ Len(cipher') = Len(c) - s.used /\ Len(plain') = Len(cipher')
         /\ Buffers'
  <1>1. PICK k, L : k = s.used /\ L = Len(c)
    OBVIOUS
  <1>2. k \in 0..L /\ L \in Nat /\ L \in 0..L /\ k <= L /\ disabled' \in BOOLEAN
    BY <1>1 DEF CutsAt
  <1>3. /\ cipher' \in Seq(1..read') /\ Len(cipher') = L - k
        /\ \A j \in 1..(L - k) : cipher'[j] = c[k + j]
    <2>1. PICK S : S = 1..read'
      OBVIOUS
    <2>2. c \in Seq(S) /\ L = Len(c) /\ cipher' = SubSeq(c, k + 1, L)
      BY <1>1, <2>1
    <2>3. /\ SubSeq(c, k + 1, L) \in Seq(S) /\ Len(SubSeq(c, k + 1, L)) = L - k
          /\ \A j \in 1..(L - k) : SubSeq(c, k + 1, L)[j] = c[k + j]
      BY <1>2, <2>2, PartOf
    <2> QED BY <2>1, <2>2, <2>3
  <1>4. /\ plain' \in Seq(0..Long) /\ Len(plain') = L - k
        /\ \A j \in 1..(L - k) : plain'[j] = p[k + j]
    <2>1. PICK S : S = 0..Long
      OBVIOUS
    <2>2. p \in Seq(S) /\ L = Len(p) /\ plain' = SubSeq(p, k + 1, L)
      BY <1>1, <2>1
    <2>3. /\ SubSeq(p, k + 1, L) \in Seq(S) /\ Len(SubSeq(p, k + 1, L)) = L - k
          /\ \A j \in 1..(L - k) : SubSeq(p, k + 1, L)[j] = p[k + j]
      BY <1>2, <2>2, PartOf
    <2> QED BY <2>1, <2>2, <2>3
  <1>5. L = read' - a /\ read' - Len(cipher') = a + k /\ a \in Nat /\ read' \in Nat
    BY <1>1, <1>2, <1>3, ConfFacts DEF Run
  <1>6. Run(cipher', read' - Len(cipher'), read')
    <2>1. ASSUME NEW j \in 1..(L - k) PROVE cipher'[j] = a + k + j
      <3>1. k + j \in 1..L
        BY <1>2
      <3>2. c[k + j] = a + (k + j)
        BY <1>1, <3>1 DEF Run
      <3>3. a + (k + j) = a + k + j
        BY <1>2, <1>5
      <3> QED BY <1>3, <3>2, <3>3
    <2>2. L - k = read' - (a + k)
      BY <1>2, <1>5
    <2>3. Run(cipher', a + k, read')
      BY <1>3, <2>1, <2>2 DEF Run
    <2> QED BY <1>5, <2>3
  <1>7. \A j \in 1..Len(cipher') : plain'[j] = conf.stream[read' - Len(cipher') + j]
    <2>1. ASSUME NEW j \in 1..(L - k) PROVE plain'[j] = conf.stream[a + k + j]
      <3>1. k + j \in 1..L
        BY <1>2
      <3>2. p[k + j] = conf.stream[a + (k + j)]
        BY <1>1, <3>1 DEF InStream
      <3>3. a + (k + j) = a + k + j
        BY <1>2, <1>5
      <3> QED BY <1>4, <3>2, <3>3
    <2> QED BY <1>3, <1>5, <2>1
  <1>8. disabled' => cipher' = <<>>
    <2> SUFFICES ASSUME disabled' PROVE cipher' = <<>>
      OBVIOUS
    <2>1. k = L
      BY <1>1 DEF CutsAt
    <2>2. Len(cipher') = 0
      BY <1>2, <1>3, <2>1
    <2> QED BY <1>3, <2>2, EmptySeq
  <1>9. cipher' # <<>> => NextPacketLen(plain)' = None
    <2> SUFFICES ASSUME cipher' # <<>> PROVE NextPacketLen(plain)' = None
      OBVIOUS
    <2>1. k # L
      <3>1. k = L => Len(cipher') = 0
        BY <1>2, <1>3
      <3> QED BY <1>3, <3>1, EmptySeq
    <2>2. LenAt(p, k) = None
      BY <1>1, <1>8, <2>1 DEF CutsAt
    <2>3. LenAt(p, k) = NextPacketLen(plain)'
      <3>1. plain' = From(p, k)
        BY <1>1 DEF From
      <3>2. NextPacketLen(plain)' = NextPacketLen(From(p, k))
        BY <3>1 DEF NextPacketLen, Header, Payload
      <3> QED BY <3>2 DEF LenAt
    <2> QED BY <2>2, <2>3
  <1>10. Buffers'
    BY <1>6, <1>7, <1>8, <1>9 DEF Buffers
  <1> QED BY <1>1, <1>2, <1>3, <1>4, <1>10

(* A chunk is in the buffers, or sent. *)
LEMMA ReadEnds ==
  ASSUME TypeOK, Closing, Received, up = "read", NEW m, Ends(m),
         UNCHANGED <<conf, closed, inbox, delivered, down, bridge, ends, cancelled>>,
         read' \in 0..Len(conf.stream), Buffers',
         cipher' \in Seq(1..read'), plain' \in Seq(0..Long), Len(cipher') = Len(plain'), disabled' \in BOOLEAN,
         wire' \in WireOf(read'), NEW parts, Len(parts) \in Nat,
         wire' = wire \/ (~closed /\ Grown("binary", parts, wire, wire')),
         up' \in {"read", "drain"} \/ (up' = "done" /\ closed),
         NEW w \in [0..Len(wire') -> 0..read'], Marks(w)', InStep(w)',
         NEW y \in 0..(Len(conf'.stream) + 1), Packets(w, y)'
  PROVE  BridgeInv'
  <1>1. TypeOK'
    BY DEF TypeOK, WireOf, ends
  <1>2. up' \in {"tail", "done"} => UpEnds(w)'
    <2>1. closed => ~NoCloseYet'
      <3>1. NoCloseYet' <=> NoCloseYet
        BY DEF NoCloseYet
      <3> QED BY <3>1 DEF Ends, Closing, TypeOK
    <2> QED BY <2>1 DEF UpEnds
  <1>3. Closing' /\ Received' /\ Ends(w)'
    BY <1>2, UpLeaves
  <1> QED BY <1>1, <1>3 DEF BridgeInv

LEMMA ReadStep ==
  ASSUME BridgeInv, NEW u \in 1..Len(conf.stream), Read(u)
  PROVE  BridgeInv'
  <1>1. TypeOK /\ Buffers /\ Closing /\ Received
    BY DEF BridgeInv
  <1>2. PICK m \in [0..Len(wire) -> 0..read], z \in 0..(Len(conf.stream) + 1) :
          Marks(m) /\ InStep(m) /\ Packets(m, z) /\ Ends(m)
    BY DEF BridgeInv
  <1>3. /\ up = "read" /\ read' = read + u /\ read + u <= Len(conf.stream)
        /\ UNCHANGED <<conf, closed, inbox, delivered, down, bridge, ends, cancelled>>
        /\ conf' = conf /\ telegram' = telegram /\ closed' = closed
    BY DEF Read, ends
  <1>4. /\ read \in Nat /\ u \in Nat /\ u >= 1 /\ Len(conf.stream) \in Nat
        /\ read' \in 0..Len(conf.stream) /\ read' \in Nat /\ read <= read'
        /\ Len(wire) \in Nat /\ Len(wire) \in 0..Len(wire) /\ Len(cipher) \in Nat
    <2>1. read \in Nat /\ Len(conf.stream) \in Nat /\ Len(wire) \in Nat /\ Len(cipher) \in Nat
      BY <1>1, ConfFacts DEF TypeOK
    <2> QED BY <1>3, <2>1
  <1>5. PICK chunk, c, p, s :
          /\ chunk = Chunk(u) /\ c = cipher \o chunk
          /\ p = plain \o SubSeq(conf.stream, read + 1, read + u) /\ s = Split(c, p)
    OBVIOUS
  <1>6. /\ conf.split /\ ~disabled =>
             /\ cipher' = SubSeq(c, s.used + 1, Len(c)) /\ plain' = SubSeq(p, s.used + 1, Len(p)) /\ disabled' = s.off
             /\ s.parts = <<>> => up' = up /\ wire' = wire
             /\ s.parts # <<>> => Send(s.parts, "drain")
        /\ ~(conf.split /\ ~disabled) =>
             cipher' = cipher /\ plain' = plain /\ disabled' = disabled /\ Send(<< chunk >>, "drain")
    BY <1>5 DEF Read, splitter, Chunk
  <1>7. wire' = wire => /\ Marks(m)' /\ m \in [0..Len(wire') -> 0..read'] /\ wire' \in WireOf(read')
    <2> SUFFICES ASSUME wire' = wire PROVE Marks(m)' /\ m \in [0..Len(wire) -> 0..read'] /\ wire \in WireOf(read')
      OBVIOUS
    <2>1. 0..read \subseteq 0..read'
      BY <1>4
    <2>2. m \in [0..Len(wire) -> 0..read']
      BY <1>2, <2>1
    <2>3. wire \in WireOf(read')
      BY <1>1, <1>4, Wider DEF TypeOK, WireOf
    <2> QED BY <1>2, <2>2, <2>3 DEF Marks
  <1>8. \A k : (Empty(k)' <=> Empty(k)) /\ PacketEnd(k)' = PacketEnd(k)
    BY <1>3, ConfSame
  <1>9. z \in 0..(Len(conf'.stream) + 1)
    BY <1>3
  <1>10. CASE conf.split /\ ~disabled
    <2>1. PICK a : a = read - Len(cipher)
      OBVIOUS
    <2>2. /\ c \in Seq(1..read') /\ Run(c, a, read') /\ Len(c) = Len(cipher) + u
          /\ p \in Seq(0..Long) /\ Len(p) = Len(c) /\ InStream(p, a)
      <3>1. Holds(cipher \o Chunk(u), plain \o SubSeq(conf.stream, read + 1, read + u),
                  read - Len(cipher), read + u)
        BY <1>1, <1>3, Buffered
      <3>2. Holds(c, p, a, read')
        BY <1>3, <1>5, <2>1, <3>1
      <3>3. Len(c) = read' - a
        BY <3>2 DEF Holds, Run
      <3>4. Len(c) = Len(cipher) + u
        BY <1>3, <1>4, <2>1, <3>3
      <3> QED BY <3>2, <3>4 DEF Holds
    <2>3. a \in 0..read' /\ a \in Nat /\ a + Len(c) = read'
      <3>1. Len(cipher) <= read
        <4>1. CASE cipher = <<>>
          BY <1>4, <4>1
        <4>2. CASE cipher # <<>>
          <5>1. Len(cipher) >= 1 /\ 1 \in 1..Len(cipher)
            <6>1. Len(cipher) # 0
              BY <1>1, <4>2, EmptySeq DEF TypeOK
            <6> QED BY <1>4, <6>1
          <5>2. cipher[1] = read - Len(cipher) + 1 /\ cipher[1] \in 1..read
            <6>1. cipher[1] \in 1..read
              BY <1>1, <5>1, ElementOfSeq DEF TypeOK
            <6> QED BY <1>1, <5>1, <6>1 DEF Buffers, Run
          <5> QED BY <1>4, <5>2
        <4> QED BY <4>1, <4>2
      <3> QED BY <1>3, <1>4, <2>1, <2>2, <3>1
    <2>4. c \in Seq(Nat)
      <3>1. 1..read' \subseteq Nat
        BY <1>4
      <3> QED BY <2>2, <3>1, SeqMonotonic
    <2>5. PICK m0 : CutsAt(c, p, 0, s, m0)
      <3>1. Len(c) = Len(p)
        BY <2>2
      <3> QED BY <1>5, <2>2, <2>4, <3>1, SplitCuts
    <2>6. cipher' = SubSeq(c, s.used + 1, Len(c)) /\ plain' = SubSeq(p, s.used + 1, Len(p)) /\ disabled' = s.off
      BY <1>6, <1>10
    <2>7. /\ cipher' \in Seq(1..read') /\ plain' \in Seq(0..Long) /\ disabled' \in BOOLEAN
          /\ s.used \in 0..Len(c) /\ Len(cipher') = Len(c) - s.used /\ Len(plain') = Len(cipher')
          /\ Buffers'
      BY <1>1, <1>3, <1>4, <1>10, <2>2, <2>3, <2>5, <2>6, BuffersKept
    <2>8. z = Len(conf.stream) + 1
      BY <1>2, <1>3, <1>10 DEF Packets
    <2>9. CASE wire' = wire /\ (s.parts = <<>> \/ closed \/ telegram = "gone")
      <3>1. up' \in {"read", "drain"} \/ (up' = "done" /\ closed)
        BY <1>3, <1>6, <1>10 DEF Send
      <3>2. InStep(m)'
        <4>1. telegram # "gone" /\ up' # "done" => m[Len(wire)] + Len(cipher') = read'
          <5> SUFFICES ASSUME telegram # "gone", up' # "done" PROVE m[Len(wire)] + Len(cipher') = read'
            OBVIOUS
          <5>1. s.parts = <<>>
            BY <1>6, <1>10, <2>9 DEF Send
          <5>2. s.used = 0
            BY <2>5, <5>1 DEF CutsAt
          <5>3. m[Len(wire)] + Len(cipher) = read
            BY <1>2, <1>3 DEF InStep
          <5>4. m[Len(wire)] \in 0..read
            BY <1>4
          <5>5. Len(cipher') = Len(cipher) + u
            BY <1>4, <2>2, <2>7, <5>2
          <5> QED BY <1>3, <1>4, <5>3, <5>4, <5>5
        <4>2. up' # "tail" /\ read' > 0
          BY <1>3, <1>4, <3>1
        <4> QED BY <1>3, <2>9, <4>1, <4>2 DEF InStep
      <3>3. Packets(m, z)'
        <4>1. s.parts = <<>> => ~disabled'
          BY <2>5, <2>6 DEF CutsAt
        <4>2. telegram # "gone" /\ s.parts # <<>> => up' = "done"
          BY <1>6, <1>10, <2>9 DEF Send
        <4> QED BY <1>2, <1>3, <1>8, <1>10, <2>8, <2>9, <4>1, <4>2 DEF Packets
      <3> QED BY <1>1, <1>2, <1>3, <1>4, <1>7, <1>9, <2>7, <2>9, <3>1, <3>2, <3>3, ReadEnds
    <2>10. CASE s.parts # <<>> /\ ~closed /\ telegram # "gone"
      <3>1. up' = "drain" /\ wire' = wire \o Frames("binary", s.parts)
        BY <1>6, <1>10, <2>10 DEF Send, Put, Frames, Frame0
      <3>2. a = m[Len(wire)]
        <4>1. m[Len(wire)] + Len(cipher) = read
          BY <1>2, <1>3, <2>10 DEF InStep
        <4>2. m[Len(wire)] \in 0..read
          BY <1>4
        <4> QED BY <1>4, <2>1, <4>1, <4>2
      <3>3. Len(s.parts) \in Nat /\ \E mm : GoOn("binary", s.parts, read', a, mm) /\ Farther(mm, m0, Len(s.parts), a)
        BY <1>4, <2>2, <2>3, <2>5, PartsGoOn
      <3>4. PICK mm : GoOn("binary", s.parts, read', a, mm) /\ Farther(mm, m0, Len(s.parts), a)
        BY <3>3
      <3>5. /\ wire' \in WireOf(read') /\ Grown("binary", s.parts, wire, wire')
            /\ \E w \in [0..Len(wire') -> 0..read'] : Marks(w)' /\ Joined(w, m, Len(wire), mm, Len(s.parts))
        <4>1. "binary" \in {"binary", "pong", "close"} /\ GoOn("binary", s.parts, read', m[Len(wire)], mm)
          BY <3>2, <3>4
        <4> QED BY <1>1, <1>2, <1>4, <3>1, <4>1, Extended
      <3>6. PICK w \in [0..Len(wire') -> 0..read'] : Marks(w)' /\ Joined(w, m, Len(wire), mm, Len(s.parts))
        BY <3>5
      <3>7. PICK y \in 0..(Len(conf'.stream) + 1) : Packets(w, y)'
        <4>1. Len(p) = Len(c) /\ disabled' = s.off
          BY <2>2, <2>6
        <4> QED BY <1>1, <1>2, <1>3, <1>10, <2>2, <2>3, <2>4, <2>5, <3>2, <3>4, <3>5, <3>6, <4>1, PacketsGoOn
      <3>8. InStep(w)'
        <4>1. PICK P \in Nat : P = Len(s.parts) /\ P \in 0..P
          BY <3>3
        <4>2. w[Len(wire')] = a + m0[P] /\ m0[P] = s.used
          <5>1. Len(wire') = Len(wire) + P /\ w[Len(wire) + P] = mm[P] /\ mm[P] = a + m0[P]
            BY <3>4, <3>5, <3>6, <4>1 DEF Grown, Joined, Farther
          <5> QED BY <2>5, <4>1, <5>1 DEF CutsAt
        <4>3. w[Len(wire')] + Len(cipher') = read'
          BY <1>4, <2>2, <2>3, <2>7, <4>2
        <4>4. read' > 0
          BY <1>3, <1>4
        <4> QED BY <3>1, <4>3, <4>4 DEF InStep
      <3> QED BY <1>1, <1>2, <1>3, <1>4, <2>7, <2>10, <3>1, <3>3, <3>5, <3>6, <3>7, <3>8, ReadEnds
    <2>11. s.parts = <<>> \/ closed \/ telegram = "gone" => wire' = wire
      BY <1>6, <1>10 DEF Send, Put
    <2> QED BY <2>9, <2>10, <2>11
  <1>11. CASE ~(conf.split /\ ~disabled)
    <2>1. cipher = <<>> /\ Len(cipher) = 0
      BY <1>1, <1>11 DEF Buffers
    <2>2. cipher' = cipher /\ plain' = plain /\ disabled' = disabled /\ Send(<< chunk >>, "drain")
      BY <1>6, <1>11
    <2>3. /\ cipher' \in Seq(1..read') /\ plain' \in Seq(0..Long) /\ disabled' \in BOOLEAN /\ Len(plain') = Len(cipher')
      BY <1>1, <1>4, <2>2, Wider DEF TypeOK
    <2>4. Buffers'
      <3>1. Run(<<>>, read' - 0, read')
        <4>1. Len(<<>>) = 0
          OBVIOUS
        <4>2. 0 = read' - (read' - 0)
          <5>1. PICK r \in Nat : r = read'
            BY <1>4
          <5>2. 0 = r - (r - 0)
            OBVIOUS
          <5> QED BY <5>1, <5>2
        <4> QED BY <4>1, <4>2 DEF Run
      <3> QED BY <1>1, <1>3, <2>1, <2>2, <3>1 DEF Buffers
    <2>5. chunk \in Seq(1..read') /\ Run(chunk, read, read') /\ chunk # <<>>
      <3>1. \A i \in 1..u : read + i \in 1..read'
        BY <1>3, <1>4
      <3>2. chunk \in Seq(1..read') /\ Len(chunk) = u
        BY <1>4, <1>5, <3>1 DEF Chunk
      <3>3. \A i \in 1..u : chunk[i] = read + i
        BY <1>5 DEF Chunk
      <3>4. u = read' - read
        BY <1>3, <1>4
      <3>5. chunk # <<>>
        BY <1>4, <3>2
      <3> QED BY <3>2, <3>3, <3>4, <3>5 DEF Run
    <2>6. telegram # "gone" => m[Len(wire)] = read
      <3> SUFFICES ASSUME telegram # "gone" PROVE m[Len(wire)] = read
        OBVIOUS
      <3>1. m[Len(wire)] + Len(cipher) = read
        BY <1>2, <1>3 DEF InStep
      <3>2. m[Len(wire)] \in 0..read
        BY <1>4
      <3> QED BY <1>4, <2>1, <3>1, <3>2
    <2>7. PICK parts : parts = << chunk >>
      OBVIOUS
    <2>8. Len(parts) \in Nat /\ Len(parts) = 1
      BY <2>7
    <2>9. CASE closed \/ telegram = "gone"
      <3>1. wire' = wire /\ (up' = "drain" \/ (up' = "done" /\ closed)) /\ (telegram = "gone" \/ up' = "done")
        BY <2>2, <2>9 DEF Send, Put
      <3>2. InStep(m)' /\ Packets(m, z)'
        <4>1. InStep(m)'
          BY <1>3, <1>4, <3>1 DEF InStep
        <4>2. Packets(m, z)'
          BY <1>2, <1>3, <1>8, <2>2, <3>1 DEF Packets
        <4> QED BY <4>1, <4>2
      <3> QED BY <1>1, <1>2, <1>3, <1>4, <1>7, <1>9, <2>3, <2>4, <2>8, <3>1, <3>2, ReadEnds
    <2>10. CASE ~closed /\ telegram # "gone"
      <3>1. up' = "drain" /\ wire' = wire \o Frames("binary", parts)
        BY <2>2, <2>7, <2>10 DEF Send, Put, Frames, Frame0
      <3>2. PICK mm : GoOn("binary", parts, read', m[Len(wire)], mm) /\ mm[1] = read'
        <4>1. read \in 0..read'
          BY <1>4
        <4> QED BY <1>4, <2>5, <2>6, <2>7, <2>10, <4>1, OneFrame
      <3>3. /\ wire' \in WireOf(read') /\ Grown("binary", parts, wire, wire')
            /\ \E w \in [0..Len(wire') -> 0..read'] : Marks(w)' /\ Joined(w, m, Len(wire), mm, Len(parts))
        <4>1. "binary" \in {"binary", "pong", "close"}
          OBVIOUS
        <4> QED BY <1>1, <1>2, <1>4, <3>1, <3>2, <4>1, Extended
      <3>4. PICK w \in [0..Len(wire') -> 0..read'] : Marks(w)' /\ Joined(w, m, Len(wire), mm, Len(parts))
        BY <3>3
      <3>5. Len(wire') = Len(wire) + 1 /\ w[Len(wire')] = read'
        BY <2>8, <3>2, <3>3, <3>4 DEF Grown, Joined
      <3>6. InStep(w)'
        BY <1>3, <1>4, <2>1, <2>2, <3>1, <3>5 DEF InStep
      <3>7. Packets(w, z)'
        <4> SUFFICES ASSUME conf.split PROVE Packets(w, z)'
          BY <1>3 DEF Packets
        <4>1. disabled /\ z < m[Len(wire)] /\ z < read'
          <5>1. disabled /\ z < m[Len(wire)]
            BY <1>2, <1>3, <1>11, <2>10 DEF Packets
          <5> QED BY <1>4, <1>9, <2>6, <2>10, <5>1
        <4>2. ASSUME NEW i \in 1..Len(wire'), w[i - 1] < z
              PROVE  i \in 1..Len(wire) /\ wire'[i] = wire[i] /\ w[i] = m[i] /\ w[i - 1] = m[i - 1]
          <5>1. i # Len(wire) + 1
            <6>1. w[Len(wire)] = m[Len(wire)]
              BY <1>4, <3>4 DEF Joined
            <6>2. i = Len(wire) + 1 => w[i - 1] = read
              BY <1>4, <2>6, <2>10, <6>1
            <6> QED BY <1>4, <1>9, <2>6, <2>10, <4>1, <4>2, <6>2
          <5>2. i \in 1..Len(wire) /\ i \in 0..Len(wire) /\ i - 1 \in 0..Len(wire)
            BY <1>4, <3>5, <5>1
          <5> QED BY <3>3, <3>4, <5>2 DEF Grown, Joined
        <4> QED BY <1>2, <1>3, <1>8, <2>2, <3>5, <4>1, <4>2 DEF Packets
      <3> QED BY <1>1, <1>2, <1>3, <1>4, <1>9, <2>3, <2>4, <2>8, <2>10, <3>1, <3>3, <3>4, <3>6, <3>7, ReadEnds
    <2> QED BY <2>9, <2>10
  <1> QED BY <1>10, <1>11

-----------------------------------------------------------------------------
LEMMA InitInv == Init => BridgeInv
  <1> SUFFICES ASSUME Init PROVE BridgeInv
    OBVIOUS
  <1>1. conf \in Config /\ conf.stream \in Streams /\ conf.replies \in Replies
    BY DEF Init, Config
  <1>2. Len(conf.stream) \in Nat /\ Len(conf.replies) \in Nat
    BY <1>1, StreamsAssumption, RepliesAssumption
  <1>3. TypeOK
    <2>1. \A S : <<>> \in Seq(S)
      OBVIOUS
    <2>2. 0 \in 0..Len(conf.stream) /\ 0 \in 0..Len(conf.replies)
      BY <1>2
    <2>3. wire \in Seq([op : {"binary", "pong", "close"}, data : Seq(1..read)])
      BY <2>1 DEF Init
    <2> QED BY <1>1, <2>1, <2>2, <2>3 DEF Init, TypeOK
  <1>4. Len(<<>>) = 0 /\ Run(<<>>, 0 - 0, 0)
    BY DEF Run
  <1>5. Buffers /\ Closing /\ Received
    BY <1>4 DEF Init, Buffers, Closing, Received
  <1>6. PICK m : m = [i \in 0..0 |-> 0]
    OBVIOUS
  <1>7. m \in [0..Len(wire) -> 0..read] /\ Marks(m) /\ InStep(m) /\ Ends(m)
    BY <1>4, <1>6 DEF Init, Marks, InStep, Ends
  <1>8. PICK z \in 0..(Len(conf.stream) + 1) : z = Len(conf.stream) + 1
    BY <1>2
  <1>9. Packets(m, z)
    BY <1>2, <1>4, <1>8 DEF Init, Packets
  <1> QED BY <1>3, <1>5, <1>7, <1>9 DEF BridgeInv

LEMMA NextInv == BridgeInv /\ [Next]_vars => BridgeInv'
  <1> SUFFICES ASSUME BridgeInv, [Next]_vars PROVE BridgeInv'
    OBVIOUS
  <1>1. CASE \E n \in 1..Len(conf.stream) : Read(n)
    BY <1>1, ReadStep
  <1>2. CASE Eof
    BY <1>2, EofStep
  <1>3. CASE RecvControl \/ RecvClose \/ Close
    BY <1>3, ControlSteps
  <1>4. CASE \/ Drained \/ ReadFails \/ RecvData \/ Delivered \/ RecvFails
             \/ FirstCompleted \/ Cancel \/ ClientEnds \/ TelegramEnds
    BY <1>4, StillSteps
  <1>5. CASE UNCHANGED vars
    <2>1. UNCHANGED <<conf, read, cipher, plain, disabled, wire, closed, inbox, delivered, up, down, bridge,
                      client, telegram, cancelled>>
      BY <1>5 DEF vars, splitter, ends
    <2>2. TypeOK' /\ Closing' /\ Received'
      BY <2>1 DEF BridgeInv, TypeOK, Closing, Received
    <2>3. PICK m \in [0..Len(wire) -> 0..read], z \in 0..(Len(conf.stream) + 1) :
            Marks(m) /\ InStep(m) /\ Packets(m, z) /\ Ends(m)
      BY DEF BridgeInv
    <2>4. Buffers' /\ Marks(m)' /\ InStep(m)' /\ Packets(m, z)'
      BY <2>1, <2>3, Still DEF BridgeInv
    <2>5. Ends(m)'
      <3>1. UpEnds(m) => UpEnds(m)'
        BY <2>1, <2>3, EndsStay DEF BridgeInv
      <3>2. (DownEnds => DownEnds') /\ (NoCloseYet' <=> NoCloseYet)
        BY <2>1 DEF DownEnds, NoCloseYet
      <3> QED BY <2>1, <2>3, <3>1, <3>2 DEF Ends
    <2> QED BY <2>1, <2>2, <2>3, <2>4, <2>5 DEF BridgeInv
  <1> QED BY <1>1, <1>2, <1>3, <1>4, <1>5 DEF Next, UpTask, DownTask

LEMMA BridgeInvHolds == Spec => []BridgeInv
  BY InitInv, NextInv, PTL DEF Spec

-----------------------------------------------------------------------------
(* The first i frames hold the bytes 1 to m[i]. *)
LEMMA SentByMarks ==
  ASSUME TypeOK, NEW m, Marks(m)
  PROVE  \A i \in 0..Len(wire) : SentBy(i) = m[i]
  <1>1. PICK W : W = Len(wire)
    OBVIOUS
  <1>2. W \in Nat /\ read \in Nat
    BY <1>1, ConfFacts DEF TypeOK
  <1>3. /\ m \in [0..W -> 0..read] /\ m \in [0..W -> Int] /\ m[0] = 0
        /\ \A i \in 1..W : m[i - 1] <= m[i]
    BY <1>1, <1>2 DEF Marks
  <1>4. ASSUME NEW k \in 1..W
        PROVE  Range(wire[k].data) = (m[k - 1] + 1)..m[k]
    <2>1. PICK d, a, b : d = wire[k].data /\ a = m[k - 1] /\ b = m[k]
      OBVIOUS
    <2>2. Run(d, a, b)
      BY <1>1, <2>1 DEF Marks
    <2>3. d \in Seq(1..read)
      <3> DEFINE F == [op : {"binary", "pong", "close"}, data : Seq(1..read)]
      <3>1. wire \in Seq(F) /\ k \in 1..Len(wire)
        BY <1>1 DEF TypeOK
      <3> HIDE DEF F
      <3>2. wire[k] \in F
        BY <3>1, ElementOfSeq
      <3> QED BY <2>1, <3>2 DEF F
    <2>4. a \in Nat /\ b \in Nat /\ a <= b
      <3>1. k \in 0..W /\ k - 1 \in 0..W
        BY <1>2
      <3> QED BY <1>2, <1>3, <2>1, <3>1
    <2>5. DOMAIN d = 1..(b - a) /\ \A j \in 1..(b - a) : d[j] = a + j
      BY <2>2, <2>3 DEF Run
    <2>6. ASSUME NEW x \in (a + 1)..b PROVE x \in Range(d)
      <3>1. x - a \in 1..(b - a) /\ a + (x - a) = x
        BY <2>4
      <3> QED BY <2>5, <3>1 DEF Range
    <2>7. ASSUME NEW x \in Range(d) PROVE x \in (a + 1)..b
      <3>1. PICK j \in 1..(b - a) : x = d[j]
        BY <2>5 DEF Range
      <3>2. x = a + j
        BY <2>5, <3>1
      <3> QED BY <2>4, <3>2
    <2> QED BY <2>1, <2>6, <2>7
  <1>5. ASSUME NEW i \in 0..W PROVE SentBy(i) = m[i]
    <2>1. m[i] \in 0..read /\ m[i] \in Int /\ m[i] >= 0
      BY <1>2, <1>3
    <2>2. ASSUME NEW k \in 1..i, NEW x \in Range(wire[k].data) PROVE x \in 1..m[i]
      <3>1. k \in 1..W /\ k \in 0..W /\ k - 1 \in 0..W /\ k <= i
        BY <1>2
      <3>2. m[k] <= m[i]
        BY <1>2, <1>3, <3>1, Monotone
      <3>3. m[k - 1] \in 0..read /\ m[k] \in 0..read /\ x \in (m[k - 1] + 1)..m[k]
        BY <1>3, <1>4, <2>2, <3>1
      <3> QED BY <1>2, <2>1, <3>2, <3>3
    <2>3. ASSUME NEW x \in 1..m[i] PROVE \E k \in 1..i : x \in Range(wire[k].data)
      <3> DEFINE T == {k \in 0..i : x <= m[k]}
      <3>1. T \subseteq Nat /\ T # {}
        <4>1. i \in T
          BY <1>2, <2>1
        <4> QED BY <4>1
      <3>2. PICK k \in T : \A l \in T : k <= l
        <4> HIDE DEF T
        <4> QED BY <3>1, NatMin
      <3>3. k # 0
        BY <1>3, <3>2
      <3>4. k \in 1..i /\ k - 1 \in 0..i /\ k \in 0..W /\ k - 1 \in 0..W /\ k \in 1..W
        BY <1>2, <3>2, <3>3
      <3>5. ~(x <= m[k - 1])
        BY <3>2, <3>4
      <3>6. m[k - 1] \in 0..read /\ m[k] \in 0..read
        BY <1>3, <3>4
      <3>7. x \in (m[k - 1] + 1)..m[k]
        BY <1>2, <3>2, <3>5, <3>6
      <3> QED BY <1>4, <3>4, <3>7
    <2>4. UNION {Range(wire[k].data) : k \in 1..i} = 1..m[i]
      BY <2>2, <2>3
    <2>5. Cardinality(1..m[i]) = m[i]
      <3>1. PICK v \in Int : v = m[i] /\ v >= 0
        BY <2>1
      <3>2. 1 \in Int
        OBVIOUS
      <3>3. Cardinality(1..v) = IF 1 > v THEN 0 ELSE v - 1 + 1
        BY <3>2, FS_Interval
      <3>4. Cardinality(1..v) = v
        BY <3>1, <3>3
      <3> QED BY <3>1, <3>4
    <2> QED BY <2>4, <2>5 DEF SentBy
  <1> QED BY <1>1, <1>5

(* A packet is at least its header. *)
LEMMA PacketGoesOn ==
  ASSUME TypeOK, NEW k \in 0..Len(conf.stream), PacketEnd(k) <= Len(conf.stream)
  PROVE  PacketEnd(k) \in 0..Len(conf.stream) /\ PacketEnd(k) > k
  <1>1. PICK L, r : L = Len(conf.stream) /\ r = Rest(k)
    OBVIOUS
  <1>2. L \in Nat /\ conf.stream \in Seq(0..Long)
    BY <1>1, ConfFacts
  <1>3. HasHeader(k)
    BY <1>2, <1>1 DEF PacketEnd
  <1>4. k < L /\ Len(r) >= Header(r) /\ PacketEnd(k) = k + Header(r) + Payload(r)
    BY <1>1, <1>3 DEF HasHeader, PacketEnd
  <1>5. r \in Seq(0..Long) /\ Len(r) = L - k
    <2>1. L \in 0..L /\ k \in 0..L /\ k <= L
      BY <1>1, <1>2, <1>4
    <2>2. PICK S, t : S = 0..Long /\ t = conf.stream
      OBVIOUS
    <2>3. t \in Seq(S) /\ L = Len(t)
      BY <1>1, <1>2, <2>2
    <2>4. SubSeq(t, k + 1, L) \in Seq(S) /\ Len(SubSeq(t, k + 1, L)) = L - k
      BY <2>1, <2>3, PartOf
    <2> QED BY <1>1, <2>2, <2>4 DEF Rest
  <1>6. Header(r) \in {1, 2} /\ Payload(r) \in 0..Long
    <2>1. Len(r) >= 1
      BY <1>2, <1>4, <1>5
    <2> QED BY <1>4, <1>5, <2>1, PacketFits
  <1>7. PacketEnd(k) > k /\ PacketEnd(k) \in Nat
    BY <1>2, <1>4, <1>6 DEF Long
  <1> QED BY <1>1, <1>2, <1>7

(* As long as every frame is a packet, each ends where one starts. *)
LEMMA CutsAreStarts ==
  ASSUME TypeOK, NEW m, NEW z, Marks(m), Packets(m, z), conf.split, up = "read", ~disabled
  PROVE  m[Len(wire)] \in Starts
  <1>1. PICK W, L : W = Len(wire) /\ L = Len(conf.stream)
    OBVIOUS
  <1>2. W \in Nat /\ L \in Nat /\ read \in 0..L
    BY <1>1, ConfFacts DEF TypeOK
  <1>3. m \in [0..W -> 0..read] /\ m[0] = 0
    BY <1>1 DEF Marks
  <1>4. z = L + 1
    BY <1>1 DEF Packets
  <1>5. ASSUME NEW S \in SUBSET (0..L), ClosedUnderPackets(S) PROVE m[W] \in S
    <2> DEFINE T == {i \in 0..W : m[i] \notin S}
    <2>1. SUFFICES ASSUME T # {} PROVE FALSE
      BY <1>2
    <2>2. PICK i \in T : \A j \in T : i <= j
      <3>1. T \subseteq Nat
        OBVIOUS
      <3> HIDE DEF T
      <3> QED BY <2>1, <3>1, NatMin
    <2>3. i \in 0..W /\ m[i] \notin S /\ 0 \in S
      BY <1>5, <2>2 DEF ClosedUnderPackets
    <2>4. i \in 1..W /\ i - 1 \in 0..W
      BY <1>2, <1>3, <2>3
    <2>5. m[i - 1] \in S
      <3>1. i - 1 \notin T
        BY <2>2, <2>4
      <3> QED BY <2>4, <3>1
    <2>6. m[i - 1] \in 0..read /\ m[i] \in 0..read /\ m[i - 1] < m[i]
      <3>1. m[i - 1] <= m[i] /\ m[i - 1] # m[i]
        BY <1>1, <2>3, <2>4, <2>5 DEF Marks
      <3>2. m[i - 1] \in 0..read /\ m[i] \in 0..read
        BY <1>3, <2>3, <2>4
      <3> QED BY <1>2, <3>1, <3>2
    <2>7. m[i - 1] < z
      BY <1>2, <1>4, <2>6
    <2>8. ~Empty(m[i - 1]) /\ PacketEnd(m[i - 1]) = m[i]
      BY <1>1, <2>4, <2>6, <2>7 DEF Packets, Marks
    <2>9. m[i] <= L
      BY <1>2, <2>6
    <2> QED BY <1>1, <1>5, <2>3, <2>5, <2>8, <2>9 DEF ClosedUnderPackets
  <1>6. m[W] \in 0..L
    BY <1>2, <1>3
  <1> QED BY <1>1, <1>5, <1>6 DEF Starts

(* Where frames begin behind the first empty packet, no packet starts. *)
LEMMA StartsAreCuts ==
  ASSUME TypeOK, NEW m, NEW z \in 0..(Len(conf.stream) + 1), Marks(m), Packets(m, z), conf.split, up = "read",
         NEW k \in 0..Len(wire), m[k] \in Starts, m[k] < m[Len(wire)]
  PROVE  m[k] <= z
  <1>1. PICK W, L : W = Len(wire) /\ L = Len(conf.stream)
    OBVIOUS
  <1>2. W \in Nat /\ L \in Nat /\ read \in 0..L
    BY <1>1, ConfFacts DEF TypeOK
  <1>3. m \in [0..W -> 0..read] /\ m[0] = 0 /\ m \in [0..W -> Int] /\ \A i \in 1..W : m[i - 1] <= m[i]
    BY <1>1, <1>2 DEF Marks
  <1>4. \A i \in 0..W : m[i] \in 0..L
    BY <1>2, <1>3
  <1>5. PICK S : S = {l \in 0..L : (\E i \in 0..W : l = m[i] /\ l <= z) \/ l > m[W]}
    OBVIOUS
  <1>6. 0 \in S
    <2>1. 0 \in 0..W /\ 0 = m[0] /\ 0 <= z /\ 0 \in 0..L
      BY <1>1, <1>2, <1>3
    <2> QED BY <1>5, <2>1
  <1>7. ASSUME NEW l \in S, ~Empty(l), PacketEnd(l) <= L PROVE PacketEnd(l) \in S
    <2>1. PICK e : e = PacketEnd(l)
      OBVIOUS
    <2>2. l \in 0..L /\ e \in 0..L /\ e > l
      BY <1>1, <1>5, <1>7, <2>1, PacketGoesOn
    <2>3. m[W] \in 0..L /\ W \in 0..W
      BY <1>2, <1>4
    <2>4. CASE l >= m[W]
      <3>1. e > m[W]
        BY <1>2, <2>2, <2>3, <2>4
      <3> QED BY <1>5, <2>1, <2>2, <3>1
    <2>5. CASE l < m[W]
      <3>1. PICK i \in 0..W : l = m[i] /\ l <= z
        BY <1>2, <1>5, <2>2, <2>3, <2>5
      <3>2. l < z
        <4>1. l # z
          BY <1>1, <1>2, <1>7, <2>2 DEF Packets
        <4> QED BY <1>1, <1>2, <2>2, <3>1, <4>1
      <3> DEFINE T == {j \in 0..W : m[j] > l}
      <3>3. T \subseteq Nat /\ T # {}
        <4>1. W \in T
          BY <2>2, <2>3, <2>5
        <4> QED BY <4>1
      <3>4. PICK j \in T : \A q \in T : j <= q
        <4> HIDE DEF T
        <4> QED BY <3>3, NatMin
      <3>5. j \in 0..W /\ m[j] > l
        BY <3>4
      <3>6. j > i
        <4>1. j <= i => m[j] <= m[i]
          BY <1>2, <1>3, <3>5, Monotone
        <4>2. m[j] \in 0..L
          BY <1>4, <3>5
        <4> QED BY <1>2, <2>2, <3>1, <3>5, <4>1, <4>2
      <3>7. j \in 1..W /\ j - 1 \in 0..W /\ i <= j - 1
        BY <1>2, <3>5, <3>6
      <3>8. m[j - 1] = l
        <4>1. m[i] <= m[j - 1]
          BY <1>2, <1>3, <3>7, Monotone
        <4>2. ~(m[j - 1] > l)
          <5>1. j - 1 \notin T
            BY <3>4, <3>7
          <5> QED BY <3>7, <5>1
        <4>3. m[j - 1] \in 0..L
          BY <1>4, <3>7
        <4> QED BY <1>2, <2>2, <3>1, <4>1, <4>2, <4>3
      <3>9. wire[j].op = "binary"
        <4>1. m[j - 1] < m[j]
          BY <3>5, <3>8
        <4> QED BY <1>1, <3>7, <4>1 DEF Marks
      <3>10. PacketEnd(l) = m[j] /\ m[j] <= z
        <4>1. wire[j].op = "binary" /\ m[j - 1] < z => PacketEnd(m[j - 1]) = m[j] /\ m[j] <= z
          BY <1>1, <3>7 DEF Packets
        <4> QED BY <3>2, <3>8, <3>9, <4>1
      <3> QED BY <1>5, <2>1, <2>2, <3>5, <3>10
    <2>6. l >= m[W] \/ l < m[W]
      BY <1>2, <2>2, <2>3
    <2> QED BY <2>4, <2>5, <2>6
  <1>8. m[k] \in S
    <2>1. S \in SUBSET (0..L)
      BY <1>5
    <2>2. ClosedUnderPackets(S)
      BY <1>1, <1>6, <1>7 DEF ClosedUnderPackets
    <2> QED BY <1>1, <2>1, <2>2 DEF Starts
  <1>9. (\E i \in 0..W : m[k] = m[i] /\ m[k] <= z) \/ m[k] > m[W]
    BY <1>5, <1>8
  <1>10. m[k] \in 0..L /\ m[W] \in 0..L
    BY <1>1, <1>2, <1>4
  <1> QED BY <1>1, <1>2, <1>9, <1>10

-----------------------------------------------------------------------------
(* Every variable of the bridge keeps to its values, and the two buffers   *)
(* of MsgSplitter are always of one length.                                *)
THEOREM BridgeTypeCorrect == Spec => []TypeOK
  BY BridgeInvHolds, PTL DEF BridgeInv

(* Telegram gets the client's bytes from the first on in their order, none *)
(* twice and none left out: the ciphers of tcp_to_ws stay in step.         *)
THEOREM BytesArriveInOrder == Spec => []UpInOrder
  <1>1. ASSUME BridgeInv PROVE UpInOrder
    <2>1. PICK m \in [0..Len(wire) -> 0..read], z \in 0..(Len(conf.stream) + 1) :
            Marks(m) /\ InStep(m) /\ Packets(m, z) /\ Ends(m)
      BY <1>1 DEF BridgeInv
    <2>2. /\ TypeOK /\ Buffers /\ \A i \in 0..Len(wire) : SentBy(i) = m[i]
          /\ Len(wire) \in Nat /\ read \in Nat /\ Len(cipher) \in Nat
      <3>1. TypeOK /\ Buffers
        BY <1>1 DEF BridgeInv
      <3>2. Len(wire) \in Nat /\ read \in Nat /\ Len(cipher) \in Nat
        BY <3>1, ConfFacts DEF TypeOK
      <3> QED BY <2>1, <3>1, <3>2, SentByMarks
    <2>3. ASSUME NEW i \in DOMAIN wire, NEW j \in DOMAIN wire[i].data
          PROVE  wire[i].data[j] = SentBy(i - 1) + j
      <3>1. i \in 1..Len(wire) /\ i - 1 \in 0..Len(wire)
        <4>1. DOMAIN wire = 1..Len(wire)
          BY <2>2 DEF TypeOK
        <4> QED BY <2>2, <4>1
      <3>2. j \in 1..Len(wire[i].data)
        <4> DEFINE F == [op : {"binary", "pong", "close"}, data : Seq(1..read)]
        <4>1. wire \in Seq(F)
          BY <2>2 DEF TypeOK
        <4> HIDE DEF F
        <4>2. wire[i] \in F
          BY <3>1, <4>1, ElementOfSeq
        <4>3. wire[i].data \in Seq(1..read)
          BY <4>2 DEF F
        <4> QED BY <2>3, <4>3
      <3>3. Run(wire[i].data, m[i - 1], m[i])
        BY <2>1, <3>1 DEF Marks
      <3> QED BY <2>2, <3>1, <3>2, <3>3 DEF Run
    <2>4. ASSUME telegram # "gone", up # "done"
          PROVE  Sent + Len(cipher) = read /\ \A j \in DOMAIN cipher : cipher[j] = Sent + j
      <3>1. PICK v \in Nat : v = m[Len(wire)] /\ Sent = v
        <4>1. Len(wire) \in 0..Len(wire)
          BY <2>2
        <4>2. m[Len(wire)] \in 0..read /\ Sent = m[Len(wire)]
          BY <2>1, <2>2, <4>1 DEF Sent
        <4> QED BY <2>2, <4>2
      <3>2. v + Len(cipher) = read
        BY <2>1, <2>4, <3>1 DEF InStep
      <3>3. read - Len(cipher) = v
        BY <2>2, <3>2
      <3>4. \A j \in 1..Len(cipher) : cipher[j] = v + j
        BY <2>2, <3>3 DEF Buffers, Run
      <3>5. DOMAIN cipher = 1..Len(cipher)
        BY <2>2 DEF TypeOK
      <3> QED BY <3>1, <3>2, <3>4, <3>5
    <2> QED BY <2>3, <2>4 DEF UpInOrder
  <1> QED BY <1>1, BridgeInvHolds, PTL

(* However the stream is cut into chunks, a frame that begins where a      *)
(* packet does is this packet, and no whole packet waits in MsgSplitter.   *)
THEOREM FramesArePackets == Spec => []WholePackets
  <1>1. ASSUME BridgeInv PROVE WholePackets
    <2> SUFFICES ASSUME conf.split, up = "read"
                 PROVE  /\ \A i \in DOMAIN wire : wire[i].op = "binary" =>
                             (SentBy(i - 1) \in Starts /\ ~Empty(SentBy(i - 1)) => SentBy(i) = PacketEnd(SentBy(i - 1)))
                        /\ telegram # "gone" /\ Sent < read => Sent \in Starts /\ PacketEnd(Sent) > read
      BY DEF WholePackets
    <2>1. PICK m \in [0..Len(wire) -> 0..read], z \in 0..(Len(conf.stream) + 1) :
            Marks(m) /\ InStep(m) /\ Packets(m, z) /\ Ends(m)
      BY <1>1 DEF BridgeInv
    <2>2. TypeOK /\ Buffers
      BY <1>1 DEF BridgeInv
    <2>3. /\ Len(wire) \in Nat /\ Len(wire) \in 0..Len(wire) /\ Len(conf.stream) \in Nat
          /\ read \in Nat /\ read <= Len(conf.stream) /\ Len(cipher) \in Nat
      <3>1. Len(wire) \in Nat /\ Len(conf.stream) \in Nat /\ read \in 0..Len(conf.stream) /\ Len(cipher) \in Nat
        BY <2>2, ConfFacts DEF TypeOK
      <3> QED BY <3>1
    <2>4. \A i \in 0..Len(wire) : SentBy(i) = m[i]
      BY <2>1, <2>2, SentByMarks
    <2>5. ASSUME NEW i \in DOMAIN wire, wire[i].op = "binary",
                 SentBy(i - 1) \in Starts, ~Empty(SentBy(i - 1))
          PROVE  SentBy(i) = PacketEnd(SentBy(i - 1))
      <3>1. i \in 1..Len(wire) /\ i \in 0..Len(wire) /\ i - 1 \in 0..Len(wire) /\ i <= Len(wire)
        BY <2>2, <2>3 DEF TypeOK
      <3>2. SentBy(i) = m[i] /\ SentBy(i - 1) = m[i - 1]
        BY <2>4, <3>1
      <3>3. m[i - 1] < m[i] /\ m[i - 1] \in 0..read /\ m[i] \in 0..read /\ m[Len(wire)] \in 0..read
        BY <2>1, <2>3, <2>5, <3>1 DEF Marks
      <3>4. m[i] <= m[Len(wire)]
        <4>1. m \in [0..Len(wire) -> Int] /\ \A j \in 1..Len(wire) : m[j - 1] <= m[j]
          BY <2>1, <2>3 DEF Marks
        <4> QED BY <2>3, <3>1, <4>1, Monotone
      <3>5. m[i - 1] <= z
        <4>1. m[i - 1] < m[Len(wire)] /\ m[i - 1] \in Starts
          BY <2>3, <2>5, <3>2, <3>3, <3>4
        <4> QED BY <2>1, <2>2, <3>1, <4>1, StartsAreCuts
      <3>6. m[i - 1] # z
        <4>1. m[i - 1] <= Len(conf.stream)
          BY <2>3, <3>3
        <4> QED BY <2>1, <2>5, <3>2, <4>1 DEF Packets
      <3>7. m[i - 1] < z
        BY <2>3, <3>3, <3>5, <3>6
      <3> QED BY <2>1, <2>5, <3>1, <3>2, <3>7 DEF Packets
    <2>6. ASSUME telegram # "gone", Sent < read PROVE Sent \in Starts /\ PacketEnd(Sent) > read
      <3>1. PICK v \in Nat : v = m[Len(wire)] /\ Sent = v
        <4>1. m[Len(wire)] \in 0..read /\ Sent = m[Len(wire)]
          BY <2>1, <2>3, <2>4 DEF Sent
        <4> QED BY <2>3, <4>1
      <3>2. v + Len(cipher) = read
        BY <2>1, <2>6, <3>1 DEF InStep
      <3>3. Len(cipher) >= 1 /\ read - Len(cipher) = v /\ cipher # <<>>
        BY <2>3, <2>6, <3>1, <3>2
      <3>4. ~disabled /\ NextPacketLen(plain) = None
        BY <2>2, <3>3 DEF Buffers
      <3>5. Sent \in Starts
        BY <2>1, <2>2, <3>1, <3>4, CutsAreStarts
      <3>6. plain \in Seq(0..Long) /\ Len(plain) = Len(cipher) /\ Len(plain) \in Nat
        BY <2>2, <2>3 DEF TypeOK
      <3>7. From(plain, 0) = plain
        <4>1. 0 \in 0..Len(plain) /\ Len(plain) \in 0..Len(plain) /\ 0 <= Len(plain)
          BY <3>6
        <4>2. /\ From(plain, 0) \in Seq(0..Long) /\ Len(From(plain, 0)) = Len(plain) - 0
              /\ \A j \in 1..(Len(plain) - 0) : From(plain, 0)[j] = plain[0 + j]
          BY <3>6, <4>1, PartOf DEF From
        <4>3. Len(plain) - 0 = Len(plain) /\ \A j \in 1..Len(plain) : 0 + j = j
          BY <3>6
        <4> QED BY <3>6, <4>2, <4>3, SeqEqual
      <3>8. PacketEnd(v + 0) > v + Len(plain)
        <4>1. LenAt(plain, 0) = None
          BY <3>4, <3>7 DEF LenAt
        <4>2. \A j \in 1..Len(plain) : plain[j] = conf.stream[v + j]
          BY <2>2, <3>3, <3>6 DEF Buffers
        <4>3. v + Len(plain) <= Len(conf.stream) /\ 0 \in 0..Len(plain) /\ 0 # Len(plain)
          BY <2>3, <3>2, <3>3, <3>6
        <4> QED BY <2>2, <3>6, <4>1, <4>2, <4>3, PacketAt
      <3>9. v + 0 = v /\ v + Len(plain) = read
        BY <3>2, <3>6
      <3> QED BY <3>1, <3>5, <3>8, <3>9
    <2> QED BY <2>5, <2>6
  <1> QED BY <1>1, BridgeInvHolds, PTL

(* A client that ends what it sends gets all of it through, with what      *)
(* flush finds in MsgSplitter, as long as Telegram is there.               *)
THEOREM CleanEndLosesNothing == Spec => []UpComplete
  <1>1. ASSUME BridgeInv PROVE UpComplete
    <2>1. PICK m \in [0..Len(wire) -> 0..read], z \in 0..(Len(conf.stream) + 1) :
            Marks(m) /\ InStep(m) /\ Packets(m, z) /\ Ends(m)
      BY <1>1 DEF BridgeInv
    <2>2. Sent = m[Len(wire)]
      <3>1. TypeOK
        BY <1>1 DEF BridgeInv
      <3>2. Len(wire) \in 0..Len(wire)
        <4>1. Len(wire) \in Nat
          BY <3>1 DEF TypeOK
        <4> QED BY <4>1
      <3> QED BY <2>1, <3>1, <3>2, SentByMarks DEF Sent
    <2> QED BY <2>1, <2>2 DEF UpComplete, Ends, UpEnds, DownEnds, NoCloseYet
  <1> QED BY <1>1, BridgeInvHolds, PTL

(* What Telegram sends reaches the client in its order and up to its       *)
(* CLOSE, unless the client ended or a write came in between.              *)
THEOREM RepliesArrive == Spec => []DownComplete
  <1>1. ASSUME BridgeInv PROVE DownComplete
    <2>1. PICK m \in [0..Len(wire) -> 0..read], z \in 0..(Len(conf.stream) + 1) :
            Marks(m) /\ InStep(m) /\ Packets(m, z) /\ Ends(m)
      BY <1>1 DEF BridgeInv
    <2>2. TypeOK /\ Received
      BY <1>1 DEF BridgeInv
    <2>3. /\ DOMAIN delivered = 1..Len(delivered) /\ DOMAIN conf.replies = 1..Len(conf.replies)
          /\ inbox \in 0..Len(conf.replies) /\ Len(conf.replies) \in Nat /\ inbox \in Nat
      BY <2>2, ConfFacts DEF TypeOK
    <2>4. ASSUME bridge = "done", ~cancelled, client = "open", ~Stopped,
                 telegram \in (IF conf.kind = "tcp" \/ read = 0 THEN {"open", "eof"} ELSE {"open"}),
                 NEW i \in DOMAIN conf.replies, conf.replies[i] = "data", \A j \in 1..i : conf.replies[j] # "close"
          PROVE  i \in Range(delivered)
      <3>1. i \in 1..inbox
        <4> SUFFICES ASSUME i \notin 1..inbox PROVE FALSE
          OBVIOUS
        <4>1. inbox < i /\ \A j \in 1..inbox : j \in 1..i
          BY <2>3, <2>4
        <4>2. NoCloseYet
          BY <2>4, <4>1 DEF NoCloseYet
        <4>3. inbox # Len(conf.replies)
          BY <2>3, <2>4, <4>1
        <4>4. UpEnds(m) \/ DownEnds
          BY <2>1, <2>4 DEF Ends
        <4>5. telegram \in {"open", "eof"} /\ (telegram = "eof" => conf.kind # "ws" \/ ~(read > 0))
          BY <2>4
        <4> QED BY <2>4, <4>2, <4>3, <4>4, <4>5 DEF UpEnds, DownEnds
      <3>2. PICK k \in 1..Len(delivered) : delivered[k] = i
        BY <2>2, <2>4, <3>1 DEF Received
      <3> QED BY <2>3, <3>2 DEF Range
    <2> QED BY <2>2, <2>3, <2>4 DEF DownComplete, Received
  <1> QED BY <1>1, BridgeInvHolds, PTL

(* tcp_to_ws, ws_to_tcp and the close of the bridge write to one           *)
(* WebSocket, and nothing follows a CLOSE frame on it.                     *)
THEOREM CloseIsLast == Spec => []NothingAfterClose
  <1>1. ASSUME BridgeInv PROVE NothingAfterClose
    <2>1. DOMAIN wire = 1..Len(wire)
      BY <1>1 DEF BridgeInv, TypeOK
    <2> QED BY <1>1, <2>1 DEF BridgeInv, Closing, NothingAfterClose
  <1> QED BY <1>1, BridgeInvHolds, PTL
=============================================================================
