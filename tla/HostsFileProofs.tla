-------------------------- MODULE HostsFileProofs --------------------------
(***************************************************************************)
(* For any number of calls of zapret-hosts.sh at once, of which one at a   *)
(* time applies and the others remove, for any number of calls, kills and  *)
(* edits: the script leaves one whole block or none unless it was killed,  *)
(* no line of the user is lost then, and a call that runs by itself does   *)
(* what it says, also after a kill, and leaves all empty lines there.      *)
(*                                                                         *)
(* At every moment the file is lines of the user and empty lines, the      *)
(* first w lines of a block, and lines of the user again (Shape).  How     *)
(* long the block is says the place of the one process that writes it      *)
(* (Writing); a copy that a sed -i is about to put in the place of the     *)
(* file has no line of a block, for the range of a torn block goes to the  *)
(* end (Copies).                                                           *)
(***************************************************************************)
EXTENDS HostsFile, FiniteSetTheorems, FunctionTheorems, TLAPS

(* No two calls of zapret-hosts.sh apply at once: the service is the one   *)
(* that does.  (Two that do leave lines behind, as a run shows.)           *)
OneApplier == \A p, q \in Proc : "apply" \in Ops[p] /\ "apply" \in Ops[q] => p = q

Appending == {"lists", "blank", "begin", "entry", "end", "fix"}

Roles ==
  \A p \in Proc :
    /\ op[p] = "apply" => "apply" \in Ops[p]
    /\ pc[p] \in Appending => op[p] = "apply"
    /\ attached[p] => pc[p] \in Appending \ {"lists"}

Copies ==
  \A p \in Proc : pc[p] = "rename" =>
    /\ \A i \in 1..Len(copy[p]) : copy[p][i] \in Outside
    /\ kills = 0 => Count(copy[p], "user") = 1 + edits
    /\ last # "none" => Count(copy[p], "blank") = blanks

(* The lines b + 1 to b + w are the beginning of a block, and nobody has   *)
(* written an empty line behind it.                                        *)
Shape(b, w) ==
  /\ b + w <= Len(hosts)
  /\ \A i \in 1..Len(hosts) : i <= b \/ i > b + w => hosts[i] \in Outside
  /\ w >= 1 => \A i \in 1..Len(hosts) : i > b + w => hosts[i] = "user"
  /\ w >= 1 => hosts[b + 1] = "begin"
  /\ w >= 2 => hosts[b + 2] = "entry"
  /\ w = 3 => hosts[b + 3] = "end"

(* The one that applies, and what it has written by now, unless somebody   *)
(* renamed a copy over it.                                                 *)
Writing(b, w) ==
  /\ \A p \in Proc : op[p] = "apply" =>
       /\ pc[p] = "restore" \/ (pc[p] \in Appending /\ ~attached[p]) => w = 0
       /\ attached[p] => /\ pc[p] \in {"blank", "begin"} => w = 0
                         /\ pc[p] = "entry" => w = 1 /\ Len(hosts) = b + w
                         /\ pc[p] = "end" => w = 2 /\ Len(hosts) = b + w
                         /\ pc[p] = "fix" => w = 3
  /\ kills = 0 =>
       /\ UserLines = 1 + edits
       /\ w \in {1, 2} => \E p \in Proc : op[p] = "apply" /\ pc[p] \in {"entry", "end"} /\ attached[p]

(* A call that runs by itself; it has written its empty line, or not yet.  *)
Before == {"grep", "sed", "rename", "restore", "lists", "blank"}

Alone(w) ==
  last # "none" =>
    /\ \A p, q \in Proc : pc[p] # "idle" /\ pc[q] # "idle" => p = q
    /\ \A p \in Proc :
         /\ pc[p] # "idle" => op[p] = IF last = "remove" THEN "remove" ELSE "apply"
         /\ pc[p] \in Appending \ {"lists"} /\ last = "apply" => attached[p]
         /\ pc[p] = "restore" => w = 0
         /\ last = "empty" => pc[p] \in {"idle", "fix"}
         /\ pc[p] \in Before => BlankLines = blanks
         /\ pc[p] \in Appending \ Before /\ last = "apply" => BlankLines = blanks + 1
    /\ last = "empty" => w = 0 /\ BlankLines = blanks
    /\ Quiet /\ last = "remove" => w = 0 /\ BlankLines = blanks
    /\ Quiet /\ last = "apply" => w = 3 /\ BlankLines = blanks + 1
    /\ Quiet /\ last # "remove" => nss # "resolve"

Fits(b, w) == Shape(b, w) /\ Writing(b, w) /\ Alone(w)

FileInv == TypeOK /\ Roles /\ Copies /\ \E b \in 0..Len(hosts), w \in 0..3 : Fits(b, w)

USE DEF Goto

-----------------------------------------------------------------------------
(* What sed '/START/,/END/d' leaves of such a file. *)
LEMMA DeletedLines ==
  ASSUME TypeOK, NEW b \in 0..Len(hosts), NEW w \in 0..3, Shape(b, w), NEW i \in 1..Len(hosts)
  PROVE  Deleted(i) <=> w >= 1 /\ i > b /\ (w = 3 => i <= b + 3)
  <1>0. Len(hosts) \in Nat
    BY DEF TypeOK
  <1>1. \A k \in 1..Len(hosts) : hosts[k] = "begin" <=> w >= 1 /\ k = b + 1
    BY <1>0 DEF Shape, Outside
  <1>2. \A k \in 1..Len(hosts) : hosts[k] = "end" <=> w = 3 /\ k = b + 3
    BY <1>0 DEF Shape, Outside
  <1>3. ASSUME Deleted(i) PROVE w >= 1 /\ i > b /\ (w = 3 => i <= b + 3)
    <2>1. PICK k \in 1..i : hosts[k] = "begin" /\ \A e \in (k + 1)..(i - 1) : hosts[e] # "end"
      BY <1>3 DEF Deleted
    <2>2. w >= 1 /\ k = b + 1
      BY <1>0, <1>1, <2>1
    <2>3. ASSUME w = 3, i > b + 3 PROVE FALSE
      <3>1. b + 3 \in (k + 1)..(i - 1) /\ b + 3 \in 1..Len(hosts)
        BY <1>0, <2>2, <2>3
      <3> QED BY <1>2, <2>1, <2>3, <3>1
    <2> QED BY <1>0, <2>2, <2>3
  <1>4. ASSUME w >= 1, i > b, w = 3 => i <= b + 3 PROVE Deleted(i)
    <2>1. b + 1 \in 1..i /\ hosts[b + 1] = "begin"
      BY <1>0, <1>1, <1>4
    <2>2. ASSUME NEW e \in (b + 1 + 1)..(i - 1) PROVE hosts[e] # "end"
      <3>1. e \in 1..Len(hosts) /\ ~(w = 3 /\ e = b + 3)
        BY <1>0, <1>4
      <3> QED BY <1>2, <3>1
    <2> QED BY <2>1, <2>2 DEF Deleted
  <1> QED BY <1>3, <1>4

(* The kept lines are the user's and the empty ones, and none of these     *)
(* goes with a whole block.                                                *)
LEMMA KeptLines ==
  ASSUME TypeOK, NEW b \in 0..Len(hosts), NEW w \in 0..3, Shape(b, w)
  PROVE  /\ w = 0 => Kept = 1..Len(hosts)
         /\ w \in {1, 2} => Kept = 1..b
         /\ w = 3 => Kept = (1..Len(hosts)) \ ((b + 1)..(b + 3))
         /\ \A i \in Kept : i \in 1..Len(hosts) /\ hosts[i] \in Outside
  <1>0. Len(hosts) \in Nat /\ DOMAIN hosts = 1..Len(hosts)
    BY DEF TypeOK
  <1>1. \A i \in 1..Len(hosts) : i \in Kept <=> ~(w >= 1 /\ i > b /\ (w = 3 => i <= b + 3))
    BY <1>0, DeletedLines DEF Kept
  <1>2. Kept \subseteq 1..Len(hosts)
    BY <1>0 DEF Kept
  <1>3. CASE w = 0
    <2>1. \A i \in 1..Len(hosts) : i \in Kept
      BY <1>1, <1>3
    <2>2. Kept = 1..Len(hosts)
      BY <1>2, <2>1
    <2> QED BY <1>0, <1>3, <2>2 DEF Shape
  <1>4. CASE w = 3
    <2>1. \A i \in 1..Len(hosts) : i \in Kept <=> i \notin (b + 1)..(b + 3)
      BY <1>0, <1>1, <1>4
    <2>2. Kept = (1..Len(hosts)) \ ((b + 1)..(b + 3))
      BY <1>2, <2>1
    <2>3. \A i \in Kept : i \in 1..Len(hosts) /\ hosts[i] \in Outside
      BY <1>0, <1>4, <2>2 DEF Shape
    <2> QED BY <1>4, <2>2, <2>3
  <1>5. CASE w \in {1, 2}
    <2>1. \A i \in 1..Len(hosts) : i \in Kept <=> i <= b
      BY <1>0, <1>1, <1>5
    <2>2. Kept = 1..b
      <3>1. \A i \in 1..b : i \in 1..Len(hosts)
        BY <1>0
      <3>2. \A i \in Kept : i \in 1..b
        BY <1>0, <1>2, <2>1
      <3>3. \A i \in 1..b : i \in Kept
        BY <1>0, <2>1, <3>1
      <3> QED BY <3>2, <3>3
    <2>3. \A i \in Kept : i \in 1..Len(hosts) /\ hosts[i] \in Outside
      BY <1>0, <1>5, <2>2 DEF Shape
    <2> QED BY <1>5, <2>2, <2>3
  <1> QED BY <1>3, <1>4, <1>5

(* The j-th of the kept lines is there, and there are as many as it takes. *)
LEMMA Counted ==
  ASSUME TypeOK, NEW b \in 0..Len(hosts), NEW w \in 0..3, Shape(b, w)
  PROVE  /\ Cardinality(Kept) = IF w \in {1, 2} THEN b ELSE Len(hosts) - w
         /\ \A j \in 1..Cardinality(Kept) : \E i \in Kept : Cardinality(Kept \cap (1..i)) = j
  <1>0. Len(hosts) \in Nat
    BY DEF TypeOK
  <1>1. ASSUME NEW n \in Nat PROVE IsFiniteSet(1..n) /\ Cardinality(1..n) = n
    <2>1. IsFiniteSet(1..n) /\ Cardinality(1..n) = IF 1 > n THEN 0 ELSE n - 1 + 1
      BY FS_Interval, 1 \in Int, n \in Int
    <2> QED BY <2>1
  <1>2. ASSUME NEW n \in 0..Len(hosts), Kept = 1..n
        PROVE  /\ Cardinality(Kept) = n
               /\ \A j \in 1..Cardinality(Kept) : \E i \in Kept : Cardinality(Kept \cap (1..i)) = j
    <2>1. n \in Nat /\ Cardinality(Kept) = n
      BY <1>0, <1>1, <1>2
    <2>2. ASSUME NEW j \in 1..n PROVE j \in Kept /\ Cardinality(Kept \cap (1..j)) = j
      <3>1. Kept \cap (1..j) = 1..j /\ j \in Nat
        BY <1>0, <1>2
      <3>2. Cardinality(1..j) = j
        BY <1>1, <3>1
      <3> QED BY <1>2, <3>1, <3>2
    <2> QED BY <2>1, <2>2
  <1>3. CASE w # 3
    <2>1. CASE w \in {1, 2}
      BY <1>2, <2>1, KeptLines
    <2>2. CASE w = 0
      <3>1. Kept = 1..Len(hosts) /\ Len(hosts) \in 0..Len(hosts)
        BY <1>0, <2>2, KeptLines
      <3>2. Len(hosts) - w = Len(hosts) /\ w \notin {1, 2}
        BY <1>0, <2>2
      <3>3. /\ Cardinality(Kept) = Len(hosts)
            /\ \A j \in 1..Cardinality(Kept) : \E i \in Kept : Cardinality(Kept \cap (1..i)) = j
        BY <1>2, <3>1
      <3> QED BY <3>2, <3>3
    <2>3. w \in {1, 2} \/ w = 0
      BY <1>3
    <2> QED BY <2>1, <2>2, <2>3
  <1>4. CASE w = 3
    <2>1. Kept = (1..Len(hosts)) \ ((b + 1)..(b + 3))
      BY <1>4, KeptLines
    <2>2. b + 3 <= Len(hosts)
      BY <1>0, <1>4 DEF Shape
    <2>3. ASSUME NEW n \in Nat, b + 3 <= n
          PROVE  Cardinality((1..n) \ ((b + 1)..(b + 3))) = n - 3
      <3> DEFINE S == 1..n
                 T == (b + 1)..(b + 3)
      <3>1. S \cap T = T
        BY <1>0, <2>3
      <3>2. Cardinality(T) = IF b + 1 > b + 3 THEN 0 ELSE (b + 3) - (b + 1) + 1
        BY <1>0, FS_Interval, b + 1 \in Int, b + 3 \in Int
      <3>3. IsFiniteSet(S) /\ Cardinality(S) = n
        BY <1>1
      <3>4. Cardinality(T) = 3
        BY <1>0, <3>2
      <3> HIDE DEF S, T
      <3>5. Cardinality(S \ T) = Cardinality(S) - Cardinality(S \cap T)
        BY <3>3, FS_Difference
      <3>6. Cardinality(S \ T) = n - 3
        BY <3>1, <3>3, <3>4, <3>5
      <3> QED BY <3>6 DEF S, T
    <2>4. Cardinality(Kept) = Len(hosts) - 3
      BY <1>0, <2>1, <2>2, <2>3
    <2>5. ASSUME NEW j \in 1..(Len(hosts) - 3)
          PROVE  \E i \in Kept : Cardinality(Kept \cap (1..i)) = j
      <3>1. CASE j <= b
        <4>1. Kept \cap (1..j) = 1..j /\ j \in Kept /\ j \in Nat
          BY <1>0, <2>1, <3>1
        <4>2. Cardinality(1..j) = j
          BY <1>1, <4>1
        <4> QED BY <4>1, <4>2
      <3>2. CASE ~(j <= b)
        <4>1. j + 3 \in Kept
          BY <1>0, <2>1, <3>2
        <4>2. Kept \cap (1..(j + 3)) = (1..(j + 3)) \ ((b + 1)..(b + 3))
          BY <1>0, <2>1
        <4>3. Cardinality(Kept \cap (1..(j + 3))) = j
          BY <1>0, <2>3, <3>2, <4>2
        <4> QED BY <4>1, <4>3
      <3> QED BY <3>1, <3>2
    <2>6. w \notin {1, 2} /\ Cardinality(Kept) = Len(hosts) - w
      BY <1>4, <2>4
    <2>7. \A j \in 1..Cardinality(Kept) : \E i \in Kept : Cardinality(Kept \cap (1..i)) = j
      BY <2>4, <2>5
    <2> QED BY <2>6, <2>7
  <1> QED BY <1>3, <1>4

(* Two kept lines are never the j-th both. *)
LEMMA RanksDiffer ==
  ASSUME TypeOK, NEW i \in Kept, NEW k \in Kept,
         Cardinality(Kept \cap (1..i)) = Cardinality(Kept \cap (1..k))
  PROVE  i = k
  <1>1. Kept \subseteq 1..Len(hosts) /\ Len(hosts) \in Nat
    BY DEF Kept, TypeOK
  <1>2. ASSUME NEW x \in Kept, NEW y \in Kept, x < y,
               Cardinality(Kept \cap (1..x)) = Cardinality(Kept \cap (1..y))
        PROVE  FALSE
    <2> DEFINE S == Kept \cap (1..x)
               T == Kept \cap (1..y)
    <2>1. IsFiniteSet(1..y)
      BY <1>1, FS_Interval, 1 \in Int, y \in Int
    <2>2. IsFiniteSet(T)
      BY <2>1, FS_Subset, T \in SUBSET (1..y)
    <2>3. S \in SUBSET T /\ y \in T /\ y \notin S
      BY <1>1, <1>2
    <2>4. Cardinality(T) = Cardinality(S) => T = S
      BY <2>2, <2>3, FS_Subset
    <2> QED BY <1>2, <2>3, <2>4
  <1>3. i \in Int /\ k \in Int
    BY <1>1
  <1>4. ~(i < k) /\ ~(k < i)
    BY <1>2
  <1> QED BY <1>3, <1>4

(* The lines of one kind that are left are the kept ones of that kind. *)
LEMMA CountWithout ==
  ASSUME TypeOK, NEW b \in 0..Len(hosts), NEW w \in 0..3, Shape(b, w), NEW x
  PROVE  Count(Without, x) = Cardinality({i \in Kept : hosts[i] = x})
  <1> DEFINE n == Cardinality(Kept)
             rank(i) == Cardinality(Kept \cap (1..i))
             place(j) == CHOOSE i \in Kept : rank(i) = j
             K == {i \in Kept : hosts[i] = x}
             J == {j \in 1..n : Without[j] = x}
  <1>1. Kept \subseteq 1..Len(hosts) /\ Len(hosts) \in Nat /\ n \in Nat
    <2>1. Len(hosts) \in Nat /\ b + w <= Len(hosts)
      BY DEF TypeOK, Shape
    <2> QED BY <2>1, Counted DEF Kept, TypeOK
  <1>2. IsFiniteSet(Kept)
    <2>1. IsFiniteSet(1..Len(hosts))
      BY <1>1, FS_Interval, 1 \in Int, Len(hosts) \in Int
    <2> QED BY <1>1, <2>1, FS_Subset
  <1>3. \A j \in 1..n : place(j) \in Kept /\ rank(place(j)) = j
    BY Counted
  <1>4. \A i, k \in Kept : rank(i) = rank(k) => i = k
    BY RanksDiffer
  <1>5. ASSUME NEW i \in Kept PROVE rank(i) \in 1..n
    <2> DEFINE S == Kept \cap (1..i)
    <2>1. IsFiniteSet(S) /\ Cardinality(S) <= n
      BY <1>2, FS_Subset, S \in SUBSET Kept
    <2>2. i \in S
      BY <1>1
    <2>3. Cardinality(S) \in Nat /\ Cardinality(S) # 0
      BY <2>1, <2>2, FS_CardinalityType, FS_EmptySet
    <2> QED BY <1>1, <2>1, <2>3
  <1>6. Without = [j \in 1..n |-> hosts[place(j)]]
    BY DEF Without
  <1>7. \A i \in Kept : place(rank(i)) = i
    <2> SUFFICES ASSUME NEW i \in Kept PROVE place(rank(i)) = i
      OBVIOUS
    <2>1. place(rank(i)) \in Kept /\ rank(place(rank(i))) = rank(i)
      BY <1>3, <1>5
    <2> QED BY <1>4, <2>1
  <1> HIDE DEF n, rank, place
  <1>8. \A i \in K : rank(i) \in J
    BY <1>5, <1>6, <1>7
  <1>9. \A j \in J : place(j) \in K /\ rank(place(j)) = j
    BY <1>3, <1>6
  <1>10. PICK f : f = [i \in K |-> rank(i)]
    OBVIOUS
  <1>11. f \in [K -> J] /\ \A i \in K : f[i] = rank(i)
    BY <1>8, <1>10
  <1>12. \A i, k \in K : f[i] = f[k] => i = k
    BY <1>4, <1>11
  <1>13. \A j \in J : \E i \in K : f[i] = j
    BY <1>9, <1>11
  <1> HIDE DEF K, J
  <1>14. f \in Bijection(K, J)
    BY <1>11, <1>12, <1>13, Fun_IsBij
  <1>15. IsFiniteSet(K)
    BY <1>2, FS_Subset, K \in SUBSET Kept DEF K
  <1>16. Cardinality(J) = Cardinality(K)
    BY <1>14, <1>15, FS_Bijection DEF ExistsBijection
  <1>17. DOMAIN Without = 1..n
    BY <1>6
  <1> QED BY <1>16, <1>17 DEF Count, K, J

(* sed takes no empty line, and none of the user's unless some stand       *)
(* behind a torn block.                                                    *)
LEMMA WithoutLines ==
  ASSUME TypeOK, NEW b \in 0..Len(hosts), NEW w \in 0..3, Shape(b, w)
  PROVE  /\ Without \in Seq(Line)
         /\ \A i \in 1..Len(Without) : Without[i] \in Outside
         /\ Count(Without, "blank") = Count(hosts, "blank")
         /\ (w \in {1, 2} => Len(hosts) = b + w) => Count(Without, "user") = Count(hosts, "user")
  <1> DEFINE n == Cardinality(Kept)
             place(j) == CHOOSE i \in Kept : Cardinality(Kept \cap (1..i)) = j
  <1>1. Len(hosts) \in Nat /\ DOMAIN hosts = 1..Len(hosts) /\ b + w <= Len(hosts) /\ n \in Nat
    <2>1. Len(hosts) \in Nat /\ DOMAIN hosts = 1..Len(hosts) /\ b + w <= Len(hosts)
      BY DEF TypeOK, Shape
    <2> QED BY <2>1, Counted
  <1>2. \A j \in 1..n : place(j) \in Kept
    BY Counted
  <1>3. \A j \in 1..n : hosts[place(j)] \in Outside
    BY <1>2, KeptLines
  <1>4. Without = [j \in 1..n |-> hosts[place(j)]]
    BY DEF Without
  <1>5. \A i \in 1..Len(hosts) : i \in Kept <=> ~(w >= 1 /\ i > b /\ (w = 3 => i <= b + 3))
    BY <1>1, DeletedLines DEF Kept
  <1>6. ASSUME NEW i \in 1..Len(hosts), i \notin Kept
        PROVE  /\ hosts[i] # "blank"
               /\ (w \in {1, 2} => Len(hosts) = b + w) => hosts[i] # "user"
    <2>1. w >= 1 /\ i > b /\ (w = 3 => i <= b + 3)
      BY <1>5, <1>6
    <2>2. hosts[b + 1] = "begin" /\ (w >= 2 => hosts[b + 2] = "entry") /\ (w = 3 => hosts[b + 3] = "end")
      BY <2>1 DEF Shape
    <2>3. i > b + w => hosts[i] = "user" /\ w # 3
      BY <1>1, <2>1 DEF Shape
    <2>4. i <= b + w => hosts[i] \notin {"blank", "user"}
      <3>1. ASSUME i <= b + w PROVE i = b + 1 \/ (i = b + 2 /\ w >= 2) \/ (i = b + 3 /\ w = 3)
        BY <1>1, <2>1, <3>1
      <3> QED BY <2>2, <3>1
    <2>5. w \in {1, 2} /\ Len(hosts) = b + w => i <= b + w
      BY <1>1
    <2>6. i <= b + w \/ i > b + w
      BY <1>1
    <2>7. i > b + w => w \in {1, 2}
      BY <2>1, <2>3
    <2> QED BY <1>1, <2>3, <2>4, <2>5, <2>6, <2>7
  <1> HIDE DEF n, place
  <1>7. Without \in [1..n -> Line]
    BY <1>3, <1>4 DEF Line, Outside
  <1>8. Without \in Seq(Line) /\ Len(Without) = n
    BY <1>1, <1>7
  <1>9. \A i \in Kept : i \in 1..Len(hosts)
    BY <1>1 DEF Kept
  <1>10. {i \in Kept : hosts[i] = "blank"} = {i \in DOMAIN hosts : hosts[i] = "blank"}
    BY <1>1, <1>6, <1>9
  <1>11. ASSUME w \in {1, 2} => Len(hosts) = b + w
         PROVE  {i \in Kept : hosts[i] = "user"} = {i \in DOMAIN hosts : hosts[i] = "user"}
    BY <1>1, <1>6, <1>9, <1>11
  <1>12. Count(Without, "blank") = Count(hosts, "blank")
    BY <1>10, CountWithout DEF Count
  <1>13. ASSUME w \in {1, 2} => Len(hosts) = b + w
         PROVE  Count(Without, "user") = Count(hosts, "user")
    BY <1>11, <1>13, CountWithout DEF Count
  <1> QED BY <1>3, <1>4, <1>8, <1>12, <1>13

-----------------------------------------------------------------------------
(* Counting the lines of one kind. *)
LEMMA CountNat ==
  ASSUME NEW lines \in Seq(Line), NEW x
  PROVE  IsFiniteSet({i \in DOMAIN lines : lines[i] = x}) /\ Count(lines, x) \in Nat
  <1>1. DOMAIN lines = 1..Len(lines) /\ Len(lines) \in Nat
    OBVIOUS
  <1>2. IsFiniteSet(1..Len(lines))
    BY <1>1, FS_Interval, 1 \in Int, Len(lines) \in Int
  <1>3. {i \in DOMAIN lines : lines[i] = x} \in SUBSET (1..Len(lines))
    BY <1>1
  <1>4. IsFiniteSet({i \in DOMAIN lines : lines[i] = x})
    BY <1>2, <1>3, FS_Subset
  <1> QED BY <1>4, FS_CardinalityType DEF Count

LEMMA CountAppend ==
  ASSUME NEW lines \in Seq(Line), NEW line \in Line, NEW x
  PROVE  Count(Append(lines, line), x) = Count(lines, x) + IF x = line THEN 1 ELSE 0
  <1> DEFINE more == Append(lines, line)
             S == {i \in DOMAIN lines : lines[i] = x}
             T == {i \in DOMAIN more : more[i] = x}
  <1>1. Len(lines) \in Nat /\ DOMAIN lines = 1..Len(lines) /\ DOMAIN more = 1..(Len(lines) + 1)
    OBVIOUS
  <1>2. (\A i \in 1..Len(lines) : more[i] = lines[i]) /\ more[Len(lines) + 1] = line
    OBVIOUS
  <1>3. PICK n \in Nat : n = Len(lines)
    BY <1>1
  <1> HIDE DEF more
  <1>4. \A i : i \in 1..(n + 1) <=> i \in 1..n \/ i = n + 1
    OBVIOUS
  <1>5. n + 1 \notin S
    BY <1>1, <1>3
  <1>6. IsFiniteSet(S) /\ Count(lines, x) = Cardinality(S) /\ Cardinality(S) \in Nat
    BY CountNat DEF Count
  <1>7. CASE x = line
    <2>1. T = S \cup {n + 1}
      BY <1>1, <1>2, <1>3, <1>4, <1>7
    <2>2. Cardinality(T) = Cardinality(S) + 1
      BY <1>5, <1>6, <2>1, FS_AddElement
    <2> QED BY <1>6, <1>7, <2>2 DEF Count, more
  <1>8. CASE x # line
    <2>1. T = S
      BY <1>1, <1>2, <1>3, <1>4, <1>8
    <2>2. Cardinality(T) = Cardinality(S)
      BY <2>1
    <2>3. Count(more, x) = Cardinality(T)
      BY DEF Count
    <2>4. Count(more, x) = Count(lines, x) + 0
      BY <1>6, <2>2, <2>3
    <2> QED BY <1>8, <2>4 DEF more
  <1> QED BY <1>7, <1>8

-----------------------------------------------------------------------------
(* Every step of a call, one lemma each. *)
LEMMA CallStep ==
  ASSUME OneApplier, FileInv, NEW p \in Proc, Call(p)
  PROVE  FileInv'
  <1>1. PICK b \in 0..Len(hosts), w \in 0..3 : Fits(b, w)
    BY DEF FileInv
  <1>2. PICK o \in Ops[p] : op' = [op EXCEPT ![p] = o]
    BY DEF Call
  <1>3. o \in {"apply", "remove"}
    BY OpsAssumption
  <1>4. TypeOK'
    <2>1. blanks' \in Nat
      BY CountNat DEF FileInv, TypeOK, Call
    <2> QED BY <1>2, <1>3, <2>1, BoundsAssumption DEF FileInv, TypeOK, Call, Pc
  <1>5. Roles' /\ Copies'
    BY <1>2 DEF FileInv, TypeOK, Call, Roles, Copies, Appending, Quiet
  <1>6. Shape(b, w)'
    BY <1>1 DEF Fits, Shape, Call
  <1>7. Writing(b, w)'
    BY <1>1, <1>2 DEF FileInv, Fits, Writing, TypeOK, Roles, Call, Appending, UserLines
  <1>8. Alone(w)'
    BY <1>1, <1>2, <1>3 DEF FileInv, Fits, Alone, TypeOK, Roles, Call, Appending, Before, BlankLines, Quiet
  <1>9. b \in 0..Len(hosts')
    BY DEF Call
  <1> QED BY <1>4, <1>5, <1>6, <1>7, <1>8, <1>9 DEF FileInv, Fits

LEMMA GrepStep ==
  ASSUME OneApplier, FileInv, NEW p \in Proc, Grep(p)
  PROVE  FileInv'
  <1>1. PICK b \in 0..Len(hosts), w \in 0..3 : Fits(b, w)
    BY DEF FileInv
  <1>2. Has("begin") \/ w = 0
    <2>1. Len(hosts) \in Nat /\ DOMAIN hosts = 1..Len(hosts)
      BY DEF FileInv, TypeOK
    <2>2. w >= 1 => b + 1 \in 1..Len(hosts) /\ hosts[b + 1] = "begin"
      BY <1>1, <2>1 DEF Fits, Shape
    <2> QED BY <2>1, <2>2 DEF Has
  <1>3. TypeOK'
    BY DEF FileInv, TypeOK, Grep, Pc
  <1>4. Roles' /\ Copies'
    BY DEF FileInv, TypeOK, Grep, Roles, Copies, Appending
  <1>5. Shape(b, w)'
    BY <1>1 DEF Fits, Shape, Grep
  <1>6. Writing(b, w)'
    BY <1>1, <1>2 DEF FileInv, Fits, Writing, TypeOK, Roles, Grep, Appending, UserLines
  <1>7. Alone(w)'
    BY <1>1, <1>2 DEF FileInv, Fits, Alone, TypeOK, Roles, Grep, Appending, Before, BlankLines, Quiet
  <1>8. b \in 0..Len(hosts')
    BY DEF Grep
  <1> QED BY <1>3, <1>4, <1>5, <1>6, <1>7, <1>8 DEF FileInv, Fits

(* The copy has the empty lines and those of the user, all unless one was  *)
(* killed: half a block is then still being written, at the end.           *)
LEMMA SedStep ==
  ASSUME OneApplier, FileInv, NEW p \in Proc, Sed(p)
  PROVE  FileInv'
  <1>1. PICK b \in 0..Len(hosts), w \in 0..3 : Fits(b, w)
    BY DEF FileInv
  <1>2. /\ Without \in Seq(Line)
        /\ \A i \in 1..Len(Without) : Without[i] \in Outside
        /\ Count(Without, "blank") = BlankLines
        /\ (w \in {1, 2} => Len(hosts) = b + w) => Count(Without, "user") = UserLines
    BY <1>1, WithoutLines DEF FileInv, Fits, BlankLines, UserLines
  <1>3. /\ kills = 0 => Count(Without, "user") = 1 + edits
        /\ last # "none" => Count(Without, "blank") = blanks
    <2>1. kills = 0 => UserLines = 1 + edits /\ (w \in {1, 2} => Len(hosts) = b + w)
      BY <1>1 DEF Fits, Writing
    <2>2. last # "none" => BlankLines = blanks
      BY <1>1 DEF Fits, Alone, Sed, Before
    <2> QED BY <1>2, <2>1, <2>2
  <1>4. TypeOK'
    BY <1>2 DEF FileInv, TypeOK, Sed, Pc
  <1>5. Roles'
    BY DEF FileInv, TypeOK, Sed, Roles, Appending
  <1>6. Copies'
    BY <1>2, <1>3 DEF FileInv, TypeOK, Sed, Copies
  <1>7. Shape(b, w)'
    BY <1>1 DEF Fits, Shape, Sed
  <1>8. Writing(b, w)'
    BY <1>1 DEF FileInv, Fits, Writing, TypeOK, Roles, Sed, Appending, UserLines
  <1>9. Alone(w)'
    BY <1>1 DEF FileInv, Fits, Alone, TypeOK, Roles, Sed, Appending, Before, BlankLines, Quiet
  <1>10. b \in 0..Len(hosts')
    BY DEF Sed
  <1> QED BY <1>4, <1>5, <1>6, <1>7, <1>8, <1>9, <1>10 DEF FileInv, Fits

(* The file is the copy from now on, without a block. *)
LEMMA RenameStep ==
  ASSUME OneApplier, FileInv, NEW p \in Proc, Rename(p)
  PROVE  FileInv'
  <1>1. PICK b \in 0..Len(hosts), w \in 0..3 : Fits(b, w)
    BY DEF FileInv
  <1>2. /\ hosts' \in Seq(Line)
        /\ \A i \in 1..Len(hosts') : hosts'[i] \in Outside
        /\ kills' = 0 => UserLines' = 1 + edits'
        /\ last' # "none" => BlankLines' = blanks'
    BY DEF FileInv, TypeOK, Rename, Copies, UserLines, BlankLines
  <1>3. TypeOK'
    BY <1>2 DEF FileInv, TypeOK, Rename, Pc
  <1>4. Roles' /\ Copies'
    BY DEF FileInv, TypeOK, Rename, Roles, Copies, Appending
  <1>5. Shape(0, 0)'
    BY <1>2, <1>3 DEF TypeOK, Shape
  <1>6. Writing(0, 0)'
    BY <1>2, <1>3 DEF TypeOK, Writing, Rename
  <1>7. Alone(0)'
    BY <1>1, <1>2 DEF FileInv, Fits, Alone, TypeOK, Roles, Rename, Appending, Before, Quiet
  <1>8. 0 \in 0..Len(hosts') /\ 0 \in 0..3
    BY <1>3 DEF TypeOK
  <1> QED BY <1>3, <1>4, <1>5, <1>6, <1>7, <1>8 DEF FileInv, Fits

LEMMA RestoreStep ==
  ASSUME OneApplier, FileInv, NEW p \in Proc, Restore(p)
  PROVE  FileInv'
  <1>1. PICK b \in 0..Len(hosts), w \in 0..3 : Fits(b, w)
    BY DEF FileInv
  <1>2. TypeOK'
    BY DEF FileInv, TypeOK, Restore, Pc, Nss
  <1>3. Roles' /\ Copies'
    BY DEF FileInv, TypeOK, Restore, Roles, Copies, Appending
  <1>4. Shape(b, w)'
    BY <1>1 DEF Fits, Shape, Restore
  <1>5. Writing(b, w)'
    BY <1>1 DEF FileInv, Fits, Writing, TypeOK, Roles, Restore, Appending, UserLines
  <1>6. Alone(w)'
    BY <1>1 DEF FileInv, Fits, Alone, TypeOK, Roles, Restore, Appending, Before, BlankLines, Quiet
  <1>7. b \in 0..Len(hosts')
    BY DEF Restore
  <1> QED BY <1>2, <1>3, <1>4, <1>5, <1>6, <1>7 DEF FileInv, Fits

LEMMA OpenStep ==
  ASSUME OneApplier, FileInv, NEW p \in Proc, Open(p)
  PROVE  FileInv'
  <1>1. PICK b \in 0..Len(hosts), w \in 0..3 : Fits(b, w)
    BY DEF FileInv
  <1>2. TypeOK'
    BY DEF FileInv, TypeOK, Open, Pc
  <1>3. Roles' /\ Copies'
    BY DEF FileInv, TypeOK, Open, Roles, Copies, Appending
  <1>4. Shape(b, w)'
    BY <1>1 DEF Fits, Shape, Open
  <1>5. Writing(b, w)'
    BY <1>1 DEF FileInv, Fits, Writing, TypeOK, Roles, Open, Appending, UserLines
  <1>6. Alone(w)'
    BY <1>1 DEF FileInv, Fits, Alone, TypeOK, Roles, Open, Appending, Before, BlankLines, Quiet
  <1>7. b \in 0..Len(hosts')
    BY DEF Open
  <1> QED BY <1>2, <1>3, <1>4, <1>5, <1>6, <1>7 DEF FileInv, Fits

LEMMA NoEntriesStep ==
  ASSUME OneApplier, FileInv, NEW p \in Proc, NoEntries(p)
  PROVE  FileInv'
  <1>1. PICK b \in 0..Len(hosts), w \in 0..3 : Fits(b, w)
    BY DEF FileInv
  <1>2. TypeOK'
    BY DEF FileInv, TypeOK, NoEntries, Pc
  <1>3. Roles' /\ Copies'
    BY DEF FileInv, TypeOK, NoEntries, Roles, Copies, Appending
  <1>4. Shape(b, w)'
    BY <1>1 DEF Fits, Shape, NoEntries
  <1>5. Writing(b, w)'
    BY <1>1 DEF FileInv, Fits, Writing, TypeOK, Roles, NoEntries, Appending, UserLines
  <1>6. Alone(w)'
    BY <1>1 DEF FileInv, Fits, Writing, Alone, TypeOK, Roles, NoEntries, Appending, Before, BlankLines, Quiet
  <1>7. b \in 0..Len(hosts')
    BY DEF NoEntries
  <1> QED BY <1>2, <1>3, <1>4, <1>5, <1>6, <1>7 DEF FileInv, Fits

(* What is written goes to the end of the file, or nowhere. *)
LEMMA Appended ==
  ASSUME TypeOK, NEW line \in Line, hosts' = Append(hosts, line)
  PROVE  /\ hosts' \in Seq(Line)
         /\ Len(hosts') = Len(hosts) + 1
         /\ \A i \in 1..Len(hosts) : hosts'[i] = hosts[i]
         /\ hosts'[Len(hosts) + 1] = line
         /\ UserLines' = UserLines + IF line = "user" THEN 1 ELSE 0
         /\ BlankLines' = BlankLines + IF line = "blank" THEN 1 ELSE 0
  <1>1. /\ Count(hosts', "user") = Count(hosts, "user") + IF "user" = line THEN 1 ELSE 0
        /\ Count(hosts', "blank") = Count(hosts, "blank") + IF "blank" = line THEN 1 ELSE 0
    BY CountAppend DEF TypeOK
  <1> QED BY <1>1 DEF TypeOK, UserLines, BlankLines

(* A write to a file that a copy has replaced changes nothing here. *)
LEMMA LostWriteStep ==
  ASSUME OneApplier, FileInv, NEW p \in Proc, WriteBlock(p), ~attached[p]
  PROVE  FileInv'
  <1>1. PICK b \in 0..Len(hosts), w \in 0..3 : Fits(b, w)
    BY DEF FileInv
  <1>2. PICK line \in {"blank", "begin", "entry", "end"}, next \in {"begin", "entry", "end", "fix"} :
          Write(p, line, next)
    BY DEF WriteBlock
  <1>3. hosts' = hosts
    BY <1>2 DEF Write
  <1>4. TypeOK'
    BY <1>2, <1>3 DEF FileInv, TypeOK, Write, Pc
  <1>5. Roles' /\ Copies'
    BY <1>2 DEF FileInv, TypeOK, Write, Roles, Copies, Appending
  <1>6. Shape(b, w)'
    BY <1>1, <1>3 DEF Fits, Shape
  <1>7. Writing(b, w)'
    BY <1>1, <1>2, <1>3 DEF FileInv, Fits, Writing, TypeOK, Roles, Write, Appending, UserLines, OneApplier
  <1>8. Alone(w)'
    BY <1>1, <1>2 DEF FileInv, Fits, Alone, TypeOK, Roles, Write, Appending, Before, BlankLines, Quiet
  <1>9. b \in 0..Len(hosts')
    BY <1>3
  <1> QED BY <1>4, <1>5, <1>6, <1>7, <1>8, <1>9 DEF FileInv, Fits

(* The empty line, the block behind it at the end of the file: nobody else *)
(* writes.                                                                 *)
LEMMA WriteStep ==
  ASSUME OneApplier, FileInv, NEW p \in Proc, WriteBlock(p), attached[p]
  PROVE  FileInv'
  <1>1. PICK b \in 0..Len(hosts), w \in 0..3 : Fits(b, w)
    BY DEF FileInv
  <1>2. PICK line \in {"blank", "begin", "entry", "end"}, next \in {"begin", "entry", "end", "fix"} :
          /\ Write(p, line, next)
          /\ \/ line = "blank" /\ next = "begin"
             \/ line = "begin" /\ next = "entry"
             \/ line = "entry" /\ next = "end"
             \/ line = "end" /\ next = "fix"
    BY DEF WriteBlock
  <1>3. hosts' = Append(hosts, line) /\ line \in Line
    BY <1>2 DEF Write, Line
  <1>4. /\ hosts' \in Seq(Line)
        /\ Len(hosts') = Len(hosts) + 1
        /\ \A i \in 1..Len(hosts) : hosts'[i] = hosts[i]
        /\ hosts'[Len(hosts) + 1] = line
    BY <1>3, Appended DEF FileInv
  <1>5. /\ UserLines' = UserLines
        /\ BlankLines' = BlankLines + IF line = "blank" THEN 1 ELSE 0
        /\ UserLines \in Nat /\ BlankLines \in Nat
    <2>1. UserLines \in Nat /\ BlankLines \in Nat
      BY CountNat DEF FileInv, TypeOK, UserLines, BlankLines
    <2>2. /\ UserLines' = UserLines + IF line = "user" THEN 1 ELSE 0
          /\ BlankLines' = BlankLines + IF line = "blank" THEN 1 ELSE 0
      BY <1>3, Appended DEF FileInv
    <2> QED BY <1>2, <2>1, <2>2
  <1>6. Len(hosts) \in Nat /\ Len(hosts') \in Nat
    BY <1>4 DEF FileInv, TypeOK
  <1>7. TypeOK'
    BY <1>2, <1>4 DEF FileInv, TypeOK, Write, Pc
  <1>8. Roles' /\ Copies'
    BY <1>2 DEF FileInv, TypeOK, Write, Roles, Copies, Appending
  <1>9. op[p] = "apply" /\ \A q \in Proc : op[q] = "apply" => q = p
    BY <1>2 DEF FileInv, TypeOK, Roles, Write, Appending, OneApplier
  <1>10. \A v \in 0..3 : (line = "end" => v = 3) => Alone(v)'
    BY <1>1, <1>2, <1>5
    DEF FileInv, Fits, Alone, TypeOK, Roles, Write, Appending, Before, Quiet
  <1>11. PICK m \in Nat : m = Len(hosts)
    BY <1>6
  <1>12. m \in 0..Len(hosts') /\ 0 \in 0..3 /\ 1 \in 0..3
    BY <1>4, <1>11
  <1>13. CASE line = "blank"
    <2>1. w = 0
      BY <1>1, <1>2, <1>9, <1>13 DEF Fits, Writing, Write
    <2>2. Shape(m, 0)'
      BY <1>1, <1>4, <1>6, <1>11, <1>13, <2>1 DEF Fits, Shape, Outside
    <2>3. Writing(m, 0)'
      BY <1>1, <1>2, <1>4, <1>5, <1>9, <1>13, <2>1
      DEF FileInv, TypeOK, Roles, Fits, Writing, Write, Appending
    <2> QED BY <1>7, <1>8, <1>10, <1>12, <1>13, <2>2, <2>3 DEF FileInv, Fits
  <1>14. CASE line = "begin"
    <2>1. w = 0
      BY <1>1, <1>2, <1>9, <1>14 DEF Fits, Writing, Write
    <2>2. Shape(m, 1)'
      BY <1>1, <1>4, <1>6, <1>11, <1>14, <2>1 DEF Fits, Shape
    <2>3. Writing(m, 1)'
      BY <1>1, <1>2, <1>4, <1>5, <1>6, <1>9, <1>11, <1>14, <2>1
      DEF FileInv, TypeOK, Roles, Fits, Writing, Write, Appending
    <2> QED BY <1>7, <1>8, <1>10, <1>12, <1>14, <2>2, <2>3 DEF FileInv, Fits
  <1>15. CASE line \in {"entry", "end"}
    <2>1. w \in {1, 2} /\ Len(hosts) = b + w /\ (w = 1 <=> line = "entry")
      BY <1>1, <1>2, <1>9, <1>15 DEF Fits, Writing, Write
    <2>2. Shape(b, w + 1)'
      BY <1>1, <1>2, <1>4, <1>6, <1>15, <2>1 DEF Fits, Shape
    <2>3. Writing(b, w + 1)'
      BY <1>1, <1>2, <1>4, <1>5, <1>6, <1>9, <1>15, <2>1
      DEF FileInv, TypeOK, Roles, Fits, Writing, Write, Appending
    <2>4. b \in 0..Len(hosts') /\ w + 1 \in 0..3 /\ (line = "end" => w + 1 = 3)
      BY <1>4, <1>6, <1>15, <2>1
    <2> QED BY <1>7, <1>8, <1>10, <2>2, <2>3, <2>4 DEF FileInv, Fits
  <1> QED BY <1>13, <1>14, <1>15

LEMMA FixStep ==
  ASSUME OneApplier, FileInv, NEW p \in Proc, Fix(p)
  PROVE  FileInv'
  <1>1. PICK b \in 0..Len(hosts), w \in 0..3 : Fits(b, w)
    BY DEF FileInv
  <1>2. TypeOK'
    BY DEF FileInv, TypeOK, Fix, Pc, Nss
  <1>3. Roles' /\ Copies'
    BY DEF FileInv, TypeOK, Fix, Roles, Copies, Appending
  <1>4. Shape(b, w)'
    BY <1>1 DEF Fits, Shape, Fix
  <1>5. Writing(b, w)'
    BY <1>1 DEF FileInv, Fits, Writing, TypeOK, Roles, Fix, Appending, UserLines
  <1>6. Alone(w)'
    <2>1. last # "none" => (last = "apply" /\ w = 3) \/ last = "empty"
      BY <1>1 DEF FileInv, Fits, Writing, Alone, TypeOK, Roles, Fix, Appending
    <2> QED BY <1>1, <2>1 DEF FileInv, Fits, Alone, TypeOK, Roles, Fix, Appending, Before, BlankLines, Quiet
  <1>7. b \in 0..Len(hosts')
    BY DEF Fix
  <1> QED BY <1>2, <1>3, <1>4, <1>5, <1>6, <1>7 DEF FileInv, Fits

LEMMA KillStep ==
  ASSUME OneApplier, FileInv, NEW p \in Proc, Kill(p)
  PROVE  FileInv'
  <1>1. PICK b \in 0..Len(hosts), w \in 0..3 : Fits(b, w)
    BY DEF FileInv
  <1>2. TypeOK' /\ kills' # 0
    BY BoundsAssumption DEF FileInv, TypeOK, Kill, Pc
  <1>3. Roles' /\ Copies'
    BY <1>2 DEF FileInv, TypeOK, Kill, Roles, Copies, Appending
  <1>4. Shape(b, w)'
    BY <1>1 DEF Fits, Shape, Kill
  <1>5. Writing(b, w)'
    BY <1>1, <1>2 DEF FileInv, Fits, Writing, TypeOK, Roles, Kill, Appending, UserLines
  <1>6. Alone(w)'
    BY DEF Alone, Kill
  <1>7. b \in 0..Len(hosts')
    BY DEF Kill
  <1> QED BY <1>2, <1>3, <1>4, <1>5, <1>6, <1>7 DEF FileInv, Fits

LEMMA EditStep ==
  ASSUME OneApplier, FileInv, Edit
  PROVE  FileInv'
  <1>1. PICK b \in 0..Len(hosts), w \in 0..3 : Fits(b, w)
    BY DEF FileInv
  <1>2. /\ hosts' \in Seq(Line)
        /\ Len(hosts') = Len(hosts) + 1
        /\ \A i \in 1..Len(hosts) : hosts'[i] = hosts[i]
        /\ hosts'[Len(hosts) + 1] = "user"
        /\ UserLines' = UserLines + 1
        /\ BlankLines' = BlankLines + 0
    <2>1. hosts' = Append(hosts, "user") /\ "user" \in Line
      BY DEF Edit, Line
    <2> QED BY <2>1, Appended DEF FileInv
  <1>3. Len(hosts) \in Nat /\ Len(hosts') \in Nat /\ BlankLines \in Nat
    <2>1. BlankLines \in Nat
      BY CountNat DEF FileInv, TypeOK, BlankLines
    <2> QED BY <1>2, <2>1 DEF FileInv, TypeOK
  <1>4. TypeOK'
    BY <1>2, BoundsAssumption DEF FileInv, TypeOK, Edit
  <1>5. Roles' /\ Copies'
    BY DEF FileInv, TypeOK, Edit, Roles, Copies, Appending, Quiet
  <1>6. Shape(b, w)'
    BY <1>1, <1>2, <1>3 DEF Fits, Shape, Outside
  <1>7. Writing(b, w)'
    BY <1>1, <1>2, <1>3 DEF FileInv, Fits, Writing, TypeOK, Roles, Edit, Appending, Quiet
  <1>8. Alone(w)'
    BY <1>1, <1>2, <1>3 DEF FileInv, Fits, Alone, Edit, Quiet, Before, Appending
  <1>9. b \in 0..Len(hosts')
    BY <1>2, <1>3
  <1> QED BY <1>4, <1>5, <1>6, <1>7, <1>8, <1>9 DEF FileInv, Fits

LEMMA FileInvInit ==
  ASSUME Init
  PROVE  FileInv
  <1>1. hosts = <<"user">> /\ Len(hosts) = 1 /\ hosts[1] = "user"
    BY DEF Init
  <1>2. TypeOK
    BY <1>1, BoundsAssumption DEF Init, TypeOK, Line, Pc
  <1>3. Roles /\ Copies
    BY DEF Init, Roles, Copies, Appending
  <1>4. Shape(0, 0)
    BY <1>1 DEF Shape, Outside
  <1>5. Writing(0, 0)
    <2>1. {i \in DOMAIN hosts : hosts[i] = "user"} = {1}
      BY <1>1
    <2>2. UserLines = 1
      BY <2>1, FS_Singleton DEF UserLines, Count
    <2> QED BY <1>1, <2>2 DEF Init, Writing, Appending
  <1>6. Alone(0)
    BY DEF Init, Alone
  <1>7. 0 \in 0..Len(hosts) /\ 0 \in 0..3
    BY <1>1
  <1> QED BY <1>2, <1>3, <1>4, <1>5, <1>6, <1>7 DEF FileInv, Fits

LEMMA FileInvNext ==
  ASSUME OneApplier, FileInv, [Next]_vars
  PROVE  FileInv'
  <1>1. ASSUME NEW p \in Proc, Call(p) PROVE FileInv'
    BY <1>1, CallStep
  <1>2. ASSUME NEW p \in Proc, Grep(p) PROVE FileInv'
    BY <1>2, GrepStep
  <1>3. ASSUME NEW p \in Proc, Sed(p) PROVE FileInv'
    BY <1>3, SedStep
  <1>4. ASSUME NEW p \in Proc, Rename(p) PROVE FileInv'
    BY <1>4, RenameStep
  <1>5. ASSUME NEW p \in Proc, Restore(p) PROVE FileInv'
    BY <1>5, RestoreStep
  <1>6. ASSUME NEW p \in Proc, Open(p) PROVE FileInv'
    BY <1>6, OpenStep
  <1>7. ASSUME NEW p \in Proc, NoEntries(p) PROVE FileInv'
    BY <1>7, NoEntriesStep
  <1>8. ASSUME NEW p \in Proc, WriteBlock(p) PROVE FileInv'
    BY <1>8, WriteStep, LostWriteStep
  <1>9. ASSUME NEW p \in Proc, Fix(p) PROVE FileInv'
    BY <1>9, FixStep
  <1>10. ASSUME NEW p \in Proc, Kill(p) PROVE FileInv'
    BY <1>10, KillStep
  <1>11. ASSUME Edit PROVE FileInv'
    BY <1>11, EditStep
  <1>12. ASSUME UNCHANGED vars PROVE FileInv'
    <2>1. PICK b \in 0..Len(hosts), w \in 0..3 : Fits(b, w)
      BY DEF FileInv
    <2>2. TypeOK' /\ Roles' /\ Copies'
      BY <1>12 DEF vars, FileInv, TypeOK, Roles, Copies
    <2>3. Fits(b, w)' /\ b \in 0..Len(hosts')
      BY <1>12, <2>1 DEF vars, Fits, Shape, Writing, Alone, Quiet, UserLines, BlankLines
    <2> QED BY <2>2, <2>3 DEF FileInv
  <1> QED BY <1>1, <1>2, <1>3, <1>4, <1>5, <1>6, <1>7, <1>9, <1>10, <1>11, <1>12, <1>8
     DEF Next

LEMMA FileInvHolds == OneApplier => (Spec => []FileInv)
  <1> SUFFICES ASSUME OneApplier PROVE Spec => []FileInv
    OBVIOUS
  <1>1. Init => FileInv
    BY FileInvInit
  <1>2. FileInv /\ [Next]_vars => FileInv'
    BY FileInvNext
  <1> QED BY <1>1, <1>2, PTL DEF Spec

-----------------------------------------------------------------------------
(* What it means for the file when no call is under way. *)
LEMMA WholeOrNothing ==
  ASSUME TypeOK, NEW b \in 0..Len(hosts), NEW w \in 0..3, Shape(b, w)
  PROVE  /\ w = 0 => NoBlock
         /\ w = 3 => OneBlock
  <1>1. Len(hosts) \in Nat /\ DOMAIN hosts = 1..Len(hosts)
    BY DEF TypeOK
  <1>2. ASSUME w = 0 PROVE NoBlock
    BY <1>1, <1>2 DEF Shape, NoBlock, Outside
  <1>3. ASSUME w = 3 PROVE OneBlock
    <2>1. b \in 0..Len(hosts) - 3
      BY <1>1, <1>3 DEF Shape
    <2>2. ASSUME NEW i \in DOMAIN hosts
          PROVE  IF i \in b + 1..b + 3 THEN hosts[i] = Block[i - b] ELSE hosts[i] \in Outside
      <3>1. CASE i \in b + 1..b + 3
        <4>1. i = b + 1 \/ i = b + 2 \/ i = b + 3
          BY <1>1, <3>1
        <4>2. Block[(b + 1) - b] = "begin" /\ Block[(b + 2) - b] = "entry" /\ Block[(b + 3) - b] = "end"
          BY <1>1 DEF Block
        <4>3. hosts[b + 1] = "begin" /\ hosts[b + 2] = "entry" /\ hosts[b + 3] = "end"
          BY <1>3 DEF Shape
        <4> QED BY <3>1, <4>1, <4>2, <4>3
      <3>2. CASE i \notin b + 1..b + 3
        BY <1>1, <1>3, <3>2 DEF Shape
      <3> QED BY <3>1, <3>2
    <2> QED BY <2>1, <2>2 DEF OneBlock
  <1> QED BY <1>2, <1>3

(* The script leaves one whole block or no marker and no entry in the file *)
(* when all calls are through and none was killed, whatever removes ran    *)
(* beside the apply.                                                       *)
THEOREM LeavesAllOrNothing == OneApplier => (Spec => []AllOrNothing)
  <1> SUFFICES ASSUME OneApplier PROVE Spec => []AllOrNothing
    OBVIOUS
  <1>1. ASSUME FileInv PROVE AllOrNothing
    <2> SUFFICES ASSUME Quiet, kills = 0 PROVE NoBlock \/ OneBlock
      BY DEF AllOrNothing
    <2>1. PICK b \in 0..Len(hosts), w \in 0..3 : Fits(b, w)
      BY <1>1 DEF FileInv
    <2>2. w \in {0, 3}
      BY <2>1 DEF Fits, Writing, Quiet
    <2> QED BY <1>1, <2>1, <2>2, WholeOrNothing DEF FileInv, Fits
  <1>2. Spec => []FileInv
    BY FileInvHolds
  <1> QED BY <1>1, <1>2, PTL

(* No call that runs through loses a line of the user. *)
THEOREM KeepsUserLines == OneApplier => (Spec => []EditsSurvive)
  <1> SUFFICES ASSUME OneApplier PROVE Spec => []EditsSurvive
    OBVIOUS
  <1>1. ASSUME FileInv PROVE EditsSurvive
    <2> SUFFICES ASSUME Quiet, kills = 0 PROVE UserLines = 1 + edits
      BY DEF EditsSurvive
    <2>1. PICK b \in 0..Len(hosts), w \in 0..3 : Fits(b, w)
      BY <1>1 DEF FileInv
    <2> QED BY <2>1 DEF Fits, Writing
  <1>2. Spec => []FileInv
    BY FileInvHolds
  <1> QED BY <1>1, <1>2, PTL

(* A kill is all that can make a call take lines of the user with it, as   *)
(* long as no two applies overlap: where no call is killed, none is lost.  *)
THEOREM OnlyKillsLoseLines == OneApplier /\ MaxKills = 0 => (Spec => []UserLinesKept)
  <1> SUFFICES ASSUME OneApplier, MaxKills = 0 PROVE Spec => []UserLinesKept
    OBVIOUS
  <1>1. FileInv /\ EditsSurvive => UserLinesKept
    BY DEF FileInv, TypeOK, EditsSurvive, UserLinesKept
  <1> QED BY <1>1, FileInvHolds, KeepsUserLines, PTL

(* A remove that runs by itself takes the block, also when an apply before *)
(* it was killed half way and the block has no end.                        *)
THEOREM RemoveTakesBlock == OneApplier => (Spec => []BlockGone)
  <1> SUFFICES ASSUME OneApplier PROVE Spec => []BlockGone
    OBVIOUS
  <1>1. ASSUME FileInv PROVE BlockGone
    <2> SUFFICES ASSUME Quiet, last = "remove" PROVE NoBlock
      BY DEF BlockGone
    <2>1. PICK b \in 0..Len(hosts), w \in 0..3 : Fits(b, w)
      BY <1>1 DEF FileInv
    <2>2. w = 0
      BY <2>1 DEF Fits, Alone
    <2> QED BY <1>1, <2>1, <2>2, WholeOrNothing DEF FileInv, Fits
  <1>2. Spec => []FileInv
    BY FileInvHolds
  <1> QED BY <1>1, <1>2, PTL

(* An apply that runs by itself puts the entries there once, and in        *)
(* effect, also over what a killed one has left; or nothing, if the lists  *)
(* are empty.                                                              *)
THEOREM ApplyTakesEffect == OneApplier => (Spec => []ApplyEffective)
  <1> SUFFICES ASSUME OneApplier PROVE Spec => []ApplyEffective
    OBVIOUS
  <1>1. ASSUME FileInv PROVE ApplyEffective
    <2> SUFFICES ASSUME Quiet, last \in {"apply", "empty"}
                 PROVE  nss # "resolve" /\ IF last = "apply" THEN OneBlock ELSE NoBlock
      BY DEF ApplyEffective
    <2>1. PICK b \in 0..Len(hosts), w \in 0..3 : Fits(b, w)
      BY <1>1 DEF FileInv
    <2>2. nss # "resolve" /\ (last = "apply" => w = 3) /\ (last = "empty" => w = 0)
      BY <2>1 DEF Fits, Alone
    <2> QED BY <1>1, <2>1, <2>2, WholeOrNothing DEF FileInv, Fits
  <1>2. Spec => []FileInv
    BY FileInvHolds
  <1> QED BY <1>1, <1>2, PTL

(* A remove takes none of the empty lines, and an apply leaves one more:   *)
(* the file does not come back to what it was.                             *)
THEOREM EmptyLinesStay == OneApplier => (Spec => []OneLineMore)
  <1> SUFFICES ASSUME OneApplier PROVE Spec => []OneLineMore
    OBVIOUS
  <1>1. ASSUME FileInv PROVE OneLineMore
    <2>1. PICK b \in 0..Len(hosts), w \in 0..3 : Fits(b, w)
      BY <1>1 DEF FileInv
    <2> QED BY <2>1 DEF Fits, Alone, OneLineMore
  <1>2. Spec => []FileInv
    BY FileInvHolds
  <1> QED BY <1>1, <1>2, PTL
=============================================================================
