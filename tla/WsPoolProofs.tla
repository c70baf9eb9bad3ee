---------------------------- MODULE WsPoolProofs ----------------------------
(***************************************************************************)
(* For every set of keys and connections and every pool size: the pool's   *)
(* structures keep their types, a key has at most one refill under way,    *)
(* and never more connections than pool_size (PoolInv); a connection of    *)
(* the pool has one owner at a time (OwnerInv), and the pool implements    *)
(* ConnLedger, so that no connection is handed out twice, after it went    *)
(* stale, or before its connect has ended.                                 *)
(*                                                                         *)
(* PoolBound alone is not inductive: a refill may add to what is there     *)
(* only because no second refill of the key is under way, and that only    *)
(* because the marker in _refilling and the coroutine come and go          *)
(* together.  PoolInv is the conjunction of the three.                     *)
(*                                                                         *)
(* OneOwner says where a connection is, not what it is.  A get moves it by *)
(* what it is, so the two are one invariant: a deque holds connections     *)
(* that were opened, a client one that is open, and what is closed behind  *)
(* the client's back has been refused as stale (SocketsFit).               *)
(***************************************************************************)
EXTENDS WsPool, SequenceTheorems, TLAPS

PoolInv == TypeOK /\ RefillExclusive /\ PoolBound

-----------------------------------------------------------------------------
(* Scheduling a refill for some keys keeps the marker and the coroutine of *)
(* every key together, and touches no key that is being refilled.          *)
LEMMA ScheduleKeeps ==
  ASSUME PoolInv, NEW K \in SUBSET Key, ScheduleRefill(K)
  PROVE  /\ refilling' \subseteq Key
         /\ refill' \in [Key -> RefillPc]
         /\ \A k \in Key : /\ k \in refilling' <=> refill'[k] # "none"
                           /\ refill'[k] = "running" <=> refill[k] = "running"
  BY DEF PoolInv, TypeOK, RefillExclusive, ScheduleRefill, RefillPc

(* The end of a coroutine frees its key and no other. *)
LEMMA ReleaseKeeps ==
  ASSUME PoolInv, NEW k \in Key, Release(k)
  PROVE  /\ refilling' \subseteq Key
         /\ refill' \in [Key -> RefillPc]
         /\ \A l \in Key : l \in refilling' <=> refill'[l] # "none"
         /\ refill'[k] = "none"
         /\ \A l \in Key \ {k} : refill'[l] = refill[l]
  BY DEF PoolInv, TypeOK, RefillExclusive, Release, RefillPc

(* A get takes the first n + 1 connections of a bucket, or all of them:    *)
(* what stays is a sequence of connections and no longer than before.      *)
LEMMA TailOf ==
  ASSUME NEW s \in Seq(Conn), NEW m \in 1..Len(s)
  PROVE  /\ SubSeq(s, m + 1, Len(s)) \in Seq(Conn)
         /\ Len(SubSeq(s, m + 1, Len(s))) <= Len(s)
  OBVIOUS

(* A bucket that has not grown leaves the bound where it was. *)
LEMMA NoLonger ==
  ASSUME NEW a \in Nat, NEW b \in Nat, NEW t \in Nat, a <= b, b + t <= PoolSize
  PROVE  a + t <= PoolSize
  BY PoolSizeAssumption

(* What leaves the tasks may enter the bucket. *)
LEMMA MovesOver ==
  ASSUME NEW a \in Nat, NEW b \in Nat, NEW t \in Nat, NEW u \in Nat,
         a <= b + 1, u = t - 1, b + t <= PoolSize
  PROVE  a + u <= PoolSize
  BY PoolSizeAssumption

(* Nothing is left after the only task, and after no other. *)
LEMMA LastTask ==
  ASSUME NEW s \in Seq(Conn), s # <<>>
  PROVE  Len(s) = 1 <=> Tail(s) = <<>>
  <1>1. Tail(s) \in Seq(Conn) /\ Len(Tail(s)) = Len(s) - 1 /\ Len(s) \in Nat
    OBVIOUS
  <1>2. Tail(s) = <<>> <=> Len(Tail(s)) = 0
    BY <1>1, EmptySeq
  <1> QED BY <1>1, <1>2

LEMMA InitPoolInv == Init => PoolInv
  <1> SUFFICES ASSUME Init PROVE PoolInv
    OBVIOUS
  <1>1. TypeOK
    <2>1. <<>> \in Seq(Conn)
      OBVIOUS
    <2>2. idle \in [Key -> Seq(Conn)] /\ tasks \in [Key -> Seq(Conn)]
      BY <2>1 DEF Init
    <2>3. refill \in [Key -> RefillPc] /\ sock \in [Conn -> SockState]
      BY DEF Init, RefillPc, SockState
    <2> QED BY <2>2, <2>3 DEF Init, TypeOK
  <1>2. RefillExclusive
    BY DEF Init, RefillExclusive
  <1>3. \A k \in Key : idle[k] = <<>> /\ tasks[k] = <<>>
    BY DEF Init
  <1>4. PoolBound
    <2>1. Len(<<>>) + Len(<<>>) <= PoolSize
      BY PoolSizeAssumption
    <2> QED BY <1>3, <2>1, Zenon DEF PoolBound
  <1> QED BY <1>1, <1>2, <1>4 DEF PoolInv

LEMMA WarmupStep == PoolInv /\ Warmup => PoolInv'
  <1> SUFFICES ASSUME PoolInv, Warmup PROVE PoolInv'
    OBVIOUS
  <1>1. ScheduleRefill(Key) /\ UNCHANGED <<idle, tasks, sock, lent, closing>> /\ warm' = TRUE
    BY DEF Warmup
  <1>2. TypeOK'
    BY <1>1, ScheduleKeeps DEF PoolInv, TypeOK
  <1>3. RefillExclusive'
    BY <1>1, ScheduleKeeps DEF PoolInv, RefillExclusive
  <1>4. PoolBound'
    BY <1>1 DEF PoolInv, PoolBound
  <1> QED BY <1>2, <1>3, <1>4 DEF PoolInv

LEMMA GetHitStep ==
  ASSUME PoolInv, NEW k \in Key, GetHit(k)
  PROVE  PoolInv'
  <1>1. PICK n \in 0..(Len(idle[k]) - 1) :
          /\ Evict(k, n)
          /\ lent' = lent \cup {idle[k][n + 1]}
          /\ idle' = [idle EXCEPT ![k] = SubSeq(@, n + 2, Len(@))]
    BY DEF GetHit
  <1>2. ScheduleRefill({k}) /\ UNCHANGED <<warm, tasks, sock>>
    BY DEF GetHit
  <1>3. idle[k] \in Seq(Conn) /\ Len(idle[k]) \in Nat /\ n + 1 \in 1..Len(idle[k])
    BY DEF PoolInv, TypeOK
  <1>4. /\ idle'[k] \in Seq(Conn)
        /\ Len(idle'[k]) <= Len(idle[k])
        /\ idle' \in [Key -> Seq(Conn)]
        /\ \A l \in Key \ {k} : idle'[l] = idle[l]
    <2>1. idle'[k] = SubSeq(idle[k], (n + 1) + 1, Len(idle[k]))
      BY <1>1, <1>3 DEF PoolInv, TypeOK
    <2>2. idle'[k] \in Seq(Conn) /\ Len(idle'[k]) <= Len(idle[k])
      BY <2>1, <1>3, TailOf
    <2> QED BY <2>2, <1>1 DEF PoolInv, TypeOK
  <1>5. lent' \subseteq Conn /\ closing' \subseteq Conn
    <2>1. \A i \in 1..(n + 1) : idle[k][i] \in Conn
      BY <1>3
    <2> QED BY <2>1, <1>1 DEF PoolInv, TypeOK, Evict
  <1>6. TypeOK'
    BY <1>2, <1>4, <1>5, ScheduleKeeps DEF PoolInv, TypeOK
  <1>7. RefillExclusive'
    BY <1>2, ScheduleKeeps DEF PoolInv, RefillExclusive
  <1>8. PoolBound'
    <2> SUFFICES ASSUME NEW l \in Key
                 PROVE  Len(idle'[l]) + Len(tasks'[l]) <= PoolSize
      BY DEF PoolBound
    <2>1. Len(idle[l]) + Len(tasks[l]) <= PoolSize /\ tasks'[l] = tasks[l]
      BY <1>2 DEF PoolInv, PoolBound
    <2>2. idle[l] \in Seq(Conn) /\ idle'[l] \in Seq(Conn) /\ tasks[l] \in Seq(Conn)
      BY <1>4 DEF PoolInv, TypeOK
    <2>3. Len(idle'[l]) <= Len(idle[l])
      BY <1>4, <2>2
    <2>4. Len(idle'[l]) \in Nat /\ Len(idle[l]) \in Nat /\ Len(tasks[l]) \in Nat
      BY <2>2
    <2>5. Len(idle'[l]) + Len(tasks[l]) <= PoolSize
      BY <2>1, <2>3, <2>4, NoLonger
    <2> QED BY <2>1, <2>5
  <1> QED BY <1>6, <1>7, <1>8 DEF PoolInv

LEMMA GetMissStep ==
  ASSUME PoolInv, NEW k \in Key, GetMiss(k)
  PROVE  PoolInv'
  <1>1. ScheduleRefill({k}) /\ UNCHANGED <<warm, tasks, sock, lent>>
    BY DEF GetMiss
  <1>2. /\ idle' = [idle EXCEPT ![k] = <<>>]
        /\ closing' = closing \cup {idle[k][i] : i \in 1..Len(idle[k])}
    BY DEF GetMiss, Evict
  <1>3. idle[k] \in Seq(Conn)
    BY DEF PoolInv, TypeOK
  <1>4. TypeOK'
    <2>1. \A i \in 1..Len(idle[k]) : idle[k][i] \in Conn
      BY <1>3
    <2>2. closing' \subseteq Conn
      BY <1>2, <2>1 DEF PoolInv, TypeOK
    <2>3. idle' \in [Key -> Seq(Conn)]
      BY <1>2 DEF PoolInv, TypeOK
    <2> QED BY <1>1, <2>2, <2>3, ScheduleKeeps DEF PoolInv, TypeOK
  <1>5. RefillExclusive'
    BY <1>1, ScheduleKeeps DEF PoolInv, RefillExclusive
  <1>6. PoolBound'
    <2> SUFFICES ASSUME NEW l \in Key
                 PROVE  Len(idle'[l]) + Len(tasks'[l]) <= PoolSize
      BY DEF PoolBound
    <2>1. Len(idle[l]) + Len(tasks[l]) <= PoolSize /\ tasks'[l] = tasks[l]
      BY <1>1 DEF PoolInv, PoolBound
    <2>2. idle[l] \in Seq(Conn) /\ tasks[l] \in Seq(Conn)
      BY DEF PoolInv, TypeOK
    <2>3. idle'[l] = idle[l] \/ idle'[l] = <<>>
      BY <1>2 DEF PoolInv, TypeOK
    <2>4. Len(<<>>) = 0 /\ Len(idle[l]) \in Nat /\ Len(tasks[l]) \in Nat
      BY <2>2
    <2>5. CASE idle'[l] = idle[l]
      BY <2>1, <2>5
    <2>6. CASE idle'[l] = <<>>
      <3>1. Len(idle'[l]) \in Nat /\ Len(idle'[l]) <= Len(idle[l])
        BY <2>4, <2>6
      <3>2. Len(idle'[l]) + Len(tasks[l]) <= PoolSize
        BY <3>1, <2>1, <2>4, NoLonger
      <3> QED BY <3>2, <2>1
    <2> QED BY <2>3, <2>5, <2>6
  <1> QED BY <1>4, <1>5, <1>6 DEF PoolInv

LEMMA RefillStartStep ==
  ASSUME PoolInv, NEW k \in Key, RefillStart(k)
  PROVE  PoolInv'
  <1> DEFINE N == Needed(k)
  <1>1. refill[k] = "scheduled" /\ UNCHANGED <<warm, idle, lent, closing>>
    BY DEF RefillStart
  <1>2. /\ idle[k] \in Seq(Conn) /\ Len(idle[k]) \in Nat
        /\ tasks[k] = <<>> /\ k \in refilling
    BY <1>1 DEF PoolInv, TypeOK, RefillExclusive
  <1>3. CASE N <= 0
    <2>1. Release(k) /\ UNCHANGED <<tasks, sock>>
      BY <1>3 DEF RefillStart
    <2>2. TypeOK'
      BY <1>1, <2>1, ReleaseKeeps DEF PoolInv, TypeOK
    <2>3. RefillExclusive'
      BY <1>1, <1>2, <2>1, ReleaseKeeps DEF PoolInv, RefillExclusive
    <2>4. PoolBound'
      BY <1>1, <2>1 DEF PoolInv, PoolBound
    <2> QED BY <2>2, <2>3, <2>4 DEF PoolInv
  <1>4. CASE ~(N <= 0)
    <2>1. PICK s \in [1..N -> {c \in Conn : sock[c] = "free"}] :
            /\ tasks' = [tasks EXCEPT ![k] = s]
            /\ sock' = [c \in Conn |-> IF c \in Range(s) THEN "connecting"
                                                         ELSE sock[c]]
            /\ refill' = [refill EXCEPT ![k] = "running"]
            /\ UNCHANGED refilling
      BY <1>4 DEF RefillStart
    <2>2. N \in Nat /\ N > 0 /\ N = PoolSize - Len(idle[k])
      BY <1>2, <1>4, PoolSizeAssumption DEF Needed
    <2>3. s \in Seq(Conn) /\ Len(s) = N
      BY <2>2
    <2>4. s # <<>>
      BY <2>2, <2>3
    <2>5. TypeOK'
      <3>1. sock' \in [Conn -> SockState]
        BY <2>1 DEF PoolInv, TypeOK, SockState
      <3>2. tasks' \in [Key -> Seq(Conn)]
        BY <2>1, <2>3 DEF PoolInv, TypeOK
      <3>3. refill' \in [Key -> RefillPc]
        BY <2>1 DEF PoolInv, TypeOK, RefillPc
      <3> QED BY <1>1, <2>1, <3>1, <3>2, <3>3 DEF PoolInv, TypeOK
    <2>6. RefillExclusive'
      <3> SUFFICES ASSUME NEW l \in Key
                   PROVE  /\ l \in refilling' <=> refill'[l] # "none"
                          /\ refill'[l] = "running" <=> tasks'[l] # <<>>
        BY DEF RefillExclusive
      <3>1. CASE l = k
        BY <1>2, <2>1, <2>4, <3>1 DEF PoolInv, TypeOK
      <3>2. CASE l # k
        BY <2>1, <3>2 DEF PoolInv, TypeOK, RefillExclusive
      <3> QED BY <3>1, <3>2
    <2>7. PoolBound'
      <3> SUFFICES ASSUME NEW l \in Key
                   PROVE  Len(idle'[l]) + Len(tasks'[l]) <= PoolSize
        BY DEF PoolBound
      <3>1. CASE l = k
        <4>1. idle'[l] = idle[k] /\ tasks'[l] = s
          BY <1>1, <2>1, <3>1 DEF PoolInv, TypeOK
        <4> QED BY <4>1, <2>2, <2>3, <1>2, PoolSizeAssumption
      <3>2. CASE l # k
        <4>1. idle'[l] = idle[l] /\ tasks'[l] = tasks[l]
          BY <1>1, <2>1, <3>2 DEF PoolInv, TypeOK
        <4> QED BY <4>1 DEF PoolInv, PoolBound
      <3> QED BY <3>1, <3>2
    <2> QED BY <2>5, <2>6, <2>7 DEF PoolInv
  <1> QED BY <1>3, <1>4

(* The awaited connection moves from the tasks to the bucket, or is gone:  *)
(* either way the two together do not grow.                                *)
LEMMA RefillAwaitStep ==
  ASSUME PoolInv, NEW k \in Key, RefillAwait(k)
  PROVE  PoolInv'
  <1> DEFINE c == Head(tasks[k])
  <1>1. refill[k] = "running" /\ Keep(k) /\ UNCHANGED <<warm, lent, closing>>
    BY DEF RefillAwait
  <1>2. /\ sock' = [sock EXCEPT ![c] = IF @ = "refused" THEN "free" ELSE @]
        /\ tasks' = [tasks EXCEPT ![k] = Tail(@)]
        /\ IF Len(tasks[k]) = 1 THEN Release(k) ELSE UNCHANGED <<refill, refilling>>
    BY DEF RefillAwait
  <1>3. idle[k] \in Seq(Conn) /\ tasks[k] \in Seq(Conn) /\ tasks[k] # <<>>
    BY <1>1 DEF PoolInv, TypeOK, RefillExclusive
  <1>4. /\ c \in Conn /\ Tail(tasks[k]) \in Seq(Conn)
        /\ Len(tasks[k]) \in Nat /\ Len(Tail(tasks[k])) = Len(tasks[k]) - 1
        /\ Append(idle[k], c) \in Seq(Conn)
        /\ Len(Append(idle[k], c)) = Len(idle[k]) + 1
        /\ Len(idle[k]) \in Nat /\ Len(tasks[k]) >= 1
    BY <1>3
  <1>5. /\ idle' \in [Key -> Seq(Conn)]
        /\ tasks' \in [Key -> Seq(Conn)]
        /\ tasks'[k] = Tail(tasks[k])
        /\ idle'[k] = idle[k] \/ idle'[k] = Append(idle[k], c)
        /\ \A l \in Key \ {k} : idle'[l] = idle[l] /\ tasks'[l] = tasks[l]
    BY <1>1, <1>2, <1>4 DEF Keep, PoolInv, TypeOK
  <1>6. /\ refilling' \subseteq Key
        /\ refill' \in [Key -> RefillPc]
        /\ \A l \in Key : l \in refilling' <=> refill'[l] # "none"
        /\ \A l \in Key \ {k} : refill'[l] = refill[l]
        /\ refill'[k] = IF Len(tasks[k]) = 1 THEN "none" ELSE "running"
    <2>1. CASE Len(tasks[k]) = 1
      BY <1>2, <2>1, ReleaseKeeps
    <2>2. CASE Len(tasks[k]) # 1
      BY <1>1, <1>2, <2>2 DEF PoolInv, TypeOK, RefillExclusive
    <2> QED BY <2>1, <2>2
  <1>7. TypeOK'
    <2>1. sock' \in [Conn -> SockState]
      BY <1>2, <1>4 DEF PoolInv, TypeOK, SockState
    <2> QED BY <2>1, <1>1, <1>5, <1>6 DEF PoolInv, TypeOK
  <1>8. RefillExclusive'
    <2> SUFFICES ASSUME NEW l \in Key
                 PROVE  refill'[l] = "running" <=> tasks'[l] # <<>>
      BY <1>6 DEF RefillExclusive
    <2>1. CASE l = k
      <3>1. Len(tasks[k]) = 1 <=> Tail(tasks[k]) = <<>>
        BY <1>3, LastTask
      <3> QED BY <3>1, <2>1, <1>5, <1>6
    <2>2. CASE l # k
      BY <2>2, <1>5, <1>6 DEF PoolInv, RefillExclusive
    <2> QED BY <2>1, <2>2
  <1>9. PoolBound'
    <2> SUFFICES ASSUME NEW l \in Key
                 PROVE  Len(idle'[l]) + Len(tasks'[l]) <= PoolSize
      BY DEF PoolBound
    <2>1. CASE l = k
      <3>1. Len(idle[k]) + Len(tasks[k]) <= PoolSize
        BY DEF PoolInv, PoolBound
      <3>2. /\ Len(idle'[k]) \in Nat /\ Len(tasks'[k]) \in Nat
            /\ Len(idle'[k]) <= Len(idle[k]) + 1
            /\ Len(tasks'[k]) = Len(tasks[k]) - 1
        BY <1>4, <1>5
      <3>3. Len(idle'[k]) + Len(tasks'[k]) <= PoolSize
        BY <3>1, <3>2, <1>4, MovesOver
      <3> QED BY <3>3, <2>1
    <2>2. CASE l # k
      BY <2>2, <1>5 DEF PoolInv, PoolBound
    <2> QED BY <2>1, <2>2
  <1> QED BY <1>7, <1>8, <1>9 DEF PoolInv

(* The actions that only move a connection between states. *)
LEMMA ConnStep ==
  ASSUME PoolInv, NEW c \in Conn,
         Connected(c) \/ Spoil(c) \/ QuietClose(c) \/ Return(c)
  PROVE  PoolInv'
  <1>1. UNCHANGED <<warm, idle, refilling, refill, tasks>>
    BY DEF Connected, Spoil, QuietClose, Return
  <1>2. sock' \in [Conn -> SockState] /\ lent' \subseteq Conn /\ closing' \subseteq Conn
    BY DEF Connected, Spoil, QuietClose, Return, PoolInv, TypeOK, SockState
  <1> QED BY <1>1, <1>2 DEF PoolInv, TypeOK, RefillExclusive, PoolBound

(* Every step of the pool keeps the invariant. *)
LEMMA NextPoolInv == PoolInv /\ [Next]_vars => PoolInv'
  <1> SUFFICES ASSUME PoolInv, [Next]_vars PROVE PoolInv'
    OBVIOUS
  <1>1. CASE Warmup
    BY <1>1, WarmupStep
  <1>2. CASE \E k \in Key : GetHit(k) \/ GetMiss(k) \/ RefillStart(k) \/ RefillAwait(k)
    BY <1>2, GetHitStep, GetMissStep, RefillStartStep, RefillAwaitStep
  <1>3. CASE \E c \in Conn : Connected(c) \/ Spoil(c) \/ QuietClose(c) \/ Return(c)
    BY <1>3, ConnStep
  <1>4. CASE UNCHANGED vars
    BY <1>4 DEF vars, PoolInv, TypeOK, RefillExclusive, PoolBound
  <1> QED BY <1>1, <1>2, <1>3, <1>4 DEF Next

LEMMA PoolInvariant == Spec => []PoolInv
  BY InitPoolInv, NextPoolInv, PTL DEF Spec

-----------------------------------------------------------------------------
(* The deques, the tasks and the sets of the pool hold connections, and    *)
(* every state is one the code can name.                                   *)
THEOREM TypeCorrect == Spec => []TypeOK
  BY PoolInvariant, PTL DEF PoolInv

(* _schedule_refill never starts a second refill of a key, and never locks *)
(* a key out of refills for good.                                          *)
THEOREM OneRefillPerKey == Spec => []RefillExclusive
  BY PoolInvariant, PTL DEF PoolInv

(* A key holds at most pool_size connections, ready or on their way. *)
THEOREM PoolIsBounded == Spec => []PoolBound
  BY PoolInvariant, PTL DEF PoolInv
-----------------------------------------------------------------------------
Pooled(k) == Range(idle[k])
Coming(k) == Range(tasks[k])

SocketsFit ==
  /\ \A k \in Key : \A c \in Pooled(k) : sock[c] \in {"open", "stale"}
  /\ \A c \in lent : sock[c] = "open"
  /\ \A c \in closing : sock[c] = "stale"

OwnerInv == PoolInv /\ OneOwner /\ SocketsFit

(* What a step may do to the stages. *)
Move(c) == Stage(c)' = Stage(c) \/ <<Stage(c), Stage(c)'>> \in Ledger!Edge

-----------------------------------------------------------------------------
(* What the pool does to a deque or to the tasks, as sets of connections.  *)

LEMMA RangeOf ==
  ASSUME NEW s \in Seq(Conn)
  PROVE  /\ Range(s) \subseteq Conn
         /\ \A c : c \in Range(s) <=> \E i \in 1..Len(s) : s[i] = c
         /\ IsInjective(s) <=> \A i, j \in 1..Len(s) : s[i] = s[j] => i = j
  BY DEF Range, IsInjective

(* The first m come off the left. *)
LEMMA DropFirst ==
  ASSUME NEW s \in Seq(Conn), IsInjective(s), NEW m \in 0..Len(s)
  PROVE  LET t == SubSeq(s, m + 1, Len(s)) IN
         /\ t \in Seq(Conn) /\ IsInjective(t)
         /\ Range(t) = Range(s) \ {s[i] : i \in 1..m}
  <1> DEFINE t == SubSeq(s, m + 1, Len(s))
  <1>1. /\ t \in Seq(Conn) /\ Len(t) = Len(s) - m /\ Len(s) \in Nat
        /\ \A i \in 1..Len(t) : t[i] = s[m + i]
    OBVIOUS
  <1> HIDE DEF t
  <1>2. IsInjective(t)
    <2> SUFFICES ASSUME NEW i \in 1..Len(t), NEW j \in 1..Len(t), t[i] = t[j] PROVE i = j
      BY <1>1, RangeOf
    <2>1. m + i \in 1..Len(s) /\ m + j \in 1..Len(s) /\ s[m + i] = s[m + j]
      BY <1>1
    <2>2. m + i = m + j
      BY <2>1, RangeOf
    <2> QED BY <2>2
  <1>3. ASSUME NEW c \in Range(t) PROVE c \in Range(s) \ {s[i] : i \in 1..m}
    <2>1. PICK i \in 1..Len(t) : t[i] = c
      BY <1>1, RangeOf
    <2>2. m + i \in 1..Len(s) /\ s[m + i] = c
      BY <1>1, <2>1
    <2>3. \A j \in 1..m : j \in 1..Len(s) /\ j # m + i
      BY <1>1, <2>1
    <2> QED BY <2>2, <2>3, RangeOf
  <1>4. ASSUME NEW c \in Range(s) \ {s[i] : i \in 1..m} PROVE c \in Range(t)
    <2>1. PICK i \in 1..Len(s) : s[i] = c
      BY RangeOf
    <2>2. i \notin 1..m
      BY <2>1
    <2>3. i - m \in 1..Len(t) /\ m + (i - m) = i
      BY <1>1, <2>2
    <2>4. t[i - m] = c
      BY <1>1, <2>1, <2>3
    <2> QED BY <1>1, <2>3, <2>4, RangeOf
  <1> QED BY <1>1, <1>2, <1>3, <1>4 DEF t

LEMMA DropHead ==
  ASSUME NEW s \in Seq(Conn), IsInjective(s), s # <<>>
  PROVE  /\ Tail(s) \in Seq(Conn) /\ IsInjective(Tail(s))
         /\ Head(s) \in Range(s)
         /\ Range(Tail(s)) = Range(s) \ {Head(s)}
  <1>1. Len(s) \in Nat /\ Len(s) >= 1 /\ Head(s) = s[1] /\ Tail(s) = SubSeq(s, 2, Len(s))
    BY TailIsSubSeq
  <1>2. 1 \in 0..Len(s) /\ {s[i] : i \in 1..1} = {Head(s)} /\ 1 + 1 = 2
    BY <1>1
  <1>3. Head(s) \in Range(s)
    BY <1>1, RangeOf
  <1> QED BY <1>1, <1>2, <1>3, DropFirst

LEMMA AddLast ==
  ASSUME NEW s \in Seq(Conn), IsInjective(s), NEW c \in Conn, c \notin Range(s)
  PROVE  /\ Append(s, c) \in Seq(Conn) /\ IsInjective(Append(s, c))
         /\ Range(Append(s, c)) = Range(s) \cup {c}
  <1> DEFINE t == Append(s, c)
  <1>1. /\ t \in Seq(Conn) /\ Len(t) = Len(s) + 1 /\ Len(s) \in Nat
        /\ t[Len(s) + 1] = c /\ \A i \in 1..Len(s) : t[i] = s[i]
    OBVIOUS
  <1> HIDE DEF t
  <1>2. \A i \in 1..Len(t) : i \in 1..Len(s) \/ i = Len(s) + 1
    BY <1>1
  <1>3. IsInjective(t)
    <2> SUFFICES ASSUME NEW i \in 1..Len(t), NEW j \in 1..Len(t), t[i] = t[j] PROVE i = j
      BY <1>1, RangeOf
    <2> QED BY <1>1, <1>2, RangeOf
  <1>4. Range(t) = Range(s) \cup {c}
    <2>1. ASSUME NEW d \in Range(t) PROVE d \in Range(s) \cup {c}
      BY <1>1, <1>2, <2>1, RangeOf
    <2>2. ASSUME NEW d \in Range(s) PROVE d \in Range(t)
      <3>1. PICK i \in 1..Len(s) : s[i] = d
        BY RangeOf
      <3>2. i \in 1..Len(t) /\ t[i] = d
        BY <1>1, <3>1
      <3> QED BY <1>1, <3>2, RangeOf
    <2>3. c \in Range(t)
      <3>1. Len(s) + 1 \in 1..Len(t)
        BY <1>1
      <3> QED BY <1>1, <3>1, RangeOf
    <2> QED BY <2>1, <2>2, <2>3
  <1> QED BY <1>1, <1>3, <1>4 DEF t

LEMMA NoneIn == Range(<<>>) = {} /\ IsInjective(<<>>)
  <1>1. <<>> \in Seq(Conn) /\ 1..Len(<<>>) = {}
    OBVIOUS
  <1>2. \A c : c \notin Range(<<>>)
    BY <1>1, RangeOf
  <1> QED BY <1>1, <1>2, RangeOf

-----------------------------------------------------------------------------
(* The stage of a connection, read off its place. *)
StagesKnown ==
  \A c \in Conn :
    /\ c \in lent => Stage(c) = "lent"
    /\ c \in closing => Stage(c) = "closing"
    /\ \A k \in Key :
         /\ c \in Pooled(k) => Stage(c) = IF sock[c] = "open" THEN "pooled" ELSE "spoiled"
         /\ c \in Coming(k) => Stage(c) = CASE sock[c] = "open" -> "pooled"
                                            [] sock[c] = "stale" -> "spoiled"
                                            [] OTHER -> "opening"
    /\ sock[c] = "free" => Stage(c) = "none"

LEMMA KnowStages == OwnerInv => StagesKnown
  <1> SUFFICES ASSUME OwnerInv, NEW c \in Conn
               PROVE  /\ c \in lent => Stage(c) = "lent"
                      /\ c \in closing => Stage(c) = "closing"
                      /\ \A k \in Key :
                           /\ c \in Pooled(k) => Stage(c) = IF sock[c] = "open" THEN "pooled" ELSE "spoiled"
                           /\ c \in Coming(k) => Stage(c) = CASE sock[c] = "open" -> "pooled"
                                                              [] sock[c] = "stale" -> "spoiled"
                                                              [] OTHER -> "opening"
                      /\ sock[c] = "free" => Stage(c) = "none"
    BY DEF StagesKnown
  <1> USE DEF Pooled, Coming
  <1>1. CASE c \in lent \cup closing
    BY <1>1 DEF OwnerInv, OneOwner, Stage
  <1>2. ASSUME NEW k \in Key, c \in Pooled(k)
        PROVE  /\ Stage(c) = IF sock[c] = "open" THEN "pooled" ELSE "spoiled"
               /\ sock[c] # "free" /\ \A l \in Key : c \notin Coming(l)
    BY <1>2 DEF OwnerInv, OneOwner, Stage
  <1>3. ASSUME NEW k \in Key, c \in Coming(k)
        PROVE  /\ Stage(c) = CASE sock[c] = "open" -> "pooled"
                             [] sock[c] = "stale" -> "spoiled"
                             [] OTHER -> "opening"
               /\ sock[c] # "free" /\ \A l \in Key : c \notin Pooled(l)
    <2>1. c \notin lent \cup closing /\ sock[c] # "free" /\ \A l \in Key : c \notin Pooled(l)
      BY <1>3 DEF OwnerInv, OneOwner
    <2> QED BY <1>3, <2>1 DEF Stage
  <1>4. CASE c \notin lent \cup closing
    <2>1. sock[c] = "free" => \A k \in Key : c \notin Pooled(k) \cup Coming(k)
      BY DEF OwnerInv, OneOwner
    <2>2. sock[c] = "free" => Stage(c) = "none"
      BY <1>4, <2>1 DEF Stage
    <2> QED BY <1>2, <1>3, <1>4, <2>2
  <1> QED BY <1>1, <1>4

LEMMA StageType == \A c : Stage(c) \in Ledger!Stage
  BY DEF Stage, Ledger!Stage

LEMMA KnowStagesNext == OwnerInv' => StagesKnown'
  BY KnowStages, PTL

-----------------------------------------------------------------------------
(* The actions *)

LEMMA NoMove ==
  ASSUME OwnerInv, UNCHANGED <<idle, tasks, sock, lent, closing>>
  PROVE  OneOwner' /\ SocketsFit' /\ \A c \in Conn : Move(c)
  BY DEF OwnerInv, OneOwner, SocketsFit, Pooled, Move, Stage

(* A deque loses the connections of a set: the stale ones are closed, and  *)
(* the one that is open goes to a client.                                  *)
LEMMA Taken ==
  ASSUME OwnerInv, PoolInv', NEW k \in Key, NEW stale, NEW open, UNCHANGED <<tasks, sock>>,
         stale \subseteq Pooled(k), open \subseteq Pooled(k),
         \A c \in stale : ~Usable(c), \A c \in open : Usable(c),
         closing' = closing \cup stale, lent' = lent \cup open,
         IsInjective(idle'[k]), Range(idle'[k]) = Pooled(k) \ (stale \cup open),
         \A l \in Key \ {k} : idle'[l] = idle[l]
  PROVE  OwnerInv' /\ \A c \in Conn : Move(c)
  <1> USE DEF Usable, Pooled
  <1>1. \A l \in Key : Range(idle'[l]) \subseteq Pooled(l) /\ IsInjective(idle'[l])
    BY DEF OwnerInv, OneOwner
  <1>2. \A c \in stale \cup open : c \in Conn /\ c \notin lent \cup closing /\ sock[c] \in {"open", "stale"}
    BY RangeOf DEF OwnerInv, OneOwner, SocketsFit, TypeOK, PoolInv
  <1>3. OneOwner'
    <2>1. \A l \in Key : IsInjective(idle'[l]) /\ IsInjective(tasks'[l])
      BY <1>1 DEF OwnerInv, OneOwner
    <2>2. \A l, m \in Key : /\ Range(idle'[l]) \cap Range(tasks'[m]) = {}
                            /\ l # m => /\ Range(idle'[l]) \cap Range(idle'[m]) = {}
                                        /\ Range(tasks'[l]) \cap Range(tasks'[m]) = {}
      BY <1>1 DEF OwnerInv, OneOwner
    <2>3. \A l \in Key : (Range(idle'[l]) \cup Range(tasks'[l])) \cap (lent' \cup closing') = {}
      BY <1>1 DEF OwnerInv, OneOwner
    <2>4. lent' \cap closing' = {}
      BY DEF OwnerInv, OneOwner
    <2>5. ASSUME NEW c \in Conn
          PROVE  sock'[c] = "free" <=> /\ c \notin lent' \cup closing'
                                       /\ \A l \in Key : c \notin Range(idle'[l]) \cup Range(tasks'[l])
      BY <1>1, <1>2 DEF OwnerInv, OneOwner
    <2> QED BY <2>1, <2>2, <2>3, <2>4, <2>5 DEF OneOwner
  <1>4. SocketsFit'
    BY <1>1, <1>2 DEF OwnerInv, SocketsFit
  <1>5. OwnerInv'
    BY <1>3, <1>4 DEF OwnerInv
  <1>6. StagesKnown /\ StagesKnown'
    BY <1>5, KnowStages, KnowStagesNext
  <1>7. ASSUME NEW c \in Conn PROVE Move(c)
    <2>1. CASE c \in stale
      <3>1. Stage(c) = "spoiled" /\ Stage(c)' = "closing"
        BY <1>2, <1>6, <2>1 DEF StagesKnown
      <3> QED BY <3>1 DEF Move, Ledger!Edge
    <2>2. CASE c \in open
      <3>1. Stage(c) = "pooled" /\ Stage(c)' = "lent"
        BY <1>2, <1>6, <2>2 DEF StagesKnown
      <3> QED BY <3>1 DEF Move, Ledger!Edge
    <2>3. CASE c \notin stale \cup open
      <3>1. \A l \in Key : c \in Range(idle'[l]) <=> c \in Pooled(l)
        BY <2>3
      <3>2. c \in lent' <=> c \in lent
        BY <2>3
      <3>3. c \in closing' <=> c \in closing
        BY <2>3
      <3>4. Stage(c)' = Stage(c)
        BY <3>1, <3>2, <3>3 DEF Stage
      <3> QED BY <3>4 DEF Move
    <2> QED BY <2>1, <2>2, <2>3
  <1> QED BY <1>5, <1>7

LEMMA GetHitOwner ==
  ASSUME OwnerInv, NEW k \in Key, GetHit(k)
  PROVE  OwnerInv' /\ \A c \in Conn : Move(c)
  <1>1. PICK n \in 0..(Len(idle[k]) - 1) :
          /\ StalePrefix(k, n)
          /\ Usable(idle[k][n + 1])
          /\ Evict(k, n)
          /\ lent' = lent \cup {idle[k][n + 1]}
          /\ idle' = [idle EXCEPT ![k] = SubSeq(@, n + 2, Len(@))]
    BY DEF GetHit
  <1> DEFINE stale == {idle[k][i] : i \in 1..n}
             open == {idle[k][n + 1]}
  <1>2. /\ idle \in [Key -> Seq(Conn)] /\ idle[k] \in Seq(Conn) /\ Len(idle[k]) \in Nat
        /\ IsInjective(idle[k]) /\ n + 1 \in 0..Len(idle[k]) /\ 1..(n + 1) \subseteq 1..Len(idle[k])
    BY DEF OwnerInv, PoolInv, TypeOK, OneOwner
  <1>3. stale \cup open = {idle[k][i] : i \in 1..(n + 1)}
    <2>1. \A i : i \in 1..(n + 1) <=> i \in 1..n \/ i = n + 1
      BY <1>1
    <2> QED BY <2>1
  <1>4. stale \cup open \subseteq Pooled(k)
    BY <1>2, <1>3, RangeOf DEF Pooled
  <1>5. /\ IsInjective(idle'[k]) /\ Range(idle'[k]) = Pooled(k) \ (stale \cup open)
        /\ \A l \in Key \ {k} : idle'[l] = idle[l]
    <2>1. idle'[k] = SubSeq(idle[k], (n + 1) + 1, Len(idle[k]))
      BY <1>1, <1>2
    <2>2. n + 1 \in 0..Len(idle[k])
      BY <1>2
    <2>3. IsInjective(idle'[k]) /\ Range(idle'[k]) = Range(idle[k]) \ {idle[k][i] : i \in 1..(n + 1)}
      BY <1>2, <2>1, <2>2, DropFirst
    <2> QED BY <1>1, <1>2, <1>3, <2>3 DEF Pooled
  <1>6. (\A c \in stale : ~Usable(c)) /\ (\A c \in open : Usable(c))
    BY <1>1 DEF StalePrefix
  <1>7. UNCHANGED <<tasks, sock>> /\ PoolInv'
    BY GetHitStep DEF GetHit, OwnerInv
  <1>8. closing' = closing \cup stale /\ lent' = lent \cup open
    BY <1>1 DEF Evict
  <1> QED BY <1>4, <1>5, <1>6, <1>7, <1>8, Taken

LEMMA GetMissOwner ==
  ASSUME OwnerInv, NEW k \in Key, GetMiss(k)
  PROVE  OwnerInv' /\ \A c \in Conn : Move(c)
  <1>1. /\ StalePrefix(k, Len(idle[k])) /\ Evict(k, Len(idle[k]))
        /\ idle' = [idle EXCEPT ![k] = <<>>] /\ UNCHANGED <<tasks, sock, lent>>
    BY DEF GetMiss
  <1>2. idle \in [Key -> Seq(Conn)] /\ idle[k] \in Seq(Conn)
    BY DEF OwnerInv, PoolInv, TypeOK
  <1>3. Pooled(k) = {idle[k][i] : i \in 1..Len(idle[k])}
    BY <1>2, RangeOf DEF Pooled
  <1>4. closing' = closing \cup Pooled(k) /\ \A c \in Pooled(k) : ~Usable(c)
    BY <1>1, <1>3 DEF Evict, StalePrefix
  <1>5. /\ IsInjective(idle'[k]) /\ Range(idle'[k]) = Pooled(k) \ (Pooled(k) \cup {})
        /\ \A l \in Key \ {k} : idle'[l] = idle[l]
    BY <1>1, <1>2, NoneIn
  <1>6. PoolInv'
    BY GetMissStep DEF OwnerInv
  <1>7. lent' = lent \cup {}
    BY <1>1
  <1> QED BY <1>1, <1>4, <1>5, <1>6, <1>7, Taken

(* A refill starts with names that belong to nobody. *)
LEMMA RefillStartOwner ==
  ASSUME OwnerInv, NEW k \in Key, RefillStart(k)
  PROVE  OwnerInv' /\ \A c \in Conn : Move(c)
  <1>1. PoolInv' /\ tasks[k] = <<>> /\ UNCHANGED <<idle, lent, closing>>
    BY RefillStartStep DEF OwnerInv, PoolInv, RefillExclusive, RefillStart
  <1>2. CASE Needed(k) <= 0
    <2>1. UNCHANGED <<idle, tasks, sock, lent, closing>>
      BY <1>1, <1>2 DEF RefillStart
    <2> QED BY <1>1, <2>1, NoMove DEF OwnerInv
  <1>3. CASE ~(Needed(k) <= 0)
    <2>1. PICK s \in [1..Needed(k) -> {c \in Conn : sock[c] = "free"}] :
            /\ IsInjective(s)
            /\ tasks' = [tasks EXCEPT ![k] = s]
            /\ sock' = [c \in Conn |-> IF c \in Range(s) THEN "connecting" ELSE sock[c]]
      BY <1>3 DEF RefillStart
    <2>2. Range(s) \subseteq {c \in Conn : sock[c] = "free"}
      BY <2>1 DEF Range
    <2>3. /\ tasks'[k] = s /\ \A l \in Key \ {k} : tasks'[l] = tasks[l]
          /\ Range(tasks[k]) = {}
      BY <1>1, <2>1, NoneIn DEF OwnerInv, PoolInv, TypeOK
    <2>4. \A c \in Range(s) : /\ c \notin lent \cup closing
                              /\ \A l \in Key : c \notin Range(idle[l]) \cup Range(tasks[l])
      BY <2>2 DEF OwnerInv, OneOwner
    <2>5. \A l \in Key : Range(tasks'[l]) = IF l = k THEN Range(s) ELSE Range(tasks[l])
      BY <2>3
    <2>6. OneOwner'
      <3>1. \A l \in Key : IsInjective(idle'[l]) /\ IsInjective(tasks'[l])
        BY <1>1, <2>1, <2>3 DEF OwnerInv, OneOwner
      <3>2. \A l, m \in Key : /\ Range(idle'[l]) \cap Range(tasks'[m]) = {}
                              /\ l # m => /\ Range(idle'[l]) \cap Range(idle'[m]) = {}
                                          /\ Range(tasks'[l]) \cap Range(tasks'[m]) = {}
        BY <1>1, <2>4, <2>5 DEF OwnerInv, OneOwner
      <3>3. \A l \in Key : (Range(idle'[l]) \cup Range(tasks'[l])) \cap (lent' \cup closing') = {}
        BY <1>1, <2>4, <2>5 DEF OwnerInv, OneOwner
      <3>4. lent' \cap closing' = {}
        BY <1>1 DEF OwnerInv, OneOwner
      <3>5. ASSUME NEW c \in Conn
            PROVE  sock'[c] = "free" <=> /\ c \notin lent' \cup closing'
                                         /\ \A l \in Key : c \notin Range(idle'[l]) \cup Range(tasks'[l])
        <4>1. CASE c \in Range(s)
          BY <1>1, <2>1, <2>5, <4>1
        <4>2. CASE c \notin Range(s)
          BY <1>1, <2>1, <2>3, <2>5, <4>2 DEF OwnerInv, OneOwner
        <4> QED BY <4>1, <4>2
      <3> QED BY <3>1, <3>2, <3>3, <3>4, <3>5 DEF OneOwner
    <2>7. SocketsFit'
      BY <1>1, <2>1, <2>4, RangeOf DEF OwnerInv, PoolInv, TypeOK, SocketsFit, Pooled
    <2>8. OwnerInv'
      BY <1>1, <2>6, <2>7 DEF OwnerInv
    <2>9. StagesKnown /\ StagesKnown'
      BY <2>8, KnowStages, KnowStagesNext
    <2>10. ASSUME NEW c \in Conn PROVE Move(c)
      <3>1. CASE c \in Range(s)
        <4>1. Stage(c) = "none" /\ Stage(c)' = "opening"
          BY <2>1, <2>2, <2>5, <2>9, <3>1 DEF StagesKnown, Coming
        <4> QED BY <4>1 DEF Move, Ledger!Edge
      <3>2. CASE c \notin Range(s)
        <4>1. \A l \in Key : c \in Range(tasks'[l]) <=> c \in Range(tasks[l])
          BY <2>3, <2>5, <3>2
        <4>2. sock'[c] = sock[c]
          BY <2>1, <3>2
        <4>3. Stage(c)' = Stage(c)
          BY <1>1, <4>1, <4>2 DEF Stage
        <4> QED BY <4>3 DEF Move
      <3> QED BY <3>1, <3>2
    <2> QED BY <2>8, <2>10
  <1> QED BY <1>2, <1>3

(* The awaited connection changes places and keeps its stage, or its       *)
(* connect failed and its name is free again.                              *)
LEMMA RefillAwaitOwner ==
  ASSUME OwnerInv, NEW k \in Key, RefillAwait(k)
  PROVE  OwnerInv' /\ \A c \in Conn : Move(c)
  <1> DEFINE h == Head(tasks[k])
  <1>1. /\ PoolInv' /\ UNCHANGED <<lent, closing>> /\ refill[k] = "running"
        /\ sock[h] # "connecting" /\ Keep(k)
        /\ sock' = [sock EXCEPT ![h] = IF @ = "refused" THEN "free" ELSE @]
        /\ tasks' = [tasks EXCEPT ![k] = Tail(@)]
    BY RefillAwaitStep DEF OwnerInv, RefillAwait
  <1>2. /\ idle \in [Key -> Seq(Conn)] /\ tasks \in [Key -> Seq(Conn)] /\ sock \in [Conn -> SockState]
        /\ tasks[k] # <<>> /\ \A l \in Key : IsInjective(idle[l]) /\ IsInjective(tasks[l])
    BY <1>1 DEF OwnerInv, PoolInv, TypeOK, RefillExclusive, OneOwner
  <1>3. /\ IsInjective(tasks'[k]) /\ h \in Range(tasks[k]) /\ Range(tasks'[k]) = Range(tasks[k]) \ {h}
        /\ \A l \in Key \ {k} : tasks'[l] = tasks[l]
    BY <1>1, <1>2, DropHead
  <1>4. /\ h \in Conn /\ h \notin lent \cup closing /\ sock[h] \in {"refused", "open", "stale"}
        /\ \A l \in Key : h \notin Range(idle[l]) /\ (l # k => h \notin Range(tasks[l]))
    <2>1. h \in Conn
      BY <1>2, <1>3, RangeOf
    <2> QED BY <1>1, <1>2, <1>3, <2>1 DEF OwnerInv, OneOwner, SockState
  <1>5. /\ \A l \in Key : IsInjective(idle'[l])
        /\ \A l \in Key \ {k} : idle'[l] = idle[l]
        /\ Range(idle'[k]) = IF sock[h] = "refused" THEN Range(idle[k]) ELSE Range(idle[k]) \cup {h}
    <2>1. CASE sock[h] = "refused"
      BY <1>1, <1>2, <2>1 DEF Keep
    <2>2. CASE sock[h] # "refused"
      <3>1. idle' = [idle EXCEPT ![k] = Append(@, h)]
        BY <1>1, <2>2 DEF Keep
      <3>2. idle'[k] = Append(idle[k], h) /\ \A l \in Key \ {k} : idle'[l] = idle[l]
        BY <1>2, <3>1
      <3>3. IsInjective(idle'[k]) /\ Range(idle'[k]) = Range(idle[k]) \cup {h}
        BY <1>2, <1>4, <3>2, AddLast
      <3> QED BY <1>2, <2>2, <3>2, <3>3
    <2> QED BY <2>1, <2>2
  <1>6. /\ sock'[h] = IF sock[h] = "refused" THEN "free" ELSE sock[h]
        /\ \A c \in Conn \ {h} : sock'[c] = sock[c]
    BY <1>1, <1>2, <1>4
  <1>7. \A l \in Key : \A c : /\ c # h => /\ c \in Range(idle'[l]) <=> c \in Range(idle[l])
                                          /\ c \in Range(tasks'[l]) <=> c \in Range(tasks[l])
                              /\ c = h => /\ c \notin Range(tasks'[l])
                                          /\ c \in Range(idle'[l]) <=> l = k /\ sock[h] # "refused"
    BY <1>3, <1>4, <1>5
  <1>8. OneOwner'
    <2>1. \A l \in Key : IsInjective(idle'[l]) /\ IsInjective(tasks'[l])
      BY <1>2, <1>3, <1>5
    <2>2. \A l, m \in Key : /\ Range(idle'[l]) \cap Range(tasks'[m]) = {}
                            /\ l # m => /\ Range(idle'[l]) \cap Range(idle'[m]) = {}
                                        /\ Range(tasks'[l]) \cap Range(tasks'[m]) = {}
      BY <1>7 DEF OwnerInv, OneOwner
    <2>3. \A l \in Key : (Range(idle'[l]) \cup Range(tasks'[l])) \cap (lent' \cup closing') = {}
      BY <1>1, <1>4, <1>7 DEF OwnerInv, OneOwner
    <2>4. lent' \cap closing' = {}
      BY <1>1 DEF OwnerInv, OneOwner
    <2>5. ASSUME NEW c \in Conn
          PROVE  sock'[c] = "free" <=> /\ c \notin lent' \cup closing'
                                       /\ \A l \in Key : c \notin Range(idle'[l]) \cup Range(tasks'[l])
      <3>1. CASE c = h
        BY <1>1, <1>4, <1>6, <1>7, <3>1
      <3>2. CASE c # h
        BY <1>1, <1>6, <1>7, <3>2 DEF OwnerInv, OneOwner
      <3> QED BY <3>1, <3>2
    <2> QED BY <2>1, <2>2, <2>3, <2>4, <2>5 DEF OneOwner
  <1>9. SocketsFit'
    <2>1. \A l \in Key : \A c \in Range(idle'[l]) : c \in Conn /\ sock'[c] \in {"open", "stale"}
      <3> SUFFICES ASSUME NEW l \in Key, NEW c \in Range(idle'[l]) PROVE c \in Conn /\ sock'[c] \in {"open", "stale"}
        OBVIOUS
      <3>1. CASE c = h
        BY <1>4, <1>6, <1>7, <3>1
      <3>2. CASE c # h
        <4>1. c \in Range(idle[l])
          BY <1>7, <3>2
        <4>2. c \in Conn
          BY <1>2, <4>1, RangeOf
        <4> QED BY <1>6, <3>2, <4>1, <4>2 DEF OwnerInv, SocketsFit, Pooled
      <3> QED BY <3>1, <3>2
    <2>2. \A c \in lent \cup closing : c \in Conn /\ c # h
      BY <1>4 DEF OwnerInv, PoolInv, TypeOK
    <2> QED BY <1>1, <1>6, <2>1, <2>2 DEF OwnerInv, SocketsFit, Pooled
  <1>10. OwnerInv'
    BY <1>1, <1>8, <1>9 DEF OwnerInv
  <1>11. StagesKnown /\ StagesKnown'
    BY <1>10, KnowStages, KnowStagesNext
  <1>12. ASSUME NEW c \in Conn PROVE Move(c)
    <2>1. CASE c = h /\ sock[h] = "refused"
      <3>1. Stage(c) = "opening"
        BY <1>3, <1>11, <2>1 DEF StagesKnown, Coming
      <3>2. Stage(c)' = "none"
        BY <1>4, <1>6, <1>11, <2>1 DEF StagesKnown
      <3> QED BY <3>1, <3>2 DEF Move, Ledger!Edge
    <2>2. CASE c = h /\ sock[h] # "refused"
      <3>1. Stage(c) = IF sock[h] = "open" THEN "pooled" ELSE "spoiled"
        BY <1>3, <1>4, <1>11, <2>2 DEF StagesKnown, Coming
      <3>2. Stage(c)' = IF sock'[h] = "open" THEN "pooled" ELSE "spoiled"
        BY <1>4, <1>7, <1>11, <2>2 DEF StagesKnown, Pooled
      <3> QED BY <1>6, <2>2, <3>1, <3>2 DEF Move
    <2>3. CASE c # h
      <3>1. Stage(c)' = Stage(c)
        BY <1>1, <1>6, <1>7, <2>3 DEF Stage
      <3> QED BY <3>1 DEF Move
    <2> QED BY <2>1, <2>2, <2>3
  <1> QED BY <1>10, <1>12

(* What happens to a connection where it is. *)
LEMMA SocketOwner ==
  ASSUME OwnerInv, NEW c \in Conn, Connected(c) \/ Spoil(c)
  PROVE  OwnerInv' /\ \A d \in Conn : Move(d)
  <1>1. PoolInv' /\ UNCHANGED <<idle, tasks, lent, closing>>
    BY ConnStep DEF OwnerInv, Connected, Spoil
  <1>2. /\ sock[c] \in {"connecting", "open"} /\ c \notin lent \cup closing
        /\ sock'[c] \in IF sock[c] = "connecting" THEN {"open", "refused"} ELSE {"stale"}
        /\ \A d \in Conn \ {c} : sock'[d] = sock[d]
    BY DEF Connected, Spoil, OwnerInv, PoolInv, TypeOK, SocketsFit
  <1>3. sock[c] = "connecting" => \E k \in Key : c \in Coming(k)
    BY <1>2 DEF OwnerInv, OneOwner, SocketsFit, Pooled, Coming
  <1>4. OneOwner'
    BY <1>1, <1>2 DEF OwnerInv, OneOwner
  <1>5. SocketsFit'
    <2>1. \A k \in Key : \A d \in Range(idle[k]) : d \in Conn /\ sock[d] \in {"open", "stale"}
      BY RangeOf DEF OwnerInv, PoolInv, TypeOK, SocketsFit, Pooled
    <2>2. \A d \in lent \cup closing : d \in Conn \ {c}
      BY <1>2 DEF OwnerInv, PoolInv, TypeOK
    <2> QED BY <1>1, <1>2, <2>1, <2>2 DEF OwnerInv, SocketsFit, Pooled
  <1>6. OwnerInv'
    BY <1>1, <1>4, <1>5 DEF OwnerInv
  <1>7. StagesKnown /\ StagesKnown'
    BY <1>6, KnowStages, KnowStagesNext
  <1>8. Move(c)
    <2>1. CASE sock[c] = "connecting"
      <3>1. PICK k \in Key : c \in Coming(k) /\ c \in Coming(k)'
        BY <1>1, <1>3, <2>1 DEF Coming
      <3>2. Stage(c) = "opening" /\ Stage(c)' \in {"opening", "pooled"}
        BY <1>2, <1>7, <2>1, <3>1 DEF StagesKnown
      <3> QED BY <3>2 DEF Move, Ledger!Edge
    <2>2. CASE sock[c] = "open"
      <3>1. PICK k \in Key : c \in Pooled(k) \/ c \in Coming(k)
        BY <1>2, <2>2 DEF OwnerInv, OneOwner, Pooled, Coming
      <3>2. Pooled(k)' = Pooled(k) /\ Coming(k)' = Coming(k)
        BY <1>1 DEF Pooled, Coming
      <3>3. sock'[c] = "stale"
        BY <1>2, <2>2
      <3>4. Stage(c) = "pooled"
        BY <1>7, <2>2, <3>1 DEF StagesKnown
      <3>5. Stage(c)' = "spoiled"
        BY <1>7, <3>1, <3>2, <3>3 DEF StagesKnown
      <3> QED BY <3>4, <3>5 DEF Move, Ledger!Edge
    <2> QED BY <1>2, <2>1, <2>2
  <1>9. ASSUME NEW d \in Conn, d # c PROVE Move(d)
    <2>1. Stage(d)' = Stage(d)
      BY <1>1, <1>2, <1>9 DEF Stage
    <2> QED BY <2>1 DEF Move
  <1> QED BY <1>6, <1>8, <1>9

(* A name is free again. *)
LEMMA EndOwner ==
  ASSUME OwnerInv, NEW c \in Conn, QuietClose(c) \/ Return(c)
  PROVE  OwnerInv' /\ \A d \in Conn : Move(d)
  <1>1. PoolInv' /\ UNCHANGED <<idle, tasks>>
    BY ConnStep DEF OwnerInv, QuietClose, Return
  <1>2. /\ c \in lent \cup closing
        /\ lent' = lent \ {c} /\ closing' = closing \ {c}
        /\ sock'[c] = "free" /\ \A d \in Conn \ {c} : sock'[d] = sock[d]
    BY DEF QuietClose, Return, OwnerInv, PoolInv, TypeOK, OneOwner
  <1>3. \A k \in Key : c \notin Range(idle[k]) \cup Range(tasks[k])
    BY <1>2 DEF OwnerInv, OneOwner
  <1>4. OneOwner'
    <2>1. \A k \in Key : (Range(idle[k]) \cup Range(tasks[k])) \cap (lent' \cup closing') = {}
      BY <1>2 DEF OwnerInv, OneOwner
    <2>2. lent' \cap closing' = {}
      BY <1>2 DEF OwnerInv, OneOwner
    <2>3. \A d \in Conn : sock'[d] = "free" <=>
            d \notin lent' \cup closing' /\ \A k \in Key : d \notin Range(idle[k]) \cup Range(tasks[k])
      BY <1>2, <1>3 DEF OwnerInv, OneOwner
    <2> QED BY <1>1, <2>1, <2>2, <2>3 DEF OwnerInv, OneOwner
  <1>5. SocketsFit'
    <2>1. \A k \in Key : \A d \in Range(idle[k]) : d \in Conn \ {c}
      BY <1>3, RangeOf DEF OwnerInv, PoolInv, TypeOK
    <2>2. \A d \in lent' \cup closing' : d \in Conn \ {c}
      BY <1>2 DEF OwnerInv, PoolInv, TypeOK
    <2> QED BY <1>1, <1>2, <2>1, <2>2 DEF OwnerInv, SocketsFit, Pooled
  <1>6. OwnerInv'
    BY <1>1, <1>4, <1>5 DEF OwnerInv
  <1>7. StagesKnown /\ StagesKnown'
    BY <1>6, KnowStages, KnowStagesNext
  <1>8. Move(c)
    <2>1. Stage(c) \in {"lent", "closing"} /\ Stage(c)' = "none"
      BY <1>2, <1>7 DEF StagesKnown
    <2> QED BY <2>1 DEF Move, Ledger!Edge
  <1>9. ASSUME NEW d \in Conn, d # c PROVE Move(d)
    <2>1. d \in lent' <=> d \in lent
      BY <1>2, <1>9
    <2>2. d \in closing' <=> d \in closing
      BY <1>2, <1>9
    <2>3. Stage(d)' = Stage(d)
      BY <1>1, <1>2, <1>9, <2>1, <2>2 DEF Stage
    <2> QED BY <2>3 DEF Move
  <1> QED BY <1>6, <1>8, <1>9

-----------------------------------------------------------------------------
LEMMA InitOwner == Init => OwnerInv
  <1> SUFFICES ASSUME Init PROVE OwnerInv
    OBVIOUS
  <1>1. \A k \in Key : Range(idle[k]) = {} /\ Range(tasks[k]) = {} /\ IsInjective(idle[k]) /\ IsInjective(tasks[k])
    BY NoneIn DEF Init
  <1>2. OneOwner /\ SocketsFit
    BY <1>1 DEF Init, OneOwner, SocketsFit, Pooled
  <1> QED BY <1>2, InitPoolInv DEF OwnerInv

LEMMA NextOwner == OwnerInv /\ [Next]_vars => OwnerInv' /\ \A c \in Conn : Move(c)
  <1> SUFFICES ASSUME OwnerInv, [Next]_vars PROVE OwnerInv' /\ \A c \in Conn : Move(c)
    OBVIOUS
  <1>1. CASE Warmup \/ UNCHANGED vars
    <2>1. UNCHANGED <<idle, tasks, sock, lent, closing>>
      BY <1>1 DEF Warmup, vars
    <2>2. PoolInv'
      BY NextPoolInv DEF OwnerInv
    <2> QED BY <2>1, <2>2, NoMove DEF OwnerInv
  <1>2. CASE \E k \in Key : GetHit(k) \/ GetMiss(k) \/ RefillStart(k) \/ RefillAwait(k)
    BY <1>2, GetHitOwner, GetMissOwner, RefillStartOwner, RefillAwaitOwner
  <1>3. CASE \E c \in Conn : Connected(c) \/ Spoil(c) \/ QuietClose(c) \/ Return(c)
    BY <1>3, SocketOwner, EndOwner
  <1> QED BY <1>1, <1>2, <1>3 DEF Next

LEMMA OwnerInvariant == Spec => []OwnerInv
  BY InitOwner, NextOwner, PTL DEF Spec

-----------------------------------------------------------------------------
(* Whatever gets, refills and closes overlap: no connection is in two      *)
(* deques or in a deque and with a client, and no open one is forgotten.   *)
THEOREM ConnectionsHaveOneOwner == Spec => []OneOwner
  BY OwnerInvariant, PTL DEF OwnerInv

(* The pool implements the ledger: every connection goes its way from the  *)
(* connect to the close, is handed out while it is usable, and only once.  *)
THEOREM ImplementsLedger == Spec => LedgerSpec
  <1>1. Init => Ledger!Init
    <2> SUFFICES ASSUME Init PROVE Ledger!Init
      OBVIOUS
    <2>1. OwnerInv
      BY InitOwner
    <2>2. \A c \in Conn : Stage(c) = "none"
      BY <2>1, KnowStages DEF StagesKnown, Init
    <2> QED BY <2>2 DEF Ledger!Init
  <1>2. OwnerInv /\ [Next]_vars => [Ledger!Next]_[c \in Conn |-> Stage(c)]
    <2> SUFFICES ASSUME OwnerInv, [Next]_vars PROVE Ledger!Next
      OBVIOUS
    <2>1. \A c \in Conn : Move(c)
      BY NextOwner
    <2>2. \A c \in Conn : Stage(c)' \in Ledger!Stage
      BY <2>1, StageType DEF Move, Ledger!Edge, Ledger!Stage
    <2> QED BY <2>1, <2>2 DEF Ledger!Next, Move
  <1> QED BY <1>1, <1>2, OwnerInvariant, PTL DEF Spec, LedgerSpec, Ledger!Spec
=============================================================================
