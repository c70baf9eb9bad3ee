------------------------------- MODULE WsPool -------------------------------
(***************************************************************************)
(* The pool of pre-opened WebSocket connections of the Telegram proxy      *)
(* (class _WsPool of proxy/tg_ws_proxy.py), during one run of _run.        *)
(*                                                                         *)
(* Everything runs on one asyncio loop, so a piece of code between two     *)
(* awaits is one action.  The interleaving that matters is that of the     *)
(* get calls of the client handlers with the _refill coroutine of the same *)
(* key, which sleeps while its connects are under way.                     *)
(***************************************************************************)
EXTENDS Integers, FiniteSets, Sequences, Functions

CONSTANTS Key,        \* the (dc, is_media) pairs that have a target address
          Conn,       \* names for connections; one is free again once closed
          PoolSize,   \* proxy_config.pool_size
          MaxLent,    \* bound: connections clients hold at the same time
          MaxClosing  \* bound: closes of stale connections under way

ASSUME PoolSizeAssumption == PoolSize \in Nat
ASSUME MaxLentAssumption == MaxLent \in Nat
ASSUME MaxClosingAssumption == MaxClosing \in Nat

VARIABLES
  warm,       \* _run has called warmup
  idle,       \* _idle: the deque of each key, oldest connection first
  refilling,  \* _refilling: the keys whose refill has been scheduled
  refill,     \* where the _refill coroutine of each key is
  tasks,      \* the connect tasks that coroutine has yet to await, in order
  sock,       \* the connection behind each name
  lent,       \* connections that get returned and their client still holds
  closing     \* connections whose _quiet_close task has not finished

vars == <<warm, idle, refilling, refill, tasks, sock, lent, closing>>

RefillPc == {"none", "scheduled", "running"}

(* "stale" is a connection get would refuse: older than WS_POOL_MAX_AGE,   *)
(* marked closed, or with its transport closing.                           *)
SockState == {"free", "connecting", "refused", "open", "stale"}

(* _WsPool.__init__, and reset at the start of _run. *)
Init ==
  /\ warm = FALSE
  /\ idle = [k \in Key |-> <<>>]
  /\ refilling = {}
  /\ refill = [k \in Key |-> "none"]
  /\ tasks = [k \in Key |-> <<>>]
  /\ sock = [c \in Conn |-> "free"]
  /\ lent = {}
  /\ closing = {}

(***************************************************************************)
(* Operators named Bug... are what a definition below would be if the code *)
(* had a certain mistake; no specification uses them.  They serve to see   *)
(* that the properties notice the mistake.                                 *)
(***************************************************************************)

(* The test "key in self._refilling" is missing. *)
BugScheduleTwice(K) ==
  /\ refilling' = refilling \cup K
  /\ refill' = [k \in Key |-> IF k \in K THEN "scheduled" ELSE refill[k]]

(* _schedule_refill for the keys of K: one coroutine a key. *)
ScheduleRefill(K) ==
  /\ refilling' = refilling \cup K
  /\ refill' = [k \in Key |-> IF k \in K \ refilling THEN "scheduled"
                                                     ELSE refill[k]]

(* warmup: _run schedules a refill of every key that has a target, once,   *)
(* and the listener may have accepted clients before.                      *)
Warmup ==
  /\ ~warm
  /\ warm' = TRUE
  /\ ScheduleRefill(Key)
  /\ UNCHANGED <<idle, tasks, sock, lent, closing>>

(* get takes a connection without looking at its age or its transport. *)
BugUsable(c) == TRUE
(* get drops a stale connection without closing it. *)
BugEvict(k, n) == closing' = closing

(* The loop of get: n stale connections come off the left and are closed   *)
(* behind the client's back.                                               *)
Usable(c) == sock[c] = "open"
StalePrefix(k, n) == \A i \in 1..n : ~Usable(idle[k][i])
Evict(k, n) == closing' = closing \cup {idle[k][i] : i \in 1..n}

(* get finds a usable connection at n + 1 and hands it over. *)
GetHit(k) ==
  /\ Cardinality(lent) < MaxLent
  /\ \E n \in 0..(Len(idle[k]) - 1) :
       /\ StalePrefix(k, n)
       /\ Usable(idle[k][n + 1])
       /\ Cardinality(closing) + n <= MaxClosing
       /\ Evict(k, n)
       /\ lent' = lent \cup {idle[k][n + 1]}
       /\ idle' = [idle EXCEPT ![k] = SubSeq(@, n + 2, Len(@))]
  /\ ScheduleRefill({k})
  /\ UNCHANGED <<warm, tasks, sock>>

(* get finds none and returns None. *)
GetMiss(k) ==
  /\ StalePrefix(k, Len(idle[k]))
  /\ Cardinality(closing) + Len(idle[k]) <= MaxClosing
  /\ Evict(k, Len(idle[k]))
  /\ idle' = [idle EXCEPT ![k] = <<>>]
  /\ ScheduleRefill({k})
  /\ UNCHANGED <<warm, tasks, sock, lent>>

(* A refill that asks for a whole pool whatever is there. *)
BugNeeded(k) == PoolSize
(* A coroutine that ends without the finally clause. *)
BugRelease(k) ==
  /\ refill' = [refill EXCEPT ![k] = "none"]
  /\ UNCHANGED refilling

Needed(k) == PoolSize - Len(idle[k])

(* The finally clause of _refill. *)
Release(k) ==
  /\ refill' = [refill EXCEPT ![k] = "none"]
  /\ refilling' = refilling \ {k}

(* The first step of _refill: what is missing is computed once, here, and  *)
(* that many connects start together; with nothing missing the coroutine   *)
(* ends and the finally clause frees the key.                              *)
RefillStart(k) ==
  /\ refill[k] = "scheduled"
  /\ IF Needed(k) <= 0
     THEN Release(k) /\ UNCHANGED <<tasks, sock>>
     ELSE \E s \in [1..Needed(k) -> {c \in Conn : sock[c] = "free"}] :
            /\ IsInjective(s)
            /\ tasks' = [tasks EXCEPT ![k] = s]
            /\ sock' = [c \in Conn |-> IF c \in Range(s) THEN "connecting"
                                                         ELSE sock[c]]
            /\ refill' = [refill EXCEPT ![k] = "running"]
            /\ UNCHANGED refilling
  /\ UNCHANGED <<warm, idle, lent, closing>>

(* _connect_one ends: a WebSocket, or None when every domain redirected or *)
(* one of them failed.  It need not end: the timeout of raw_websocket.py   *)
(* is one for each line of the answer, and a peer may go on sending lines. *)
Connected(c) ==
  /\ sock[c] = "connecting"
  /\ \E r \in {"open", "refused"} : sock' = [sock EXCEPT ![c] = r]
  /\ UNCHANGED <<warm, idle, refilling, refill, tasks, lent, closing>>

(* The result of a connect is appended without asking whether it is None. *)
BugKeep(k) ==
  idle' = [idle EXCEPT ![k] = Append(@, IF sock[Head(tasks[k])] = "refused"
                                        THEN "None" ELSE Head(tasks[k]))]

(* Where the await of the next connect task leaves the bucket. *)
Keep(k) == idle' = IF sock[Head(tasks[k])] = "refused"
                   THEN idle
                   ELSE [idle EXCEPT ![k] = Append(@, Head(tasks[k]))]

(* _refill resumes with the next result, in the order the tasks were made; *)
(* after the last one the finally clause frees the key.                    *)
RefillAwait(k) ==
  /\ refill[k] = "running"
  /\ sock[Head(tasks[k])] # "connecting"
  /\ Keep(k)
  /\ sock' = [sock EXCEPT ![Head(tasks[k])] = IF @ = "refused" THEN "free" ELSE @]
  /\ tasks' = [tasks EXCEPT ![k] = Tail(@)]
  /\ IF Len(tasks[k]) = 1
     THEN Release(k)
     ELSE UNCHANGED <<refill, refilling>>
  /\ UNCHANGED <<warm, lent, closing>>

(* A connection nobody uses yet is closed by the peer or grows too old. *)
Spoil(c) ==
  /\ sock[c] = "open"
  /\ c \notin lent
  /\ sock' = [sock EXCEPT ![c] = "stale"]
  /\ UNCHANGED <<warm, idle, refilling, refill, tasks, lent, closing>>

(* _quiet_close ends, which it need not: close waits without a timeout for *)
(* a peer that takes nothing.                                              *)
QuietClose(c) ==
  /\ c \in closing
  /\ closing' = closing \ {c}
  /\ sock' = [sock EXCEPT ![c] = "free"]
  /\ UNCHANGED <<warm, idle, refilling, refill, tasks, lent>>

(* The client that got the connection is through with it, and the pool     *)
(* has no use for the name any more: whether the transport is closed here, *)
(* by Telegram (after its CLOSE, close() returns at once) or by the end of *)
(* the process is nothing the pool knows.                                  *)
Return(c) ==
  /\ c \in lent
  /\ lent' = lent \ {c}
  /\ sock' = [sock EXCEPT ![c] = "free"]
  /\ UNCHANGED <<warm, idle, refilling, refill, tasks, closing>>

Next ==
  \/ Warmup
  \/ \E k \in Key : GetHit(k) \/ GetMiss(k) \/ RefillStart(k) \/ RefillAwait(k)
  \/ \E c \in Conn : Connected(c) \/ Spoil(c) \/ QuietClose(c) \/ Return(c)

Spec == Init /\ [][Next]_vars

(* The loop runs every task that is ready.  Nobody else owes anything: a   *)
(* connect or a close may hang, a client may keep what it holds.           *)
Fairness ==
  \A k \in Key : WF_vars(RefillStart(k)) /\ WF_vars(RefillAwait(k))

FairSpec == Spec /\ Fairness

-----------------------------------------------------------------------------
(* The pool's structures hold what their names say. *)
TypeOK ==
  /\ warm \in BOOLEAN
  /\ idle \in [Key -> Seq(Conn)]
  /\ refilling \subseteq Key
  /\ refill \in [Key -> RefillPc]
  /\ tasks \in [Key -> Seq(Conn)]
  /\ sock \in [Conn -> SockState]
  /\ lent \subseteq Conn
  /\ closing \subseteq Conn

(* The marker of _schedule_refill stands for exactly one live coroutine:   *)
(* it is neither lost (two refills of one key) nor left behind (none ever  *)
(* again), and a coroutine that sleeps has a task to wait for.             *)
RefillExclusive ==
  \A k \in Key : /\ k \in refilling <=> refill[k] # "none"
                 /\ refill[k] = "running" <=> tasks[k] # <<>>

(* A key never has more connections, ready and on their way, than          *)
(* pool_size, although what is missing is computed once before the awaits  *)
(* and gets go on meanwhile.                                               *)
PoolBound == \A k \in Key : Len(idle[k]) + Len(tasks[k]) <= PoolSize

(* _refilling cannot leave a key locked: every scheduled refill ends,      *)
(* unless one of its own connects never does, which no timeout bounds as a *)
(* whole (raw_websocket.py:109-111 gives each line of the answer its own). *)
Hangs(k, c) == c \in Range(tasks[k]) /\ sock[c] = "connecting"
RefillEnds ==
  \A k \in Key : (\E c \in Conn : <>[]Hangs(k, c)) \/ (k \in refilling ~> k \notin refilling)

(* The life of each connection, read off the pool's structures: what the   *)
(* deques, the tasks and the two sets say of it.                           *)
Stage(c) ==
  CASE c \in lent -> "lent"
    [] c \in closing -> "closing"
    [] \E k \in Key : c \in Range(idle[k]) ->
         IF sock[c] = "open" THEN "pooled" ELSE "spoiled"
    [] \E k \in Key : c \in Range(tasks[k]) ->
         CASE sock[c] = "open" -> "pooled"
           [] sock[c] = "stale" -> "spoiled"
           [] OTHER -> "opening"
    [] OTHER -> "none"

(* Each connection has one owner at a time, is never handed out twice and  *)
(* never after it went stale: the pool implements the ledger.              *)
Ledger == INSTANCE ConnLedger WITH state <- [c \in Conn |-> Stage(c)]
LedgerSpec == Ledger!Spec

(* No connection is in two places: two deques, a deque and a client, ...;  *)
(* and none that is open has been forgotten by all of them.                *)
OneOwner ==
  /\ \A k \in Key : IsInjective(idle[k]) /\ IsInjective(tasks[k])
  /\ \A k, l \in Key : /\ Range(idle[k]) \cap Range(tasks[l]) = {}
                       /\ k # l => /\ Range(idle[k]) \cap Range(idle[l]) = {}
                                   /\ Range(tasks[k]) \cap Range(tasks[l]) = {}
  /\ \A k \in Key : (Range(idle[k]) \cup Range(tasks[k])) \cap (lent \cup closing) = {}
  /\ lent \cap closing = {}
  /\ \A c \in Conn :
       sock[c] = "free" <=>
         /\ c \notin lent \cup closing
         /\ \A k \in Key : c \notin Range(idle[k]) \cup Range(tasks[k])
=============================================================================
