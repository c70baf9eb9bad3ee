--------------------------- MODULE ClientHandler ---------------------------
(***************************************************************************)
(* The handlers of the clients of the Telegram proxy: _handle_client of    *)
(* proxy/tg_ws_proxy.py with do_fallback of proxy/bridge.py, from accept   *)
(* to the end of the bridge.                                               *)
(*                                                                         *)
(* Many handlers share one asyncio loop, the set ws_blacklist, the map     *)
(* dc_fail_until and the counters of stats.  A piece of code between two   *)
(* awaits is one action.  The time is counted in multiples of a timeout;   *)
(* a connect that runs into its timeout ends before the clock goes on.     *)
(*                                                                         *)
(* The pool appears as a hit or a miss (see WsPool), the list of domains   *)
(* of the CF proxy as one attempt (see CfDomains), a bridge as a wait.     *)
(***************************************************************************)
EXTENDS Integers, Sequences, FiniteSets

CONSTANTS Client,          \* the connections the listener accepts
          Key,             \* the values of dc_key: a DC, or its media twin
          Configured,      \* keys whose DC is in proxy_config.dc_redirects
          HasDefaultIp,    \* keys whose DC is in DC_DEFAULT_IPS
          UseCf,           \* proxy_config.fallback_cfproxy
          CfFirst,         \* proxy_config.fallback_cfproxy_priority
          ConnectTimeout,  \* the timeout of a connect, 10 s
          FailTimeout,     \* WS_FAIL_TIMEOUT, 2 s
          Cooldown,        \* DC_FAIL_COOLDOWN, 30 s
          MaxTime          \* bound: how long the clock runs

ASSUME KeyAssumption == Configured \subseteq Key /\ HasDefaultIp \subseteq Key
ASSUME SwitchAssumption == UseCf \in BOOLEAN /\ CfFirst \in BOOLEAN
ASSUME TimeAssumption ==
  /\ ConnectTimeout \in Nat /\ FailTimeout \in Nat /\ Cooldown \in Nat /\ MaxTime \in Nat

VARIABLES
  pc,            \* the await each handler is in
  key,           \* dc_key, from the handshake
  started,       \* now, as the handler read it before its first connect
  timeout,       \* ws_timeout
  deadline,      \* when the await inside RawWebSocket.connect times out
  failedRedirect,\* ws_failed_redirect
  allRedirects,  \* all_redirects
  methods,       \* the fallback methods do_fallback has yet to give up
  blacklist,     \* ws_blacklist
  failUntil,     \* dc_fail_until; 0 for a key that is not in it
  stats,         \* the counters of connections
  clock,         \* time.monotonic()
  seen,          \* history: how each connect of a handler ended, in order
  route,         \* history: the kind of connection the handler counted
  relayed,       \* history: how many upstreams were sent relay_init
  fell           \* history: fallback methods that were tried in vain

shared == <<blacklist, failUntil>>
ws == <<started, timeout, deadline, failedRedirect, allRedirects>>
vars == <<pc, key, ws, methods, shared, stats, clock, seen, route, relayed, fell>>

Route == {"bad", "masked", "ws", "cf", "tcp"}
Counter == Route \cup {"total", "active", "ws_errors"}
Method == {"cf", "tcp"}
Domains == 2            \* _ws_domains returns two, whatever the DC
Setup == {"init", "masking", "refusing", "opening", "reading", "ws_send",
          "fallback", "cf_send", "tcp_send"}
Served == {"mask_relay", "bridge"}
Ended == {"returned", "raised"}
Pc == {"new"} \cup Setup \cup Served \cup Ended

Init ==
  /\ pc = [c \in Client |-> "new"]
  /\ key \in {[c \in Client |-> k] : k \in Key}
  /\ started = [c \in Client |-> 0]
  /\ timeout = [c \in Client |-> ConnectTimeout]
  /\ deadline = [c \in Client |-> 0]
  /\ failedRedirect = [c \in Client |-> FALSE]
  /\ allRedirects = [c \in Client |-> TRUE]
  /\ methods = [c \in Client |-> <<>>]
  /\ blacklist = {}
  /\ failUntil = [k \in Key |-> 0]
  /\ stats = [x \in Counter |-> 0]
  /\ clock = 0
  /\ seen = [c \in Client |-> <<>>]
  /\ route = [c \in Client |-> "none"]
  /\ relayed = [c \in Client |-> 0]
  /\ fell = [c \in Client |-> {}]

Goto(c, where) == pc' = [pc EXCEPT ![c] = where]

(* The finally clause, with the counters at s. *)
Finish(c, how, s) ==
  /\ Goto(c, how)
  /\ stats' = [s EXCEPT !["active"] = @ - 1]

(* Operators named Bug... are what a definition below would be if the code *)
(* had a certain mistake; no specification uses them.                      *)

-----------------------------------------------------------------------------
(* Up to the handshake *)

Accept(c) ==
  /\ pc[c] = "new"
  /\ Goto(c, "init")
  /\ stats' = [stats EXCEPT !["total"] = @ + 1, !["active"] = @ + 1]
  /\ UNCHANGED <<key, ws, methods, shared, clock, seen, route, relayed, fell>>

(* _read_client_init returns None without masking, or one of its timeouts  *)
(* raises.                                                                 *)
InitFails(c) ==
  /\ pc[c] = "init"
  /\ \E how \in Ended : Finish(c, how, stats)
  /\ UNCHANGED <<key, ws, methods, shared, clock, seen, route, relayed, fell>>

(* A ClientHello that does not verify goes to the masking domain: *)
InitMasks(c) ==
  /\ pc[c] = "init"
  /\ Goto(c, "masking")
  /\ UNCHANGED <<key, ws, methods, shared, stats, clock, seen, route, relayed, fell>>

(* proxy_to_masking_domain connects, or returns if that fails. *)
Mask(c) ==
  /\ pc[c] = "masking"
  /\ \/ /\ Goto(c, "mask_relay")
        /\ stats' = [stats EXCEPT !["masked"] = @ + 1]
        /\ route' = [route EXCEPT ![c] = "masked"]
     \/ Finish(c, "returned", stats) /\ UNCHANGED route
  /\ UNCHANGED <<key, ws, methods, shared, clock, seen, relayed, fell>>

(* No secret matches the handshake. *)
BadHandshake(c) ==
  /\ pc[c] = "init"
  /\ Goto(c, "refusing")
  /\ stats' = [stats EXCEPT !["bad"] = @ + 1]
  /\ route' = [route EXCEPT ![c] = "bad"]
  /\ UNCHANGED <<key, ws, methods, shared, clock, seen, relayed, fell>>

(* The finally clause counts down once more after that close. *)
BugRefused(c) ==
  /\ pc[c] = "refusing"
  /\ Finish(c, "returned", [stats EXCEPT !["active"] = @ - 1])
  /\ UNCHANGED <<key, ws, methods, shared, clock, seen, route, relayed, fell>>

(* writer.wait_closed of a bad handshake. *)
Refused(c) ==
  /\ pc[c] = "refusing"
  /\ Finish(c, "returned", stats)
  /\ UNCHANGED <<key, ws, methods, shared, clock, seen, route, relayed, fell>>

-----------------------------------------------------------------------------
(* do_fallback *)

(* do_fallback returns what its first method returns. *)
BugFallback(c, m, s) ==
  /\ methods' = [methods EXCEPT ![c] = m]
  /\ IF m = <<>> \/ pc[c] = "fallback"
     THEN Finish(c, "returned", s)
     ELSE Goto(c, "fallback") /\ stats' = s

(* The loop does not end after the last method. *)
BugNoMethods(c, m, s) ==
  /\ methods' = [methods EXCEPT ![c] = IF m = <<>> THEN <<"none">> ELSE m]
  /\ Goto(c, "fallback") /\ stats' = s

(* It goes on with the methods m, with the counters at s; with none left   *)
(* the handler returns.                                                    *)
Fallback(c, m, s) ==
  /\ methods' = [methods EXCEPT ![c] = m]
  /\ IF m = <<>> THEN Finish(c, "returned", s)
                 ELSE Goto(c, "fallback") /\ stats' = s

(* The methods, in their order; TCP needs an address to go to. *)
Methods(k) ==
  LET cf == IF UseCf THEN <<"cf">> ELSE <<>>
      tcp == IF k \in HasDefaultIp THEN <<"tcp">> ELSE <<>>
  IN  IF CfFirst THEN cf \o tcp ELSE tcp \o cf

(* The first method has a connection: counted, then relay_init is sent. *)
FallbackUp(c) ==
  /\ pc[c] = "fallback"
  /\ LET m == Head(methods[c]) IN
       /\ stats' = [stats EXCEPT ![m] = @ + 1]
       /\ route' = [route EXCEPT ![c] = m]
       /\ Goto(c, IF m = "cf" THEN "cf_send" ELSE "tcp_send")
  /\ relayed' = [relayed EXCEPT ![c] = @ + 1]
  /\ UNCHANGED <<key, ws, methods, shared, clock, seen, fell>>

(* All its connects failed: on to the next. *)
FallbackDown(c) ==
  /\ pc[c] = "fallback"
  /\ Fallback(c, Tail(methods[c]), stats)
  /\ fell' = [fell EXCEPT ![c] = @ \cup {Head(methods[c])}]
  /\ UNCHANGED <<key, ws, shared, clock, seen, route, relayed>>

-----------------------------------------------------------------------------
(* The WebSocket *)

(* A connection from the pool or from a connect: the cooldown is over, and *)
(* relay_init is sent.                                                     *)
WsUp(c, k) ==
  /\ failUntil' = [failUntil EXCEPT ![k] = 0]
  /\ stats' = [stats EXCEPT !["ws"] = @ + 1]
  /\ route' = [route EXCEPT ![c] = "ws"]
  /\ relayed' = [relayed EXCEPT ![c] = @ + 1]
  /\ Goto(c, "ws_send")

(* The handshake names a key that has no WebSocket to try, ... *)
HandshakeFallback(c, k) ==
  /\ pc[c] = "init"
  /\ k \notin Configured \/ k \in blacklist
  /\ key' = [key EXCEPT ![c] = k]
  /\ Fallback(c, Methods(k), stats)
  /\ UNCHANGED <<ws, shared, clock, seen, route, relayed, fell>>

(* ... or one that has: the pool, and if it has nothing, the first domain. *)
Handshake(c, k) ==
  /\ pc[c] = "init"
  /\ k \in Configured \ blacklist
  /\ key' = [key EXCEPT ![c] = k]
  /\ started' = [started EXCEPT ![c] = clock]
  /\ timeout' = [timeout EXCEPT ![c] = IF clock < failUntil[k] THEN FailTimeout
                                                               ELSE ConnectTimeout]
  /\ \/ WsUp(c, k) /\ UNCHANGED deadline
     \/ /\ Goto(c, "opening")
        /\ deadline' = [deadline EXCEPT ![c] = clock + timeout'[c]]
        /\ UNCHANGED <<failUntil, stats, route, relayed>>
  /\ UNCHANGED <<failedRedirect, allRedirects, methods, blacklist, clock, seen, fell>>

(* RawWebSocket.connect has the TLS connection and waits for the answer;   *)
(* every line of the answer may take a whole timeout.                      *)
WsLine(c) ==
  /\ pc[c] \in {"opening", "reading"}
  /\ Goto(c, "reading")
  /\ deadline' = [deadline EXCEPT ![c] = clock + timeout[c]]
  /\ UNCHANGED <<key, started, timeout, failedRedirect, allRedirects, methods,
                 shared, stats, clock, seen, route, relayed, fell>>

WsConnected(c) ==
  /\ pc[c] = "reading"
  /\ WsUp(c, key[c])
  /\ allRedirects' = [allRedirects EXCEPT ![c] = FALSE]
  /\ seen' = [seen EXCEPT ![c] = Append(@, "ok")]
  /\ UNCHANGED <<key, started, timeout, deadline, failedRedirect, methods,
                 blacklist, clock, fell>>

(* What all failed connects together mean for the key. *)
WsFailed(c) ==
  IF failedRedirect'[c] /\ allRedirects'[c]
  THEN /\ blacklist' = blacklist \cup {key[c]}
       /\ UNCHANGED failUntil
  ELSE /\ failUntil' = [failUntil EXCEPT ![key[c]] = started[c] + Cooldown]
       /\ UNCHANGED blacklist

(* A connect error leaves all_redirects as it is. *)
BugFlags(c, why) ==
  /\ failedRedirect' = [failedRedirect EXCEPT ![c] = @ \/ why = "redirect"]
  /\ UNCHANGED allRedirects

Flags(c, why) ==
  /\ failedRedirect' = [failedRedirect EXCEPT ![c] = @ \/ why = "redirect"]
  /\ allRedirects' = [allRedirects EXCEPT ![c] = @ /\ why = "redirect"]

(* A connect that fails without an answer is tried again. *)
BugWsRefused(c) ==
  /\ pc[c] \in {"opening", "reading"}
  /\ Goto(c, "opening")
  /\ deadline' = [deadline EXCEPT ![c] = clock + timeout[c]]
  /\ UNCHANGED <<key, started, timeout, failedRedirect, allRedirects, methods,
                 shared, stats, clock, seen, route, relayed, fell>>

(* A connect fails, by an answer that redirects or otherwise; the loop     *)
(* goes on to the next domain, and after the last one to do_fallback.      *)
WsRefused(c) ==
  /\ \/ pc[c] = "reading" /\ Flags(c, "redirect") /\ seen' = [seen EXCEPT ![c] = Append(@, "redirect")]
     \/ pc[c] \in {"opening", "reading"} /\ Flags(c, "error") /\ seen' = [seen EXCEPT ![c] = Append(@, "error")]
  /\ LET s == [stats EXCEPT !["ws_errors"] = @ + 1] IN
       IF Len(seen'[c]) < Domains
       THEN /\ Goto(c, "opening")
            /\ deadline' = [deadline EXCEPT ![c] = clock + timeout[c]]
            /\ stats' = s
            /\ UNCHANGED <<shared, methods>>
       ELSE /\ WsFailed(c)
            /\ Fallback(c, Methods(key[c]), s)
            /\ UNCHANGED deadline
  /\ UNCHANGED <<key, started, timeout, clock, route, relayed, fell>>

-----------------------------------------------------------------------------
(* The send of relay_init, and the bridge *)

Sent(c) ==
  /\ pc[c] \in {"ws_send", "cf_send", "tcp_send"}
  /\ Goto(c, "bridge")
  /\ UNCHANGED <<key, ws, methods, shared, stats, clock, seen, route, relayed, fell>>

(* A send of a fallback that fails is a failure of its method. *)
BugSendFails(c) ==
  /\ \/ pc[c] = "ws_send" /\ Finish(c, "raised", stats) /\ UNCHANGED methods
     \/ pc[c] \in {"cf_send", "tcp_send"} /\ Fallback(c, Tail(methods[c]), stats)
  /\ UNCHANGED <<key, ws, shared, clock, seen, route, relayed, fell>>

(* An exception of the send leaves _handle_client. *)
SendFails(c) ==
  /\ pc[c] \in {"ws_send", "cf_send", "tcp_send"}
  /\ Finish(c, "raised", stats)
  /\ UNCHANGED <<key, ws, methods, shared, clock, seen, route, relayed, fell>>

BridgeEnds(c) ==
  /\ pc[c] \in Served
  /\ Finish(c, "returned", stats)
  /\ UNCHANGED <<key, ws, methods, shared, clock, seen, route, relayed, fell>>

(* Under asyncio.run, as run_proxy is started on the command line, what is *)
(* left when _run has ended is cancelled: wherever it was, the handler     *)
(* ends, and tries nothing more.  (tgproxy.py leaves it where it is.)      *)
Cancelled(c) ==
  /\ pc[c] \in Setup \cup Served
  /\ Finish(c, "raised", stats)
  /\ UNCHANGED <<key, ws, methods, shared, clock, seen, route, relayed, fell>>

Tick ==
  /\ clock < MaxTime
  /\ \A c \in Client : pc[c] \in {"opening", "reading"} => clock < deadline[c]
  /\ clock' = clock + 1
  /\ UNCHANGED <<pc, key, ws, methods, shared, stats, seen, route, relayed, fell>>

-----------------------------------------------------------------------------
(* What a timeout, an answer or a transport brings about in the end. *)
Progress(c) ==
  \/ InitFails(c) \/ Mask(c) \/ Refused(c) \/ FallbackUp(c) \/ FallbackDown(c)
  \/ WsConnected(c) \/ WsRefused(c) \/ Sent(c) \/ SendFails(c)

Step(c) ==
  \/ Progress(c)
  \/ Accept(c) \/ InitMasks(c) \/ BadHandshake(c)
  \/ \E k \in Key : Handshake(c, k) \/ HandshakeFallback(c, k)
  \/ WsLine(c) \/ BridgeEnds(c) \/ Cancelled(c)

Next == (\E c \in Client : Step(c)) \/ Tick

Spec == Init /\ [][Next]_vars

(* Where a peer can hold the handler: each line of the answer to an        *)
(* upgrade has a timeout of its own, and nothing bounds the whole answer,  *)
(* neither of Telegram nor of a CF proxy.  As the clock is bounded, a peer *)
(* that sends nothing, which the timeout of the line ends, is not told     *)
(* from one that sends line after line.                                    *)
ReadsLines(c) == pc[c] = "reading" \/ (pc[c] = "fallback" /\ Head(methods[c]) = "cf")

(* Every other await before the bridge has one timeout, or waits for a new *)
(* transport to take less than its buffers hold.  A bridge may last for    *)
(* ever.                                                                   *)
FairSpec == Spec /\ \A c \in Client : WF_vars(Progress(c) /\ ~ReadsLines(c))

-----------------------------------------------------------------------------
TypeOK ==
  /\ pc \in [Client -> Pc]
  /\ key \in [Client -> Key]
  /\ started \in [Client -> Nat] /\ timeout \in [Client -> Nat]
  /\ deadline \in [Client -> Nat]
  /\ failedRedirect \in [Client -> BOOLEAN] /\ allRedirects \in [Client -> BOOLEAN]
  /\ methods \in [Client -> Seq(Method)]
  /\ blacklist \subseteq Key
  /\ failUntil \in [Key -> Nat]
  /\ stats \in [Counter -> Int]
  /\ clock \in Nat
  /\ seen \in [Client -> Seq({"ok", "redirect", "error"})]
  /\ route \in [Client -> Route \cup {"none"}]
  /\ relayed \in [Client -> Nat]
  /\ fell \in [Client -> SUBSET Method]

Failures == {f \in Client \X (1..Domains) : f[2] \in DOMAIN seen[f[1]] /\ seen[f[1]][f[2]] # "ok"}

(* The line "stats: total= active= ws= ..." is true at every moment,       *)
(* however handlers ended: each client is counted once, under the kind of  *)
(* connection it got, and no longer as active once its handler is through. *)
StatsAgree ==
  /\ stats["total"] = Cardinality({c \in Client : pc[c] # "new"})
  /\ stats["active"] = Cardinality({c \in Client : pc[c] \in Setup \cup Served})
  /\ \A x \in Route : stats[x] = Cardinality({c \in Client : route[c] = x})
  /\ stats["ws_errors"] = Cardinality(Failures)

(* The ciphers of a handler have moved on once relay_init is sent, so no   *)
(* second upstream is ever tried: not after a send that failed, and not    *)
(* after a bridge that ended.                                              *)
OneUpstream ==
  \A c \in Client :
    /\ relayed[c] <= 1
    /\ relayed[c] = 1 =>
         /\ route[c] \in {"ws", "cf", "tcp"}
         /\ pc[c] \in {"ws_send", "cf_send", "tcp_send", "bridge"} \cup Ended

AllDomains(outcome) == [i \in 1..Domains |-> outcome]

(* A key is out of WebSocket for the rest of the run only if some client   *)
(* was redirected by every one of its domains.                             *)
BlacklistJustified ==
  \A k \in blacklist :
    \E c \in Client : key[c] = k /\ seen[c] = AllDomains("redirect")

(* A handler that returns to a client with a good handshake and has made   *)
(* no connection has tried all there is: every domain of the WebSocket,    *)
(* unless its key has none or is blacklisted, and every fallback method.   *)
GivesUpAfterAll ==
  \A c \in Client :
    pc[c] = "returned" /\ route[c] = "none" /\ (seen[c] # <<>> \/ fell[c] # {}) =>
      /\ \/ Len(seen[c]) = Domains
         \/ key[c] \notin Configured \/ key[c] \in blacklist
      /\ fell[c] = {m \in Method : (m = "cf" => UseCf) /\ (m = "tcp" => key[c] \in HasDefaultIp)}

(* How many more steps of its own a handler can take at most before its    *)
(* bridge or its end.                                                      *)
Ahead(c) ==
  CASE pc[c] = "init" -> Domains + 4
    [] pc[c] \in {"opening", "reading"} -> Domains - Len(seen[c]) + 3
    [] pc[c] = "fallback" -> Len(methods[c]) + 1
    [] pc[c] \in {"masking", "refusing", "ws_send", "cf_send", "tcp_send"} -> 1
    [] OTHER -> 0

(* No failure of a connect, of a fallback method or of a send takes a      *)
(* handler back to something it has done: whatever other handlers do,      *)
(* nothing adds to what it has ahead of it, and every answer, failure or   *)
(* timeout leaves it less.  It counts attempts, not time: the lines of an  *)
(* answer are none.                                                        *)
SetupBounded ==
  [][\A c \in Client : pc[c] \in Setup =>
       Ahead(c)' <= Ahead(c) /\ (Progress(c) => Ahead(c)' < Ahead(c))]_vars

(* The handler comes to its bridge or to its end, whatever the client,     *)
(* Telegram and the CF proxy do or leave undone, but for one thing: a peer *)
(* that goes on sending lines of an answer holds it for as long as it      *)
(* likes (raw_websocket.py:109-115).                                       *)
SetupEnds ==
  \A c \in Client : <>[]ReadsLines(c) \/ (pc[c] \in Setup ~> pc[c] \notin Setup)

(* tg_ws_proxy.py:483 "WS cooldown for 30s": a cooldown that is set lies   *)
(* ahead.                                                                  *)
CooldownAhead ==
  [][\A k \in Key : failUntil'[k] # failUntil[k] => failUntil'[k] = 0 \/ failUntil'[k] > clock]_vars
=============================================================================
