------------------------ MODULE ClientHandlerProofs ------------------------
(***************************************************************************)
(* For any number of clients and keys, any timeouts and any setting of the *)
(* fallback: no handler sends its relay_init to two upstreams, no key is   *)
(* blacklisted that a client did not find redirected everywhere, none is   *)
(* sent away before all was tried, the counters are true, and no failure   *)
(* takes a handler back to what it has tried.                              *)
(*                                                                         *)
(* The first is inductive with the types, once a handler that is in        *)
(* do_fallback is known to have a method to try.  The second rests on what *)
(* the flag all_redirects says of the connects so far (Attempts): they are *)
(* all in the past when the key is blacklisted, so that the witness of a   *)
(* blacklisted key never changes again.  The third follows the methods     *)
(* through do_fallback (GivesUp), the fourth compares what one step does   *)
(* to the counters with what it does to the sets they count (Books), the   *)
(* last counts the steps a handler has ahead of it.                        *)
(***************************************************************************)
EXTENDS ClientHandler, FiniteSetTheorems, TLAPS

(* do_fallback waits for a method it has. *)
HasMethod == \A c \in Client : pc[c] = "fallback" => methods[c] # <<>>

(* The connects of a handler: none before the handshake, never more than   *)
(* there are domains, one left while it is connecting, and only redirects  *)
(* as long as all_redirects holds.                                         *)
Attempts ==
  \A c \in Client :
    /\ pc[c] \in {"new", "init"} => seen[c] = <<>>
    /\ pc[c] \in {"opening", "reading"} => Len(seen[c]) < Domains
    /\ allRedirects[c] => \A i \in 1..Len(seen[c]) : seen[c][i] = "redirect"

HandlerInv == TypeOK /\ HasMethod /\ OneUpstream /\ Attempts /\ BlacklistJustified

USE DEF Goto, Domains, Ended

-----------------------------------------------------------------------------
LEMMA Names ==
  /\ \A x \in Route : x \in Counter /\ x \in Route \cup {"none"}
  /\ "total" \in Counter /\ "active" \in Counter /\ "ws_errors" \in Counter
  /\ Method \subseteq {"cf", "tcp"} /\ {"bad", "masked", "ws", "cf", "tcp"} \subseteq Route
  /\ {"new", "init", "masking", "refusing", "opening", "reading", "ws_send", "fallback", "cf_send",
      "tcp_send", "mask_relay", "bridge", "returned", "raised"} \subseteq Pc
  BY DEF Counter, Route, Method, Pc, Setup, Served

LEMMA MethodsType == \A k \in Key : Methods(k) \in Seq(Method)
  <1> SUFFICES ASSUME NEW k \in Key PROVE Methods(k) \in Seq(Method)
    OBVIOUS
  <1> DEFINE cf == IF UseCf THEN <<"cf">> ELSE <<>>
             tcp == IF k \in HasDefaultIp THEN <<"tcp">> ELSE <<>>
  <1>1. cf \in Seq(Method) /\ tcp \in Seq(Method)
    <2>1. "cf" \in Method /\ "tcp" \in Method
      BY DEF Method
    <2>2. <<"cf">> \in Seq(Method) /\ <<"tcp">> \in Seq(Method) /\ <<>> \in Seq(Method)
      BY <2>1
    <2> QED BY <2>2
  <1>2. cf \o tcp \in Seq(Method) /\ tcp \o cf \in Seq(Method)
    <2> HIDE DEF cf, tcp
    <2> QED BY <1>1
  <1> QED BY <1>2 DEF Methods

LEMMA InitHandler == Init => HandlerInv
  <1> SUFFICES ASSUME Init PROVE HandlerInv
    OBVIOUS
  <1> USE TimeAssumption, KeyAssumption
  <1>1. TypeOK
    BY Names DEF Init, TypeOK
  <1>2. HasMethod /\ OneUpstream /\ Attempts /\ BlacklistJustified
    BY DEF Init, HasMethod, OneUpstream, Attempts, BlacklistJustified
  <1> QED BY <1>1, <1>2 DEF HandlerInv

-----------------------------------------------------------------------------
(* Types: every action by itself. *)

LEMMA FinishType ==
  ASSUME TypeOK, NEW c \in Client, NEW how \in Ended, NEW s \in [Counter -> Int], Finish(c, how, s)
  PROVE  pc' \in [Client -> Pc] /\ stats' \in [Counter -> Int]
  <1>1. how \in Pc
    BY DEF Pc
  <1>2. pc' \in [Client -> Pc]
    BY <1>1 DEF TypeOK, Finish
  <1>3. s["active"] - 1 \in Int
    BY Names
  <1>4. stats' \in [Counter -> Int]
    BY <1>3 DEF Finish
  <1> QED BY <1>2, <1>4

LEMMA FallbackType ==
  ASSUME TypeOK, NEW c \in Client, NEW m \in Seq(Method), NEW s \in [Counter -> Int], Fallback(c, m, s)
  PROVE  /\ pc' \in [Client -> Pc] /\ stats' \in [Counter -> Int]
         /\ methods' \in [Client -> Seq(Method)]
  <1>1. CASE m = <<>>
    BY <1>1, FinishType DEF Fallback, TypeOK
  <1>2. CASE m # <<>>
    BY <1>2, Names DEF Fallback, TypeOK
  <1> QED BY <1>1, <1>2

LEMMA GotoType ==
  ASSUME TypeOK, NEW c \in Client, NEW where \in Pc, Goto(c, where)
  PROVE  pc' \in [Client -> Pc]
  BY DEF TypeOK

LEMMA CountType ==
  ASSUME NEW s \in [Counter -> Int], NEW x \in Counter
  PROVE  [s EXCEPT ![x] = @ + 1] \in [Counter -> Int]
  OBVIOUS

LEMMA WsUpType ==
  ASSUME TypeOK, NEW c \in Client, NEW k \in Key, WsUp(c, k)
  PROVE  /\ pc' \in [Client -> Pc] /\ stats' \in [Counter -> Int]
         /\ failUntil' \in [Key -> Nat] /\ relayed' \in [Client -> Nat]
         /\ route' \in [Client -> Route \cup {"none"}]
  <1>1. "ws_send" \in Pc /\ "ws" \in Counter /\ "ws" \in Route
    BY Names
  <1>2. pc' \in [Client -> Pc]
    BY <1>1, GotoType DEF WsUp
  <1>3. stats' \in [Counter -> Int]
    BY <1>1, CountType DEF WsUp, TypeOK
  <1>4. failUntil' \in [Key -> Nat] /\ relayed' \in [Client -> Nat]
    BY DEF WsUp, TypeOK
  <1>5. route' \in [Client -> Route \cup {"none"}]
    BY <1>1 DEF WsUp, TypeOK
  <1> QED BY <1>2, <1>3, <1>4, <1>5

(* What an action leaves alone keeps its type. *)
LEMMA SetupType ==
  ASSUME TypeOK, UNCHANGED <<key, ws, methods, shared, clock, seen, fell>>,
         pc' \in [Client -> Pc], stats' \in [Counter -> Int],
         route' \in [Client -> Route \cup {"none"}], relayed' \in [Client -> Nat]
  PROVE  TypeOK'
  BY DEF TypeOK, ws, shared

LEMMA SimpleSteps ==
  ASSUME TypeOK, NEW c \in Client,
         \/ Accept(c) \/ InitFails(c) \/ InitMasks(c) \/ Mask(c) \/ BadHandshake(c) \/ Refused(c)
         \/ Sent(c) \/ SendFails(c) \/ BridgeEnds(c) \/ Cancelled(c)
  PROVE  TypeOK'
  <1> USE Names
  <1>0. /\ stats \in [Counter -> Int] /\ route \in [Client -> Route \cup {"none"}]
        /\ relayed \in [Client -> Nat]
    BY DEF TypeOK
  <1>1. CASE Accept(c)
    <2>1. pc' \in [Client -> Pc]
      BY <1>1, GotoType DEF Accept
    <2>2. stats' \in [Counter -> Int]
      BY <1>0, <1>1 DEF Accept
    <2> QED BY <1>0, <1>1, <2>1, <2>2, SetupType DEF Accept
  <1>2. CASE InitFails(c)
    BY <1>0, <1>2, FinishType, SetupType DEF InitFails
  <1>3. CASE InitMasks(c)
    BY <1>0, <1>3, GotoType, SetupType DEF InitMasks
  <1>4. CASE Mask(c)
    <2>1. CASE Finish(c, "returned", stats) /\ UNCHANGED route
      BY <1>0, <1>4, <2>1, FinishType, SetupType DEF Mask
    <2>2. CASE /\ Goto(c, "mask_relay") /\ stats' = [stats EXCEPT !["masked"] = @ + 1]
               /\ route' = [route EXCEPT ![c] = "masked"]
      <3>1. pc' \in [Client -> Pc]
        BY <2>2, GotoType
      <3>2. stats' \in [Counter -> Int]
        BY <1>0, <2>2, CountType
      <3>3. route' \in [Client -> Route \cup {"none"}]
        BY <1>0, <2>2
      <3> QED BY <1>0, <1>4, <3>1, <3>2, <3>3, SetupType DEF Mask
    <2> QED BY <1>4, <2>1, <2>2 DEF Mask
  <1>5. CASE BadHandshake(c)
    <2>1. pc' \in [Client -> Pc]
      BY <1>5, GotoType DEF BadHandshake
    <2>2. stats' \in [Counter -> Int]
      BY <1>0, <1>5, CountType DEF BadHandshake
    <2>3. route' \in [Client -> Route \cup {"none"}]
      BY <1>0, <1>5 DEF BadHandshake
    <2> QED BY <1>0, <1>5, <2>1, <2>2, <2>3, SetupType DEF BadHandshake
  <1>6. CASE Refused(c)
    BY <1>0, <1>6, FinishType, SetupType DEF Refused
  <1>7. CASE Sent(c)
    BY <1>0, <1>7, GotoType, SetupType DEF Sent
  <1>8. CASE SendFails(c) \/ BridgeEnds(c) \/ Cancelled(c)
    BY <1>0, <1>8, FinishType, SetupType DEF SendFails, BridgeEnds, Cancelled
  <1> QED BY <1>1, <1>2, <1>3, <1>4, <1>5, <1>6, <1>7, <1>8

LEMMA FallbackSteps ==
  ASSUME TypeOK, HasMethod, NEW c \in Client,
         FallbackUp(c) \/ FallbackDown(c) \/ \E k \in Key : HandshakeFallback(c, k)
  PROVE  TypeOK'
  <1>0. /\ stats \in [Counter -> Int] /\ methods \in [Client -> Seq(Method)]
        /\ key \in [Client -> Key] /\ fell \in [Client -> SUBSET Method]
    BY DEF TypeOK
  <1>1. CASE FallbackUp(c)
    <2> DEFINE m == Head(methods[c])
    <2>1. methods[c] \in Seq(Method) /\ methods[c] # <<>>
      BY <1>0, <1>1 DEF FallbackUp, HasMethod
    <2>2. m \in Method
      BY <2>1
    <2>3. m \in Counter /\ m \in Route
      BY <2>2 DEF Method, Counter, Route
    <2>4. pc' \in [Client -> Pc]
      BY <1>1, Names, GotoType DEF FallbackUp
    <2>5. stats' \in [Counter -> Int]
      BY <1>0, <1>1, <2>3, CountType DEF FallbackUp
    <2>6. route' \in [Client -> Route \cup {"none"}] /\ relayed' \in [Client -> Nat]
      BY <1>1, <2>3 DEF FallbackUp, TypeOK
    <2> QED BY <1>1, <2>4, <2>5, <2>6, SetupType DEF FallbackUp
  <1>2. CASE FallbackDown(c)
    <2>1. methods[c] \in Seq(Method) /\ methods[c] # <<>>
      BY <1>0, <1>2 DEF FallbackDown, HasMethod
    <2>2. Head(methods[c]) \in Method /\ Tail(methods[c]) \in Seq(Method)
      BY <2>1
    <2>3. /\ pc' \in [Client -> Pc] /\ stats' \in [Counter -> Int]
          /\ methods' \in [Client -> Seq(Method)]
      BY <1>0, <1>2, <2>2, FallbackType DEF FallbackDown
    <2>4. fell' \in [Client -> SUBSET Method]
      BY <1>0, <1>2, <2>2 DEF FallbackDown
    <2> QED BY <1>2, <2>3, <2>4 DEF FallbackDown, TypeOK, ws, shared
  <1>3. ASSUME NEW k \in Key, HandshakeFallback(c, k) PROVE TypeOK'
    <2>1. Methods(k) \in Seq(Method)
      BY MethodsType
    <2>2. /\ pc' \in [Client -> Pc] /\ stats' \in [Counter -> Int]
          /\ methods' \in [Client -> Seq(Method)]
      BY <1>0, <1>3, <2>1, FallbackType DEF HandshakeFallback
    <2>3. key' \in [Client -> Key]
      BY <1>0, <1>3 DEF HandshakeFallback
    <2> QED BY <1>3, <2>2, <2>3 DEF HandshakeFallback, TypeOK, ws, shared
  <1> QED BY <1>1, <1>2, <1>3

(* The flags after a connect. *)
LEMMA FlagsType ==
  ASSUME TypeOK, NEW c \in Client, NEW why \in {"redirect", "error"}, Flags(c, why)
  PROVE  failedRedirect' \in [Client -> BOOLEAN] /\ allRedirects' \in [Client -> BOOLEAN]
  <1>1. failedRedirect \in [Client -> BOOLEAN] /\ allRedirects \in [Client -> BOOLEAN]
    BY DEF TypeOK
  <1>2. (failedRedirect[c] \/ why = "redirect") \in BOOLEAN /\ (allRedirects[c] /\ why = "redirect") \in BOOLEAN
    OBVIOUS
  <1> QED BY <1>1, <1>2 DEF Flags

LEMMA WsSteps ==
  ASSUME TypeOK, NEW c \in Client,
         (\E k \in Key : Handshake(c, k)) \/ WsLine(c) \/ WsConnected(c) \/ WsRefused(c)
  PROVE  TypeOK'
  <1>0. /\ stats \in [Counter -> Int] /\ key \in [Client -> Key] /\ clock \in Nat
        /\ timeout \in [Client -> Nat] /\ deadline \in [Client -> Nat] /\ started \in [Client -> Nat]
        /\ failUntil \in [Key -> Nat] /\ blacklist \subseteq Key
        /\ seen \in [Client -> Seq({"ok", "redirect", "error"})]
        /\ relayed \in [Client -> Nat] /\ route \in [Client -> Route \cup {"none"}]
    BY DEF TypeOK
  <1>1. ASSUME NEW k \in Key, Handshake(c, k) PROVE TypeOK'
    <2>1. /\ key' \in [Client -> Key] /\ started' \in [Client -> Nat] /\ timeout' \in [Client -> Nat]
      BY <1>0, <1>1, TimeAssumption DEF Handshake
    <2>2. CASE WsUp(c, k) /\ UNCHANGED deadline
      BY <1>0, <1>1, <2>1, <2>2, WsUpType DEF Handshake, TypeOK
    <2>3. CASE /\ Goto(c, "opening") /\ deadline' = [deadline EXCEPT ![c] = clock + timeout'[c]]
               /\ UNCHANGED <<failUntil, stats, route, relayed>>
      <3>1. pc' \in [Client -> Pc]
        BY <2>3, Names, GotoType
      <3>2. clock + timeout'[c] \in Nat
        BY <1>0, <2>1
      <3>3. deadline' \in [Client -> Nat]
        BY <1>0, <2>3, <3>2
      <3> QED BY <1>1, <2>1, <2>3, <3>1, <3>3 DEF Handshake, TypeOK
    <2> QED BY <1>1, <2>2, <2>3 DEF Handshake
  <1>2. CASE WsLine(c)
    <2>1. pc' \in [Client -> Pc]
      BY <1>2, Names, GotoType DEF WsLine
    <2>2. clock + timeout[c] \in Nat
      BY <1>0
    <2>3. deadline' \in [Client -> Nat]
      BY <1>0, <1>2, <2>2 DEF WsLine
    <2> QED BY <1>2, <2>1, <2>3 DEF WsLine, TypeOK, shared
  <1>3. CASE WsConnected(c)
    <2>1. key[c] \in Key
      BY <1>0
    <2>2. Append(seen[c], "ok") \in Seq({"ok", "redirect", "error"})
      BY <1>0
    <2>3. seen' \in [Client -> Seq({"ok", "redirect", "error"})]
      BY <1>0, <1>3, <2>2 DEF WsConnected
    <2>4. allRedirects' \in [Client -> BOOLEAN]
      BY <1>3 DEF WsConnected, TypeOK
    <2>5. /\ pc' \in [Client -> Pc] /\ stats' \in [Counter -> Int]
          /\ failUntil' \in [Key -> Nat] /\ relayed' \in [Client -> Nat]
          /\ route' \in [Client -> Route \cup {"none"}]
      BY <1>3, <2>1, WsUpType DEF WsConnected
    <2> QED BY <1>3, <2>3, <2>4, <2>5 DEF WsConnected, TypeOK
  <1>4. CASE WsRefused(c)
    <2>1. PICK why \in {"redirect", "error"} : Flags(c, why) /\ seen' = [seen EXCEPT ![c] = Append(@, why)]
      BY <1>4 DEF WsRefused
    <2>2. failedRedirect' \in [Client -> BOOLEAN] /\ allRedirects' \in [Client -> BOOLEAN]
      BY <2>1, FlagsType
    <2>3. Append(seen[c], why) \in Seq({"ok", "redirect", "error"})
      BY <1>0
    <2>4. seen' \in [Client -> Seq({"ok", "redirect", "error"})]
      BY <1>0, <2>1, <2>3
    <2> DEFINE s == [stats EXCEPT !["ws_errors"] = @ + 1]
    <2>5. s \in [Counter -> Int]
      BY <1>0, Names, CountType
    <2>6. CASE Len(seen'[c]) < Domains
      <3>1. pc' \in [Client -> Pc]
        BY <1>4, <2>6, Names, GotoType DEF WsRefused
      <3>2. clock + timeout[c] \in Nat
        BY <1>0
      <3>3. deadline' \in [Client -> Nat]
        BY <1>0, <1>4, <2>6, <3>2 DEF WsRefused
      <3> QED BY <1>4, <2>2, <2>4, <2>5, <2>6, <3>1, <3>3 DEF WsRefused, TypeOK, shared
    <2>7. CASE ~(Len(seen'[c]) < Domains)
      <3>1. Methods(key[c]) \in Seq(Method)
        BY <1>0, MethodsType
      <3>2. WsFailed(c) /\ Fallback(c, Methods(key[c]), s) /\ UNCHANGED deadline
        BY <1>4, <2>7 DEF WsRefused
      <3>3. /\ pc' \in [Client -> Pc] /\ stats' \in [Counter -> Int]
            /\ methods' \in [Client -> Seq(Method)]
        <4> HIDE DEF s
        <4> QED BY <2>5, <3>1, <3>2, FallbackType
      <3>4. started[c] + Cooldown \in Nat /\ key[c] \in Key
        BY <1>0, TimeAssumption
      <3>5. failUntil' \in [Key -> Nat] /\ blacklist' \subseteq Key
        BY <1>0, <3>2, <3>4 DEF WsFailed
      <3> QED BY <1>4, <2>2, <2>4, <3>2, <3>3, <3>5 DEF WsRefused, TypeOK
    <2> QED BY <2>6, <2>7
  <1> QED BY <1>1, <1>2, <1>3, <1>4

LEMMA TickType == ASSUME TypeOK, Tick PROVE TypeOK'
  BY DEF Tick, TypeOK, ws, shared

LEMMA TypeStep == ASSUME TypeOK, HasMethod, [Next]_vars PROVE TypeOK'
  <1>1. ASSUME NEW c \in Client, Step(c) PROVE TypeOK'
    BY <1>1, SimpleSteps, FallbackSteps, WsSteps DEF Step, Progress
  <1>2. CASE UNCHANGED vars
    BY <1>2 DEF TypeOK, vars, ws, shared
  <1> QED BY <1>1, <1>2, TickType DEF Next

-----------------------------------------------------------------------------
(* What a handler does, it does to itself. *)
LEMMA StepIsLocal ==
  ASSUME TypeOK, NEW c \in Client, Step(c), NEW d \in Client, d # c
  PROVE  /\ pc'[d] = pc[d] /\ methods'[d] = methods[d] /\ relayed'[d] = relayed[d] /\ route'[d] = route[d]
         /\ key'[d] = key[d] /\ seen'[d] = seen[d] /\ allRedirects'[d] = allRedirects[d]
  <1> USE DEF TypeOK, ws, shared
  <1>1. CASE Accept(c) \/ InitFails(c) \/ InitMasks(c) \/ Mask(c) \/ BadHandshake(c) \/ Refused(c)
    BY <1>1 DEF Accept, InitFails, InitMasks, Mask, BadHandshake, Refused, Finish
  <1>2. CASE Sent(c) \/ SendFails(c) \/ BridgeEnds(c) \/ Cancelled(c)
    BY <1>2 DEF Sent, SendFails, BridgeEnds, Cancelled, Finish
  <1>3. CASE FallbackUp(c) \/ FallbackDown(c) \/ \E k \in Key : HandshakeFallback(c, k)
    BY <1>3 DEF FallbackUp, FallbackDown, HandshakeFallback, Fallback, Finish
  <1>4. CASE (\E k \in Key : Handshake(c, k)) \/ WsLine(c) \/ WsConnected(c)
    BY <1>4 DEF Handshake, WsLine, WsConnected, WsUp
  <1>5. CASE WsRefused(c)
    BY <1>5 DEF WsRefused, Flags, Fallback, Finish
  <1> QED BY <1>1, <1>2, <1>3, <1>4, <1>5 DEF Step, Progress

(* The conjuncts of the invariant, for one handler. *)
HasMethodOf(c) == pc[c] = "fallback" => methods[c] # <<>>
OneUpstreamOf(c) ==
  /\ relayed[c] <= 1
  /\ relayed[c] = 1 =>
       /\ route[c] \in {"ws", "cf", "tcp"}
       /\ pc[c] \in {"ws_send", "cf_send", "tcp_send", "bridge"} \cup Ended
AttemptsOf(c) ==
  /\ pc[c] \in {"new", "init"} => seen[c] = <<>>
  /\ pc[c] \in {"opening", "reading"} => Len(seen[c]) < Domains
  /\ allRedirects[c] => \A i \in 1..Len(seen[c]) : seen[c][i] = "redirect"

LEMMA SimpleOf ==
  ASSUME HandlerInv, NEW c \in Client,
         \/ Accept(c) \/ InitFails(c) \/ InitMasks(c) \/ Mask(c) \/ BadHandshake(c) \/ Refused(c)
         \/ Sent(c) \/ SendFails(c) \/ BridgeEnds(c) \/ Cancelled(c)
  PROVE  HasMethodOf(c)' /\ OneUpstreamOf(c)' /\ AttemptsOf(c)' /\ UNCHANGED <<key, seen, blacklist>>
  <1> USE DEF HandlerInv, TypeOK, HasMethod, OneUpstream, Attempts, HasMethodOf, OneUpstreamOf, AttemptsOf,
              ws, shared, Finish
  <1>1. CASE Accept(c)
    BY <1>1 DEF Accept
  <1>2. CASE InitFails(c) \/ InitMasks(c) \/ BadHandshake(c) \/ Mask(c) \/ Refused(c)
    <2>1. relayed[c] # 1 /\ relayed' = relayed
      BY <1>2 DEF InitFails, InitMasks, BadHandshake, Mask, Refused
    <2>2. /\ pc'[c] \in {"masking", "refusing", "mask_relay"} \cup Ended
          /\ UNCHANGED <<key, seen, blacklist, allRedirects>>
      BY <1>2 DEF InitFails, InitMasks, BadHandshake, Mask, Refused
    <2> QED BY <2>1, <2>2
  <1>3. CASE Sent(c) \/ SendFails(c)
    BY <1>3 DEF Sent, SendFails
  <1>4. CASE BridgeEnds(c) \/ Cancelled(c)
    BY <1>4 DEF BridgeEnds, Cancelled
  <1> QED BY <1>1, <1>2, <1>3, <1>4

(* After Fallback the handler waits for a method it has, or is through. *)
LEMMA FallbackOf ==
  ASSUME TypeOK, NEW c \in Client, NEW m, NEW s, Fallback(c, m, s)
  PROVE  HasMethodOf(c)' /\ pc'[c] \in {"fallback"} \cup Ended
  BY DEF TypeOK, Fallback, Finish, HasMethodOf

(* Before relay_init is sent, it was not sent. *)
LEMMA NotRelayed ==
  ASSUME TypeOK, OneUpstream, NEW c \in Client, pc[c] \in {"init", "opening", "reading", "fallback"}
  PROVE  relayed[c] = 0
  <1>1. relayed[c] \in Nat /\ relayed[c] <= 1 /\ relayed[c] # 1
    BY DEF TypeOK, OneUpstream
  <1> QED BY <1>1

LEMMA DoFallbackOf ==
  ASSUME HandlerInv, NEW c \in Client,
         FallbackUp(c) \/ FallbackDown(c) \/ \E k \in Key : HandshakeFallback(c, k)
  PROVE  HasMethodOf(c)' /\ OneUpstreamOf(c)' /\ AttemptsOf(c)' /\ UNCHANGED <<seen, blacklist>>
  <1>0. TypeOK /\ HasMethod /\ OneUpstream /\ Attempts
    BY DEF HandlerInv
  <1>1. CASE FallbackUp(c)
    <2>1. Head(methods[c]) \in Method
      BY <1>0, <1>1 DEF FallbackUp, HasMethod, TypeOK
    <2>2. pc'[c] \in {"cf_send", "tcp_send"} /\ route'[c] \in {"cf", "tcp"}
      BY <1>0, <1>1, <2>1 DEF FallbackUp, TypeOK, Method
    <2>3. relayed[c] = 0 /\ relayed'[c] = 1
      <3>1. relayed[c] = 0
        BY <1>0, <1>1, NotRelayed DEF FallbackUp
      <3>2. relayed \in [Client -> Nat] /\ relayed' = [relayed EXCEPT ![c] = @ + 1]
        BY <1>0, <1>1 DEF FallbackUp, TypeOK
      <3> QED BY <3>1, <3>2
    <2>4. UNCHANGED <<seen, allRedirects, blacklist>>
      BY <1>1 DEF FallbackUp, ws, shared
    <2> QED BY <1>0, <2>2, <2>3, <2>4 DEF HasMethodOf, OneUpstreamOf, Attempts, AttemptsOf
  <1>2. CASE FallbackDown(c) \/ \E k \in Key : HandshakeFallback(c, k)
    <2>1. HasMethodOf(c)' /\ pc'[c] \in {"fallback"} \cup Ended
      BY <1>0, <1>2, FallbackOf DEF FallbackDown, HandshakeFallback
    <2>2. relayed[c] # 1 /\ relayed' = relayed
      BY <1>0, <1>2 DEF FallbackDown, HandshakeFallback, OneUpstream
    <2>3. relayed[c] <= 1
      BY <1>0 DEF OneUpstream
    <2>4. UNCHANGED <<seen, allRedirects, blacklist>>
      BY <1>2 DEF FallbackDown, HandshakeFallback, ws, shared
    <2> QED BY <1>0, <2>1, <2>2, <2>3, <2>4 DEF OneUpstreamOf, Attempts, AttemptsOf
  <1> QED BY <1>1, <1>2

LEMMA WsUpOf ==
  ASSUME TypeOK, OneUpstream, NEW c \in Client, NEW k \in Key, WsUp(c, k), pc[c] \in {"init", "reading"}
  PROVE  pc'[c] = "ws_send" /\ OneUpstreamOf(c)'
  <1>1. relayed[c] = 0
    BY NotRelayed
  <1>2. relayed'[c] = 1 /\ route'[c] = "ws" /\ pc'[c] = "ws_send"
    BY <1>1 DEF WsUp, TypeOK
  <1> QED BY <1>2 DEF OneUpstreamOf

LEMMA OpeningOf ==
  ASSUME HandlerInv, NEW c \in Client,
         (\E k \in Key : Handshake(c, k)) \/ WsLine(c) \/ WsConnected(c)
  PROVE  HasMethodOf(c)' /\ OneUpstreamOf(c)' /\ AttemptsOf(c)' /\ UNCHANGED blacklist
  <1>0. TypeOK /\ HasMethod /\ OneUpstream /\ Attempts
    BY DEF HandlerInv
  <1>1. ASSUME NEW k \in Key, Handshake(c, k)
        PROVE  HasMethodOf(c)' /\ OneUpstreamOf(c)' /\ AttemptsOf(c)' /\ UNCHANGED blacklist
    <2>1. pc[c] = "init" /\ seen[c] = <<>> /\ UNCHANGED <<seen, allRedirects, blacklist>>
      BY <1>0, <1>1 DEF Handshake, Attempts
    <2>2. CASE WsUp(c, k)
      BY <1>0, <2>1, <2>2, WsUpOf DEF HasMethodOf, AttemptsOf
    <2>3. CASE Goto(c, "opening") /\ UNCHANGED relayed
      <3>1. relayed'[c] = 0 /\ pc'[c] = "opening"
        BY <1>0, <2>1, <2>3, NotRelayed DEF TypeOK
      <3>2. Len(seen'[c]) = 0
        BY <2>1
      <3>3. \A i \in 1..Len(seen'[c]) : seen'[c][i] = "redirect"
        BY <3>2
      <3>4. AttemptsOf(c)'
        BY <3>1, <3>2, <3>3 DEF AttemptsOf
      <3> QED BY <2>1, <3>1, <3>4 DEF HasMethodOf, OneUpstreamOf
    <2> QED BY <1>1, <2>2, <2>3 DEF Handshake
  <1>2. CASE WsLine(c)
    <2>1. pc[c] \in {"opening", "reading"} /\ pc'[c] = "reading"
      BY <1>0, <1>2 DEF WsLine, TypeOK
    <2>2. UNCHANGED <<seen, allRedirects, blacklist, relayed, route>>
      BY <1>2 DEF WsLine, shared
    <2> QED BY <1>0, <2>1, <2>2 DEF HasMethodOf, Attempts, AttemptsOf, OneUpstream, OneUpstreamOf
  <1>3. CASE WsConnected(c)
    <2>1. pc'[c] = "ws_send" /\ OneUpstreamOf(c)'
      BY <1>0, <1>3, WsUpOf DEF WsConnected, TypeOK
    <2>2. ~allRedirects'[c] /\ UNCHANGED blacklist
      BY <1>0, <1>3 DEF WsConnected, TypeOK
    <2> QED BY <2>1, <2>2 DEF HasMethodOf, AttemptsOf
  <1> QED BY <1>1, <1>2, <1>3

LEMMA RefusedOf ==
  ASSUME HandlerInv, NEW c \in Client, WsRefused(c)
  PROVE  /\ HasMethodOf(c)' /\ OneUpstreamOf(c)' /\ AttemptsOf(c)'
         /\ \A k \in blacklist' \ blacklist : k = key[c] /\ seen'[c] = AllDomains("redirect")
  <1>0. TypeOK /\ OneUpstream /\ Attempts
    BY DEF HandlerInv
  <1>1. PICK why \in {"redirect", "error"} : Flags(c, why) /\ seen' = [seen EXCEPT ![c] = Append(@, why)]
    BY DEF WsRefused
  <1>2. /\ pc[c] \in {"opening", "reading"} /\ relayed' = relayed /\ relayed[c] = 0
    BY <1>0, NotRelayed DEF WsRefused
  <1>3. /\ seen[c] \in Seq({"ok", "redirect", "error"}) /\ Len(seen[c]) \in Nat /\ Len(seen[c]) < 2
        /\ seen'[c] = Append(seen[c], why)
    BY <1>0, <1>1, <1>2 DEF TypeOK, Attempts
  <1>4. /\ Len(seen'[c]) = Len(seen[c]) + 1 /\ seen'[c][Len(seen[c]) + 1] = why
        /\ \A i \in 1..Len(seen[c]) : seen'[c][i] = seen[c][i]
    BY <1>3
  <1>5. allRedirects'[c] => \A i \in 1..Len(seen'[c]) : seen'[c][i] = "redirect"
    <2> SUFFICES ASSUME allRedirects'[c], NEW i \in 1..Len(seen'[c]) PROVE seen'[c][i] = "redirect"
      OBVIOUS
    <2>1. allRedirects[c] /\ why = "redirect"
      BY <1>0, <1>1 DEF Flags, TypeOK
    <2>2. CASE i \in 1..Len(seen[c])
      BY <1>0, <1>4, <2>1, <2>2 DEF Attempts
    <2>3. CASE i = Len(seen[c]) + 1
      BY <1>4, <2>1, <2>3
    <2> QED BY <1>3, <1>4, <2>2, <2>3
  <1>6. CASE Len(seen'[c]) < 2
    <2>1. pc'[c] = "opening" /\ blacklist' = blacklist
      BY <1>0, <1>6 DEF WsRefused, TypeOK, shared
    <2> QED BY <1>2, <1>5, <1>6, <2>1 DEF HasMethodOf, OneUpstreamOf, AttemptsOf
  <1>7. CASE ~(Len(seen'[c]) < 2)
    <2>1. WsFailed(c) /\ \E s : Fallback(c, Methods(key[c]), s)
      BY <1>7 DEF WsRefused
    <2>2. HasMethodOf(c)' /\ pc'[c] \in {"fallback"} \cup Ended
      BY <1>0, <2>1, FallbackOf
    <2>3. ASSUME NEW k \in blacklist' \ blacklist
          PROVE  k = key[c] /\ seen'[c] = AllDomains("redirect")
      <3>1. k = key[c] /\ allRedirects'[c]
        BY <2>1, <2>3 DEF WsFailed
      <3>2. Len(seen'[c]) = 2
        BY <1>3, <1>4, <1>7
      <3>3. seen'[c] \in Seq({"ok", "redirect", "error"})
        BY <1>3
      <3>4. \A i \in 1..2 : seen'[c][i] = "redirect"
        BY <1>5, <3>1, <3>2
      <3> QED BY <3>1, <3>2, <3>3, <3>4 DEF AllDomains
    <2> QED BY <1>2, <1>5, <2>2, <2>3 DEF OneUpstreamOf, AttemptsOf
  <1> QED BY <1>6, <1>7

-----------------------------------------------------------------------------
(* One handler's step, seen from the whole: it keeps its own part of the   *)
(* invariant, the parts of the others are as they were, and the witness of *)
(* a blacklisted key has made all its connects.                            *)
LEMMA StepOf ==
  ASSUME HandlerInv, NEW c \in Client, Step(c)
  PROVE  /\ HasMethodOf(c)' /\ OneUpstreamOf(c)' /\ AttemptsOf(c)'
         /\ \A k \in blacklist' \ blacklist : k = key[c] /\ key' = key /\ seen'[c] = AllDomains("redirect")
         /\ seen[c] = AllDomains("redirect") => key'[c] = key[c] /\ seen'[c] = seen[c]
  <1>0. TypeOK /\ Attempts
    BY DEF HandlerInv
  <1>1. CASE \/ Accept(c) \/ InitFails(c) \/ InitMasks(c) \/ Mask(c) \/ BadHandshake(c) \/ Refused(c)
             \/ Sent(c) \/ SendFails(c) \/ BridgeEnds(c) \/ Cancelled(c)
    BY <1>1, SimpleOf
  <1>2. Len(AllDomains("redirect")) = 2
    BY DEF AllDomains
  <1>3. seen[c] = AllDomains("redirect") => pc[c] \notin {"init", "opening", "reading"}
    <2>1. Len(<<>>) = 0
      OBVIOUS
    <2>2. pc[c] = "init" => seen[c] = <<>>
      BY <1>0 DEF Attempts
    <2>3. pc[c] \in {"opening", "reading"} => Len(seen[c]) < 2
      BY <1>0 DEF Attempts
    <2> QED BY <1>2, <2>1, <2>2, <2>3
  <1>4. CASE FallbackUp(c) \/ FallbackDown(c) \/ \E k \in Key : HandshakeFallback(c, k)
    <2>1. UNCHANGED key \/ pc[c] = "init"
      BY <1>4 DEF FallbackUp, FallbackDown, HandshakeFallback
    <2> QED BY <1>3, <1>4, <2>1, DoFallbackOf
  <1>5. CASE (\E k \in Key : Handshake(c, k)) \/ WsLine(c) \/ WsConnected(c)
    <2>1. pc[c] \in {"init", "opening", "reading"}
      BY <1>5 DEF Handshake, WsLine, WsConnected
    <2> QED BY <1>3, <1>5, <2>1, OpeningOf
  <1>6. CASE WsRefused(c)
    <2>1. pc[c] \in {"opening", "reading"} /\ key' = key
      BY <1>6 DEF WsRefused
    <2> QED BY <1>3, <1>6, <2>1, RefusedOf
  <1> QED BY <1>1, <1>4, <1>5, <1>6 DEF Step, Progress

LEMMA NextHandler == HandlerInv /\ [Next]_vars => HandlerInv'
  <1> SUFFICES ASSUME HandlerInv, [Next]_vars PROVE HandlerInv'
    OBVIOUS
  <1>0. TypeOK /\ HasMethod /\ OneUpstream /\ Attempts /\ BlacklistJustified
    BY DEF HandlerInv
  <1>1. TypeOK'
    BY <1>0, TypeStep
  <1>2. ASSUME NEW c \in Client, Step(c)
        PROVE  HasMethod' /\ OneUpstream' /\ Attempts' /\ BlacklistJustified'
    <2>1. ASSUME NEW d \in Client, d # c
          PROVE  HasMethodOf(d)' /\ OneUpstreamOf(d)' /\ AttemptsOf(d)'
      <3>1. HasMethodOf(d) /\ OneUpstreamOf(d) /\ AttemptsOf(d)
        BY <1>0 DEF HasMethod, OneUpstream, Attempts, HasMethodOf, OneUpstreamOf, AttemptsOf
      <3> QED BY <1>0, <1>2, <2>1, <3>1, StepIsLocal DEF HasMethodOf, OneUpstreamOf, AttemptsOf
    <2>2. \A d \in Client : HasMethodOf(d)' /\ OneUpstreamOf(d)' /\ AttemptsOf(d)'
      BY <1>2, <2>1, StepOf
    <2>3. HasMethod' /\ OneUpstream' /\ Attempts'
      BY <2>2 DEF HasMethod, OneUpstream, Attempts, HasMethodOf, OneUpstreamOf, AttemptsOf
    <2>4. ASSUME NEW k \in blacklist'
          PROVE  \E d \in Client : key'[d] = k /\ seen'[d] = AllDomains("redirect")
      <3>1. CASE k \in blacklist
        <4>1. PICK d \in Client : key[d] = k /\ seen[d] = AllDomains("redirect")
          BY <1>0, <3>1 DEF BlacklistJustified
        <4>2. key'[d] = key[d] /\ seen'[d] = seen[d]
          BY <1>0, <1>2, <4>1, StepOf, StepIsLocal
        <4> QED BY <4>1, <4>2
      <3>2. CASE k \notin blacklist
        BY <1>2, <3>2, StepOf
      <3> QED BY <3>1, <3>2
    <2>5. BlacklistJustified'
      BY <2>4 DEF BlacklistJustified, AllDomains
    <2> QED BY <2>3, <2>5
  <1>3. CASE Tick \/ UNCHANGED vars
    <2>1. UNCHANGED <<pc, methods, relayed, route, key, seen, allRedirects, blacklist>>
      BY <1>3 DEF Tick, vars, ws, shared
    <2>2. HasMethod' /\ OneUpstream' /\ Attempts'
      BY <1>0, <2>1 DEF HasMethod, OneUpstream, Attempts
    <2>3. BlacklistJustified'
      BY <1>0, <2>1 DEF BlacklistJustified, AllDomains
    <2> QED BY <1>1, <2>2, <2>3 DEF HandlerInv
  <1> QED BY <1>1, <1>2, <1>3 DEF Next, HandlerInv

-----------------------------------------------------------------------------
THEOREM HandlerInvariant == Spec => []HandlerInv
  <1> QED BY InitHandler, NextHandler, PTL DEF Spec

(* The type invariant of the handlers. *)
THEOREM TypeCorrect == Spec => []TypeOK
  <1>1. HandlerInv => TypeOK
    BY DEF HandlerInv
  <1> QED BY <1>1, HandlerInvariant, PTL

(* A client's relay_init, and with it its ciphers, goes to one upstream at *)
(* most, whatever fails and in which order.                                *)
THEOREM OneUpstreamEach == Spec => []OneUpstream
  <1>1. HandlerInv => OneUpstream
    BY DEF HandlerInv
  <1> QED BY <1>1, HandlerInvariant, PTL

(* A key is blacklisted only when some client of it was redirected by      *)
(* every domain, also if other clients fail and succeed in between.        *)
THEOREM BlacklistIsJustified == Spec => []BlacklistJustified
  <1>1. HandlerInv => BlacklistJustified
    BY DEF HandlerInv
  <1> QED BY <1>1, HandlerInvariant, PTL

-----------------------------------------------------------------------------
(* What a handler has tried when it gives up. *)

(* The fallback methods the settings and the key leave to do_fallback. *)
AllMethods(k) == {m \in Method : (m = "cf" => UseCf) /\ (m = "tcp" => k \in HasDefaultIp)}
Elements(s) == {s[i] : i \in 1..Len(s)}
NoWebSocket(c) == Len(seen[c]) = Domains \/ key[c] \notin Configured \/ key[c] \in blacklist

(* A handler in do_fallback has no WebSocket left to try, and each method  *)
(* is ahead of it or was in vain; one that relays has counted its route.   *)
GivesUpOf(c) ==
  /\ pc[c] \in {"new", "init", "masking", "refusing", "mask_relay"} => seen[c] = <<>>
  /\ pc[c] \in {"new", "init", "masking", "refusing", "mask_relay", "opening", "reading"} => fell[c] = {}
  /\ pc[c] \in {"ws_send", "cf_send", "tcp_send", "mask_relay", "bridge"} => route[c] # "none"
  /\ pc[c] = "fallback" => NoWebSocket(c) /\ fell[c] \cup Elements(methods[c]) = AllMethods(key[c])
  /\ pc[c] = "returned" /\ route[c] = "none" /\ (seen[c] # <<>> \/ fell[c] # {}) =>
       NoWebSocket(c) /\ fell[c] = AllMethods(key[c])

GivesUp == \A c \in Client : GivesUpOf(c)

LEMMA ElementsOfBoth ==
  ASSUME NEW s \in Seq(Method), NEW t \in Seq(Method)
  PROVE  Elements(s \o t) = Elements(s) \cup Elements(t)
  <1>1. /\ Len(s) \in Nat /\ Len(t) \in Nat /\ Len(s \o t) = Len(s) + Len(t)
        /\ \A i \in 1..Len(s) : (s \o t)[i] = s[i]
        /\ \A i \in 1..Len(t) : (s \o t)[Len(s) + i] = t[i]
    OBVIOUS
  <1>2. ASSUME NEW i \in 1..Len(s \o t) PROVE (s \o t)[i] \in Elements(s) \cup Elements(t)
    <2>1. CASE i \in 1..Len(s)
      BY <1>1, <2>1 DEF Elements
    <2>2. CASE i \notin 1..Len(s)
      <3>1. i - Len(s) \in 1..Len(t) /\ (s \o t)[Len(s) + (i - Len(s))] = t[i - Len(s)] /\ Len(s) + (i - Len(s)) = i
        BY <1>1, <2>2
      <3> QED BY <3>1 DEF Elements
    <2> QED BY <2>1, <2>2
  <1>3. ASSUME NEW i \in 1..Len(s) PROVE s[i] \in Elements(s \o t)
    BY <1>1 DEF Elements
  <1>4. ASSUME NEW i \in 1..Len(t) PROVE t[i] \in Elements(s \o t)
    <2>1. Len(s) + i \in 1..Len(s \o t) /\ (s \o t)[Len(s) + i] = t[i]
      BY <1>1
    <2> QED BY <2>1 DEF Elements
  <1> QED BY <1>2, <1>3, <1>4 DEF Elements

LEMMA ElementsOfMethods == \A k \in Key : Elements(Methods(k)) = AllMethods(k)
  <1> SUFFICES ASSUME NEW k \in Key PROVE Elements(Methods(k)) = AllMethods(k)
    OBVIOUS
  <1> DEFINE cf == IF UseCf THEN <<"cf">> ELSE <<>>
             tcp == IF k \in HasDefaultIp THEN <<"tcp">> ELSE <<>>
  <1>1. Elements(<<>>) = {} /\ Elements(<<"cf">>) = {"cf"} /\ Elements(<<"tcp">>) = {"tcp"}
    BY DEF Elements
  <1>2. <<"cf">> \in Seq(Method) /\ <<"tcp">> \in Seq(Method) /\ <<>> \in Seq(Method)
    <2>1. "cf" \in Method /\ "tcp" \in Method
      BY DEF Method
    <2> QED BY <2>1
  <1>3. cf \in Seq(Method) /\ tcp \in Seq(Method)
    BY <1>2
  <1>4. Elements(cf) \cup Elements(tcp) = AllMethods(k)
    BY <1>1 DEF AllMethods, Method
  <1>5. Methods(k) = IF CfFirst THEN cf \o tcp ELSE tcp \o cf
    BY DEF Methods
  <1> HIDE DEF cf, tcp
  <1>6. Elements(cf \o tcp) = Elements(cf) \cup Elements(tcp) /\ Elements(tcp \o cf) = Elements(tcp) \cup Elements(cf)
    BY <1>3, ElementsOfBoth
  <1> QED BY <1>4, <1>5, <1>6

LEMMA HeadOrTail ==
  ASSUME NEW s \in Seq(Method), s # <<>>
  PROVE  Elements(s) = {Head(s)} \cup Elements(Tail(s))
  <1>1. /\ Len(s) \in Nat \ {0} /\ Head(s) = s[1] /\ Len(Tail(s)) = Len(s) - 1
        /\ \A i \in 1..Len(s) - 1 : Tail(s)[i] = s[i + 1]
    OBVIOUS
  <1>2. ASSUME NEW i \in 1..Len(s) PROVE s[i] \in {Head(s)} \cup Elements(Tail(s))
    <2>1. CASE i = 1
      BY <1>1, <2>1
    <2>2. CASE i # 1
      <3>1. i - 1 \in 1..Len(Tail(s)) /\ Tail(s)[i - 1] = s[i]
        BY <1>1, <2>2
      <3> QED BY <3>1 DEF Elements
    <2> QED BY <2>1, <2>2
  <1>3. ASSUME NEW i \in 1..Len(Tail(s)) PROVE \E j \in 1..Len(s) : Tail(s)[i] = s[j]
    <2>1. i + 1 \in 1..Len(s) /\ Tail(s)[i] = s[i + 1]
      BY <1>1
    <2> QED BY <2>1
  <1>4. 1 \in 1..Len(s)
    BY <1>1
  <1> QED BY <1>1, <1>2, <1>3, <1>4 DEF Elements

(* do_fallback goes on with what is left to try. *)
LEMMA FallbackGivesUp ==
  ASSUME TypeOK, NEW c \in Client, NEW m \in Seq(Method), NEW s, Fallback(c, m, s),
         NoWebSocket(c)', fell'[c] \cup Elements(m) = AllMethods(key'[c])
  PROVE  GivesUpOf(c)'
  <1>1. methods'[c] = m /\ pc'[c] = IF m = <<>> THEN "returned" ELSE "fallback"
    BY DEF TypeOK, Fallback, Finish
  <1>2. m = <<>> => Elements(m) = {}
    BY DEF Elements
  <1> QED BY <1>1, <1>2 DEF GivesUpOf

LEMMA SetupGivesUp ==
  ASSUME HandlerInv, GivesUp, NEW c \in Client,
         \/ Accept(c) \/ InitFails(c) \/ InitMasks(c) \/ Mask(c) \/ BadHandshake(c) \/ Refused(c)
         \/ Sent(c) \/ SendFails(c) \/ BridgeEnds(c) \/ Cancelled(c)
  PROVE  GivesUpOf(c)'
  <1>0. TypeOK /\ GivesUpOf(c) /\ UNCHANGED <<key, methods, blacklist, seen, fell>>
    BY DEF HandlerInv, GivesUp, Accept, InitFails, InitMasks, Mask, BadHandshake, Refused, Sent, SendFails,
           BridgeEnds, Cancelled, shared
  <1> USE <1>0 DEF GivesUpOf, TypeOK, Finish
  <1>1. CASE Accept(c) \/ InitMasks(c) \/ BadHandshake(c)
    BY <1>1 DEF Accept, InitMasks, BadHandshake
  <1>2. CASE InitFails(c) \/ Refused(c)
    BY <1>2 DEF InitFails, Refused
  <1>3. CASE Mask(c)
    BY <1>3 DEF Mask
  <1>4. CASE Sent(c) \/ SendFails(c)
    BY <1>4 DEF Sent, SendFails
  <1>5. CASE BridgeEnds(c)
    BY <1>5 DEF BridgeEnds, Served
  <1>6. CASE Cancelled(c)
    BY <1>6 DEF Cancelled
  <1> QED BY <1>1, <1>2, <1>3, <1>4, <1>5, <1>6

LEMMA DoFallbackGivesUp ==
  ASSUME HandlerInv, GivesUp, NEW c \in Client,
         FallbackUp(c) \/ FallbackDown(c) \/ \E k \in Key : HandshakeFallback(c, k)
  PROVE  GivesUpOf(c)'
  <1>0. TypeOK /\ HasMethod /\ GivesUpOf(c)
    BY DEF HandlerInv, GivesUp
  <1>1. pc[c] = "fallback" => methods[c] \in Seq(Method) /\ methods[c] # <<>>
    BY <1>0 DEF TypeOK, HasMethod
  <1>2. CASE FallbackUp(c)
    <2>1. Head(methods[c]) \in Method
      BY <1>1, <1>2 DEF FallbackUp
    <2>2. pc'[c] \in {"cf_send", "tcp_send"} /\ route'[c] \in {"cf", "tcp"}
      BY <1>0, <1>2, <2>1 DEF FallbackUp, TypeOK, Method
    <2> QED BY <2>2 DEF GivesUpOf
  <1>3. CASE FallbackDown(c)
    <2>1. /\ pc[c] = "fallback" /\ NoWebSocket(c)
          /\ fell[c] \cup Elements(methods[c]) = AllMethods(key[c])
      BY <1>0, <1>3 DEF FallbackDown, GivesUpOf
    <2>2. Tail(methods[c]) \in Seq(Method)
      BY <1>1, <2>1
    <2>3. fell'[c] = fell[c] \cup {Head(methods[c])}
      BY <1>0, <1>3 DEF FallbackDown, TypeOK
    <2>4. NoWebSocket(c)' /\ key' = key
      BY <1>3, <2>1 DEF FallbackDown, NoWebSocket, shared
    <2>5. fell'[c] \cup Elements(Tail(methods[c])) = AllMethods(key'[c])
      BY <1>1, <2>1, <2>3, <2>4, HeadOrTail
    <2> QED BY <1>0, <1>3, <2>2, <2>4, <2>5, FallbackGivesUp DEF FallbackDown
  <1>4. ASSUME NEW k \in Key, HandshakeFallback(c, k)
        PROVE  GivesUpOf(c)'
    <2>1. fell'[c] = {} /\ key'[c] = k
      BY <1>0, <1>4 DEF HandshakeFallback, GivesUpOf, TypeOK
    <2>2. NoWebSocket(c)'
      BY <1>4, <2>1 DEF HandshakeFallback, NoWebSocket, shared
    <2>3. fell'[c] \cup Elements(Methods(k)) = AllMethods(key'[c])
      BY <2>1, ElementsOfMethods
    <2> QED BY <1>0, <1>4, <2>2, <2>3, MethodsType, FallbackGivesUp DEF HandshakeFallback
  <1> QED BY <1>2, <1>3, <1>4

LEMMA WsGivesUp ==
  ASSUME HandlerInv, GivesUp, NEW c \in Client,
         (\E k \in Key : Handshake(c, k)) \/ WsLine(c) \/ WsConnected(c) \/ WsRefused(c)
  PROVE  GivesUpOf(c)'
  <1>0. TypeOK /\ Attempts /\ GivesUpOf(c)
    BY DEF HandlerInv, GivesUp
  <1>1. fell[c] = {} /\ fell' = fell
    BY <1>0 DEF Handshake, WsLine, WsConnected, WsRefused, GivesUpOf
  <1>2. CASE (\E k \in Key : Handshake(c, k)) \/ WsLine(c) \/ WsConnected(c)
    <2>1. (\E k \in Key : WsUp(c, k)) \/ Goto(c, "opening") \/ Goto(c, "reading")
      BY <1>0, <1>2 DEF Handshake, WsLine, WsConnected, TypeOK
    <2>2. ASSUME NEW k \in Key, WsUp(c, k) PROVE pc'[c] = "ws_send" /\ route'[c] = "ws"
      BY <1>0, <2>2 DEF WsUp, TypeOK
    <2>3. Goto(c, "opening") \/ Goto(c, "reading") => pc'[c] \in {"opening", "reading"}
      BY <1>0 DEF TypeOK
    <2>4. fell'[c] = {}
      BY <1>1
    <2> QED BY <2>1, <2>2, <2>3, <2>4 DEF GivesUpOf
  <1>3. CASE WsRefused(c)
    <2>1. CASE Len(seen'[c]) < Domains
      <3>1. pc'[c] = "opening"
        BY <1>0, <1>3, <2>1 DEF WsRefused, TypeOK
      <3> QED BY <1>1, <3>1 DEF GivesUpOf
    <2>2. CASE ~(Len(seen'[c]) < Domains)
      <3>1. pc[c] \in {"opening", "reading"} /\ \E why \in {"redirect", "error"} : seen' = [seen EXCEPT ![c] = Append(@, why)]
        BY <1>3 DEF WsRefused
      <3>2. seen[c] \in Seq({"ok", "redirect", "error"}) /\ Len(seen[c]) \in Nat /\ Len(seen[c]) < 2
        BY <1>0, <3>1 DEF TypeOK, Attempts
      <3>3. Len(seen'[c]) = Len(seen[c]) + 1
        BY <1>0, <3>1, <3>2 DEF TypeOK
      <3>4. NoWebSocket(c)'
        BY <2>2, <3>2, <3>3 DEF NoWebSocket
      <3>5. key' = key /\ key[c] \in Key /\ \E s : Fallback(c, Methods(key[c]), s)
        BY <1>0, <1>3, <2>2 DEF WsRefused, TypeOK
      <3>6. fell'[c] \cup Elements(Methods(key[c])) = AllMethods(key'[c])
        BY <1>1, <3>5, ElementsOfMethods
      <3> QED BY <1>0, <3>4, <3>5, <3>6, MethodsType, FallbackGivesUp
    <2> QED BY <2>1, <2>2
  <1> QED BY <1>2, <1>3

(* The blacklist only grows, and a handler's record is its own. *)
LEMMA OthersGiveUp ==
  ASSUME TypeOK, NEW c \in Client, Step(c)
  PROVE  /\ blacklist \subseteq blacklist'
         /\ \A d \in Client \ {c} : fell'[d] = fell[d]
  <1> USE DEF TypeOK, ws, shared
  <1>1. CASE Accept(c) \/ InitFails(c) \/ InitMasks(c) \/ Mask(c) \/ BadHandshake(c) \/ Refused(c)
    BY <1>1 DEF Accept, InitFails, InitMasks, Mask, BadHandshake, Refused
  <1>2. CASE Sent(c) \/ SendFails(c) \/ BridgeEnds(c) \/ Cancelled(c)
    BY <1>2 DEF Sent, SendFails, BridgeEnds, Cancelled
  <1>3. CASE FallbackUp(c) \/ FallbackDown(c) \/ \E k \in Key : HandshakeFallback(c, k)
    BY <1>3 DEF FallbackUp, FallbackDown, HandshakeFallback
  <1>4. CASE (\E k \in Key : Handshake(c, k)) \/ WsLine(c) \/ WsConnected(c)
    BY <1>4 DEF Handshake, WsLine, WsConnected, WsUp
  <1>5. CASE WsRefused(c)
    BY <1>5 DEF WsRefused, WsFailed
  <1> QED BY <1>1, <1>2, <1>3, <1>4, <1>5 DEF Step, Progress

LEMMA NextGivesUp == HandlerInv /\ GivesUp /\ [Next]_vars => GivesUp'
  <1> SUFFICES ASSUME HandlerInv, GivesUp, [Next]_vars PROVE GivesUp'
    OBVIOUS
  <1>0. TypeOK
    BY DEF HandlerInv
  <1>1. ASSUME NEW c \in Client, Step(c), NEW d \in Client PROVE GivesUpOf(d)'
    <2>1. CASE d = c
      BY <1>1, <2>1, SetupGivesUp, DoFallbackGivesUp, WsGivesUp DEF Step, Progress
    <2>2. CASE d # c
      <3>1. /\ pc'[d] = pc[d] /\ methods'[d] = methods[d] /\ route'[d] = route[d]
            /\ key'[d] = key[d] /\ seen'[d] = seen[d] /\ fell'[d] = fell[d]
        BY <1>0, <1>1, <2>2, StepIsLocal, OthersGiveUp
      <3>2. NoWebSocket(d) => NoWebSocket(d)'
        BY <1>0, <1>1, <3>1, OthersGiveUp DEF NoWebSocket
      <3> QED BY <3>1, <3>2 DEF GivesUp, GivesUpOf
    <2> QED BY <2>1, <2>2
  <1>2. CASE Tick \/ UNCHANGED vars
    <2>1. UNCHANGED <<pc, methods, route, key, seen, fell, blacklist>>
      BY <1>2 DEF Tick, vars, ws, shared
    <2> QED BY <2>1 DEF GivesUp, GivesUpOf, NoWebSocket
  <1> QED BY <1>1, <1>2 DEF Next, GivesUp

(* Whoever is sent away without a connection after a good handshake was    *)
(* denied by every domain of its key and by every fallback method there is. *)
THEOREM GivesUpOnlyAfterAll == Spec => []GivesUpAfterAll
  <1>1. Init => GivesUp
    BY DEF Init, GivesUp, GivesUpOf
  <1>2. GivesUp => GivesUpAfterAll
    BY DEF GivesUp, GivesUpOf, GivesUpAfterAll, NoWebSocket, AllMethods
  <1> QED BY <1>1, <1>2, NextGivesUp, HandlerInvariant, PTL DEF Spec

-----------------------------------------------------------------------------
(* The counters.  Clients may be without end; those accepted by now are    *)
(* finitely many, and so are the sets the counters stand for.              *)

Tally(n, S) == IsFiniteSet(S) /\ n = Cardinality(S)

Accepted == {c \in Client : pc[c] # "new"}
Active == {c \in Client : pc[c] \in Setup \cup Served}
On(x) == {c \in Client : route[c] = x}

Counted ==
  /\ Tally(stats["total"], Accepted)
  /\ Tally(stats["active"], Active)
  /\ \A x \in Route : Tally(stats[x], On(x))
  /\ Tally(stats["ws_errors"], Failures)

(* Until it has a connection a handler is not counted under any route. *)
NotYet ==
  \A c \in Client :
    pc[c] \in {"new", "init", "masking", "opening", "reading", "fallback"} => route[c] = "none"

CountInv == Counted /\ NotYet

LEMMA TallyAdd ==
  ASSUME NEW n, NEW S, NEW e, Tally(n, S), e \notin S
  PROVE  Tally(n + 1, S \cup {e})
  BY FS_AddElement DEF Tally

LEMMA TallyRemove ==
  ASSUME NEW n, NEW S, NEW e, Tally(n, S), e \in S
  PROVE  Tally(n - 1, S \ {e})
  BY FS_RemoveElement DEF Tally

(* What one step of a handler does to the counters, from its own places. *)
Alive(where) == where \in Setup \cup Served
Totals(c) ==
  /\ pc'[c] # "new"
  /\ stats'["total"] = IF pc[c] = "new" THEN stats["total"] + 1 ELSE stats["total"]
  /\ Alive(pc'[c]) /\ ~Alive(pc[c]) => stats'["active"] = stats["active"] + 1
  /\ ~Alive(pc'[c]) /\ Alive(pc[c]) => stats'["active"] = stats["active"] - 1
  /\ (Alive(pc'[c]) <=> Alive(pc[c])) => stats'["active"] = stats["active"]
SameRoute(c) == route'[c] = route[c] /\ \A x \in Route : stats'[x] = stats[x]
NewRoute(c) ==
  /\ route[c] = "none" /\ route'[c] \in Route
  /\ \A x \in Route : stats'[x] = IF x = route'[c] THEN stats[x] + 1 ELSE stats[x]
SameErrors(c) ==
  /\ seen'[c] = seen[c] \/ seen'[c] = Append(seen[c], "ok")
  /\ stats'["ws_errors"] = stats["ws_errors"]
NewError(c) ==
  /\ Len(seen[c]) < Domains
  /\ \E why \in {"redirect", "error"} : seen'[c] = Append(seen[c], why)
  /\ stats'["ws_errors"] = stats["ws_errors"] + 1
Books(c) == Totals(c) /\ (SameRoute(c) \/ NewRoute(c)) /\ (SameErrors(c) \/ NewError(c))

LEMMA Apart ==
  /\ "total" \notin Route /\ "active" \notin Route /\ "ws_errors" \notin Route
  /\ Setup \cup Served = {"init", "masking", "refusing", "opening", "reading", "ws_send", "fallback",
                          "cf_send", "tcp_send", "mask_relay", "bridge"}
  BY DEF Route, Setup, Served

LEMMA AliveOr ==
  /\ \A w \in {"init", "masking", "refusing", "opening", "reading", "ws_send", "fallback", "cf_send",
               "tcp_send", "mask_relay", "bridge"} : Alive(w) /\ w # "new"
  /\ \A w \in {"returned", "raised"} : ~Alive(w) /\ w # "new"
  /\ ~Alive("new")
  BY Apart DEF Alive

LEMMA FinishBooks ==
  ASSUME NEW c \in Client, NEW how \in Ended, NEW s \in [Counter -> Int], pc \in [Client -> Pc],
         Finish(c, how, s)
  PROVE  /\ pc'[c] \in {"returned", "raised"}
         /\ \A x \in Counter \ {"active"} : stats'[x] = s[x]
         /\ stats'["active"] = s["active"] - 1
  BY Names DEF Finish

LEMMA SetupBooks ==
  ASSUME TypeOK, NotYet, NEW c \in Client,
         \/ Accept(c) \/ InitFails(c) \/ InitMasks(c) \/ Mask(c) \/ BadHandshake(c) \/ Refused(c)
         \/ Sent(c) \/ SendFails(c) \/ BridgeEnds(c) \/ Cancelled(c)
  PROVE  Books(c)
  <1> USE Names, Apart, AliveOr
  <1>0. /\ pc \in [Client -> Pc] /\ stats \in [Counter -> Int] /\ route \in [Client -> Route \cup {"none"}]
    BY DEF TypeOK
  <1>1. seen'[c] = seen[c]
    BY DEF Accept, InitFails, InitMasks, Mask, BadHandshake, Refused, Sent, SendFails, BridgeEnds, Cancelled
  <1>2. CASE Accept(c)
    <2>1. pc[c] = "new" /\ pc'[c] = "init" /\ route' = route
      BY <1>0, <1>2 DEF Accept
    <2>2. /\ stats'["total"] = stats["total"] + 1 /\ stats'["active"] = stats["active"] + 1
          /\ \A x \in Counter \ {"total", "active"} : stats'[x] = stats[x]
      BY <1>0, <1>2 DEF Accept
    <2> QED BY <1>1, <2>1, <2>2 DEF Books, Totals, SameRoute, SameErrors
  <1>3. CASE \E how \in Ended : Finish(c, how, stats) /\ UNCHANGED route /\ pc[c] # "new" /\ Alive(pc[c])
    <2>1. /\ pc'[c] \in {"returned", "raised"} /\ stats'["active"] = stats["active"] - 1
          /\ \A x \in Counter \ {"active"} : stats'[x] = stats[x]
      BY <1>0, <1>3, FinishBooks
    <2> QED BY <1>1, <1>3, <2>1 DEF Books, Totals, SameRoute, SameErrors
  <1>4. CASE InitMasks(c) \/ Sent(c)
    <2>1. /\ pc[c] \in {"init", "ws_send", "cf_send", "tcp_send"} /\ pc'[c] \in {"masking", "bridge"}
          /\ UNCHANGED <<stats, route>>
      BY <1>0, <1>4 DEF InitMasks, Sent
    <2> QED BY <1>1, <2>1 DEF Books, Totals, SameRoute, SameErrors
  <1>5. ASSUME NEW r \in {"masked", "bad"}, pc[c] \in {"masking", "init"}, pc'[c] \in {"mask_relay", "refusing"},
               stats' = [stats EXCEPT ![r] = @ + 1], route' = [route EXCEPT ![c] = r]
        PROVE  Books(c)
    <2>1. r \in Route /\ r \in Counter /\ r \notin {"total", "active", "ws_errors"} /\ route'[c] = r
      BY <1>0, <1>5
    <2>2. stats'[r] = stats[r] + 1 /\ \A x \in Counter \ {r} : stats'[x] = stats[x]
      BY <1>0, <1>5, <2>1
    <2>3. route[c] = "none"
      BY <1>5 DEF NotYet
    <2> QED BY <1>1, <1>5, <2>1, <2>2, <2>3 DEF Books, Totals, NewRoute, SameErrors
  <1>6. CASE BadHandshake(c)
    <2>1. pc[c] = "init" /\ pc'[c] = "refusing"
      BY <1>0, <1>6 DEF BadHandshake
    <2> QED BY <1>5, <1>6, <2>1 DEF BadHandshake
  <1>7. CASE Mask(c)
    <2>1. pc[c] = "masking"
      BY <1>7 DEF Mask
    <2>2. CASE Goto(c, "mask_relay")
      <3>1. pc'[c] = "mask_relay"
        BY <1>0, <2>2
      <3> QED BY <1>0, <1>3, <1>5, <1>7, <2>1, <3>1 DEF Mask
    <2> QED BY <1>3, <1>7, <2>1, <2>2 DEF Mask
  <1>8. CASE InitFails(c) \/ Refused(c) \/ SendFails(c)
    <2>1. pc[c] \in {"init", "refusing", "ws_send", "cf_send", "tcp_send"} /\ UNCHANGED route
      BY <1>8 DEF InitFails, Refused, SendFails
    <2> QED BY <1>3, <1>8, <2>1 DEF InitFails, Refused, SendFails
  <1>9. CASE BridgeEnds(c) \/ Cancelled(c)
    <2>1. Alive(pc[c]) /\ UNCHANGED route
      BY <1>9 DEF BridgeEnds, Cancelled, Alive
    <2> QED BY <1>3, <1>9, <2>1 DEF BridgeEnds, Cancelled
  <1> QED BY <1>2, <1>4, <1>6, <1>7, <1>8, <1>9

(* do_fallback with the counters at s: the handler waits, or is through. *)
LEMMA FallbackBooks ==
  ASSUME NEW c \in Client, NEW m, NEW s \in [Counter -> Int], pc \in [Client -> Pc],
         Alive(pc[c]), pc[c] # "new", s["total"] = stats["total"], s["active"] = stats["active"],
         Fallback(c, m, s)
  PROVE  Totals(c) /\ \A x \in Counter \ {"active"} : stats'[x] = s[x]
  <1> USE Names, AliveOr
  <1>1. CASE m = <<>>
    <2>1. /\ pc'[c] \in {"returned", "raised"} /\ stats'["active"] = s["active"] - 1
          /\ \A x \in Counter \ {"active"} : stats'[x] = s[x]
      BY <1>1, FinishBooks DEF Fallback
    <2>2. stats'["total"] = stats["total"]
      BY <2>1
    <2> QED BY <2>1, <2>2 DEF Totals
  <1>2. CASE m # <<>>
    <2>1. pc'[c] = "fallback" /\ stats' = s
      BY <1>2 DEF Fallback
    <2> QED BY <2>1 DEF Totals
  <1> QED BY <1>1, <1>2

LEMMA DoFallbackBooks ==
  ASSUME TypeOK, HasMethod, NotYet, NEW c \in Client,
         FallbackUp(c) \/ FallbackDown(c) \/ \E k \in Key : HandshakeFallback(c, k)
  PROVE  Books(c)
  <1> USE Names, Apart, AliveOr
  <1>0. /\ pc \in [Client -> Pc] /\ stats \in [Counter -> Int] /\ route \in [Client -> Route \cup {"none"}]
        /\ methods \in [Client -> Seq(Method)]
    BY DEF TypeOK
  <1>1. seen'[c] = seen[c] /\ pc[c] \in {"init", "fallback"}
    BY DEF FallbackUp, FallbackDown, HandshakeFallback
  <1>2. CASE FallbackUp(c)
    <2> DEFINE m == Head(methods[c])
    <2>1. m \in {"cf", "tcp"}
      BY <1>0, <1>2 DEF FallbackUp, HasMethod, Method
    <2>2. /\ pc[c] = "fallback" /\ stats' = [stats EXCEPT ![m] = @ + 1] /\ route' = [route EXCEPT ![c] = m]
          /\ pc' = [pc EXCEPT ![c] = IF m = "cf" THEN "cf_send" ELSE "tcp_send"]
      BY <1>2 DEF FallbackUp
    <2> HIDE DEF m
    <2>3. pc'[c] \in {"cf_send", "tcp_send"} /\ route'[c] = m
      BY <1>0, <2>2
    <2>4. m \in Route /\ m \in Counter /\ m \notin {"total", "active", "ws_errors"}
      BY <2>1
    <2>5. stats'[m] = stats[m] + 1 /\ \A x \in Counter \ {m} : stats'[x] = stats[x]
      BY <1>0, <2>2, <2>4
    <2>6. route[c] = "none"
      BY <2>2 DEF NotYet
    <2> QED BY <1>1, <2>2, <2>3, <2>4, <2>5, <2>6 DEF Books, Totals, NewRoute, SameErrors
  <1>3. CASE FallbackDown(c) \/ \E k \in Key : HandshakeFallback(c, k)
    <2>1. PICK m : route' = route /\ Fallback(c, m, stats)
      BY <1>3 DEF FallbackDown, HandshakeFallback
    <2>2. Alive(pc[c]) /\ pc[c] # "new"
      BY <1>1
    <2>3. Totals(c) /\ \A x \in Counter \ {"active"} : stats'[x] = stats[x]
      BY <1>0, <2>1, <2>2, FallbackBooks
    <2> QED BY <1>1, <2>1, <2>3 DEF Books, SameRoute, SameErrors
  <1> QED BY <1>2, <1>3

LEMMA WsUpBooks ==
  ASSUME TypeOK, NotYet, NEW c \in Client, NEW k \in Key, WsUp(c, k), pc[c] \in {"init", "reading"},
         seen'[c] = seen[c] \/ seen'[c] = Append(seen[c], "ok")
  PROVE  Books(c)
  <1> USE Names, Apart, AliveOr
  <1>0. /\ pc \in [Client -> Pc] /\ stats \in [Counter -> Int] /\ route \in [Client -> Route \cup {"none"}]
    BY DEF TypeOK
  <1>1. pc'[c] = "ws_send" /\ route'[c] = "ws" /\ route[c] = "none"
    BY <1>0 DEF WsUp, NotYet
  <1>2. stats'["ws"] = stats["ws"] + 1 /\ \A x \in Counter \ {"ws"} : stats'[x] = stats[x]
    BY <1>0 DEF WsUp
  <1> QED BY <1>1, <1>2 DEF Books, Totals, NewRoute, SameErrors

LEMMA WsBooks ==
  ASSUME TypeOK, Attempts, NotYet, NEW c \in Client,
         (\E k \in Key : Handshake(c, k)) \/ WsLine(c) \/ WsConnected(c) \/ WsRefused(c)
  PROVE  Books(c)
  <1> USE Names, Apart, AliveOr
  <1>0. /\ pc \in [Client -> Pc] /\ stats \in [Counter -> Int] /\ route \in [Client -> Route \cup {"none"}]
        /\ key \in [Client -> Key] /\ seen \in [Client -> Seq({"ok", "redirect", "error"})]
    BY DEF TypeOK
  <1>1. ASSUME pc[c] \in {"init", "opening", "reading"}, pc'[c] \in {"opening", "reading"},
               UNCHANGED <<stats, route, seen>>
        PROVE  Books(c)
    BY <1>1 DEF Books, Totals, SameRoute, SameErrors
  <1>2. ASSUME NEW k \in Key, Handshake(c, k) PROVE Books(c)
    <2>1. CASE WsUp(c, k)
      BY <1>2, <2>1, WsUpBooks DEF Handshake
    <2>2. CASE Goto(c, "opening") /\ UNCHANGED <<failUntil, stats, route, relayed>>
      <3>1. pc'[c] = "opening"
        BY <1>0, <2>2
      <3> QED BY <1>1, <1>2, <2>2, <3>1 DEF Handshake
    <2> QED BY <1>2, <2>1, <2>2 DEF Handshake
  <1>3. CASE WsLine(c)
    <2>1. pc'[c] = "reading"
      BY <1>0, <1>3 DEF WsLine
    <2> QED BY <1>1, <1>3, <2>1 DEF WsLine
  <1>4. CASE WsConnected(c)
    <2>1. seen'[c] = Append(seen[c], "ok") /\ key[c] \in Key
      BY <1>0, <1>4 DEF WsConnected
    <2> QED BY <1>4, <2>1, WsUpBooks DEF WsConnected
  <1>5. CASE WsRefused(c)
    <2> DEFINE s == [stats EXCEPT !["ws_errors"] = @ + 1]
    <2>1. /\ pc[c] \in {"opening", "reading"} /\ Len(seen[c]) < Domains /\ route' = route
          /\ \E why \in {"redirect", "error"} : seen'[c] = Append(seen[c], why)
      BY <1>0, <1>5 DEF WsRefused, Attempts
    <2>2. s \in [Counter -> Int] /\ s["ws_errors"] = stats["ws_errors"] + 1
          /\ \A x \in Counter \ {"ws_errors"} : s[x] = stats[x]
      BY <1>0
    <2>3. (pc'[c] = "opening" /\ stats' = s) \/ \E m : Fallback(c, m, s)
      BY <1>0, <1>5 DEF WsRefused
    <2> HIDE DEF s
    <2>4. Totals(c) /\ \A x \in Counter \ {"active"} : stats'[x] = s[x]
      <3>1. CASE pc'[c] = "opening" /\ stats' = s
        BY <2>1, <2>2, <3>1 DEF Totals
      <3>2. ASSUME NEW m, Fallback(c, m, s)
            PROVE  Totals(c) /\ \A x \in Counter \ {"active"} : stats'[x] = s[x]
        <4>1. Alive(pc[c]) /\ pc[c] # "new" /\ s["total"] = stats["total"] /\ s["active"] = stats["active"]
          BY <2>1, <2>2
        <4> QED BY <1>0, <2>2, <3>2, <4>1, FallbackBooks
      <3> QED BY <2>3, <3>1, <3>2
    <2>5. stats'["ws_errors"] = stats["ws_errors"] + 1 /\ \A x \in Route : stats'[x] = stats[x]
      BY <2>2, <2>4
    <2> QED BY <2>1, <2>4, <2>5 DEF Books, SameRoute, NewError
  <1> QED BY <1>2, <1>3, <1>4, <1>5

(* A handler without a connection keeps its route with its place. *)
LEMMA NotYetStep ==
  ASSUME TypeOK, HasMethod, NotYet, NEW c \in Client, Step(c),
         pc'[c] \in {"new", "init", "masking", "opening", "reading", "fallback"}
  PROVE  route'[c] = "none"
  <1> USE DEF TypeOK, NotYet
  <1>1. CASE Accept(c) \/ InitFails(c) \/ InitMasks(c) \/ Mask(c) \/ BadHandshake(c) \/ Refused(c)
    BY <1>1 DEF Accept, InitFails, InitMasks, Mask, BadHandshake, Refused, Finish
  <1>2. CASE Sent(c) \/ SendFails(c) \/ BridgeEnds(c) \/ Cancelled(c)
    BY <1>2 DEF Sent, SendFails, BridgeEnds, Cancelled, Finish
  <1>3. CASE FallbackUp(c) \/ FallbackDown(c) \/ \E k \in Key : HandshakeFallback(c, k)
    BY <1>3 DEF FallbackUp, FallbackDown, HandshakeFallback
  <1>4. CASE (\E k \in Key : Handshake(c, k)) \/ WsLine(c) \/ WsConnected(c)
    BY <1>4 DEF Handshake, WsLine, WsConnected, WsUp
  <1>5. CASE WsRefused(c)
    BY <1>5 DEF WsRefused
  <1> QED BY <1>1, <1>2, <1>3, <1>4, <1>5 DEF Step, Progress

(* The failed connects after a step of c. *)
LEMMA FailuresStep ==
  ASSUME TypeOK, NEW c \in Client, \A d \in Client \ {c} : seen'[d] = seen[d], SameErrors(c) \/ NewError(c),
         Tally(stats["ws_errors"], Failures)
  PROVE  Tally(stats'["ws_errors"], Failures')
  <1>1. seen[c] \in Seq({"ok", "redirect", "error"}) /\ Len(seen[c]) \in Nat
    BY DEF TypeOK
  <1> DEFINE n == Len(seen[c])
  <1>2. /\ Failures \subseteq Client \X (1..Domains) /\ Failures' \subseteq Client \X (1..Domains)
        /\ \A d \in Client, i \in 1..Domains :
             /\ <<d, i>> \in Failures <=> i \in DOMAIN seen[d] /\ seen[d][i] # "ok"
             /\ <<d, i>> \in Failures' <=> i \in DOMAIN seen'[d] /\ seen'[d][i] # "ok"
    BY DEF Failures
  <1>3. ASSUME NEW F, F \subseteq Client \X (1..Domains),
               \A d \in Client, i \in 1..Domains : <<d, i>> \in Failures' <=> <<d, i>> \in F
        PROVE  Failures' = F
    <2>1. ASSUME NEW f \in Client \X (1..Domains) PROVE f \in Failures' <=> f \in F
      <3>1. f = <<f[1], f[2]>> /\ f[1] \in Client /\ f[2] \in 1..Domains
        OBVIOUS
      <3>2. <<f[1], f[2]>> \in Failures' <=> <<f[1], f[2]>> \in F
        BY <1>3, <3>1
      <3> QED BY <3>1, <3>2
    <2> QED BY <1>2, <1>3, <2>1
  <1>4. DOMAIN seen[c] = 1..n
    BY <1>1
  <1>5. ASSUME NEW how \in {"ok", "redirect", "error"}, seen'[c] = Append(seen[c], how)
        PROVE  /\ DOMAIN seen'[c] = 1..(n + 1) /\ seen'[c][n + 1] = how
               /\ \A i \in 1..n : seen'[c][i] = seen[c][i]
    BY <1>1, <1>5
  <1>6. CASE SameErrors(c)
    <2>1. CASE seen'[c] = seen[c]
      <3>1. \A d \in Client : seen'[d] = seen[d]
        BY <2>1
      <3>2. \A d \in Client, i \in 1..Domains : <<d, i>> \in Failures' <=> <<d, i>> \in Failures
        BY <1>2, <3>1
      <3>3. Failures' = Failures
        BY <1>2, <1>3, <3>2
      <3> QED BY <1>6, <3>3 DEF SameErrors
    <2>2. CASE seen'[c] = Append(seen[c], "ok")
      <3>1. \A i \in 1..Domains : i \in DOMAIN seen'[c] /\ seen'[c][i] # "ok" <=> i \in DOMAIN seen[c] /\ seen[c][i] # "ok"
        BY <1>1, <1>4, <1>5, <2>2
      <3>2. \A d \in Client, i \in 1..Domains : <<d, i>> \in Failures' <=> <<d, i>> \in Failures
        BY <1>2, <3>1
      <3>3. Failures' = Failures
        BY <1>2, <1>3, <3>2
      <3> QED BY <1>6, <3>3 DEF SameErrors
    <2> QED BY <1>6, <2>1, <2>2 DEF SameErrors
  <1>7. CASE NewError(c)
    <2>1. PICK why \in {"redirect", "error"} : seen'[c] = Append(seen[c], why)
      BY <1>7 DEF NewError
    <2>2. n + 1 \in 1..Domains /\ n + 1 \notin DOMAIN seen[c]
      BY <1>1, <1>4, <1>7 DEF NewError
    <2>3. \A i \in 1..Domains : i \in DOMAIN seen'[c] /\ seen'[c][i] # "ok" <=>
                                  (i \in DOMAIN seen[c] /\ seen[c][i] # "ok") \/ i = n + 1
      BY <1>1, <1>4, <1>5, <2>1, <2>2
    <2>4. <<c, n + 1>> \notin Failures
      BY <1>2, <2>2
    <2>5. \A d \in Client, i \in 1..Domains : <<d, i>> \in Failures' <=> <<d, i>> \in Failures \cup {<<c, n + 1>>}
      BY <1>2, <2>3
    <2>6. Failures' = Failures \cup {<<c, n + 1>>}
      <3>1. Failures \cup {<<c, n + 1>>} \subseteq Client \X (1..Domains)
        BY <1>2, <2>2
      <3> QED BY <1>3, <2>5, <3>1
    <2>7. Tally(stats["ws_errors"] + 1, Failures \cup {<<c, n + 1>>})
      BY <2>4, TallyAdd
    <2> QED BY <1>7, <2>6, <2>7 DEF NewError
  <1> QED BY <1>6, <1>7

LEMMA StepCounts ==
  ASSUME HandlerInv, CountInv, NEW c \in Client, Step(c)
  PROVE  CountInv'
  <1>0. TypeOK /\ HasMethod /\ Attempts /\ Counted /\ NotYet
    BY DEF HandlerInv, CountInv
  <1>1. Books(c)
    BY <1>0, SetupBooks, DoFallbackBooks, WsBooks DEF Step, Progress
  <1>2. \A d \in Client \ {c} : pc'[d] = pc[d] /\ route'[d] = route[d] /\ seen'[d] = seen[d]
    BY <1>0, StepIsLocal
  <1>3. Tally(stats'["total"], Accepted')
    <2>1. CASE pc[c] = "new"
      <3>1. Accepted' = Accepted \cup {c} /\ c \notin Accepted
        BY <1>1, <1>2, <2>1 DEF Books, Totals, Accepted
      <3> QED BY <1>0, <1>1, <2>1, <3>1, TallyAdd DEF Counted, Books, Totals
    <2>2. CASE pc[c] # "new"
      <3>1. Accepted' = Accepted
        BY <1>1, <1>2, <2>2 DEF Books, Totals, Accepted
      <3> QED BY <1>0, <1>1, <2>2, <3>1 DEF Counted, Books, Totals
    <2> QED BY <2>1, <2>2
  <1>4. Tally(stats'["active"], Active')
    <2>1. /\ \A d \in Client : d \in Active <=> Alive(pc[d])
          /\ \A d \in Client : d \in Active' <=> Alive(pc'[d])
          /\ Active \subseteq Client /\ Active' \subseteq Client
      BY DEF Active, Alive
    <2>2. \A d \in Client \ {c} : d \in Active' <=> d \in Active
      BY <1>2, <2>1
    <2>3. CASE Alive(pc'[c]) /\ ~Alive(pc[c])
      <3>1. Active' = Active \cup {c} /\ c \notin Active
        BY <2>1, <2>2, <2>3
      <3> QED BY <1>0, <1>1, <2>3, <3>1, TallyAdd DEF Counted, Books, Totals
    <2>4. CASE ~Alive(pc'[c]) /\ Alive(pc[c])
      <3>1. Active' = Active \ {c} /\ c \in Active
        BY <2>1, <2>2, <2>4
      <3> QED BY <1>0, <1>1, <2>4, <3>1, TallyRemove DEF Counted, Books, Totals
    <2>5. CASE Alive(pc'[c]) <=> Alive(pc[c])
      <3>1. Active' = Active
        BY <2>1, <2>2, <2>5
      <3> QED BY <1>0, <1>1, <2>5, <3>1 DEF Counted, Books, Totals
    <2> QED BY <2>3, <2>4, <2>5
  <1>5. ASSUME NEW x \in Route PROVE Tally(stats'[x], On(x)')
    <2>1. x # "none"
      BY DEF Route
    <2>2. CASE NewRoute(c) /\ route'[c] = x
      <3>1. On(x)' = On(x) \cup {c} /\ c \notin On(x) /\ stats'[x] = stats[x] + 1
        BY <1>2, <2>1, <2>2 DEF On, NewRoute
      <3> QED BY <1>0, <3>1, TallyAdd DEF Counted
    <2>3. CASE SameRoute(c) \/ (NewRoute(c) /\ route'[c] # x)
      <3>1. On(x)' = On(x) /\ stats'[x] = stats[x]
        BY <1>2, <2>1, <2>3 DEF On, SameRoute, NewRoute
      <3> QED BY <1>0, <3>1 DEF Counted
    <2> QED BY <1>1, <2>2, <2>3 DEF Books
  <1>6. Tally(stats'["ws_errors"], Failures')
    BY <1>0, <1>1, <1>2, FailuresStep DEF Books, Counted
  <1>7. NotYet'
    BY <1>0, <1>2, NotYetStep DEF NotYet
  <1> QED BY <1>3, <1>4, <1>5, <1>6, <1>7 DEF CountInv, Counted

LEMMA InitCounts == Init => CountInv
  <1> SUFFICES ASSUME Init PROVE CountInv
    OBVIOUS
  <1>1. Accepted = {} /\ Active = {} /\ \A x \in Route : On(x) = {}
    BY Apart DEF Init, Accepted, Active, On, Route
  <1>2. Failures = {}
    BY DEF Init, Failures
  <1>3. \A x \in Counter : stats[x] = 0
    BY DEF Init
  <1>4. NotYet
    BY DEF Init, NotYet
  <1> QED BY <1>1, <1>2, <1>3, <1>4, Names, FS_EmptySet DEF CountInv, Counted, Tally

LEMMA NextCounts == HandlerInv /\ CountInv /\ [Next]_vars => CountInv'
  <1> SUFFICES ASSUME HandlerInv, CountInv, [Next]_vars PROVE CountInv'
    OBVIOUS
  <1>1. CASE Tick \/ UNCHANGED vars
    <2>1. UNCHANGED <<pc, route, seen, stats>>
      BY <1>1 DEF Tick, vars
    <2> QED BY <2>1 DEF CountInv, Counted, NotYet, Accepted, Active, On, Failures
  <1> QED BY <1>1, StepCounts DEF Next

(* The counters of connections and of handlers at work are true at every   *)
(* moment, for any number of clients, however each handler ends.           *)
THEOREM CountersAreTrue == Spec => []StatsAgree
  <1>1. CountInv => StatsAgree
    BY DEF CountInv, Counted, Tally, StatsAgree, Accepted, Active, On
  <1> QED BY <1>1, InitCounts, NextCounts, HandlerInvariant, PTL DEF Spec
-----------------------------------------------------------------------------
(* What a handler has ahead of it. *)

(* The list of methods never grows beyond the two there are. *)
FewMethods == \A c \in Client : Len(methods[c]) <= 2

(* What the steps of one handler c do to Ahead(c). *)
Less(c) == Ahead(c)' < Ahead(c)
NoMore(c) == Ahead(c)' <= Ahead(c)

AheadOf(c) ==
  /\ pc[c] = "init" => Ahead(c) = 6
  /\ pc[c] \in {"opening", "reading"} => Ahead(c) = 5 - Len(seen[c])
  /\ pc[c] = "fallback" => Ahead(c) = Len(methods[c]) + 1
  /\ pc[c] \in {"masking", "refusing", "ws_send", "cf_send", "tcp_send"} => Ahead(c) = 1
  /\ pc[c] \in Served \cup Ended => Ahead(c) = 0
  /\ Ahead(c) \in Int /\ Len(seen[c]) \in Nat /\ Len(methods[c]) \in Nat
AheadKnown == \A c \in Client : AheadOf(c)

LEMMA AheadType == TypeOK => AheadKnown
  <1> SUFFICES ASSUME TypeOK, NEW c \in Client PROVE AheadOf(c)
    BY DEF AheadKnown
  <1>1. seen[c] \in Seq({"ok", "redirect", "error"}) /\ methods[c] \in Seq(Method)
    BY DEF TypeOK
  <1>2. Len(seen[c]) \in Nat /\ Len(methods[c]) \in Nat
    BY <1>1
  <1>3. /\ pc[c] = "init" => Ahead(c) = 6
        /\ pc[c] \in {"opening", "reading"} => Ahead(c) = 5 - Len(seen[c])
    BY <1>2 DEF Ahead
  <1>4. /\ pc[c] = "fallback" => Ahead(c) = Len(methods[c]) + 1
        /\ pc[c] \in {"masking", "refusing", "ws_send", "cf_send", "tcp_send"} => Ahead(c) = 1
        /\ pc[c] \in Served \cup Ended => Ahead(c) = 0
    BY DEF Ahead, Served
  <1>5. pc[c] = "new" => Ahead(c) = 0
    BY DEF Ahead
  <1>6. Ahead(c) \in Int
    <2>1. pc[c] \in Pc
      BY DEF TypeOK
    <2> QED BY <1>2, <1>3, <1>4, <1>5, <2>1 DEF Pc, Setup
  <1> QED BY <1>2, <1>3, <1>4, <1>6 DEF AheadOf

(* The same after a step. *)
LEMMA AheadNext == TypeOK' => AheadKnown'
  BY AheadType, PTL

LEMMA LessIsNoMore == ASSUME TypeOK, TypeOK', NEW c \in Client, Less(c) PROVE NoMore(c)
  <1>1. Ahead(c) \in Int /\ Ahead(c)' \in Int
    BY AheadType, AheadNext DEF AheadKnown, AheadOf
  <1> QED BY <1>1 DEF Less, NoMore

(* A handler that is setting up has something ahead of it. *)
LEMMA SomethingAhead ==
  ASSUME HandlerInv, NEW c \in Client, pc[c] \in Setup
  PROVE  /\ Ahead(c) \in Nat /\ Ahead(c) >= 1
         /\ pc[c] = "fallback" => Ahead(c) >= 2
         /\ pc[c] \in {"init", "opening", "reading"} => Ahead(c) >= 4
  <1>0. TypeOK /\ HasMethod /\ Attempts
    BY DEF HandlerInv
  <1>1. CASE pc[c] \in {"opening", "reading"}
    <2>1. Len(seen[c]) < 2 /\ Len(seen[c]) \in Nat /\ Ahead(c) = 5 - Len(seen[c])
      BY <1>0, <1>1, AheadType DEF Attempts, AheadKnown, AheadOf
    <2> QED BY <1>1, <2>1
  <1>2. CASE pc[c] = "fallback"
    <2>1. methods[c] # <<>> /\ methods[c] \in Seq(Method)
      BY <1>0, <1>2 DEF HasMethod, TypeOK
    <2>2. Len(methods[c]) \in Nat /\ Len(methods[c]) >= 1
      BY <2>1
    <2>3. Ahead(c) = Len(methods[c]) + 1
      BY <1>0, <1>2, AheadType DEF AheadKnown, AheadOf
    <2> QED BY <1>2, <2>2, <2>3
  <1>3. CASE pc[c] = "init"
    <2>1. Ahead(c) = 6
      BY <1>0, <1>3, AheadType DEF AheadKnown, AheadOf
    <2> QED BY <1>3, <2>1
  <1>4. CASE pc[c] \in {"masking", "refusing", "ws_send", "cf_send", "tcp_send"}
    <2>1. Ahead(c) = 1
      BY <1>0, <1>4, AheadType DEF AheadKnown, AheadOf
    <2> QED BY <1>4, <2>1
  <1> QED BY <1>1, <1>2, <1>3, <1>4 DEF Setup

(* do_fallback is given methods m: at most two, and one step more. *)
LEMMA FallbackAhead ==
  ASSUME TypeOK, TypeOK', NEW c \in Client, NEW m \in Seq(Method), NEW s, Fallback(c, m, s)
  PROVE  /\ methods'[c] = m
         /\ m = <<>> => Ahead(c)' = 0
         /\ m # <<>> => Ahead(c)' = Len(m) + 1
  <1>1. methods'[c] = m
    BY DEF Fallback, TypeOK
  <1>2. ASSUME m = <<>> PROVE Ahead(c)' = 0
    <2>1. pc'[c] = "returned"
      BY <1>2 DEF Fallback, Finish, TypeOK
    <2> QED BY <2>1, AheadNext DEF AheadKnown, AheadOf
  <1>3. ASSUME m # <<>> PROVE Ahead(c)' = Len(m) + 1
    <2>1. pc'[c] = "fallback"
      BY <1>3 DEF Fallback, TypeOK
    <2> QED BY <1>1, <2>1, AheadNext DEF AheadKnown, AheadOf
  <1> QED BY <1>1, <1>2, <1>3

LEMMA FewOfMethods == \A k \in Key : Len(Methods(k)) <= 2
  <1> SUFFICES ASSUME NEW k \in Key PROVE Len(Methods(k)) <= 2
    OBVIOUS
  <1> DEFINE cf == IF UseCf THEN <<"cf">> ELSE <<>>
             tcp == IF k \in HasDefaultIp THEN <<"tcp">> ELSE <<>>
  <1>1. cf \in Seq(Method) /\ tcp \in Seq(Method) /\ Len(cf) <= 1 /\ Len(tcp) <= 1
    <2>1. "cf" \in Method /\ "tcp" \in Method
      BY DEF Method
    <2>2. <<"cf">> \in Seq(Method) /\ <<"tcp">> \in Seq(Method) /\ <<>> \in Seq(Method)
      BY <2>1
    <2>3. Len(<<"cf">>) = 1 /\ Len(<<"tcp">>) = 1 /\ Len(<<>>) = 0
      OBVIOUS
    <2> QED BY <2>2, <2>3
  <1>2. Len(cf \o tcp) <= 2 /\ Len(tcp \o cf) <= 2
    <2> HIDE DEF cf, tcp
    <2>1. Len(cf \o tcp) = Len(cf) + Len(tcp) /\ Len(tcp \o cf) = Len(tcp) + Len(cf)
      BY <1>1
    <2>2. Len(cf) \in Nat /\ Len(tcp) \in Nat
      BY <1>1
    <2> QED BY <1>1, <2>1, <2>2
  <1> QED BY <1>2 DEF Methods

(* The first methods are fewer steps than the connects before them, ... *)
LEMMA ToFallback ==
  ASSUME HandlerInv, TypeOK', NEW c \in Client, pc[c] \in {"init", "opening", "reading"},
         NEW k \in Key, NEW s, Fallback(c, Methods(k), s)
  PROVE  Less(c) /\ Len(methods'[c]) <= 2
  <1>0. TypeOK
    BY DEF HandlerInv
  <1>1. PICK m \in Seq(Method) : m = Methods(k) /\ Len(m) <= 2
    BY MethodsType, FewOfMethods
  <1>2. Len(m) \in Nat
    BY <1>1
  <1>3. methods'[c] = m /\ Ahead(c)' \in {0, Len(m) + 1}
    BY <1>0, <1>1, FallbackAhead
  <1>4. Ahead(c)' <= 3
    BY <1>1, <1>2, <1>3
  <1>5. Ahead(c) \in Nat /\ Ahead(c) >= 4
    BY SomethingAhead DEF Setup
  <1>6. Ahead(c)' \in Nat
    BY <1>2, <1>3
  <1> QED BY <1>1, <1>3, <1>4, <1>5, <1>6 DEF Less

(* ... and each method in vain leaves one method less. *)
LEMMA NextMethod ==
  ASSUME HandlerInv, FewMethods, TypeOK', NEW c \in Client, FallbackDown(c)
  PROVE  Less(c) /\ Len(methods'[c]) <= 2
  <1>0. TypeOK /\ HasMethod
    BY DEF HandlerInv
  <1>1. pc[c] = "fallback" /\ methods[c] \in Seq(Method) /\ methods[c] # <<>> /\ Len(methods[c]) <= 2
    BY <1>0 DEF FallbackDown, HasMethod, TypeOK, FewMethods
  <1>2. PICK m \in Seq(Method) : m = Tail(methods[c]) /\ Len(m) = Len(methods[c]) - 1
    <2>1. Tail(methods[c]) \in Seq(Method) /\ Len(Tail(methods[c])) = Len(methods[c]) - 1
      BY <1>1
    <2> QED BY <2>1
  <1>3. Len(m) \in Nat /\ Len(methods[c]) \in Nat
    BY <1>1, <1>2
  <1>4. methods'[c] = m /\ Ahead(c)' \in {0, Len(m) + 1}
    BY <1>0, <1>2, FallbackAhead DEF FallbackDown
  <1>5. Ahead(c) = Len(methods[c]) + 1
    BY <1>0, <1>1, AheadType DEF AheadKnown, AheadOf
  <1> QED BY <1>1, <1>2, <1>3, <1>4, <1>5 DEF Less

(* A step that ends the setup, or comes to a place with one step more. *)
LEMMA Through ==
  ASSUME HandlerInv, TypeOK', NEW c \in Client, pc[c] \in Setup, pc'[c] \in Served \cup Ended
  PROVE  Less(c)
  <1>1. Ahead(c)' = 0
    BY AheadNext DEF AheadKnown, AheadOf
  <1>2. Ahead(c) \in Nat /\ Ahead(c) >= 1
    BY SomethingAhead
  <1> QED BY <1>1, <1>2 DEF Less

LEMMA OneMore ==
  ASSUME HandlerInv, TypeOK', NEW c \in Client, pc[c] \in {"init", "opening", "reading", "fallback"},
         pc'[c] \in {"masking", "refusing", "ws_send", "cf_send", "tcp_send"}
  PROVE  Less(c)
  <1>1. Ahead(c)' = 1
    BY AheadNext DEF AheadKnown, AheadOf
  <1>2. Ahead(c) \in Nat /\ Ahead(c) >= 2
    BY SomethingAhead DEF Setup
  <1> QED BY <1>1, <1>2 DEF Less

(* A refused connect is one domain less, or leads to do_fallback. *)
LEMMA RefusedAhead ==
  ASSUME HandlerInv, FewMethods, TypeOK', NEW c \in Client, WsRefused(c)
  PROVE  Less(c) /\ Len(methods'[c]) <= 2
  <1>0. TypeOK /\ Attempts
    BY DEF HandlerInv
  <1>1. PICK why \in {"redirect", "error"} : seen' = [seen EXCEPT ![c] = Append(@, why)]
    BY DEF WsRefused
  <1>2. pc[c] \in {"opening", "reading"}
    BY DEF WsRefused
  <1>3. seen[c] \in Seq({"ok", "redirect", "error"}) /\ seen'[c] = Append(seen[c], why)
    BY <1>0, <1>1 DEF TypeOK
  <1>4. Len(seen[c]) \in Nat /\ Len(seen'[c]) = Len(seen[c]) + 1
    BY <1>3
  <1>5. CASE Len(seen'[c]) < 2
    <2>1. pc'[c] = "opening" /\ methods' = methods
      BY <1>0, <1>5 DEF WsRefused, TypeOK
    <2>2. Ahead(c)' = 5 - Len(seen'[c])
      BY <2>1, AheadNext DEF AheadKnown, AheadOf
    <2>3. Ahead(c) = 5 - Len(seen[c])
      BY <1>0, <1>2, AheadType DEF AheadKnown, AheadOf
    <2>4. Less(c)
      BY <1>4, <2>2, <2>3 DEF Less
    <2> QED BY <2>1, <2>4 DEF FewMethods
  <1>6. CASE ~(Len(seen'[c]) < 2)
    <2>1. \E s : Fallback(c, Methods(key[c]), s)
      BY <1>6 DEF WsRefused
    <2>2. key[c] \in Key
      BY <1>0 DEF TypeOK
    <2> QED BY <1>2, <2>1, <2>2, ToFallback
  <1> QED BY <1>5, <1>6

(* What is not an answer, a failure or a timeout, ... *)
LEMMA OtherSteps ==
  ASSUME HandlerInv, FewMethods, TypeOK', NEW c \in Client, pc[c] \in Setup,
         \/ InitMasks(c) \/ BadHandshake(c) \/ WsLine(c) \/ Cancelled(c)
         \/ \E k \in Key : Handshake(c, k) \/ HandshakeFallback(c, k)
  PROVE  NoMore(c) /\ Len(methods'[c]) <= 2
  <1>0. TypeOK /\ Attempts
    BY DEF HandlerInv
  <1>1. CASE InitMasks(c) \/ BadHandshake(c) \/ Cancelled(c)
    <2>1. methods' = methods
      BY <1>1 DEF InitMasks, BadHandshake, Cancelled
    <2>2. \/ pc'[c] \in Ended
          \/ pc[c] = "init" /\ pc'[c] \in {"masking", "refusing"}
      BY <1>0, <1>1 DEF InitMasks, BadHandshake, Cancelled, Finish, TypeOK
    <2>3. Less(c)
      BY <2>2, Through, OneMore
    <2> QED BY <1>0, <2>1, <2>3, LessIsNoMore DEF FewMethods
  <1>2. CASE WsLine(c)
    <2>1. pc[c] \in {"opening", "reading"} /\ pc'[c] = "reading" /\ UNCHANGED <<seen, methods>>
      BY <1>0, <1>2 DEF WsLine, TypeOK
    <2>2. Ahead(c)' = Ahead(c) /\ Ahead(c) \in Int
      BY <1>0, <2>1, AheadType, AheadNext DEF AheadKnown, AheadOf
    <2> QED BY <2>1, <2>2 DEF NoMore, FewMethods
  <1>3. ASSUME NEW k \in Key, Handshake(c, k) PROVE NoMore(c) /\ Len(methods'[c]) <= 2
    <2>1. pc[c] = "init" /\ seen[c] = <<>> /\ UNCHANGED <<seen, methods>> /\ pc'[c] \in {"ws_send", "opening"}
      BY <1>0, <1>3 DEF Handshake, WsUp, TypeOK, Attempts
    <2>2. Ahead(c) = 6
      BY <1>0, <2>1, AheadType DEF AheadKnown, AheadOf
    <2>3. Len(seen'[c]) = 0
      BY <2>1
    <2>4. Ahead(c)' \in {1, 5}
      BY <2>1, <2>3, AheadNext DEF AheadKnown, AheadOf
    <2> QED BY <2>1, <2>2, <2>4 DEF NoMore, FewMethods
  <1>4. ASSUME NEW k \in Key, HandshakeFallback(c, k) PROVE NoMore(c) /\ Len(methods'[c]) <= 2
    <2>1. pc[c] = "init" /\ \E s : Fallback(c, Methods(k), s)
      BY <1>4 DEF HandshakeFallback
    <2> QED BY <1>0, <2>1, ToFallback, LessIsNoMore
  <1> QED BY <1>1, <1>2, <1>3, <1>4

(* ... and what is. *)
LEMMA ProgressAhead ==
  ASSUME HandlerInv, FewMethods, TypeOK', NEW c \in Client, Progress(c)
  PROVE  Less(c) /\ Len(methods'[c]) <= 2
  <1>0. TypeOK
    BY DEF HandlerInv
  <1>1. CASE InitFails(c) \/ Mask(c) \/ Refused(c) \/ Sent(c) \/ SendFails(c)
    <2>1. pc[c] \in Setup /\ pc'[c] \in Served \cup Ended /\ methods' = methods
      BY <1>0, <1>1 DEF InitFails, Mask, Refused, Sent, SendFails, Finish, TypeOK, Setup, Served
    <2> QED BY <2>1, Through DEF FewMethods
  <1>2. CASE FallbackUp(c)
    <2>1. pc[c] = "fallback" /\ pc'[c] \in {"cf_send", "tcp_send"} /\ methods' = methods
      BY <1>0, <1>2 DEF FallbackUp, TypeOK
    <2> QED BY <2>1, OneMore DEF FewMethods
  <1>3. CASE WsConnected(c)
    <2>1. pc[c] = "reading" /\ pc'[c] = "ws_send" /\ methods' = methods
      BY <1>0, <1>3 DEF WsConnected, WsUp, TypeOK
    <2> QED BY <2>1, OneMore DEF FewMethods
  <1> QED BY <1>1, <1>2, <1>3, NextMethod, RefusedAhead DEF Progress

(* Any step at all: what it leaves each handler, and its list of methods. *)
LEMMA StepAhead ==
  ASSUME HandlerInv, FewMethods, TypeOK', [Next]_vars, NEW c \in Client
  PROVE  (pc[c] \in Setup => NoMore(c)) /\ Len(methods'[c]) <= 2
  <1>0. TypeOK
    BY DEF HandlerInv
  <1>1. CASE Step(c)
    <2>1. CASE Accept(c) \/ BridgeEnds(c) \/ (Cancelled(c) /\ pc[c] \notin Setup)
      BY <2>1 DEF Accept, BridgeEnds, Cancelled, Setup, Served, FewMethods
    <2>2. CASE Progress(c)
      BY <1>0, <2>2, ProgressAhead, LessIsNoMore
    <2>3. CASE pc[c] \in Setup /\ \/ InitMasks(c) \/ BadHandshake(c) \/ WsLine(c) \/ Cancelled(c)
                                  \/ \E k \in Key : Handshake(c, k) \/ HandshakeFallback(c, k)
      BY <2>3, OtherSteps
    <2>4. InitMasks(c) \/ BadHandshake(c) \/ WsLine(c) \/ (\E k \in Key : Handshake(c, k) \/ HandshakeFallback(c, k))
          => pc[c] \in Setup
      BY DEF InitMasks, BadHandshake, WsLine, Handshake, HandshakeFallback, Setup
    <2> QED BY <1>1, <2>1, <2>2, <2>3, <2>4 DEF Step
  <1>2. CASE UNCHANGED <<pc[c], seen[c], methods[c]>>
    <2>1. pc[c] \in Setup => Ahead(c)' = Ahead(c) /\ Ahead(c) \in Int
      BY <1>0, <1>2, AheadType DEF Ahead, AheadKnown, AheadOf
    <2> QED BY <1>2, <2>1 DEF NoMore, FewMethods
  <1>3. ASSUME NEW d \in Client, d # c, Step(d) PROVE UNCHANGED <<pc[c], seen[c], methods[c]>>
    BY <1>0, <1>3, StepIsLocal
  <1>4. CASE Tick \/ UNCHANGED vars
    BY <1>2, <1>4 DEF Tick, vars
  <1> QED BY <1>1, <1>2, <1>3, <1>4 DEF Next

LEMMA NextFew == HandlerInv /\ FewMethods /\ [Next]_vars => FewMethods'
  <1> SUFFICES ASSUME HandlerInv, FewMethods, [Next]_vars PROVE FewMethods'
    OBVIOUS
  <1>1. TypeOK'
    BY NextHandler DEF HandlerInv
  <1> QED BY <1>1, StepAhead DEF FewMethods

(* No handler of any number is set back, by its own failures or by what    *)
(* the others do; after at most Domains + 4 answers, failures or timeouts  *)
(* of its own it is through.                                               *)
THEOREM SetupIsBounded == Spec => SetupBounded
  <1>1. Init => FewMethods
    BY DEF Init, FewMethods
  <1>2. HandlerInv /\ HandlerInv' /\ FewMethods /\ [Next]_vars =>
          [\A c \in Client : pc[c] \in Setup =>
             Ahead(c)' <= Ahead(c) /\ (Progress(c) => Ahead(c)' < Ahead(c))]_vars
    <2> SUFFICES ASSUME HandlerInv, HandlerInv', FewMethods, [Next]_vars, NEW c \in Client, pc[c] \in Setup
                 PROVE  Ahead(c)' <= Ahead(c) /\ (Progress(c) => Ahead(c)' < Ahead(c))
      OBVIOUS
    <2>1. TypeOK'
      BY DEF HandlerInv
    <2>2. NoMore(c) /\ (Progress(c) => Less(c))
      BY <2>1, StepAhead, ProgressAhead
    <2> QED BY <2>2 DEF NoMore, Less
  <1> QED BY <1>1, <1>2, NextFew, HandlerInvariant, PTL DEF Spec, SetupBounded
=============================================================================
