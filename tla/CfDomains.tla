----------------------------- MODULE CfDomains ------------------------------
(***************************************************************************)
(* The domains of the CF proxy: _Balancer of balancer.py, the thread of    *)
(* config.py that refreshes them, and _cfproxy_fallback of bridge.py,      *)
(* which tries one after the other for a client.                           *)
(*                                                                         *)
(* The thread shares _Balancer with the event loop and no lock.  What a    *)
(* handler does with it is cut where the generator get_domains_for_dc      *)
(* reads it: the map when the attempt begins, the list only after the      *)
(* first connect has failed.                                               *)
(*                                                                         *)
(* Lists are shuffled, drawn from or compared as Counters, never read in   *)
(* their order, so a list is the number of times it has each domain.       *)
(***************************************************************************)
EXTENDS Naturals, FiniteSets

CONSTANTS Handler,     \* handlers that may be in _cfproxy_fallback at once
          Dc,          \* the data centres a handshake may name
          KnownDc,     \* those the map is filled for: 1..5 and 203
          Domain,
          Defaults,    \* CFPROXY_DEFAULT_DOMAINS
          Fetched      \* the lists a fetch may return; the empty one if it fails

List == [Domain -> Nat]
Listed(list) == {d \in Domain : list[d] > 0}
NoDuplicates(list) == \A d \in Domain : list[d] <= 1

ASSUME DomainsAssumption ==
  /\ KnownDc \subseteq Dc
  /\ Defaults \in List /\ NoDuplicates(Defaults) /\ Listed(Defaults) # {}
  /\ Fetched \subseteq List

None == "none"
ASSUME NoneAssumption == None \notin Domain

VARIABLES
  domains,     \* self.domains
  dcToDomain,  \* self._dc_to_domain; None where it has no entry
  refresher,   \* where the refresh thread is
  at,          \* where each handler is
  dc,          \* the data centre its clients want
  current,     \* current_domain of its generator
  candidate,   \* base_domain
  copied,      \* the generator has made its copy of the list
  left,        \* what of shuffled_domains it has not come to yet
  tried,       \* history: how often the attempt has tried each domain
  throughout,  \* history: domains that were listed all through the attempt
  mapped       \* history: the list the map was last filled from

balancer == <<domains, dcToDomain>>
generator == <<current, copied, left>>
attempt == <<at, dc, candidate, generator, tried>>
dvars == <<balancer, refresher, attempt, throughout, mapped>>

EmptyList == [d \in Domain |-> 0]

Init ==
  /\ domains = EmptyList
  /\ dcToDomain = [x \in Dc |-> None]
  /\ refresher = "off"
  /\ at = [h \in Handler |-> "idle"]
  /\ dc \in [Handler -> Dc]
  /\ current = [h \in Handler |-> None] /\ candidate = [h \in Handler |-> None]
  /\ copied = [h \in Handler |-> FALSE] /\ left = [h \in Handler |-> EmptyList]
  /\ tried = [h \in Handler |-> EmptyList]
  /\ throughout = [h \in Handler |-> {}]
  /\ mapped = {}

(* Operators named Bug... are what a definition below would be if the code *)
(* had a certain mistake; no specification uses them.                      *)
-----------------------------------------------------------------------------
(* The refresh thread *)

(* The map is filled anew: a domain of the list for each known DC. *)
FillMap(list) ==
  /\ \E choice \in [KnownDc -> Listed(list)] :
       dcToDomain' = [x \in Dc |-> IF x \in KnownDc THEN choice[x] ELSE None]
  /\ mapped' = Listed(list)

(* start_cfproxy_domain_refresh: update_domains_list with the defaults,    *)
(* before there is a second thread.                                        *)
StartRefresh ==
  /\ refresher = "off"
  /\ domains' = Defaults
  /\ FillMap(Defaults)
  /\ refresher' = "fetch"
  /\ UNCHANGED <<attempt, throughout>>

(* pool = [d for d in fetched if not (d in seen or seen.add(d))] *)
Pool(list) == [d \in Domain |-> IF list[d] > 0 THEN 1 ELSE 0]

(* The list is replaced without a look at the one there is. *)
BugSameCounter(a, b) == FALSE

(* Counter(self.domains) == Counter(domains_list) *)
SameCounter(a, b) == a = b

(* A fetch that fails, or brings what is there, changes nothing; otherwise *)
(* the list is replaced, ...                                               *)
Refresh ==
  /\ refresher = "fetch"
  /\ \E fetched \in Fetched :
       IF Listed(fetched) = {} \/ SameCounter(domains, Pool(fetched))
       THEN refresher' = "sleep" /\ UNCHANGED <<domains, throughout>>
       ELSE /\ domains' = Pool(fetched)
            /\ throughout' = [h \in Handler |-> throughout[h] \cap Listed(Pool(fetched))]
            /\ refresher' = "fill"
  /\ UNCHANGED <<dcToDomain, attempt, mapped>>

(* ... and then the map. *)
Refill ==
  /\ refresher = "fill"
  /\ FillMap(domains)
  /\ refresher' = "sleep"
  /\ UNCHANGED <<domains, attempt, throughout>>

(* stop.wait(timeout=3600) *)
NextRound ==
  /\ refresher = "sleep"
  /\ refresher' = "fetch"
  /\ UNCHANGED <<balancer, attempt, throughout, mapped>>
-----------------------------------------------------------------------------
(* _cfproxy_fallback *)

Goto(h, where) == at' = [at EXCEPT ![h] = where]

(* The generator hands out d. *)
Yields(h, d) ==
  /\ Goto(h, "connect")
  /\ candidate' = [candidate EXCEPT ![h] = d]
  /\ tried' = [tried EXCEPT ![h][d] = @ + 1]

(* The generator runs up to its first yield: the domain of the map, if the *)
(* map has one for this data centre.                                       *)
Begin(h) ==
  /\ at[h] = "idle"
  /\ current' = [current EXCEPT ![h] = dcToDomain[dc[h]]]
  /\ IF dcToDomain[dc[h]] = None THEN Goto(h, "next") /\ UNCHANGED <<candidate, tried>>
                                 ELSE Yields(h, dcToDomain[dc[h]])
  /\ throughout' = [throughout EXCEPT ![h] = Listed(domains)]
  /\ UNCHANGED <<balancer, refresher, dc, copied, left, mapped>>

(* It skips the domain the map has by now, not the one it began with. *)
BugRest(h) == IF copied[h] THEN left[h] ELSE [d \in Domain |-> IF d = dcToDomain[dc[h]] THEN 0 ELSE domains[d]]

(* What the generator has still to yield: of its copy of the list, once it *)
(* has one, all but the domain it began with.                              *)
Rest(h) == IF copied[h] THEN left[h] ELSE [d \in Domain |-> IF d = current[h] THEN 0 ELSE domains[d]]

(* The next domain that is not the first one. *)
Yield(h, d) ==
  /\ at[h] = "next"
  /\ d \in Listed(Rest(h))
  /\ Yields(h, d)
  /\ left' = [left EXCEPT ![h] = [Rest(h) EXCEPT ![d] = @ - 1]]
  /\ copied' = [copied EXCEPT ![h] = TRUE]
  /\ UNCHANGED <<balancer, refresher, dc, current, throughout, mapped>>

(* The list is through: ws is None. *)
GiveUp(h) ==
  /\ at[h] = "next"
  /\ Listed(Rest(h)) = {}
  /\ Goto(h, "failed")
  /\ UNCHANGED <<balancer, refresher, dc, candidate, generator, tried, throughout, mapped>>

(* RawWebSocket.connect raises. *)
ConnectFails(h) ==
  /\ at[h] = "connect"
  /\ Goto(h, "next")
  /\ UNCHANGED <<balancer, refresher, dc, candidate, generator, tried, throughout, mapped>>

(* H are through with _cfproxy_fallback. *)
Leave(H) ==
  /\ at' = [h \in Handler |-> IF h \in H THEN "idle" ELSE at[h]]
  /\ current' = [h \in Handler |-> IF h \in H THEN None ELSE current[h]]
  /\ candidate' = [h \in Handler |-> IF h \in H THEN None ELSE candidate[h]]
  /\ copied' = [h \in Handler |-> IF h \in H THEN FALSE ELSE copied[h]]
  /\ left' = [h \in Handler |-> IF h \in H THEN EmptyList ELSE left[h]]
  /\ tried' = [h \in Handler |-> IF h \in H THEN EmptyList ELSE tried[h]]
  /\ throughout' = [h \in Handler |-> IF h \in H THEN {} ELSE throughout[h]]
  /\ UNCHANGED dc

(* connect returns: update_domain_for_dc, and on to the bridge. *)
Connected(h) ==
  /\ at[h] = "connect"
  /\ dcToDomain' = [dcToDomain EXCEPT ![dc[h]] = candidate[h]]
  /\ Leave({h})
  /\ UNCHANGED <<domains, refresher, mapped>>

(* It returns False. *)
Failed(h) ==
  /\ at[h] = "failed"
  /\ Leave({h})
  /\ UNCHANGED <<balancer, refresher, mapped>>

Fallback(h) ==
  (\E d \in Domain : Yield(h, d)) \/ GiveUp(h) \/ ConnectFails(h)
  \/ Connected(h) \/ Failed(h)
-----------------------------------------------------------------------------
(* _run starts the refresh before it listens, so that there are no clients *)
(* before (TgProcess has both).                                            *)
Next ==
  \/ StartRefresh \/ Refresh \/ Refill \/ NextRound
  \/ \E h \in Handler : (refresher # "off" /\ Begin(h)) \/ Fallback(h)

Spec == Init /\ [][Next]_dvars
-----------------------------------------------------------------------------
(* Every variable keeps to the values its comment names. *)
DomainsTypeOK ==
  /\ domains \in List
  /\ dcToDomain \in [Dc -> Domain \cup {None}]
  /\ refresher \in {"off", "fetch", "fill", "sleep"}
  /\ at \in [Handler -> {"idle", "next", "connect", "failed"}]
  /\ dc \in [Handler -> Dc]
  /\ current \in [Handler -> Domain \cup {None}]
  /\ candidate \in [Handler -> Domain \cup {None}]
  /\ copied \in [Handler -> BOOLEAN]
  /\ left \in [Handler -> List] /\ tried \in [Handler -> List]
  /\ throughout \in [Handler -> SUBSET Domain]
  /\ mapped \subseteq Domain

(* However the thread changes list and map under it, an attempt tries no   *)
(* domain twice, each of which may cost it 10 s, and it gives up only      *)
(* after at least one try and when no domain is left untried that was      *)
(* listed from its beginning to its end.                                   *)
EachTriedOnce ==
  \A h \in Handler :
    /\ NoDuplicates(tried[h])
    /\ at[h] = "failed" => Listed(tried[h]) # {} /\ throughout[h] \subseteq Listed(tried[h])

(* The first domain of a data centre changes only because another one has  *)
(* just worked for it, or because the list is another one than when the    *)
(* map was filled: an hourly refresh that brings nothing new does not send *)
(* the clients back to domains that fail.                                  *)
WorkingDomainKept ==
  [][\A x \in Dc :
       dcToDomain'[x] # dcToDomain[x] =>
         \/ Listed(domains') # mapped
         \/ \E h \in Handler : at[h] = "connect" /\ dc[h] = x /\ dcToDomain'[x] = candidate[h]]_dvars
=============================================================================
