-------------------------- MODULE CfDomainsProofs ---------------------------
(***************************************************************************)
(* For any number of handlers, domains and data centres, and whatever the  *)
(* lists fetched: an attempt tries no domain twice and leaves none out,    *)
(* and a refresh that brings nothing new leaves the map alone.             *)
(*                                                                         *)
(* The list never names a domain twice (ListInv).  Until the generator has *)
(* made its copy, only the domain it began with can have been tried, and   *)
(* everything that was listed throughout still is; afterwards every domain *)
(* is either still in the copy or was tried, never both (AttemptOf).       *)
(***************************************************************************)
EXTENDS CfDomains, TLAPS

ListInv ==
  /\ NoDuplicates(domains)
  /\ refresher = "off" => mapped = {}
  /\ refresher \in {"fetch", "sleep"} => mapped = Listed(domains)
  /\ refresher = "fill" => mapped # Listed(domains)
  /\ refresher # "off" => Listed(domains) # {}

AttemptOf(h) ==
  /\ at[h] = "idle" => current[h] = None /\ tried[h] = EmptyList /\ ~copied[h] /\ throughout[h] = {}
  /\ at[h] = "connect" => Listed(tried[h]) # {}
  /\ at[h] # "idle" => refresher # "off"
  /\ at[h] # "idle" /\ current[h] # None => tried[h][current[h]] = 1
  /\ \A d \in Domain :
       IF copied[h] THEN IF d = current[h] THEN left[h][d] = 0 ELSE tried[h][d] + left[h][d] <= 1
       ELSE d # current[h] => tried[h][d] = 0
  /\ copied[h] => Listed(tried[h]) # {} /\ throughout[h] \subseteq Listed(tried[h]) \cup Listed(left[h])
  /\ ~copied[h] => throughout[h] \subseteq Listed(domains)
  /\ at[h] = "failed" => Listed(tried[h]) # {} /\ throughout[h] \subseteq Listed(tried[h])

DomainsInv == DomainsTypeOK /\ ListInv /\ \A h \in Handler : AttemptOf(h)

-----------------------------------------------------------------------------
(* Of two lists without duplicates that differ, one has a domain more.     *)
LEMMA ListsDiffer ==
  ASSUME NEW a \in List, NEW b \in List, NoDuplicates(a), NoDuplicates(b), a # b
  PROVE  Listed(a) # Listed(b)
  <1>1. PICK d \in Domain : a[d] # b[d]
    BY DEF List
  <1>2. a[d] \in {0, 1} /\ b[d] \in {0, 1}
    BY DEF List, NoDuplicates
  <1> QED BY <1>1, <1>2 DEF Listed

(* What is fetched has each of its domains once. *)
LEMMA PoolOnce ==
  ASSUME NEW list \in List
  PROVE  Pool(list) \in List /\ NoDuplicates(Pool(list)) /\ Listed(Pool(list)) = Listed(list)
  BY DEF Pool, List, NoDuplicates, Listed

LEMMA FillTypes ==
  ASSUME NEW list \in List, FillMap(list)
  PROVE  dcToDomain' \in [Dc -> Domain \cup {None}] /\ mapped' = Listed(list) /\ mapped' \subseteq Domain
  BY DomainsAssumption DEF FillMap, Listed

LEMMA InitDomains == Init => DomainsInv
  <1> SUFFICES ASSUME Init PROVE DomainsInv
    OBVIOUS
  <1>1. EmptyList \in List /\ NoDuplicates(EmptyList)
    BY DEF EmptyList, List, NoDuplicates
  <1>2. DomainsTypeOK
    BY <1>1 DEF Init, DomainsTypeOK
  <1>3. ListInv
    BY <1>1 DEF Init, ListInv
  <1>4. \A h \in Handler : AttemptOf(h)
    BY DEF Init, AttemptOf, EmptyList
  <1> QED BY <1>2, <1>3, <1>4 DEF DomainsInv

-----------------------------------------------------------------------------
(* The refresh thread. *)
LEMMA ThreadStep ==
  ASSUME DomainsInv, StartRefresh \/ Refresh \/ Refill \/ NextRound
  PROVE  DomainsInv'
  <1> USE DEF attempt, generator, balancer
  <1>1. CASE StartRefresh
    <2>1. Defaults \in List /\ NoDuplicates(Defaults) /\ Listed(Defaults) # {}
      BY DomainsAssumption
    <2>2. DomainsTypeOK'
      BY <1>1, <2>1, FillTypes DEF StartRefresh, DomainsInv, DomainsTypeOK
    <2>3. ListInv'
      BY <1>1, <2>1, FillTypes DEF StartRefresh, ListInv
    <2>4. \A h \in Handler : AttemptOf(h)'
      <3>1. \A h \in Handler : at[h] = "idle"
        BY <1>1 DEF StartRefresh, DomainsInv, AttemptOf
      <3> QED BY <1>1, <3>1 DEF StartRefresh, DomainsInv, AttemptOf
    <2> QED BY <2>2, <2>3, <2>4 DEF DomainsInv
  <1>2. CASE Refresh
    <2>1. PICK fetched \in Fetched :
            IF Listed(fetched) = {} \/ SameCounter(domains, Pool(fetched))
            THEN refresher' = "sleep" /\ UNCHANGED <<domains, throughout>>
            ELSE /\ domains' = Pool(fetched)
                 /\ throughout' = [h \in Handler |-> throughout[h] \cap Listed(Pool(fetched))]
                 /\ refresher' = "fill"
      BY <1>2 DEF Refresh
    <2>2. fetched \in List
      BY DomainsAssumption
    <2>3. Pool(fetched) \in List /\ NoDuplicates(Pool(fetched)) /\ Listed(Pool(fetched)) = Listed(fetched)
      BY <2>2, PoolOnce
    <2>4. UNCHANGED <<dcToDomain, attempt, mapped>> /\ refresher = "fetch"
      BY <1>2 DEF Refresh
    <2>5. CASE Listed(fetched) = {} \/ SameCounter(domains, Pool(fetched))
      <3>1. refresher' = "sleep" /\ UNCHANGED <<domains, throughout>>
        BY <2>1, <2>5
      <3> QED BY <2>4, <3>1 DEF DomainsInv, DomainsTypeOK, ListInv, AttemptOf
    <2>6. CASE ~(Listed(fetched) = {} \/ SameCounter(domains, Pool(fetched)))
      <3>1. /\ domains' = Pool(fetched)
            /\ throughout' = [h \in Handler |-> throughout[h] \cap Listed(Pool(fetched))]
            /\ refresher' = "fill"
        BY <2>1, <2>6
      <3>2. Listed(domains) # Listed(Pool(fetched))
        BY <2>3, <2>6, ListsDiffer DEF SameCounter, DomainsInv, DomainsTypeOK, ListInv
      <3>3. DomainsTypeOK'
        BY <2>3, <2>4, <3>1 DEF DomainsInv, DomainsTypeOK, Listed
      <3>4. ListInv'
        BY <2>3, <2>4, <2>6, <3>1, <3>2 DEF DomainsInv, ListInv
      <3>5. \A h \in Handler : AttemptOf(h)'
        BY <2>4, <3>1 DEF DomainsInv, AttemptOf
      <3> QED BY <3>3, <3>4, <3>5 DEF DomainsInv
    <2> QED BY <2>5, <2>6
  <1>3. CASE Refill
    <2>1. domains \in List
      BY DEF DomainsInv, DomainsTypeOK
    <2>2. DomainsTypeOK'
      BY <1>3, <2>1, FillTypes DEF Refill, DomainsInv, DomainsTypeOK
    <2>3. ListInv'
      BY <1>3, <2>1, FillTypes DEF Refill, DomainsInv, ListInv
    <2>4. \A h \in Handler : AttemptOf(h)'
      BY <1>3 DEF Refill, DomainsInv, AttemptOf
    <2> QED BY <2>2, <2>3, <2>4 DEF DomainsInv
  <1>4. CASE NextRound
    BY <1>4 DEF NextRound, DomainsInv, DomainsTypeOK, ListInv, AttemptOf
  <1> QED BY <1>1, <1>2, <1>3, <1>4

-----------------------------------------------------------------------------
(* A handler's step changes nothing of another handler's attempt.          *)
Local(h) ==
  /\ \A g \in Handler \ {h} :
       /\ at'[g] = at[g] /\ current'[g] = current[g] /\ copied'[g] = copied[g]
       /\ left'[g] = left[g] /\ tried'[g] = tried[g] /\ throughout'[g] = throughout[g]
  /\ UNCHANGED <<domains, refresher, mapped>>

LEMMA LocalKeeps ==
  ASSUME DomainsInv, NEW h \in Handler, Local(h), DomainsTypeOK', AttemptOf(h)'
  PROVE  DomainsInv'
  <1>1. ListInv'
    BY DEF DomainsInv, ListInv, Local
  <1>2. \A g \in Handler \ {h} : AttemptOf(g)'
    BY DEF DomainsInv, AttemptOf, Local
  <1> QED BY <1>1, <1>2 DEF DomainsInv

LEMMA BeginStep ==
  ASSUME DomainsInv, NEW h \in Handler, refresher # "off", Begin(h)
  PROVE  DomainsInv'
  <1> USE DEF attempt, generator, balancer
  <1> DEFINE first == dcToDomain[dc[h]]
  <1>1. first \in Domain \cup {None} /\ tried[h] = EmptyList /\ ~copied[h] /\ at[h] = "idle"
    BY DEF DomainsInv, DomainsTypeOK, Begin, AttemptOf
  <1>2. /\ current' = [current EXCEPT ![h] = first]
        /\ throughout' = [throughout EXCEPT ![h] = Listed(domains)]
        /\ UNCHANGED <<balancer, refresher, dc, copied, left, mapped>>
    BY DEF Begin
  <1>3. CASE first = None
    <2>1. at' = [at EXCEPT ![h] = "next"] /\ UNCHANGED <<candidate, tried>>
      BY <1>3 DEF Begin, Goto
    <2>2. DomainsTypeOK'
      BY <1>1, <1>2, <2>1 DEF DomainsInv, DomainsTypeOK, Listed
    <2>3. AttemptOf(h)'
      BY <1>1, <1>2, <1>3, <2>1 DEF DomainsInv, DomainsTypeOK, AttemptOf, EmptyList
    <2>4. Local(h)
      BY <1>2, <2>1 DEF DomainsInv, DomainsTypeOK, Local
    <2> QED BY <2>2, <2>3, <2>4, LocalKeeps
  <1>4. CASE first # None
    <2>1. /\ at' = [at EXCEPT ![h] = "connect"]
          /\ candidate' = [candidate EXCEPT ![h] = first]
          /\ tried' = [tried EXCEPT ![h][first] = @ + 1]
      BY <1>4 DEF Begin, Goto, Yields
    <2>2. first \in Domain
      BY <1>1, <1>4
    <2>3. tried'[h] = [EmptyList EXCEPT ![first] = 1] /\ tried' \in [Handler -> List]
      <3>1. tried \in [Handler -> List]
        BY DEF DomainsInv, DomainsTypeOK
      <3>2. tried' = [tried EXCEPT ![h] = [EmptyList EXCEPT ![first] = EmptyList[first] + 1]]
        BY <1>1, <2>1
      <3>3. EmptyList[first] + 1 = 1
        BY <2>2 DEF EmptyList
      <3>4. [EmptyList EXCEPT ![first] = 1] \in List
        BY <2>2 DEF EmptyList, List
      <3> QED BY <3>1, <3>2, <3>3, <3>4
    <2>4. DomainsTypeOK'
      BY <1>1, <1>2, <2>1, <2>3 DEF DomainsInv, DomainsTypeOK, Listed
    <2>5. AttemptOf(h)'
      BY <1>1, <1>2, <1>4, <2>1, <2>2, <2>3 DEF DomainsInv, DomainsTypeOK, AttemptOf, EmptyList, Listed
    <2>6. Local(h)
      BY <1>2, <2>1 DEF DomainsInv, DomainsTypeOK, Local
    <2> QED BY <2>4, <2>5, <2>6, LocalKeeps
  <1> QED BY <1>3, <1>4

(* The next domain was not tried before, and stays out of the rest.        *)
LEMMA YieldStep ==
  ASSUME DomainsInv, NEW h \in Handler, NEW d \in Domain, Yield(h, d)
  PROVE  DomainsInv'
  <1> USE DEF generator, balancer
  <1> DEFINE rest == Rest(h)
  <1>1. rest \in List
    BY DEF DomainsInv, DomainsTypeOK, Rest, List
  <1>2. rest[d] > 0
    BY DEF Yield, Listed
  <1>3. \A e \in Domain : IF e = current[h] THEN rest[e] = 0 ELSE tried[h][e] + rest[e] <= 1
    BY DEF DomainsInv, DomainsTypeOK, AttemptOf, ListInv, NoDuplicates, Rest, List
  <1>4. d # current[h] /\ tried[h][d] = 0 /\ rest[d] = 1
    <2>1. rest[d] \in Nat /\ tried[h][d] \in Nat
      BY <1>1 DEF DomainsInv, DomainsTypeOK, List
    <2>2. d # current[h] /\ tried[h][d] + rest[d] <= 1
      BY <1>2, <1>3
    <2> QED BY <1>2, <2>1, <2>2
  <1>5. /\ at' = [at EXCEPT ![h] = "connect"]
        /\ candidate' = [candidate EXCEPT ![h] = d]
        /\ tried' = [tried EXCEPT ![h][d] = @ + 1]
        /\ left' = [left EXCEPT ![h] = [rest EXCEPT ![d] = @ - 1]]
        /\ copied' = [copied EXCEPT ![h] = TRUE]
        /\ UNCHANGED <<balancer, refresher, dc, current, throughout, mapped>>
        /\ at[h] = "next"
    BY DEF Yield, Yields, Goto
  <1>6. tried'[h] = [tried[h] EXCEPT ![d] = 1] /\ left'[h] = [rest EXCEPT ![d] = 0]
    BY <1>1, <1>4, <1>5 DEF DomainsInv, DomainsTypeOK, List
  <1>7. tried'[h] \in List /\ left'[h] \in List
    BY <1>1, <1>6 DEF DomainsInv, DomainsTypeOK, List
  <1>8. DomainsTypeOK'
    BY <1>5, <1>7 DEF DomainsInv, DomainsTypeOK
  <1>9. throughout[h] \subseteq Listed(tried'[h]) \cup Listed(left'[h])
    <2>1. ASSUME NEW e \in throughout[h] PROVE e \in Listed(tried'[h]) \cup Listed(left'[h])
      <3>1. e \in Domain
        BY DEF DomainsInv, DomainsTypeOK
      <3>2. tried[h][e] > 0 \/ rest[e] > 0
        <4>1. CASE copied[h]
          BY <3>1, <4>1 DEF DomainsInv, AttemptOf, Rest, Listed
        <4>2. CASE ~copied[h] /\ e = current[h]
          <5>1. tried[h][e] = 1
            BY <1>5, <3>1, <4>2, NoneAssumption DEF DomainsInv, AttemptOf
          <5> QED BY <5>1
        <4>3. CASE ~copied[h] /\ e # current[h]
          BY <3>1, <4>3 DEF DomainsInv, AttemptOf, Rest, Listed
        <4> QED BY <4>1, <4>2, <4>3
      <3> QED BY <1>6, <3>1, <3>2 DEF Listed, DomainsInv, DomainsTypeOK, List, Rest
    <2> QED BY <2>1
  <1>10. AttemptOf(h)'
    <2>1. copied'[h] = TRUE /\ at'[h] = "connect" /\ current'[h] = current[h] /\ throughout'[h] = throughout[h]
      BY <1>5 DEF DomainsInv, DomainsTypeOK
    <2>2. d \in Listed(tried'[h])
      BY <1>6 DEF Listed, DomainsInv, DomainsTypeOK, List
    <2>3. current[h] # None => tried'[h][current[h]] = 1
      BY <1>4, <1>5, <1>6 DEF DomainsInv, DomainsTypeOK, AttemptOf, List
    <2>4. \A e \in Domain : IF e = current[h] THEN left'[h][e] = 0 ELSE tried'[h][e] + left'[h][e] <= 1
      BY <1>1, <1>3, <1>4, <1>6 DEF DomainsInv, DomainsTypeOK, List
    <2>5. refresher' # "off"
      BY <1>5 DEF DomainsInv, AttemptOf
    <2> QED BY <1>9, <2>1, <2>2, <2>3, <2>4, <2>5 DEF AttemptOf
  <1>11. Local(h)
    BY <1>5 DEF DomainsInv, DomainsTypeOK, Local
  <1> QED BY <1>8, <1>10, <1>11, LocalKeeps

(* When nothing is left, all that was listed throughout was tried.         *)
LEMMA GiveUpStep ==
  ASSUME DomainsInv, NEW h \in Handler, GiveUp(h)
  PROVE  DomainsInv'
  <1> USE DEF generator, balancer
  <1>1. /\ at' = [at EXCEPT ![h] = "failed"] /\ at[h] = "next" /\ Listed(Rest(h)) = {}
        /\ UNCHANGED <<balancer, refresher, dc, candidate, generator, tried, throughout, mapped>>
    BY DEF GiveUp, Goto
  <1>2. Listed(tried[h]) # {} /\ throughout[h] \subseteq Listed(tried[h])
    <2>1. CASE copied[h]
      BY <1>1, <2>1 DEF DomainsInv, AttemptOf, Rest
    <2>2. CASE ~copied[h]
      <3>1. \A d \in Listed(domains) : d = current[h]
        BY <1>1, <2>2 DEF Rest, Listed
      <3>2. PICK d \in Listed(domains) : TRUE
        BY <1>1 DEF DomainsInv, ListInv, AttemptOf
      <3>3. d = current[h] /\ d \in Domain /\ d # None
        BY <3>1, <3>2, NoneAssumption DEF Listed
      <3>4. d \in Listed(tried[h])
        BY <1>1, <3>3 DEF DomainsInv, AttemptOf, Listed
      <3> QED BY <2>2, <3>1, <3>3, <3>4 DEF DomainsInv, AttemptOf
    <2> QED BY <2>1, <2>2
  <1>3. DomainsTypeOK'
    BY <1>1 DEF DomainsInv, DomainsTypeOK
  <1>4. AttemptOf(h)'
    BY <1>1, <1>2 DEF DomainsInv, DomainsTypeOK, AttemptOf
  <1>5. Local(h)
    BY <1>1 DEF DomainsInv, DomainsTypeOK, Local
  <1> QED BY <1>3, <1>4, <1>5, LocalKeeps

LEMMA ConnectFailsStep ==
  ASSUME DomainsInv, NEW h \in Handler, ConnectFails(h)
  PROVE  DomainsInv'
  <1> USE DEF generator, balancer
  <1>1. /\ at' = [at EXCEPT ![h] = "next"] /\ at[h] = "connect"
        /\ UNCHANGED <<balancer, refresher, dc, candidate, generator, tried, throughout, mapped>>
    BY DEF ConnectFails, Goto
  <1>2. DomainsTypeOK'
    BY <1>1 DEF DomainsInv, DomainsTypeOK
  <1>3. AttemptOf(h)'
    BY <1>1 DEF DomainsInv, DomainsTypeOK, AttemptOf
  <1>4. Local(h)
    BY <1>1 DEF DomainsInv, DomainsTypeOK, Local
  <1> QED BY <1>2, <1>3, <1>4, LocalKeeps

(* Handlers that are through, whatever became of their attempts. *)
LEMMA LeaveStep ==
  ASSUME DomainsInv, NEW H \in SUBSET Handler, Leave(H), UNCHANGED <<domains, refresher, mapped>>,
         dcToDomain' \in [Dc -> Domain \cup {None}]
  PROVE  DomainsInv'
  <1>1. EmptyList \in List
    BY DEF EmptyList, List
  <1>2. DomainsTypeOK'
    BY <1>1 DEF Leave, DomainsInv, DomainsTypeOK
  <1>3. ListInv'
    BY DEF DomainsInv, ListInv
  <1>4. ASSUME NEW h \in Handler PROVE AttemptOf(h)'
    <2>1. CASE h \in H
      BY <2>1 DEF Leave, AttemptOf, EmptyList
    <2>2. CASE h \notin H
      BY <2>2 DEF Leave, DomainsInv, AttemptOf
    <2> QED BY <2>1, <2>2
  <1> QED BY <1>2, <1>3, <1>4 DEF DomainsInv

LEMMA EndStep ==
  ASSUME DomainsInv, NEW h \in Handler, Connected(h) \/ Failed(h)
  PROVE  DomainsInv'
  <1>1. Leave({h}) /\ UNCHANGED <<domains, refresher, mapped>>
    BY DEF Connected, Failed, balancer
  <1>2. dcToDomain' \in [Dc -> Domain \cup {None}]
    BY DEF Connected, Failed, balancer, DomainsInv, DomainsTypeOK
  <1> QED BY <1>1, <1>2, LeaveStep

LEMMA NextDomains == DomainsInv /\ [Next]_dvars => DomainsInv'
  <1> SUFFICES ASSUME DomainsInv, [Next]_dvars PROVE DomainsInv'
    OBVIOUS
  <1>1. CASE StartRefresh \/ Refresh \/ Refill \/ NextRound
    BY <1>1, ThreadStep
  <1>2. CASE \E h \in Handler : (refresher # "off" /\ Begin(h)) \/ Fallback(h)
    BY <1>2, BeginStep, YieldStep, GiveUpStep, ConnectFailsStep, EndStep DEF Fallback
  <1>3. CASE UNCHANGED dvars
    BY <1>3 DEF dvars, balancer, attempt, generator, DomainsInv, DomainsTypeOK, ListInv, AttemptOf
  <1> QED BY <1>1, <1>2, <1>3 DEF Next

LEMMA DomainsInvariant == Spec => []DomainsInv
  BY InitDomains, NextDomains, PTL DEF Spec

LEMMA InvTries == DomainsInv => EachTriedOnce
  <1> SUFFICES ASSUME DomainsInv, NEW h \in Handler
               PROVE  /\ NoDuplicates(tried[h])
                      /\ at[h] = "failed" => Listed(tried[h]) # {} /\ throughout[h] \subseteq Listed(tried[h])
    BY DEF EachTriedOnce
  <1>1. ASSUME NEW d \in Domain PROVE tried[h][d] <= 1
    <2>1. tried[h][d] \in Nat /\ left[h][d] \in Nat
      BY DEF DomainsInv, DomainsTypeOK, List
    <2>2. d # None
      BY NoneAssumption
    <2>3. CASE at[h] = "idle"
      BY <2>3 DEF DomainsInv, AttemptOf, EmptyList
    <2> QED BY <2>1, <2>2, <2>3 DEF DomainsInv, AttemptOf
  <1> QED BY <1>1 DEF NoDuplicates, DomainsInv, AttemptOf

(* What WorkingDomainKept asks of a step. *)
Kept ==
  \A x \in Dc :
    dcToDomain'[x] # dcToDomain[x] =>
      \/ Listed(domains') # mapped
      \/ \E h \in Handler : at[h] = "connect" /\ dc[h] = x /\ dcToDomain'[x] = candidate[h]

LEMMA NextKeeps == DomainsInv /\ [Next]_dvars => [Kept]_dvars
  <1> SUFFICES ASSUME DomainsInv, Next, NEW x \in Dc, dcToDomain'[x] # dcToDomain[x]
               PROVE  \/ Listed(domains') # mapped
                      \/ \E h \in Handler : at[h] = "connect" /\ dc[h] = x /\ dcToDomain'[x] = candidate[h]
    BY DEF dvars, Kept
  <1>1. CASE StartRefresh \/ Refill
    BY <1>1, DomainsAssumption DEF StartRefresh, Refill, DomainsInv, ListInv
  <1>2. CASE \E h \in Handler : Connected(h)
    BY <1>2 DEF Connected, DomainsInv, DomainsTypeOK
  <1>3. CASE \/ Refresh \/ NextRound
             \/ \E h \in Handler : \/ Begin(h) \/ GiveUp(h) \/ ConnectFails(h) \/ Failed(h)
                                   \/ \E d \in Domain : Yield(h, d)
    BY <1>3 DEF Refresh, NextRound, Begin, GiveUp, ConnectFails, Failed, Yield, balancer
  <1> QED BY <1>1, <1>2, <1>3 DEF Next, Fallback

-----------------------------------------------------------------------------
(* Lists, map and attempts keep to their values. *)
THEOREM DomainsTypeCorrect == Spec => []DomainsTypeOK
  <1>1. DomainsInv => DomainsTypeOK
    BY DEF DomainsInv
  <1> QED BY <1>1, DomainsInvariant, PTL

(* Whatever the thread does meanwhile, an attempt tries no domain twice,   *)
(* and gives up only after all that were listed from beginning to end.     *)
THEOREM TriesEachOnce == Spec => []EachTriedOnce
  BY InvTries, DomainsInvariant, PTL

(* The map changes by a success of that very domain, or with the list.     *)
THEOREM KeepsWorkingDomain == Spec => WorkingDomainKept
  BY NextKeeps, DomainsInvariant, PTL DEF Spec, WorkingDomainKept, Kept
=============================================================================
