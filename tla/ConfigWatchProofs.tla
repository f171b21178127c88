-------------------------- MODULE ConfigWatchProofs --------------------------
(***************************************************************************)
(* Proofs for ConfigWatch: for any number of proxies, any rules, Services  *)
(* and Endpoints, a proxy's configuration goes stale by a change of a      *)
(* Service only.  Where pool names and the names of ports are unambiguous  *)
(* it sends sets where the rules say.                                      *)
(***************************************************************************)
EXTENDS ConfigWatch, FiniteSetTheorems, TLAPS

\* A set of natural numbers, if there is one in it, has a least one.
LEMMA LeastNumber ==
  ASSUME NEW T, T \subseteq Nat, T # {}
  PROVE  \E d \in T : \A e \in T : d <= e
<1>1. IsWellFoundedOn({ss \in Nat \X Nat : ss[1] < ss[2]}, Nat)
  BY NatLessThanWellFounded, Zenon DEF OpToRel
<1>2. PICK d \in T : \A e \in T : ~(<<e, d>> \in {ss \in Nat \X Nat : ss[1] < ss[2]})
  BY <1>1, WFMin, Zenon
<1>3. ASSUME NEW e \in T PROVE d <= e
  <2>1. e \in Nat /\ d \in Nat
    OBVIOUS
  <2>2. <<e, d>> \in Nat \X Nat => ~(e < d)
    BY <1>2, Zenon
  <2> QED BY <2>1, <2>2
<1> QED BY <1>3

\* A set of positions in a list, if there is one in it, has a last one.
LEMMA LastOfPositions ==
  ASSUME NEW n \in Nat, NEW S, S \subseteq 1..n, S # {}
  PROVE  \E x \in S : \A y \in S : y <= x
<1> DEFINE T == {n - i : i \in S}
<1>1. T \subseteq Nat /\ T # {}
  <2>1. \A i \in S : n - i \in Nat
    OBVIOUS
  <2> QED BY <2>1
<1>2. \E d \in T : \A e \in T : d <= e
  <2> HIDE DEF T
  <2> QED BY <1>1, LeastNumber
<1>3. PICK x \in S : \A e \in T : n - x <= e
  BY <1>2
<1>4. ASSUME NEW y \in S PROVE y <= x
  <2>1. n - x <= n - y
    BY <1>3
  <2> QED BY <2>1
<1> QED BY <1>4
-----------------------------------------------------------------------------
(* Rules, and what their defaults leave of them *)

\* A service that has its defaults is a service in a namespace.
LEMMA DefaultsOfService ==
  ASSUME NEW s \in ServiceSpec
  PROVE  /\ ServiceApplyDefaults(s, Namespace) = None \/ ServiceApplyDefaults(s, Namespace) \in ServiceSpec
         /\ ServiceApplyDefaults(s, Namespace) # None =>
              ServiceApplyDefaults(s, Namespace).namespace # <<>>
BY ConfigWatchAssumption DEF ServiceApplyDefaults, ServiceSpec

LEMMA DefaultedRules ==
  ASSUME NEW r \in Defaulted
  PROVE  /\ r \in Seq(RuleSpec)
         /\ \A i \in DOMAIN r : r[i].service # None => r[i].service.namespace # <<>>
<1>1. PICK w \in Rules : r = ApplyDefaults(w, Namespace)
  BY DEF Defaulted
<1>2. w \in Seq(RuleSpec)
  BY ConfigWatchAssumption DEF IsRules
<1>3. DOMAIN w = 1..Len(w) /\ Len(w) \in Nat /\ \A i \in DOMAIN w : w[i] \in RuleSpec
  BY <1>2
<1> DEFINE D(i) == [w[i] EXCEPT !.type = IF i = 1 /\ @ = "" THEN Sharded ELSE @,
                                !.service = ServiceApplyDefaults(@, Namespace)]
<1>4. r = [i \in DOMAIN w |-> D(i)]
  BY <1>1, Zenon DEF ApplyDefaults
<1>5. ASSUME NEW i \in DOMAIN w
      PROVE  D(i) \in RuleSpec /\ (D(i).service # None => D(i).service.namespace # <<>>)
  <2>1. w[i] \in RuleSpec
    BY <1>3
  <2>2. /\ w[i].type \in RuleTypes /\ w[i].under \in SUBSET Nat
        /\ w[i].service = None \/ w[i].service \in ServiceSpec
    BY <2>1 DEF RuleSpec
  <2> DEFINE type == IF i = 1 /\ w[i].type = "" THEN Sharded ELSE w[i].type
             s == ServiceApplyDefaults(w[i].service, Namespace)
  <2>3. D(i) = [type |-> type, service |-> s, under |-> w[i].under]
    <3>1. D(i) = [w[i] EXCEPT !.type = type, !.service = s]
      BY Zenon
    <3>2. w[i] = [type |-> w[i].type, service |-> w[i].service, under |-> w[i].under]
      BY <2>1 DEF RuleSpec
    <3> HIDE DEF type, s, D
    <3> QED BY <3>1, <3>2
  <2>4. type \in RuleTypes
    BY <2>2 DEF RuleTypes
  <2>5. s \in ServiceSpec \cup {None} /\ (s # None => s.namespace # <<>>)
    <3>1. CASE w[i].service = None
      BY <3>1 DEF ServiceApplyDefaults
    <3>2. CASE w[i].service \in ServiceSpec
      BY <3>2, DefaultsOfService
    <3> QED BY <2>2, <3>1, <3>2
  <2> HIDE DEF type, s, D
  <2> QED BY <2>2, <2>3, <2>4, <2>5 DEF RuleSpec
<1> HIDE DEF D
<1>6. r \in Seq(RuleSpec) /\ DOMAIN r = DOMAIN w
  BY <1>3, <1>4, <1>5
<1> QED BY <1>4, <1>5, <1>6

\* A service that a rule leads to is the service of a visited position.
LEMMA ServicePositions ==
  ASSUME NEW r, NEW s \in serviceSpecsForRule(r)
  PROVE  s # None /\ \E i \in Visited(r) : i \in DOMAIN r /\ r[i].service = s
BY DEF serviceSpecsForRule, Visited

LEMMA DefaultedServices ==
  ASSUME NEW r \in Defaulted, NEW s \in serviceSpecsForRule(r)
  PROVE  s \in ServiceSpec /\ s.namespace # <<>> /\ poolNameForServiceSpec(s) # None
<1>1. PICK i \in DOMAIN r : s # None /\ r[i].service = s
  BY ServicePositions
<1>2. r[i] \in RuleSpec
  BY DefaultedRules
<1>3. s \in ServiceSpec
  BY <1>1, <1>2 DEF RuleSpec
<1>4. poolNameForServiceSpec(s) \in Text
  BY <1>3 DEF ServiceSpec, IntOrString, poolNameForServiceSpec, Text
<1> QED BY <1>1, <1>3, <1>4, DefaultedRules, RouteConfigAssumption
-----------------------------------------------------------------------------
(* Types *)

\* A cached proxy, before and after its generation is observed.
Proxy == [rules : Rules, observed : {FALSE}] \cup [rules : Defaulted, observed : {TRUE}]

LEMMA ObservedProxy ==
  ASSUME NEW x \in Proxy
  PROVE  /\ x.observed => x.rules \in Defaulted
         /\ ~x.observed => x.rules \in Rules
<1>1. CASE x \in [rules : Rules, observed : {FALSE}]
  BY <1>1
<1>2. CASE x \in [rules : Defaulted, observed : {TRUE}]
  BY <1>2
<1> QED BY <1>1, <1>2 DEF Proxy

\* The cached proxies are what their events make them: rules as written, or with
\* defaults.  Their services have a namespace then.
ProxiesOK == proxies \in [Proxies -> Proxy \cup {None}]

CachesOK ==
  /\ services \in [ServiceKeys -> Ports \cup {None}]
  /\ endpoints \in [ServiceKeys -> (UNION Range(Subsets)) \cup {None}]
  /\ \A key \in ServiceKeys : endpoints[key] \in Subsets[key] \cup {None}

RenderedOK ==
  /\ DOMAIN storing \subseteq Proxies /\ Error \notin Range(storing)
  /\ DOMAIN rendered = Proxies /\ Error \notin Range(rendered)

RestOK ==
  /\ queued \subseteq Proxies /\ unaware \subseteq Proxies
  /\ changes \in 0..MaxChanges

LEMMA TypeOKParts == TypeOK <=> ProxiesOK /\ CachesOK /\ RenderedOK /\ RestOK
<1> DEFINE Named == \A p \in Proxies : proxies[p] # None /\ proxies[p].observed =>
                      \A s \in serviceSpecsForRule(proxies[p].rules) : s.namespace # <<>>
<1>1. TypeOK <=> ProxiesOK /\ Named /\ CachesOK /\ RenderedOK /\ RestOK
  BY DEF TypeOK, ProxiesOK, CachesOK, RenderedOK, RestOK, Proxy
<1>2. ASSUME ProxiesOK PROVE Named
  <2> SUFFICES ASSUME NEW p \in Proxies, proxies[p] # None, proxies[p].observed,
                      NEW s \in serviceSpecsForRule(proxies[p].rules)
               PROVE  s.namespace # <<>>
    OBVIOUS
  <2>1. proxies[p].rules \in Defaulted
    BY <1>2, ObservedProxy DEF ProxiesOK
  <2> QED BY <2>1, DefaultedServices
<1> QED BY <1>1, <1>2

LEMMA MaxChangesIsNat == MaxChanges \in Nat
BY ConfigWatchAssumption

LEMMA InitTypeOK == Init => TypeOK
<1> SUFFICES ASSUME Init PROVE ProxiesOK /\ CachesOK /\ RenderedOK /\ RestOK
  BY TypeOKParts
<1>1. ProxiesOK
  BY DEF Init, ProxiesOK
<1>2. CachesOK
  BY DEF Init, CachesOK
<1>3. RenderedOK
  BY RouteConfigAssumption DEF Init, RenderedOK, Range
<1>4. RestOK
  BY MaxChangesIsNat DEF Init, RestOK
<1> QED BY <1>1, <1>2, <1>3, <1>4

LEMMA SubsetsOfKey ==
  ASSUME NEW key \in ServiceKeys PROVE Subsets[key] \subseteq UNION Range(Subsets)
<1>1. key \in DOMAIN Subsets
  BY ConfigWatchAssumption
<1> QED BY <1>1 DEF Range

\* The configurations on their way, without a proxy's.
LEMMA StoringWithout ==
  ASSUME NEW p
  PROVE  /\ DOMAIN Restrict(storing, DOMAIN storing \ {p}) = DOMAIN storing \ {p}
         /\ \A q \in DOMAIN storing \ {p} :
              Restrict(storing, DOMAIN storing \ {p})[q] = storing[q]
BY DEF Restrict

LEMMA NextTypeOK == TypeOK /\ [Next]_vars => TypeOK'
<1> DEFINE Parts == ProxiesOK /\ CachesOK /\ RenderedOK /\ RestOK
<1>a. Parts' => TypeOK'
  BY TypeOKParts, PTL
<1> SUFFICES ASSUME ProxiesOK, CachesOK, RenderedOK, RestOK, [Next]_vars
             PROVE  Parts'
  BY <1>a, TypeOKParts
<1> USE MaxChangesIsNat
<1>1. ASSUME NEW p \in Proxies, NEW r \in Rules, EditProxy(p, r)
      PROVE  Parts'
  <2>1. [rules |-> r, observed |-> FALSE] \in Proxy
    BY DEF Proxy
  <2>2. ProxiesOK'
    BY <1>1, <2>1 DEF EditProxy, ProxiesOK
  <2>3. CachesOK' /\ RenderedOK'
    BY <1>1 DEF EditProxy, CachesOK, RenderedOK
  <2>4. RestOK'
    BY <1>1 DEF EditProxy, Count, RestOK
  <2> QED BY <2>2, <2>3, <2>4
<1>2. ASSUME NEW p \in Proxies, ObserveProxy(p)
      PROVE  Parts'
  <2>1. proxies[p].rules \in Rules
    BY <1>2, ObservedProxy DEF ObserveProxy, ProxiesOK
  <2>2. [rules |-> ApplyDefaults(proxies[p].rules, Namespace), observed |-> TRUE] \in Proxy
    BY <2>1 DEF Proxy, Defaulted
  <2>3. ProxiesOK'
    BY <1>2, <2>2 DEF ObserveProxy, ProxiesOK
  <2>4. CachesOK' /\ RenderedOK' /\ RestOK'
    BY <1>2 DEF ObserveProxy, CachesOK, RenderedOK, RestOK
  <2> QED BY <2>3, <2>4
<1>3. ASSUME NEW p \in Proxies, DeleteProxy(p)
      PROVE  Parts'
  <2>1. ProxiesOK' /\ CachesOK'
    BY <1>3 DEF DeleteProxy, ProxiesOK, CachesOK
  <2>2. RenderedOK'
    BY <1>3, RouteConfigAssumption DEF DeleteProxy, RenderedOK, Range
  <2>3. RestOK'
    BY <1>3 DEF DeleteProxy, Count, RestOK
  <2> QED BY <2>1, <2>2, <2>3
<1>4. ASSUME NEW p \in Proxies, SkipProxy(p)
      PROVE  Parts'
  BY <1>4 DEF SkipProxy, inputs, ProxiesOK, CachesOK, RenderedOK, RestOK
<1>5. ASSUME NEW p \in Proxies, RenderConfig(p)
      PROVE  Parts'
  <2>1. ProxiesOK' /\ CachesOK'
    BY <1>5 DEF RenderConfig, inputs, ProxiesOK, CachesOK
  <2>2. CASE Config(p) = Error
    <3>1. UNCHANGED <<queued, storing, rendered, changes>> /\ unaware' = unaware \ {p}
      BY <1>5, <2>2 DEF RenderConfig
    <3> QED BY <2>1, <3>1 DEF RenderedOK, RestOK
  <2>3. CASE Config(p) # Error
    <3>1. /\ storing' = [q \in DOMAIN storing \cup {p} |->
                           IF q = p THEN Config(p) ELSE storing[q]]
          /\ queued' = queued \ {p} /\ unaware' = unaware \ {p}
          /\ UNCHANGED <<rendered, changes>>
      BY <1>5, <2>3 DEF RenderConfig
    <3>2. RenderedOK'
      BY <2>3, <3>1 DEF RenderedOK, Range
    <3> QED BY <2>1, <3>1, <3>2 DEF RestOK
  <2> QED BY <2>2, <2>3
<1>6. ASSUME NEW key \in ServiceKeys, NEW new \in Subsets[key] \cup {None},
             EndpointsEvent(key, new)
      PROVE  Parts'
  <2>1. new \in (UNION Range(Subsets)) \cup {None}
    BY SubsetsOfKey
  <2>2. ProxiesOK' /\ CachesOK' /\ RenderedOK'
    BY <1>6, <2>1 DEF EndpointsEvent, ProxiesOK, CachesOK, RenderedOK
  <2>3. getAffectedProxies(key) \subseteq Proxies
    BY DEF getAffectedProxies
  <2>4. queued' \subseteq Proxies
    BY <1>6, <2>3 DEF EndpointsEvent, updateEndpoints, addEndpoints, RestOK
  <2>5. RestOK'
    BY <1>6, <2>4 DEF EndpointsEvent, Count, RestOK
  <2> QED BY <2>2, <2>5
<1>7. ASSUME NEW key \in ServiceKeys, NEW new \in Ports \cup {None}, ServiceEvent(key, new)
      PROVE  Parts'
  BY <1>7 DEF ServiceEvent, Count, ProxiesOK, CachesOK, RenderedOK, RestOK
<1>8. CASE Resync
  BY <1>8 DEF Resync, inputs, ProxiesOK, CachesOK, RenderedOK, RestOK
<1>9. ASSUME NEW p \in Proxies, StoreConfig(p)
      PROVE  Parts'
  <2>1. ProxiesOK' /\ CachesOK' /\ RestOK'
    BY <1>9 DEF StoreConfig, inputs, ProxiesOK, CachesOK, RestOK
  <2>2. RenderedOK'
    BY <1>9, StoringWithout DEF StoreConfig, RenderedOK, Range
  <2> QED BY <2>1, <2>2
<1>10. ASSUME NEW p \in Proxies, StoreFails(p)
       PROVE  Parts'
  <2>1. ProxiesOK' /\ CachesOK' /\ RestOK'
    BY <1>10 DEF StoreFails, Count, inputs, ProxiesOK, CachesOK, RestOK
  <2>2. RenderedOK'
    BY <1>10, StoringWithout DEF StoreFails, RenderedOK, Range
  <2> QED BY <2>1, <2>2
<1>11. CASE UNCHANGED vars
  BY <1>11 DEF vars, inputs, ProxiesOK, CachesOK, RenderedOK, RestOK
<1> QED BY <1>1, <1>2, <1>3, <1>4, <1>5, <1>6, <1>7, <1>8, <1>9, <1>10, <1>11 DEF Next

\* Proxies, caches and queue have their types, services of observed proxies a
\* namespace, and no ConfigMap is made of an error.
THEOREM TypeCorrect == Spec => []TypeOK
BY InitTypeOK, NextTypeOK, PTL DEF Spec
-----------------------------------------------------------------------------
(* What a configuration depends on *)

\* Positions that fill a pool are visited.
LEMMA LastIsVisited ==
  ASSUME NEW r, NEW i \in LastVisited(r)
  PROVE  r[i].service \in serviceSpecsForRule(r)
BY DEF LastVisited, serviceSpecsForRule

\* Endpoints that no service of the rules has do not matter.
LEMMA ConfigIsLocal ==
  ASSUME NEW r, NEW sv, NEW e1, NEW e2,
         \A s \in serviceSpecsForRule(r) : Lookup(e1, Key(s)) = Lookup(e2, Key(s))
  PROVE  configForProxy(r, sv, e1) = configForProxy(r, sv, e2)
<1> DEFINE L == {r[i].service : i \in LastVisited(r)}
<1>1. \A s \in L : Pool(s, sv, e1) = Pool(s, sv, e2)
  <2> SUFFICES ASSUME NEW s \in L
               PROVE  Pool(s, sv, e1) = Pool(s, sv, e2)
    OBVIOUS
  <2>1. Lookup(e1, Key(s)) = Lookup(e2, Key(s))
    BY LastIsVisited
  <2> QED BY <2>1, Zenon DEF Pool, poolForService
<1>2. Pools(r, sv, e1) = Pools(r, sv, e2)
  BY <1>1 DEF Pools
<1> QED BY <1>2, Zenon DEF configForProxy

LEMMA ConfigUnaffected ==
  ASSUME TypeOK, NEW p \in Proxies, proxies[p] # None,
         NEW key \in ServiceKeys, NEW new, p \notin getAffectedProxies(key)
  PROVE  configForProxy(proxies[p].rules, services, endpoints)
           = configForProxy(proxies[p].rules, services, [endpoints EXCEPT ![key] = new])
<1>1. \A s \in serviceSpecsForRule(proxies[p].rules) : Key(s) # key
  BY DEF getAffectedProxies
<1>2. \A k \in DOMAIN endpoints \ {key} : endpoints[k] = [endpoints EXCEPT ![key] = new][k]
  OBVIOUS
<1>3. DOMAIN endpoints = DOMAIN [endpoints EXCEPT ![key] = new]
  OBVIOUS
<1>4. \A s \in serviceSpecsForRule(proxies[p].rules) :
        Lookup(endpoints, Key(s)) = Lookup([endpoints EXCEPT ![key] = new], Key(s))
  BY <1>1, <1>2, <1>3 DEF Lookup
<1> QED BY <1>4, ConfigIsLocal

LEMMA NextCurrent ==
  ASSUME TypeOK, NothingElseMissed, [Next]_vars
  PROVE  NothingElseMissed'
<1> SUFFICES ASSUME NEW q \in Proxies, q \notin (queued \cup unaware)', proxies'[q] # None
             PROVE  Latest(q)' = Config(q)'
  BY DEF NothingElseMissed
<1>a. q \notin queued \cup unaware /\ proxies[q] # None => Latest(q) = Config(q)
  BY DEF NothingElseMissed
<1>b. DOMAIN proxies = Proxies /\ DOMAIN rendered = Proxies
  BY DEF TypeOK
<1>c. ASSUME proxies'[q] = proxies[q], Latest(q)' = Latest(q),
             queued \subseteq queued', unaware \subseteq unaware',
             UNCHANGED <<services, endpoints>>
      PROVE  Latest(q)' = Config(q)'
  BY <1>a, <1>c DEF Config
<1>d. UNCHANGED <<storing, rendered>> => Latest(q)' = Latest(q)
  BY DEF Latest
<1>1. ASSUME NEW p \in Proxies, NEW r \in Rules, EditProxy(p, r)
      PROVE  Latest(q)' = Config(q)'
  BY <1>1, <1>b, <1>c, <1>d DEF EditProxy
<1>2. ASSUME NEW p \in Proxies, ObserveProxy(p)
      PROVE  Latest(q)' = Config(q)'
  BY <1>2, <1>b, <1>c, <1>d DEF ObserveProxy
<1>3. ASSUME NEW p \in Proxies, DeleteProxy(p)
      PROVE  Latest(q)' = Config(q)'
  <2>1. q # p
    BY <1>3 DEF DeleteProxy
  <2>2. Latest(q)' = Latest(q)
    BY <1>3, <1>b, <2>1 DEF DeleteProxy, Latest
  <2> QED BY <1>3, <1>b, <1>c, <2>1, <2>2 DEF DeleteProxy
<1>4. ASSUME NEW p \in Proxies, SkipProxy(p)
      PROVE  Latest(q)' = Config(q)'
  <2>1. q # p \/ q \in queued'
    BY <1>4 DEF SkipProxy, Take, inputs
  <2>2. q \notin queued \cup unaware
    BY <1>4, <2>1 DEF SkipProxy
  <2> QED BY <1>4, <1>a, <1>d, <2>2 DEF SkipProxy, inputs, Config
<1>5. ASSUME NEW p \in Proxies, RenderConfig(p)
      PROVE  Latest(q)' = Config(q)'
  <2>1. UNCHANGED <<proxies, services, endpoints>> /\ Config(q)' = Config(q)
    BY <1>5 DEF RenderConfig, inputs, Config
  <2>2. CASE q = p
    <3>1. Config(p) # Error
      BY <1>5, <2>2 DEF RenderConfig, Take
    <3>2. storing' = [x \in DOMAIN storing \cup {p} |->
                        IF x = p THEN Config(p) ELSE storing[x]]
      BY <1>5, <3>1 DEF RenderConfig
    <3>3. q \in DOMAIN storing' /\ storing'[q] = Config(p)
      BY <2>2, <3>2
    <3> QED BY <2>1, <2>2, <3>3 DEF Latest
  <2>3. CASE q # p
    <3>1. q \notin queued \cup unaware
      BY <1>5, <2>3 DEF RenderConfig
    <3>2. Latest(q)' = Latest(q)
      <4>1. CASE Config(p) = Error
        BY <1>5, <1>d, <4>1 DEF RenderConfig
      <4>2. CASE Config(p) # Error
        <5>1. storing' = [x \in DOMAIN storing \cup {p} |->
                            IF x = p THEN Config(p) ELSE storing[x]]
          BY <1>5, <4>2 DEF RenderConfig
        <5>2. /\ q \in DOMAIN storing' <=> q \in DOMAIN storing
              /\ q \in DOMAIN storing => storing'[q] = storing[q]
          BY <2>3, <5>1
        <5> QED BY <1>5, <5>2 DEF RenderConfig, Latest
      <4> QED BY <4>1, <4>2
    <3> QED BY <1>a, <2>1, <3>1, <3>2
  <2> QED BY <2>2, <2>3
<1>6. ASSUME NEW key \in ServiceKeys, NEW new \in Subsets[key] \cup {None},
             EndpointsEvent(key, new)
      PROVE  Latest(q)' = Config(q)'
  <2>1. UNCHANGED <<proxies, services, storing, rendered, unaware>>
        /\ endpoints' = [endpoints EXCEPT ![key] = new]
    BY <1>6 DEF EndpointsEvent
  <2>2. queued \subseteq queued'
    BY <1>6 DEF EndpointsEvent, updateEndpoints, addEndpoints
  <2>3. endpoints' = endpoints \/ getAffectedProxies(key) \subseteq queued'
    <3>1. CASE endpoints[key] = new
      <4>1. endpoints' = endpoints
        BY <2>1, <3>1 DEF TypeOK
      <4> QED BY <4>1
    <3>2. CASE endpoints[key] # new
      BY <1>6, <3>2 DEF EndpointsEvent, updateEndpoints, addEndpoints
    <3> QED BY <3>1, <3>2
  <2>4. CASE endpoints' = endpoints
    BY <1>c, <1>d, <2>1, <2>2, <2>4
  <2>5. CASE getAffectedProxies(key) \subseteq queued'
    <3>1. q \notin getAffectedProxies(key)
      BY <2>5
    <3>2. Config(q)' = configForProxy(proxies[q].rules, services, [endpoints EXCEPT ![key] = new])
      BY <2>1 DEF Config
    <3>3. Config(q) = Config(q)'
      BY <2>1, <3>1, <3>2, ConfigUnaffected DEF Config
    <3> QED BY <1>a, <1>d, <2>1, <2>2, <3>3
  <2> QED BY <2>3, <2>4, <2>5
<1>7. ASSUME NEW key \in ServiceKeys, NEW new \in Ports \cup {None}, ServiceEvent(key, new)
      PROVE  Latest(q)' = Config(q)'
  BY <1>7 DEF ServiceEvent
<1>8. CASE Resync
  BY <1>8, <1>c, <1>d DEF Resync, inputs
<1>9. ASSUME NEW p \in Proxies, StoreConfig(p)
      PROVE  Latest(q)' = Config(q)'
  <2>1. Latest(q)' = Latest(q)
    BY <1>9, <1>b, StoringWithout DEF StoreConfig, Latest
  <2> QED BY <1>9, <1>c, <2>1 DEF StoreConfig, inputs
<1>10. ASSUME NEW p \in Proxies, StoreFails(p)
       PROVE  Latest(q)' = Config(q)'
  <2>1. q # p
    BY <1>10 DEF StoreFails
  <2>2. Latest(q)' = Latest(q)
    BY <1>10, <2>1, StoringWithout DEF StoreFails, Latest
  <2> QED BY <1>10, <1>c, <2>2 DEF StoreFails, inputs
<1>11. CASE UNCHANGED vars
  BY <1>11, <1>c, <1>d DEF vars, inputs
<1> QED BY <1>1, <1>2, <1>3, <1>4, <1>5, <1>6, <1>7, <1>8, <1>9, <1>10, <1>11 DEF Next

\* Whatever changes in proxies and Endpoints reaches the proxies it matters to:
\* getAffectedProxies finds every proxy whose configuration depends on the
\* Endpoints, and one that is neither queued nor unaware of a Service's change has
\* the configuration that configForProxy would make now.
THEOREM OnlyServicesMissed == Spec => []NothingElseMissed
<1>1. Init => NothingElseMissed
  BY DEF Init, NothingElseMissed
<1>2. TypeOK /\ NothingElseMissed /\ [Next]_vars => NothingElseMissed'
  BY NextCurrent
<1> QED BY <1>1, <1>2, TypeCorrect, PTL DEF Spec
-----------------------------------------------------------------------------
(* Where sets go *)

\* The ports of a Service have different names and numbers, so that a rule's port
\* stands for one of them at most.
LEMMA OnePort ==
  ASSUME NEW s \in ServiceSpec, NEW ports \in Ports, ValidPorts(ports),
         ServicePorts(s, ports) # {}
  PROVE  /\ Max(ServicePorts(s, ports)) \in DOMAIN ports
         /\ ServicePorts(s, ports) = {Max(ServicePorts(s, ports))}
<1>1. PICK m \in ServicePorts(s, ports) : TRUE
  OBVIOUS
<1>2. m \in DOMAIN ports /\ m \in Nat
  <2>1. ports \in Seq(ServicePort)
    BY ConfigWatchAssumption
  <2>2. DOMAIN ports = 1..Len(ports) /\ Len(ports) \in Nat
    BY <2>1
  <2> QED BY <1>1, <2>2 DEF ServicePorts
<1>3. \A j \in ServicePorts(s, ports) : j = m
  BY <1>1 DEF ServicePorts, ValidPorts
<1>4. ServicePorts(s, ports) = {m}
  BY <1>1, <1>3
<1>5. Max({m}) = m
  BY <1>2 DEF Max
<1> QED BY <1>2, <1>4, <1>5

\* Kubernetes' names and the operator's target ports lead to the same servers.
LEMMA ServersOfPool ==
  ASSUME NEW s \in ServiceSpec, NEW ports \in Ports, NEW subsets,
         ValidPorts(ports), NamedLikeTargets(ports), EndpointsMatch(ports, subsets),
         ServicePorts(s, ports) # {}
  PROVE  ServersIn(ServerLists(subsets, ports[Max(ServicePorts(s, ports))].targetPort))
           = ServersOfService(s, ports, subsets)
<1> DEFINE port == ports[Max(ServicePorts(s, ports))]
           Match(i) == {j \in DOMAIN subsets[i].ports :
                          portMatches(subsets[i].ports[j], port.targetPort)}
           Named(i) == {j \in DOMAIN subsets[i].ports : subsets[i].ports[j].name = port.name}
           At(i, j) == {<<a, subsets[i].ports[j].port>> : a \in Range(subsets[i].addresses)}
<1>1. port \in Range(ports) /\ {ports[i].name : i \in ServicePorts(s, ports)} = {port.name}
  BY OnePort DEF Range
<1>2. ServersOfService(s, ports, subsets)
        = UNION {UNION {At(i, j) : j \in Named(i)} : i \in DOMAIN subsets}
  <2> DEFINE names == {ports[i].name : i \in ServicePorts(s, ports)}
             InNames(i) == {j \in DOMAIN subsets[i].ports : subsets[i].ports[j].name \in names}
  <2>1. ServersOfService(s, ports, subsets)
          = UNION {UNION {At(i, j) : j \in InNames(i)} : i \in DOMAIN subsets}
    BY Zenon DEF ServersOfService
  <2>2. \A i \in DOMAIN subsets : InNames(i) = Named(i)
    <3> HIDE DEF port
    <3> QED BY <1>1
  <2> HIDE DEF InNames, Named, At
  <2> QED BY <2>1, <2>2
<1>3. ServersIn(ServerLists(subsets, port.targetPort))
        = UNION {UNION {At(i, j) : j \in Match(i)} : i \in DOMAIN subsets}
  <2> DEFINE lists == ServerLists(subsets, port.targetPort)
             From(i, j) == {<<a, lists[i][j].port>> : a \in Range(lists[i][j].addresses)}
  <2>1. ServersIn(lists)
          = UNION {UNION {From(i, j) : j \in DOMAIN lists[i]} : i \in DOMAIN lists}
    BY Zenon DEF ServersIn
  <2>2. DOMAIN lists = DOMAIN subsets /\ \A i \in DOMAIN subsets : DOMAIN lists[i] = Match(i)
    BY DEF ServerLists
  <2>3. \A i \in DOMAIN subsets : \A j \in Match(i) : From(i, j) = At(i, j)
    <3> SUFFICES ASSUME NEW i \in DOMAIN subsets, NEW j \in Match(i)
                 PROVE  From(i, j) = At(i, j)
      OBVIOUS
    <3>1. lists[i][j] = [addresses |-> subsets[i].addresses, port |-> subsets[i].ports[j].port]
      BY DEF ServerLists
    <3>2. /\ lists[i][j].addresses = subsets[i].addresses
          /\ lists[i][j].port = subsets[i].ports[j].port
      <4> HIDE DEF lists
      <4> QED BY <3>1
    <3> QED BY <3>2, Zenon
  <2> HIDE DEF lists, From, Match, At
  <2>4. \A i \in DOMAIN subsets :
          UNION {From(i, j) : j \in DOMAIN lists[i]} = UNION {At(i, j) : j \in Match(i)}
    BY <2>2, <2>3
  <2>5. UNION {UNION {From(i, j) : j \in DOMAIN lists[i]} : i \in DOMAIN subsets}
          = UNION {UNION {At(i, j) : j \in Match(i)} : i \in DOMAIN subsets}
    BY <2>4
  <2>6. ServersIn(lists)
          = UNION {UNION {From(i, j) : j \in DOMAIN lists[i]} : i \in DOMAIN subsets}
    BY <2>1, <2>2, Zenon
  <2> QED BY <2>5, <2>6 DEF lists
<1>4. ASSUME NEW i \in DOMAIN subsets
      PROVE  UNION {At(i, j) : j \in Match(i)} = UNION {At(i, j) : j \in Named(i)}
  <2>1. ASSUME NEW j \in Named(i) PROVE j \in Match(i)
    <3>1. PICK p \in Range(ports) : Serves(subsets[i].ports[j], p)
      BY DEF EndpointsMatch, Range
    <3>2. p = port
      BY <1>1, <3>1 DEF Serves, ValidPorts, Range
    <3>3. port.targetPort.kind \in {"int", "string"}
      <4>1. port \in ServicePort
        BY <1>1, ConfigWatchAssumption DEF Range
      <4> QED BY <4>1 DEF ServicePort, IntOrString
    <3> QED BY <1>1, <3>1, <3>2, <3>3 DEF Serves, NamedLikeTargets, portMatches
  <2>2. ASSUME NEW j \in Match(i)
        PROVE  \E k \in Named(i) : subsets[i].ports[k].port = subsets[i].ports[j].port
    <3>1. CASE port.targetPort.kind = "int"
      <4>1. PICK e \in Range(subsets[i].ports) : Serves(e, port)
        BY <1>1, <3>1 DEF EndpointsMatch
      <4>2. PICK k \in DOMAIN subsets[i].ports : subsets[i].ports[k] = e
        BY <4>1 DEF Range
      <4>3. e.port = subsets[i].ports[j].port /\ e.name = port.name
        BY <3>1, <4>1 DEF Serves, portMatches
      <4> QED BY <4>2, <4>3
    <3>2. CASE port.targetPort.kind # "int"
      <4>1. port \in ServicePort
        BY <1>1, ConfigWatchAssumption DEF Range
      <4>2. port.targetPort.kind = "string"
        BY <3>2, <4>1 DEF ServicePort, IntOrString
      <4> QED BY <1>1, <4>2 DEF portMatches, NamedLikeTargets
    <3> QED BY <3>1, <3>2
  <2>3. UNION {At(i, j) : j \in Named(i)} \subseteq UNION {At(i, j) : j \in Match(i)}
    BY <2>1
  <2>4. UNION {At(i, j) : j \in Match(i)} \subseteq UNION {At(i, j) : j \in Named(i)}
    BY <2>2
  <2> QED BY <2>3, <2>4
<1> HIDE DEF At, Named, Match
<1> QED BY <1>2, <1>3, <1>4

\* A pool that is filled has the servers its service has.
LEMMA PoolOfService ==
  ASSUME TypeOK, NEW s \in ServiceSpec, poolForService(s, services, endpoints) # Error,
         \A ports \in Ports : NamedLikeTargets(ports),
         ValidPorts(services[Key(s)]), EndpointsMatch(services[Key(s)], endpoints[Key(s)])
  PROVE  ServersIn(poolForService(s, services, endpoints))
           = ServersOfService(s, services[Key(s)], endpoints[Key(s)])
<1> DEFINE ports == Lookup(services, Key(s))
           subsets == Lookup(endpoints, Key(s))
<1>1. /\ ports # None /\ subsets # None /\ ServicePorts(s, ports) # {}
      /\ poolForService(s, services, endpoints)
           = ServerLists(subsets, ports[Max(ServicePorts(s, ports))].targetPort)
  BY Zenon DEF poolForService
<1>2. ports = services[Key(s)] /\ subsets = endpoints[Key(s)] /\ ports \in Ports
  BY <1>1 DEF Lookup, TypeOK
<1> HIDE DEF ports, subsets
<1> QED BY <1>1, <1>2, ServersOfPool

\* The pool of a visited service is there, and it is filled from that service, when
\* pool names tell services apart.
LEMMA PoolIsFound ==
  ASSUME NEW r \in Defaulted, PoolNamesTellApart(r), NEW s \in serviceSpecsForRule(r),
         NEW sv, NEW e
  PROVE  /\ Pool(s, sv, e) \in Pools(r, sv, e)
         /\ (CHOOSE p \in Pools(r, sv, e) : p.name = poolNameForServiceSpec(s)) = Pool(s, sv, e)
<1> DEFINE name == poolNameForServiceSpec(s)
           S == {i \in Visited(r) : /\ r[i].service # None
                                   /\ poolNameForServiceSpec(r[i].service) = name}
<1>1. S # {}
  BY ServicePositions
<1>2. S \subseteq 1..Len(r) /\ Len(r) \in Nat
  <2>1. DOMAIN r = 1..Len(r) /\ Len(r) \in Nat
    BY DefaultedRules
  <2> QED BY <2>1 DEF Visited
<1>3. PICK x \in S : \A y \in S : y <= x
  <2> HIDE DEF S
  <2> QED BY <1>1, <1>2, LastOfPositions
<1>4. x \in LastVisited(r)
  BY <1>2, <1>3 DEF LastVisited
<1>5. r[x].service = s
  BY <1>3, <1>4, LastIsVisited DEF PoolNamesTellApart
<1>6. Pool(s, sv, e) \in Pools(r, sv, e)
  BY <1>4, <1>5 DEF Pools
<1>7. ASSUME NEW p \in Pools(r, sv, e), p.name = name PROVE p = Pool(s, sv, e)
  <2>1. PICK i \in LastVisited(r) : p = Pool(r[i].service, sv, e)
    BY DEF Pools
  <2>2. poolNameForServiceSpec(r[i].service) = name
    BY <1>7, <2>1 DEF Pool
  <2>3. r[i].service = s
    BY <2>2, LastIsVisited DEF PoolNamesTellApart
  <2> QED BY <2>1, <2>3
<1>8. Pool(s, sv, e).name = name
  BY DEF Pool
<1> HIDE DEF name
<1>9. (CHOOSE p \in Pools(r, sv, e) : p.name = name) = Pool(s, sv, e)
  BY <1>6, <1>7, <1>8
<1> QED BY <1>6, <1>9 DEF name

\* Such a configuration routes sets as the rules say.
LEMMA RoutesLikeRules ==
  ASSUME TypeOK, NEW r \in Defaulted, PoolNamesTellApart(r),
         \A ports \in Ports : NamedLikeTargets(ports),
         NEW c, c = configForProxy(r, services, endpoints), c # Error,
         \A s \in serviceSpecsForRule(r) :
           /\ ValidPorts(services[Key(s)])
           /\ EndpointsMatch(services[Key(s)], endpoints[Key(s)])
  PROVE  Ways(c, "default_policy") = WaysOfRule(r, services, endpoints)
<1> DEFINE pools == Pools(r, services, endpoints)
           route == routeForRule(r)
           leaves == {i \in Visited(r) : r[i].service # None}
           Filled(i) == ServersIn((CHOOSE p \in pools : p.name = route[i].pool).servers)
           Servers(i) == ServersOfService(r[i].service, services[Key(r[i].service)],
                                          endpoints[Key(r[i].service)])
<1>1. /\ c = [route |-> route, pools |-> pools]
      /\ \A pool \in pools : pool.servers # Error
  BY Zenon DEF configForProxy
<1>2. c.route = route /\ c.pools = pools
  <2> HIDE DEF route, pools
  <2> QED BY <1>1
<1>3. DOMAIN route = Visited(r)
  BY DEF routeForRule
<1>4. Under(route) = Restrict(Under(r), Visited(r))
  BY DEF Under, Restrict, routeForRule, Visited
<1>5. {i \in DOMAIN route : route[i]["default_policy"] = "AllSyncRoute"}
        = {i \in Visited(r) : r[i].type = Replicated}
  BY DEF routeForRule
<1>6. ASSUME NEW i \in Visited(r)
      PROVE  /\ r[i].service = None => route[i].pool = None
             /\ r[i].service # None => /\ r[i].service \in serviceSpecsForRule(r)
                                       /\ route[i].pool = poolNameForServiceSpec(r[i].service)
                                       /\ route[i].pool # None
  <2>1. route[i].pool = IF r[i].service = None THEN None
                        ELSE poolNameForServiceSpec(r[i].service)
    BY DEF routeForRule
  <2>2. r[i].service # None => r[i].service \in serviceSpecsForRule(r)
    BY DEF serviceSpecsForRule
  <2> QED BY <2>1, <2>2, DefaultedServices
<1>7. {i \in DOMAIN route : route[i].pool # None} = leaves
  <2> HIDE DEF route
  <2> QED BY <1>3, <1>6
<1>8. ASSUME NEW i \in leaves PROVE Filled(i) = Servers(i)
  <2> DEFINE s == r[i].service
  <2>1. s \in serviceSpecsForRule(r) /\ route[i].pool = poolNameForServiceSpec(s)
    BY <1>6
  <2>2. s \in ServiceSpec
    BY <2>1, DefaultedServices
  <2>3. /\ Pool(s, services, endpoints) \in pools
        /\ (CHOOSE p \in pools : p.name = route[i].pool) = Pool(s, services, endpoints)
    <3> HIDE DEF s
    <3> QED BY <2>1, PoolIsFound
  <2>4. Pool(s, services, endpoints).servers = poolForService(s, services, endpoints)
    BY DEF Pool
  <2>5. poolForService(s, services, endpoints) # Error
    <3> HIDE DEF s, pools
    <3> QED BY <1>1, <2>3, <2>4
  <2>6. Filled(i) = ServersIn(poolForService(s, services, endpoints))
    <3> HIDE DEF s, pools, route
    <3> QED BY <2>3, <2>4
  <2>7. ServersIn(poolForService(s, services, endpoints))
          = ServersOfService(s, services[Key(s)], endpoints[Key(s)])
    <3> HIDE DEF s
    <3> QED BY <2>1, <2>2, <2>5, PoolOfService
  <2> HIDE DEF Filled
  <2> QED BY <2>6, <2>7
<1>9. [i \in leaves |-> Filled(i)] = [i \in leaves |-> Servers(i)]
  <2> HIDE DEF leaves, Filled, Servers
  <2> QED BY <1>8
<1>10. Ways(c, "default_policy")
         = WaysThrough(Under(route),
                       {i \in DOMAIN route : route[i]["default_policy"] = "AllSyncRoute"},
                       [i \in {i \in DOMAIN route : route[i].pool # None} |-> Filled(i)])
  <2> DEFINE Through(t, q) ==
               WaysThrough(Under(t),
                           {i \in DOMAIN t : t[i]["default_policy"] = "AllSyncRoute"},
                           [i \in {i \in DOMAIN t : t[i].pool # None} |->
                              ServersIn((CHOOSE p \in q : p.name = t[i].pool).servers)])
  <2>1. Ways(c, "default_policy") = Through(c.route, c.pools)
    BY Zenon DEF Ways
  <2>2. Through(c.route, c.pools) = Through(route, pools)
    <3> HIDE DEF route, pools, Through
    <3> QED BY <1>2
  <2> HIDE DEF route, pools
  <2> QED BY <2>1, <2>2, Zenon
<1>11. WaysOfRule(r, services, endpoints)
         = WaysThrough(Restrict(Under(r), Visited(r)),
                       {i \in Visited(r) : r[i].type = Replicated},
                       [i \in leaves |-> Servers(i)])
  BY Zenon DEF WaysOfRule
<1> HIDE DEF route, pools, leaves, Filled, Servers
<1> QED BY <1>4, <1>5, <1>7, <1>9, <1>10, <1>11, Zenon

\* A proxy that is not observed yet has a run to come.
UnobservedQueued ==
  \A p \in Proxies : proxies[p] # None /\ ~proxies[p].observed => p \in queued

LEMMA NextUnobserved ==
  ASSUME TypeOK, UnobservedQueued, [Next]_vars
  PROVE  UnobservedQueued'
<1> SUFFICES ASSUME NEW q \in Proxies, proxies'[q] # None, ~proxies'[q].observed
             PROVE  q \in queued'
  BY DEF UnobservedQueued
<1>a. proxies[q] # None /\ ~proxies[q].observed => q \in queued
  BY DEF UnobservedQueued
<1>b. DOMAIN proxies = Proxies
  BY DEF TypeOK
<1>c. ASSUME proxies'[q] = proxies[q], queued \subseteq queued'
      PROVE  q \in queued'
  BY <1>a, <1>c
<1>1. ASSUME NEW p \in Proxies, NEW r \in Rules, EditProxy(p, r)
      PROVE  q \in queued'
  BY <1>1, <1>b, <1>c DEF EditProxy
<1>2. ASSUME NEW p \in Proxies, ObserveProxy(p)
      PROVE  q \in queued'
  BY <1>2, <1>b, <1>c DEF ObserveProxy
<1>3. ASSUME NEW p \in Proxies, DeleteProxy(p)
      PROVE  q \in queued'
  BY <1>3, <1>b, <1>c DEF DeleteProxy
<1>4. ASSUME NEW p \in Proxies, SkipProxy(p)
      PROVE  q \in queued'
  BY <1>4, <1>a DEF SkipProxy, inputs
<1>5. ASSUME NEW p \in Proxies, RenderConfig(p)
      PROVE  q \in queued'
  <2>1. proxies' = proxies /\ proxies[p].observed
    BY <1>5 DEF RenderConfig, inputs
  <2>2. q # p
    BY <2>1
  <2> QED BY <1>5, <1>a, <2>1, <2>2 DEF RenderConfig
<1>6. ASSUME NEW key \in ServiceKeys, NEW new \in Subsets[key] \cup {None},
             EndpointsEvent(key, new)
      PROVE  q \in queued'
  BY <1>6, <1>c DEF EndpointsEvent, updateEndpoints, addEndpoints
<1>7. ASSUME NEW key \in ServiceKeys, NEW new \in Ports \cup {None}, ServiceEvent(key, new)
      PROVE  q \in queued'
  BY <1>7, <1>c DEF ServiceEvent
<1>8. CASE Resync
  BY <1>8, <1>c DEF Resync, inputs
<1>9. ASSUME NEW p \in Proxies, StoreConfig(p) \/ StoreFails(p)
      PROVE  q \in queued'
  BY <1>9, <1>c DEF StoreConfig, StoreFails, inputs
<1>10. CASE UNCHANGED vars
  BY <1>10, <1>c DEF vars, inputs
<1> QED BY <1>1, <1>2, <1>3, <1>4, <1>5, <1>6, <1>7, <1>8, <1>9, <1>10 DEF Next

\* Where pool names tell the services of a proxy apart and ports that lead to a
\* container port by name are named like it, mcrouter stores a key where the rules
\* say as soon as the proxy and the cluster are settled: the target ports that
\* poolForService follows and the routes that routeForRule makes lead to the servers
\* of the services the rules name.  Neither condition is one the operator or the
\* API server sees to, and the model checker shows that neither can be left out.
THEOREM SetsFollowRules ==
  ASSUME \A r \in Defaulted : PoolNamesTellApart(r),
         \A ports \in Ports : NamedLikeTargets(ports)
  PROVE  Spec => []SetsGoWhereRulesSay
<1>1. Init => UnobservedQueued
  BY DEF Init, UnobservedQueued
<1>2. TypeOK /\ UnobservedQueued /\ [Next]_vars => UnobservedQueued'
  BY NextUnobserved
<1>3. TypeOK /\ NothingElseMissed /\ UnobservedQueued => SetsGoWhereRulesSay
  <2> SUFFICES ASSUME TypeOK, NothingElseMissed, UnobservedQueued,
                      NEW p \in Proxies, Settled(p)
               PROVE  Ways(rendered[p], "default_policy")
                        = WaysOfRule(proxies[p].rules, services, endpoints)
    BY DEF SetsGoWhereRulesSay
  <2>1. rendered[p] = configForProxy(proxies[p].rules, services, endpoints)
    BY DEF Settled, NothingElseMissed, Latest, Config
  <2>2. rendered[p] # Error
    BY DEF TypeOK, Range
  <2>3. proxies[p].rules \in Defaulted
    <3>1. proxies[p].observed
      BY DEF Settled, UnobservedQueued
    <3>2. proxies[p] \in Proxy
      BY TypeOKParts DEF Settled, ProxiesOK
    <3> QED BY <3>1, <3>2, ObservedProxy
  <2>4. PoolNamesTellApart(proxies[p].rules)
    BY <2>3
  <2> QED BY <2>1, <2>2, <2>3, <2>4, RoutesLikeRules DEF Settled
<1> QED BY <1>1, <1>2, <1>3, TypeCorrect, OnlyServicesMissed, PTL DEF Spec
=============================================================================
