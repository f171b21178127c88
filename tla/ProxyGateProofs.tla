-------------------------- MODULE ProxyGateProofs --------------------------
(***************************************************************************)
(* The generation gate, for every set of ports, every bound and every kind *)
(* of API server: defaults stand behind an open gate, the service          *)
(* controller takes no nil port, no edit is undone, and where the          *)
(* generation counts updates of the status, or where an Update drops them, *)
(* the gate never opens.                                                   *)
(***************************************************************************)
EXTENDS ProxyGate, TLAPS

\* What holds of every version of the proxy that is stored.
Sound(p) ==
  /\ p.rv \in 1..revision
  /\ policy # "none" => p.observed <= p.generation
  /\ policy # "none" /\ GateOpen(p) => Defaulted(p.spec)
  /\ policy \in {"any", "status"} => ~GateOpen(p)
  /\ policy = "status" => p.observed = 0 /\ p.generation # 0

\* A request was made from the version whose resourceVersion it carries.
Derived ==
  /\ pReq # None => pReq.rv \in 1..revision
  /\ pReq # None /\ proxy # None /\ pReq.rv = proxy.rv =>
       /\ pReq.spec = ApplyDefaults(proxy.spec)
       /\ pReq.observed = proxy.generation

\* The proxy's side, and the Service's.
ProxyInv ==
  /\ proxy # None => Sound(proxy)
  /\ pCache # None => Sound(pCache)
  /\ proxy # None /\ pCache # None /\ proxy.rv = pCache.rv => pCache = proxy
  /\ Derived
  /\ proxy # None => wanted # None
  /\ UserSpecKept

ServiceInv ==
  /\ NeverPanics
  /\ policy \in {"any", "status"} => service = None /\ sCache = None /\ sReq = None

IInv == TypeOK /\ ProxyInv /\ ServiceInv

LEMMA NoneApart ==
  /\ None \notin Proxies /\ None \notin Services /\ None \notin Specs
  /\ None \notin ProxyUpdates /\ None \notin ServiceRequests
BY ProxyGateAssumption

\* Applying defaults gives a spec with defaults, once and for all.
LEMMA DefaultsSettle ==
  ASSUME NEW spec \in Specs
  PROVE  /\ ApplyDefaults(spec) \in Specs
         /\ Defaulted(ApplyDefaults(spec))
         /\ ApplyDefaults(ApplyDefaults(spec)) = ApplyDefaults(spec)
BY ProxyGateAssumption DEF Specs, ApplyDefaults, Defaulted

LEMMA InitIInv == Init => IInv
<1> SUFFICES ASSUME Init PROVE IInv
  OBVIOUS
<1>1. TypeOK
  <2>1. sFresh \in BOOLEAN /\ pQueued \in BOOLEAN /\ sQueued \in BOOLEAN
        /\ panicked \in BOOLEAN
    BY Zenon DEF Init
  <2>2. revision \in Nat /\ disturbed \in 0..MaxDisturbances
    BY ProxyGateAssumption DEF Init
  <2> QED
    BY <2>1, <2>2 DEF Init, TypeOK
<1>2. ProxyInv
  BY DEF Init, ProxyInv, Derived, UserSpecKept
<1>3. ServiceInv
  BY DEF Init, ServiceInv, NeverPanics
<1> QED
  BY <1>1, <1>2, <1>3 DEF IInv

\* A write of the stored proxy: its type and what it leaves alone.
LEMMA StoreTypes ==
  ASSUME proxy \in Proxies, revision \in Nat, NEW spec \in Specs, NEW observed \in Nat,
         Store(spec, observed)
  PROVE  /\ proxy' \in Proxies
         /\ revision' \in Nat /\ revision <= revision'
         /\ proxy'.spec = spec
         /\ \/ proxy' = proxy /\ revision' = revision
            \/ proxy'.rv = revision + 1 /\ revision' = revision + 1
<1> DEFINE status == IF policy = "status" THEN proxy.observed ELSE observed
<1>1. status \in Nat
  BY DEF Proxies
<1>2. CASE spec = proxy.spec /\ status = proxy.observed
  <2>1. proxy' = proxy /\ revision' = revision
    BY <1>2 DEF Store
  <2> QED
    BY <1>2, <2>1
<1>3. CASE ~(spec = proxy.spec /\ status = proxy.observed)
  <2>1. PICK g \in {proxy.generation, proxy.generation + 1} :
           proxy' = [uid |-> proxy.uid, rv |-> revision + 1, generation |-> g,
                     observed |-> status, spec |-> spec]
    BY <1>3 DEF Store
  <2>2. revision' = revision + 1
    BY <1>3 DEF Store
  <2>3. g \in Nat
    BY DEF Proxies
  <2> HIDE DEF status
  <2> QED
    BY <1>1, <2>1, <2>2, <2>3 DEF Proxies
<1> QED
  BY <1>2, <1>3

\* ... it is sound if it is of a user's spec with the old status, or that of
\* the proxy controller.
LEMMA StoreSound ==
  ASSUME proxy \in Proxies, Sound(proxy), revision \in Nat, policy' = policy,
         policy \in {"spec", "any", "status", "none"},
         NEW spec \in Specs, NEW observed \in Nat,
         \/ observed = proxy.observed
         \/ observed = proxy.generation /\ Defaulted(spec),
         Store(spec, observed)
  PROVE  Sound(proxy)'
<1>1. CASE spec = proxy.spec /\ (policy = "status" \/ observed = proxy.observed)
  <2>1. proxy' = proxy /\ revision' = revision
    BY <1>1 DEF Store
  <2> QED
    BY <2>1 DEF Sound, GateOpen, Defaulted
<1>2. CASE ~(spec = proxy.spec /\ (policy = "status" \/ observed = proxy.observed))
  <2>1. proxy'.rv = revision + 1 /\ revision' = revision + 1 /\ proxy'.spec = spec
    BY <1>2 DEF Store
  <2>2. proxy.generation \in Nat /\ proxy.observed \in Nat
    BY DEF Proxies
  <2>3. CASE policy = "none"
    BY <2>1, <2>3 DEF Sound
  <2>4. CASE policy = "spec"
    <3>1. proxy'.observed = observed
      BY <1>2, <2>4 DEF Store
    <3>2. proxy'.generation = IF spec # proxy.spec THEN proxy.generation + 1
                              ELSE proxy.generation
      BY <1>2, <2>4 DEF Store
    <3>3. spec = proxy.spec => observed = proxy.generation /\ Defaulted(spec)
      BY <1>2
    <3> QED
      BY <2>1, <2>2, <2>4, <3>1, <3>2, <3>3 DEF Sound, GateOpen, Defaulted
  <2>5. CASE policy = "any"
    <3>1. proxy'.observed = observed /\ proxy'.generation = proxy.generation + 1
      BY <1>2, <2>5 DEF Store
    <3> QED
      BY <2>1, <2>2, <2>5, <3>1 DEF Sound, GateOpen
  <2>6. CASE policy = "status"
    <3>1. proxy'.observed = proxy.observed
          /\ proxy'.generation = proxy.generation + 1
      BY <1>2, <2>6 DEF Store
    <3> QED
      BY <2>1, <2>2, <2>6, <3>1 DEF Sound, GateOpen
  <2> QED
    BY <2>3, <2>4, <2>5, <2>6
<1> QED
  BY <1>1, <1>2

\* The request the proxy controller makes from a cached proxy.
LEMMA UpdateTypes ==
  ASSUME NEW p \in Proxies
  PROVE  /\ ProxyUpdate(p) \in ProxyUpdates
         /\ p.rv \in Nat /\ ProxyUpdate(p).rv = p.rv
         /\ ProxyUpdate(p).spec = ApplyDefaults(p.spec)
         /\ ProxyUpdate(p).observed = p.generation
<1>1. p.spec \in Specs /\ p.generation \in Nat /\ p.rv \in Nat
  BY DEF Proxies
<1>2. ApplyDefaults(p.spec) \in Specs
  BY <1>1, DefaultsSettle
<1> QED
  BY <1>1, <1>2 DEF ProxyUpdate, updateStatus, ProxyUpdates

\* Every step keeps the types.
LEMMA NextType == TypeOK /\ [Next]_vars => TypeOK'
<1> SUFFICES ASSUME TypeOK, [Next]_vars PROVE TypeOK'
  OBVIOUS
<1> USE ProxyGateAssumption, NoneApart
<1>0. Disturb => disturbed' \in 0..MaxDisturbances
  BY DEF Disturb, TypeOK
<1>1. ASSUME NEW spec \in Specs, CreateProxy(spec) PROVE TypeOK'
  <2>1. proxy' \in Proxies /\ revision' \in Nat
    BY <1>1 DEF CreateProxy, TypeOK, Proxies
  <2> QED
    BY <1>0, <1>1, <2>1 DEF CreateProxy, TypeOK, operator, queues
<1>2. ASSUME NEW spec \in Specs, EditProxy(spec) PROVE TypeOK'
  <2>1. proxy \in Proxies /\ proxy.observed \in Nat
    BY <1>2 DEF EditProxy, TypeOK, Proxies
  <2>2. proxy' \in Proxies /\ revision' \in Nat
    BY <1>2, <2>1, StoreTypes DEF EditProxy, TypeOK
  <2> QED
    BY <1>0, <1>2, <2>2 DEF EditProxy, TypeOK, operator, queues
<1>3. CASE DeleteProxy
  BY <1>0, <1>3 DEF DeleteProxy, TypeOK, operator, queues
<1>4. sReq \in ServiceRequests \cup {None} /\ Outdated(sReq) \in ServiceRequests \cup {None}
  BY DEF TypeOK, Outdated, ServiceRequests
<1>5. CASE DisturbService
  <2>1. service' \in Services \cup {None} /\ sFresh' = FALSE
    BY <1>5 DEF DisturbService, ChangeService, TypeOK, Services
  <2> QED
    BY <1>0, <1>4, <1>5, <2>1 DEF DisturbService, TypeOK, queues
<1>6. CASE CollectService
  BY <1>4, <1>6 DEF CollectService, ChangeService, TypeOK, queues
<1>7. CASE ObserveProxy
  BY <1>7 DEF ObserveProxy, TypeOK, objects
<1>8. CASE ObserveService
  BY <1>8 DEF ObserveService, TypeOK, objects
<1>9. CASE MissServiceDelete
  BY <1>0, <1>9 DEF MissServiceDelete, TypeOK, objects, queues
<1>10. CASE Resync
  BY <1>10 DEF Resync, TypeOK, objects
<1>11. Restarted =>
         /\ pCache' = proxy /\ sCache' = service
         /\ sFresh' \in BOOLEAN /\ pQueued' \in BOOLEAN /\ sQueued' \in BOOLEAN
         /\ pReq' = None /\ sReq' = None
  BY DEF Restarted
<1>12. CASE Restart
  BY <1>0, <1>11, <1>12 DEF Restart, TypeOK, objects
<1>13. CASE ProxySync
  <2>1. pReq' \in ProxyUpdates \cup {None}
    BY <1>13, UpdateTypes DEF ProxySync, TypeOK
  <2> QED
    BY <1>13, <2>1 DEF ProxySync, TypeOK, objects
<1>14. CASE ProxyCallSucceeds
  <2>1. proxy \in Proxies /\ pReq \in ProxyUpdates
    BY <1>14 DEF ProxyCallSucceeds, ProxyMatches, TypeOK
  <2>2. pReq.spec \in Specs /\ pReq.observed \in Nat
    BY <2>1 DEF ProxyUpdates
  <2>3. proxy' \in Proxies /\ revision' \in Nat
    BY <1>14, <2>1, <2>2, StoreTypes DEF ProxyCallSucceeds, TypeOK
  <2> QED
    BY <1>14, <2>3 DEF ProxyCallSucceeds, TypeOK
<1>15. CASE ProxyCallFails
  BY <1>0, <1>15 DEF ProxyCallFails, TypeOK, objects
<1>16. CASE ServiceCreates
  <2>1. CASE pCache.spec.port = None
    BY <1>11, <1>16, <2>1 DEF ServiceCreates, TypeOK, objects
  <2>2. CASE pCache.spec.port # None
    <3>1. pCache \in Proxies
      BY <1>16 DEF ServiceCreates, TypeOK
    <3>2. pCache.uid \in Nat /\ pCache.spec.port \in Ports
      BY <2>2, <3>1 DEF Proxies, Specs
    <3>3. ServiceFor(pCache) \in Services
      BY <3>2 DEF ServiceFor, NewProxyOwnerRef, Services
    <3>4. [op |-> "create", service |-> ServiceFor(pCache), fresh |-> FALSE]
            \in ServiceRequests
      BY <3>3 DEF ServiceRequests
    <3>5. sReq' \in ServiceRequests /\ sQueued' = FALSE
      BY <1>16, <2>2, <3>4 DEF ServiceCreates
    <3> QED
      BY <1>16, <2>2, <3>5 DEF ServiceCreates, TypeOK, objects
  <2> QED
    BY <2>1, <2>2
<1>17. CASE updateService
  <2>1. sCache \in Services /\ sFresh \in BOOLEAN
    BY <1>17 DEF updateService, TypeOK
  <2>2. sCache' \in Services
    BY <1>17, <2>1 DEF updateService, Services
  <2>3. [op |-> "update", service |-> sCache', fresh |-> sFresh] \in ServiceRequests
    BY <2>1, <2>2 DEF ServiceRequests
  <2>4. sReq' \in ServiceRequests \cup {None}
    BY <1>17, <2>3 DEF updateService
  <2> QED
    BY <1>17, <2>2, <2>4 DEF updateService, TypeOK, objects
<1>18. CASE ServiceSkips
  BY <1>18 DEF ServiceSkips, TypeOK, objects
<1>19. CASE ServiceCallSucceeds
  <2>1. sReq.service \in Services
    BY <1>19 DEF ServiceCallSucceeds, TypeOK, ServiceRequests
  <2> QED
    BY <1>19, <2>1 DEF ServiceCallSucceeds, ChangeService, TypeOK
<1>20. CASE ServiceCallFails
  BY <1>0, <1>20 DEF ServiceCallFails, TypeOK, objects
<1>21. CASE UNCHANGED vars
  BY <1>21 DEF vars, objects, operator, queues, TypeOK
<1> QED
  BY <1>1, <1>2, <1>3, <1>5, <1>6, <1>7, <1>8, <1>9, <1>10, <1>12, <1>13, <1>14,
     <1>15, <1>16, <1>17, <1>18, <1>19, <1>20, <1>21
     DEF Next, Environment, ServiceSync, ServiceWaits
\* Every step keeps the proxy's side.
LEMMA NextProxy == IInv /\ [Next]_vars => ProxyInv'
<1> SUFFICES ASSUME IInv, [Next]_vars PROVE ProxyInv'
  OBVIOUS
<1> USE ProxyGateAssumption, NoneApart
<1>0. TypeOK /\ TypeOK' /\ ProxyInv /\ revision \in Nat
      /\ policy \in {"spec", "any", "status", "none"}
  BY NextType DEF IInv, TypeOK
<1>1. ASSUME UNCHANGED <<policy, proxy, wanted, revision, pReq>>,
             pCache' \in {pCache, proxy}
      PROVE  ProxyInv'
  BY <1>0, <1>1 DEF ProxyInv, Derived, UserSpecKept, Sound
<1>2. ASSUME UNCHANGED <<policy, proxy, wanted, revision>>,
             pCache' \in {pCache, proxy}, pReq' = None
      PROVE  ProxyInv'
  BY <1>0, <1>2 DEF ProxyInv, Derived, UserSpecKept, Sound
<1>3. ASSUME NEW spec \in Specs, CreateProxy(spec) PROVE ProxyInv'
  <2>1. /\ proxy'.rv = revision + 1 /\ revision' = revision + 1
        /\ proxy'.spec = spec /\ wanted' = spec
        /\ proxy'.observed = 0
        /\ proxy'.generation = IF policy = "none" THEN 0 ELSE 1
        /\ UNCHANGED <<policy, pCache, pReq>>
    BY <1>3 DEF CreateProxy, operator
  <2>2. Sound(proxy)'
    BY <1>0, <2>1 DEF Sound, GateOpen
  <2>3. pCache # None => pCache.rv \in 1..revision /\ Sound(pCache)'
    BY <1>0, <2>1 DEF ProxyInv, Sound
  <2>4. pReq # None => pReq.rv \in 1..revision
    BY <1>0 DEF ProxyInv, Derived
  <2>5. wanted' # None
    BY <2>1 DEF Specs
  <2> QED
    BY <1>0, <2>1, <2>2, <2>3, <2>4, <2>5 DEF ProxyInv, Derived, UserSpecKept
<1>4. ASSUME NEW spec \in Specs, NEW observed \in Nat, proxy # None,
             Store(spec, observed),
             \/ observed = proxy.observed /\ wanted' = spec
             \/ /\ observed = proxy.generation /\ wanted' = wanted
                /\ spec = ApplyDefaults(proxy.spec),
             UNCHANGED <<policy, pCache>>,
             pReq' \in {pReq, None}
      PROVE  ProxyInv'
  <2>1. proxy \in Proxies /\ Sound(proxy) /\ proxy.spec \in Specs
    BY <1>0, <1>4 DEF ProxyInv, TypeOK, Proxies
  <2>2. /\ revision' \in Nat /\ revision <= revision'
        /\ proxy'.spec = spec
        /\ \/ proxy' = proxy /\ revision' = revision
           \/ proxy'.rv = revision + 1 /\ revision' = revision + 1
    BY <1>0, <1>4, <2>1, StoreTypes
  <2>3. \/ observed = proxy.observed
        \/ observed = proxy.generation /\ Defaulted(spec)
    BY <1>4, <2>1, DefaultsSettle
  <2>4. Sound(proxy)'
    BY <1>0, <1>4, <2>1, <2>3, StoreSound
  <2>5. pCache # None => pCache.rv \in 1..revision /\ Sound(pCache)'
    BY <1>0, <1>4, <2>2 DEF ProxyInv, Sound
  <2>6. pReq # None => pReq.rv \in 1..revision
    BY <1>0 DEF ProxyInv, Derived
  <2>7. UserSpecKept' /\ wanted' # None
    BY <1>0, <1>4, <2>1, <2>2, DefaultsSettle DEF ProxyInv, UserSpecKept, Specs
  <2>8. Derived'
    BY <1>0, <1>4, <2>2, <2>6 DEF ProxyInv, Derived
  <2> QED
    BY <1>0, <1>4, <2>2, <2>4, <2>5, <2>7, <2>8 DEF ProxyInv
<1>5. ASSUME NEW spec \in Specs, EditProxy(spec) PROVE ProxyInv'
  <2>1. proxy.observed \in Nat
    BY <1>0, <1>5 DEF EditProxy, TypeOK, Proxies
  <2> QED
    BY <1>4, <1>5, <2>1 DEF EditProxy, operator
<1>6. CASE DeleteProxy
  <2>1. proxy' = None /\ UNCHANGED <<policy, wanted, revision, pCache, pReq>>
    BY <1>6 DEF DeleteProxy, operator
  <2> QED
    BY <1>0, <2>1 DEF ProxyInv, Derived, UserSpecKept, Sound
<1>7. CASE ProxySync
  <2>1. UNCHANGED <<policy, proxy, wanted, revision, pCache>>
    BY <1>7 DEF ProxySync, objects
  <2>2. CASE pReq' = None
    BY <1>2, <2>1, <2>2
  <2>3. CASE pReq' # None
    <3>1. pCache \in Proxies /\ pReq' = ProxyUpdate(pCache)
      BY <1>0, <1>7, <2>3 DEF ProxySync, TypeOK
    <3>2. Derived'
      BY <1>0, <2>1, <3>1, UpdateTypes DEF ProxyInv, Derived, Sound
    <3> QED
      BY <1>0, <2>1, <3>2 DEF ProxyInv, UserSpecKept, Sound
  <2> QED
    BY <2>2, <2>3
<1>8. CASE ProxyCallSucceeds
  <2>1. proxy # None /\ pReq \in ProxyUpdates
    BY <1>0, <1>8 DEF ProxyCallSucceeds, ProxyMatches, TypeOK
  <2>2. pReq.rv = proxy.rv
    BY <1>0, <1>8, <2>1 DEF ProxyCallSucceeds, ProxyMatches, ProxyInv, Derived
  <2>3. pReq.spec = ApplyDefaults(proxy.spec) /\ pReq.observed = proxy.generation
    BY <1>0, <2>1, <2>2 DEF ProxyInv, Derived
  <2>4. pReq.spec \in Specs /\ pReq.observed \in Nat
    BY <2>1 DEF ProxyUpdates
  <2> QED
    BY <1>4, <1>8, <2>1, <2>3, <2>4 DEF ProxyCallSucceeds
<1>9. ASSUME Restarted, UNCHANGED objects, policy' = policy PROVE ProxyInv'
  BY <1>2, <1>9 DEF Restarted, objects
<1>10. CASE ServiceCreates
  <2>1. CASE pCache.spec.port = None
    BY <1>9, <1>10, <2>1 DEF ServiceCreates
  <2>2. CASE pCache.spec.port # None
    BY <1>1, <1>10, <2>2 DEF ServiceCreates, objects
  <2> QED
    BY <2>1, <2>2
<1>11. CASE DisturbService \/ CollectService \/ ServiceCallSucceeds
  BY <1>1, <1>11 DEF DisturbService, CollectService, ServiceCallSucceeds
<1>12. CASE ObserveProxy \/ ObserveService \/ MissServiceDelete \/ Resync
  BY <1>1, <1>12 DEF ObserveProxy, ObserveService, MissServiceDelete, Resync, objects
<1>13. CASE updateService \/ ServiceSkips \/ ServiceCallFails
  BY <1>1, <1>13 DEF updateService, ServiceSkips, ServiceCallFails, objects
<1>14. CASE Restart
  BY <1>9, <1>14 DEF Restart
<1>15. CASE ProxyCallFails
  BY <1>2, <1>15 DEF ProxyCallFails, objects
<1>16. CASE UNCHANGED vars
  BY <1>1, <1>16 DEF vars, objects, operator
<1> QED
  BY <1>3, <1>5, <1>6, <1>7, <1>8, <1>10, <1>11, <1>12, <1>13, <1>14, <1>15, <1>16
     DEF Next, Environment, ServiceSync, ServiceWaits
\* Every step keeps the Service's side: the controller gets past the gate only
\* with a cached proxy that is sound.
LEMMA NextService == IInv /\ [Next]_vars => ServiceInv'
<1> SUFFICES ASSUME IInv, [Next]_vars PROVE ServiceInv'
  OBVIOUS
<1> USE ProxyGateAssumption, NoneApart
<1>0. TypeOK /\ ProxyInv /\ ServiceInv
  BY DEF IInv
<1>1. ASSUME policy' = policy, panicked' = panicked,
             policy \in {"any", "status"} =>
               /\ service' \in {service, None}
               /\ sCache' \in {sCache, service, None}
               /\ sReq' \in {sReq, None}
      PROVE  ServiceInv'
  BY <1>0, <1>1 DEF ServiceInv, NeverPanics
<1>2. ASSUME pCache # None, currentObserved(pCache)
      PROVE  /\ policy \notin {"any", "status"}
             /\ policy # "none" => pCache.spec.port # None
  BY <1>0, <1>2 DEF currentObserved, ProxyInv, Sound, Defaulted
<1>3. CASE ServiceCreates
  <2>1. policy' = policy /\ policy \notin {"any", "status"}
    BY <1>2, <1>3 DEF ServiceCreates
  <2>2. NeverPanics'
    <3>1. CASE pCache.spec.port = None
      BY <1>2, <1>3, <2>1, <3>1 DEF ServiceCreates, NeverPanics
    <3>2. CASE pCache.spec.port # None
      BY <1>0, <1>3, <2>1, <3>2 DEF ServiceCreates, NeverPanics, ServiceInv
    <3> QED
      BY <3>1, <3>2
  <2> QED
    BY <2>1, <2>2 DEF ServiceInv
<1>4. CASE updateService
  BY <1>1, <1>2, <1>4 DEF updateService
<1>5. CASE \E spec \in Specs : CreateProxy(spec) \/ EditProxy(spec)
  BY <1>1, <1>5 DEF CreateProxy, EditProxy, operator
<1>6. CASE DeleteProxy
  BY <1>1, <1>6 DEF DeleteProxy, operator
<1>7. CASE DisturbService \/ CollectService
  BY <1>0, <1>1, <1>7
     DEF DisturbService, CollectService, ChangeService, Outdated, ServiceInv
<1>8. CASE ObserveProxy \/ ObserveService \/ MissServiceDelete \/ Resync
  BY <1>1, <1>8 DEF ObserveProxy, ObserveService, MissServiceDelete, Resync, objects
<1>9. CASE Restart
  BY <1>1, <1>9 DEF Restart, Restarted, objects
<1>10. CASE ProxySync \/ ProxyCallSucceeds \/ ProxyCallFails
  BY <1>1, <1>10 DEF ProxySync, ProxyCallSucceeds, ProxyCallFails, objects
<1>11. CASE ServiceSkips \/ ServiceCallFails
  BY <1>1, <1>11 DEF ServiceSkips, ServiceCallFails, objects
<1>12. CASE ServiceCallSucceeds
  BY <1>0, <1>1, <1>12 DEF ServiceCallSucceeds, ServiceInv
<1>13. CASE UNCHANGED vars
  BY <1>1, <1>13 DEF vars, objects, operator
<1> QED
  BY <1>3, <1>4, <1>5, <1>6, <1>7, <1>8, <1>9, <1>10, <1>11, <1>12, <1>13
     DEF Next, Environment, ServiceSync, ServiceWaits

LEMMA Inductive == Spec => []IInv
<1>1. IInv /\ [Next]_vars => IInv'
  BY NextType, NextProxy, NextService DEF IInv
<1> QED
  BY InitIInv, <1>1, PTL DEF Spec

\* The variables keep their types: in particular no Service is created with a
\* port that is not set.
THEOREM TypeCorrect == Spec => []TypeOK
<1>1. IInv => TypeOK
  BY DEF IInv
<1> QED
  BY Inductive, <1>1, PTL

\* A proxy the gate lets through has its defaults, stored and cached.
THEOREM DefaultsBehindGate == Spec => []GateGuardsDefaults
<1>1. IInv => GateGuardsDefaults
  BY DEF IInv, ProxyInv, Sound, GateGuardsDefaults
<1> QED
  BY Inductive, <1>1, PTL

\* The nil port is met only where the API server leaves the generation at 0.
THEOREM NoNilPort == Spec => []NeverPanics
<1>1. IInv => NeverPanics
  BY DEF IInv, ServiceInv
<1> QED
  BY Inductive, <1>1, PTL

\* The proxy controller undoes no edit of a user.
THEOREM EditsSurvive == Spec => []UserSpecKept
<1>1. IInv => UserSpecKept
  BY DEF IInv, ProxyInv
<1> QED
  BY Inductive, <1>1, PTL

\* The README relies on "subresources for CRDs" (README.md:25) and promises a Service
\* (README.md:7).  The proxy controller writes the observed generation with the
\* Update of the whole proxy: a server with a status subresource drops it, and one
\* that counts updates of the status moves the generation on with every attempt to
\* catch up with it.  On both the gate stays shut and there is no Service.
GateStaysShut ==
  policy \in {"any", "status"} =>
    /\ proxy # None => ~GateOpen(proxy)
    /\ service = None

\* What the README says cannot be had: on a server with a status subresource, or
\* one that counts updates of the status, syncHandler of the service controller
\* gets past its check of the observed generation in no state.
THEOREM GateNeverOpens == Spec => []GateStaysShut
<1>1. IInv => GateStaysShut
  BY DEF IInv, ProxyInv, ServiceInv, Sound, GateStaysShut
<1> QED
  BY Inductive, <1>1, PTL
=============================================================================
