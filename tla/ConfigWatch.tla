----------------------------- MODULE ConfigWatch -----------------------------
(***************************************************************************)
(* Keeping the configurations of several proxies in line with the cached   *)
(* proxies, Services and Endpoints: the handlers of the configmap          *)
(* controller that put proxies in its queue, and the run that renders the  *)
(* configuration.  A run with a ConfigMap of the proxy under way renders   *)
(* nothing and is requeued (see ProxyConfigMap), it is left out here.      *)
(***************************************************************************)
EXTENDS RouteConfig

CONSTANTS
  Proxies,
  Namespace,    \* the namespace of the proxies
  Rules,        \* rules users write
  ServiceKeys,  \* <<namespace, name>> of the Services
  Ports,        \* lists of ports a Service may have
  Subsets,      \* lists of subsets the Endpoints of each may have
  MaxChanges    \* bound on what users and the cluster change

ASSUME ConfigWatchAssumption ==
  /\ Namespace \in Text \ {<<>>}
  /\ \A r \in Rules : IsRules(r)
  /\ Ports \subseteq Seq(ServicePort)
  /\ DOMAIN Subsets = ServiceKeys
  /\ MaxChanges \in Nat

VARIABLES
  proxies,    \* cached proxies: rules, and whether they have been observed
  services,   \* cached Services
  endpoints,  \* cached Endpoints
  queued,     \* the configmap controller's queue
  storing,    \* configurations rendered and on their way to the API server
  rendered,   \* configuration in each proxy's latest ConfigMap
  unaware,    \* proxies that have not run since a Service changed
  changes

inputs == <<proxies, services, endpoints>>
vars == <<inputs, queued, storing, rendered, unaware, changes>>

Config(p) == configForProxy(proxies[p].rules, services, endpoints)

\* Rules once their defaults are there.
Defaulted == {ApplyDefaults(r, Namespace) : r \in Rules}

TypeOK ==
  /\ proxies \in [Proxies -> [rules : Rules, observed : {FALSE}]
                               \cup [rules : Defaulted, observed : {TRUE}] \cup {None}]
  /\ \A p \in Proxies : proxies[p] # None /\ proxies[p].observed =>
        \A s \in serviceSpecsForRule(proxies[p].rules) : s.namespace # <<>>
  /\ services \in [ServiceKeys -> Ports \cup {None}]
  /\ endpoints \in [ServiceKeys -> (UNION Range(Subsets)) \cup {None}]
  /\ \A key \in ServiceKeys : endpoints[key] \in Subsets[key] \cup {None}
  /\ queued \subseteq Proxies /\ unaware \subseteq Proxies
  /\ DOMAIN storing \subseteq Proxies /\ Error \notin Range(storing)
  /\ DOMAIN rendered = Proxies /\ Error \notin Range(rendered)
  /\ changes \in 0..MaxChanges

Init ==
  /\ proxies = [p \in Proxies |-> None]
  /\ \E ports \in Ports : services = [key \in ServiceKeys |-> ports]
  /\ endpoints \in {e \in [ServiceKeys -> UNION Range(Subsets)] :
                    \A key \in ServiceKeys : e[key] \in Subsets[key]}
  /\ queued = {} /\ unaware = {}
  /\ storing = <<>>
  /\ rendered = [p \in Proxies |-> None]
  /\ changes = 0
-----------------------------------------------------------------------------
Count == changes < MaxChanges /\ changes' = changes + 1

\* A user creates a proxy or changes its rules: add and update events.
EditProxy(p, r) ==
  /\ Count
  /\ proxies' = [proxies EXCEPT ![p] = [rules |-> r, observed |-> FALSE]]
  /\ queued' = queued \cup {p}
  /\ UNCHANGED <<services, endpoints, storing, rendered, unaware>>

\* The proxy controller's update comes back: defaults are applied and the
\* generation is observed.
ObserveProxy(p) ==
  /\ proxies[p] # None /\ ~proxies[p].observed
  /\ proxies' = [proxies EXCEPT
                   ![p] = [rules |-> ApplyDefaults(@.rules, Namespace),
                           observed |-> TRUE]]
  /\ queued' = queued \cup {p}
  /\ UNCHANGED <<services, endpoints, storing, rendered, unaware, changes>>

\* A proxy is deleted, and its ConfigMaps are collected.
DeleteProxy(p) ==
  /\ Count
  /\ proxies[p] # None
  /\ proxies' = [proxies EXCEPT ![p] = None]
  /\ rendered' = [rendered EXCEPT ![p] = None]
  /\ queued' = queued \cup {p}
  /\ UNCHANGED <<services, endpoints, storing, unaware>>

\* Mutant: only rules that are a service themselves count.
getProxiesOfRoot(key) ==
  {p \in Proxies : /\ proxies[p] # None
                   /\ \E s \in ServicesOfRoot(proxies[p].rules) : Key(s) = key}

getAffectedProxies(key) ==
  {p \in Proxies :
     /\ proxies[p] # None
     /\ \E s \in serviceSpecsForRule(proxies[p].rules) : Key(s) = key}

\* updateEndpoints, for a new resourceVersion; nothing is queued if the subsets
\* are the same.
updateEndpoints(key, new) ==
  queued' = IF endpoints[key] # new
            THEN queued \cup getAffectedProxies(key) ELSE queued

\* addEndpoints and deleteEndpoints, the latter of a tombstone as well.
addEndpoints(key) == queued' = queued \cup getAffectedProxies(key)

EndpointsEvent(key, new) ==
  /\ Count
  /\ \/ endpoints[key] # None /\ new # None /\ updateEndpoints(key, new)
     \/ (endpoints[key] = None) # (new = None) /\ addEndpoints(key)
  /\ endpoints' = [endpoints EXCEPT ![key] = new]
  /\ UNCHANGED <<proxies, services, storing, rendered, unaware>>

\* The configmap controller has no handler for Services.
ServiceEvent(key, new) ==
  /\ Count
  /\ new # services[key]
  /\ services' = [services EXCEPT ![key] = new]
  /\ unaware' = Proxies
  /\ UNCHANGED <<proxies, endpoints, queued, storing, rendered>>

\* Mutant: proxies with their old resourceVersion are ignored as well.
ResyncIgnored == UNCHANGED vars

\* The resync replays an update event of every cached proxy, and of Endpoints
\* with their old resourceVersion, which updateEndpoints ignores.
Resync ==
  /\ queued' = queued \cup {p \in Proxies : proxies[p] # None}
  /\ UNCHANGED <<inputs, storing, rendered, unaware, changes>>
-----------------------------------------------------------------------------
\* No other worker has the proxy's key.
Take(p) == p \in queued /\ p \notin DOMAIN storing

\* A run for a proxy that is gone, or whose generation is not observed yet; the
\* latter is requeued.
SkipProxy(p) ==
  /\ Take(p)
  /\ proxies[p] # None => ~proxies[p].observed
  /\ queued' = IF proxies[p] = None THEN queued \ {p} ELSE queued
  /\ UNCHANGED <<inputs, storing, rendered, unaware, changes>>

\* The run up to the call: the configuration is rendered from the caches; an
\* error requeues the proxy.
RenderConfig(p) ==
  /\ Take(p)
  /\ proxies[p] # None /\ proxies[p].observed
  /\ \E config \in {Config(p)} :
        IF config = Error THEN UNCHANGED <<queued, storing>>
        ELSE /\ storing' = [q \in DOMAIN storing \cup {p} |->
                              IF q = p THEN config ELSE storing[q]]
             /\ queued' = queued \ {p}
  /\ unaware' = unaware \ {p}
  /\ UNCHANGED <<inputs, rendered, changes>>

\* The ConfigMap is created, after which the proxy is requeued, or reused.  What
\* has happened to the proxy and its services in the meantime is not looked at.
StoreConfig(p) ==
  /\ p \in DOMAIN storing
  /\ rendered' = [rendered EXCEPT ![p] = storing[p]]
  /\ storing' = Restrict(storing, DOMAIN storing \ {p})
  /\ queued' \in {queued, queued \cup {p}}
  /\ UNCHANGED <<inputs, unaware, changes>>

\* The call fails; the worker requeues the proxy.
StoreFails(p) ==
  /\ Count
  /\ p \in DOMAIN storing
  /\ storing' = Restrict(storing, DOMAIN storing \ {p})
  /\ queued' = queued \cup {p}
  /\ UNCHANGED <<inputs, rendered, unaware>>

Next ==
  \/ \E p \in Proxies :
        \/ \E r \in Rules : EditProxy(p, r)
        \/ ObserveProxy(p)
        \/ DeleteProxy(p)
        \/ SkipProxy(p)
        \/ RenderConfig(p)
        \/ StoreConfig(p)
        \/ StoreFails(p)
  \/ \E key \in ServiceKeys :
        \/ \E new \in Subsets[key] \cup {None} : EndpointsEvent(key, new)
        \/ \E new \in Ports \cup {None} : ServiceEvent(key, new)
  \/ Resync

Spec == Init /\ [][Next]_vars

\* The proxy controller and the workers run, and the resync happens.
Fairness ==
  /\ \A p \in Proxies : /\ WF_vars(ObserveProxy(p))
                        /\ WF_vars(SkipProxy(p) \/ RenderConfig(p) \/ StoreConfig(p))
  /\ WF_vars(Resync)

FairSpec == Spec /\ Fairness
-----------------------------------------------------------------------------
\* The configuration a proxy has, or is about to have.
Latest(p) == IF p \in DOMAIN storing THEN storing[p] ELSE rendered[p]

\* Nothing but a change of a Service goes unnoticed: a proxy that is not in the
\* queue has, or its run under way stores, the configuration its rules and the
\* current Endpoints lead to, also if they change between rendering and storing.
\* getAffectedProxies looks for services in the rules, updateEndpoints compares
\* subsets, and both have to agree with what configForProxy depends on.
NothingElseMissed ==
  \A p \in Proxies \ (queued \cup unaware) :
    proxies[p] # None => Latest(p) = Config(p)

\* What a Service's change leaves behind is put right by the next resync.
EventuallyCurrent ==
  \A p \in Proxies :
    <>[](proxies[p] # None /\ Config(p) # Error => rendered[p] = Config(p))

\* The proxy and the cluster are in a settled state: its configuration is
\* current and the Endpoints of its services have been made from them.
Settled(p) ==
  /\ p \notin queued \cup unaware \cup DOMAIN storing
  /\ proxies[p] # None
  /\ \A s \in serviceSpecsForRule(proxies[p].rules) :
        /\ ValidPorts(services[Key(s)])
        /\ EndpointsMatch(services[Key(s)], endpoints[Key(s)])

\* mcrouter, given the configuration, stores a key where the proxy's rules say:
\* on one server of a sharded rule, on each of a replicated one, and on servers
\* of the very ports of the services they name.  It takes pool names that tell
\* services apart, and ports named like the container ports they lead to by name.
SetsGoWhereRulesSay ==
  \A p \in Proxies : Settled(p) =>
    Ways(rendered[p], "default_policy")
      = WaysOfRule(proxies[p].rules, services, endpoints)
=============================================================================
