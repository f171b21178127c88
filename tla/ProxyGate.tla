------------------------------ MODULE ProxyGate ------------------------------
(***************************************************************************)
(* The generation gate.  The proxy controller fills in defaults and sets   *)
(* status.observedGeneration with one Update; the other controllers leave  *)
(* a proxy alone until that equals metadata.generation.  Here they are the *)
(* service controller, which keeps the proxy's Service.  The controllers   *)
(* read caches, and their calls race edits of the same objects.            *)
(*                                                                         *)
(* Which updates move the generation on is up to the API server, and the   *)
(* repository's CustomResourceDefinition has no subresources:              *)
(*   "spec"      those of the spec, as the gate supposes;                  *)
(*   "any"       those of the status as well;                              *)
(*   "status"    those of the spec; a status is not stored by an Update;   *)
(*   "none"      none, the generation is 0.                                *)
(***************************************************************************)
EXTENDS Naturals

CONSTANTS
  None,
  Policies,        \* what the API server may be like
  Ports,           \* values of spec.mcrouter.port
  DefaultPort,
  FailingCalls,    \* calls that may fail though the API server could do them
  MaxDisturbances, \* bound on what users, the network and crashes do
  MaxGeneration    \* bound on the updates an "any" server makes necessary

\* spec: its port, and whether the other fields that have defaults are set.
Specs == [port : Ports \cup {None}, others : BOOLEAN]

Proxies == [uid : Nat, rv : Nat, generation : Nat, observed : Nat, spec : Specs]
Services == [owner : Nat, selector : BOOLEAN, port : Ports]

ProxyUpdates == [rv : Nat, observed : Nat, spec : Specs]
\* fresh: the resourceVersion sent is still the stored one.
ServiceRequests ==
  [op : {"create", "update"}, service : Services, fresh : BOOLEAN]

ASSUME ProxyGateAssumption ==
  /\ Policies \subseteq {"spec", "any", "status", "none"}
  /\ DefaultPort \in Ports /\ None \notin Ports
  /\ FailingCalls \subseteq {"updateProxy", "create", "update"}
  /\ None \notin Specs \cup Proxies \cup Services
  /\ None \notin ProxyUpdates \cup ServiceRequests
  /\ MaxDisturbances \in Nat /\ MaxGeneration \in Nat

VARIABLES
  policy,
  proxy, service,    \* API server
  pCache, sCache,    \* the operator's caches ...
  sFresh,            \* ... and whether sCache is of the stored resourceVersion
  pQueued, sQueued,  \* the proxy is in a controller's queue
  pReq, sReq,        \* request of a controller in flight
  wanted,            \* spec the user last wrote
  revision,          \* API server: writes of the proxy
  panicked,
  disturbed

objects == <<proxy, service, wanted, revision>>
queues == <<pQueued, sQueued>>
operator == <<pCache, sCache, sFresh, queues, pReq, sReq, panicked>>
vars == <<policy, objects, operator, disturbed>>

Init ==
  /\ policy \in Policies
  /\ proxy = None /\ service = None
  /\ pCache = None /\ sCache = None /\ sFresh = TRUE
  /\ pQueued = FALSE /\ sQueued = FALSE
  /\ pReq = None /\ sReq = None
  /\ wanted = None /\ revision = 0
  /\ panicked = FALSE /\ disturbed = 0

GateOpen(p) == p.generation = p.observed

\* Mutant: a field added later is forgotten.
portDefault(spec) ==
  [spec EXCEPT !.port = IF @ = None THEN DefaultPort ELSE @]

ApplyDefaults(spec) ==
  [port |-> IF spec.port = None THEN DefaultPort ELSE spec.port, others |-> TRUE]

Defaulted(spec) == spec.port # None /\ spec.others
-----------------------------------------------------------------------------
(* The API server. *)

Disturb == disturbed < MaxDisturbances /\ disturbed' = disturbed + 1

\* A write of the proxy's spec and status; one that changes neither is none.
Store(spec, observed) ==
  LET status == IF policy = "status" THEN proxy.observed ELSE observed
      moved == \/ policy # "none" /\ spec # proxy.spec
               \/ policy = "any" /\ status # proxy.observed
  IN IF spec = proxy.spec /\ status = proxy.observed
     THEN UNCHANGED <<proxy, revision>>
     ELSE /\ proxy' =
               [uid |-> proxy.uid, rv |-> revision + 1,
                generation |-> IF moved THEN proxy.generation + 1
                               ELSE proxy.generation,
                observed |-> status, spec |-> spec]
          /\ revision' = revision + 1

CreateProxy(spec) ==
  /\ Disturb
  /\ proxy = None
  /\ proxy' = [uid |-> revision + 1, rv |-> revision + 1,
               generation |-> IF policy = "none" THEN 0 ELSE 1,
               observed |-> 0, spec |-> spec]
  /\ wanted' = spec /\ revision' = revision + 1
  /\ UNCHANGED <<policy, service, operator>>

EditProxy(spec) ==
  /\ Disturb
  /\ proxy # None /\ Store(spec, proxy.observed)
  /\ wanted' = spec
  /\ UNCHANGED <<policy, service, operator>>

DeleteProxy ==
  /\ Disturb
  /\ proxy # None /\ proxy' = None
  /\ UNCHANGED <<policy, service, wanted, revision, operator>>

ChangeService(new) ==
  /\ service' = new
  /\ sFresh' = FALSE

Outdated(q) == IF q = None THEN None ELSE [q EXCEPT !.fresh = FALSE]

\* Somebody deletes the Service or changes its selector.
DisturbService ==
  /\ Disturb
  /\ service # None
  /\ ChangeService(None) \/ ChangeService([service EXCEPT !.selector = FALSE])
  /\ sReq' = Outdated(sReq)
  /\ UNCHANGED <<policy, proxy, wanted, revision, pCache, sCache, queues, pReq,
                 panicked>>

\* The garbage collector deletes a Service whose owner is gone.
CollectService ==
  /\ service # None
  /\ proxy # None => proxy.uid # service.owner
  /\ ChangeService(None)
  /\ sReq' = Outdated(sReq)
  /\ UNCHANGED <<policy, proxy, wanted, revision, pCache, sCache, queues, pReq,
                 panicked, disturbed>>
-----------------------------------------------------------------------------
(* Caches and handlers. *)

\* Each event of the proxy is enqueued by both controllers.
ObserveProxy ==
  /\ pCache # proxy
  /\ pCache' = proxy
  /\ pQueued' = TRUE /\ sQueued' = TRUE
  /\ UNCHANGED <<policy, objects, sCache, sFresh, pReq, sReq, panicked, disturbed>>

\* enqueueOwned: every Service there is belongs to a proxy of this name.
ObserveService ==
  /\ ~sFresh
  /\ sCache' = service /\ sFresh' = TRUE
  /\ sQueued' = TRUE
  /\ UNCHANGED <<policy, objects, pCache, pQueued, pReq, sReq, panicked, disturbed>>

\* A deletion the watch missed is found by a relist: the handler is given a
\* tombstone, which enqueueOwned ignores.
MissServiceDelete ==
  /\ Disturb
  /\ service = None /\ sCache # None
  /\ sCache' = None /\ sFresh' = TRUE
  /\ UNCHANGED <<policy, objects, pCache, queues, pReq, sReq, panicked>>

Resync ==
  /\ pQueued' = (pQueued \/ pCache # None)
  /\ sQueued' = (sQueued \/ pCache # None \/ sCache # None)
  /\ UNCHANGED <<policy, objects, pCache, sCache, sFresh, pReq, sReq, panicked,
                 disturbed>>

\* A new process: what is in the API server is listed and enqueued.
Restarted ==
  /\ pCache' = proxy /\ sCache' = service /\ sFresh' = TRUE
  /\ pQueued' = (proxy # None)
  /\ sQueued' = (proxy # None \/ service # None)
  /\ pReq' = None /\ sReq' = None

Restart ==
  /\ Disturb
  /\ Restarted
  /\ UNCHANGED <<policy, objects, panicked>>
-----------------------------------------------------------------------------
(* The proxy controller. *)

updateStatus(p) == p.generation

\* Mutant: the object sent has no resourceVersion, and overwrites any other.
UnconditionalUpdate(p) ==
  [rv |-> 0, observed |-> updateStatus(p), spec |-> ApplyDefaults(p.spec)]

\* The copy of the cached proxy that Update sends, resourceVersion included.
ProxyUpdate(p) ==
  [rv |-> p.rv, observed |-> updateStatus(p), spec |-> ApplyDefaults(p.spec)]

\* syncHandler up to its Update.
ProxySync ==
  /\ pQueued /\ pReq = None
  /\ pQueued' = FALSE
  /\ pReq' = IF pCache = None THEN None
             ELSE LET new == ProxyUpdate(pCache)
                  IN IF new.spec = pCache.spec /\ new.observed = pCache.observed
                     THEN None ELSE new
  /\ UNCHANGED <<policy, objects, pCache, sCache, sFresh, sQueued, sReq, panicked,
                 disturbed>>

ProxyMatches == proxy # None /\ pReq.rv \in {0, proxy.rv}

\* The update is made; if the reply is lost the key is requeued all the same.
ProxyCallSucceeds ==
  /\ pReq # None /\ ProxyMatches
  /\ policy = "any" => proxy.generation < MaxGeneration
  /\ Store(pReq.spec, pReq.observed)
  /\ pReq' = None /\ pQueued' \in {pQueued, TRUE}
  /\ UNCHANGED <<policy, service, wanted, pCache, sCache, sFresh, sQueued, sReq, panicked,
                 disturbed>>

\* A conflict, or a call that fails: the key is requeued.
ProxyCallFails ==
  /\ pReq # None
  /\ IF ProxyMatches THEN "updateProxy" \in FailingCalls /\ Disturb
     ELSE UNCHANGED disturbed
  /\ pReq' = None /\ pQueued' = TRUE
  /\ UNCHANGED <<policy, objects, pCache, sCache, sFresh, sQueued, sReq, panicked>>
-----------------------------------------------------------------------------
(* The service controller. *)

\* Mutant: the gate lets through a proxy that has never been observed.
unobservedPasses(p) == p.observed = 0 \/ GateOpen(p)

\* The check at the top of syncHandler.
currentObserved(p) == GateOpen(p)

\* Gate shut: AddRateLimited, which keeps the key in the queue.
ServiceWaits ==
  /\ sQueued /\ sReq = None
  /\ pCache # None /\ ~currentObserved(pCache)
  /\ UNCHANGED vars

NewProxyOwnerRef(p) == p.uid

ServiceFor(p) ==
  [owner |-> NewProxyOwnerRef(p), selector |-> TRUE, port |-> p.spec.port]

\* Mutant: a port that is not set is sent as it is.
ServiceCreatesUnset ==
  /\ sQueued /\ sReq = None
  /\ pCache # None /\ currentObserved(pCache)
  /\ sCache = None
  /\ sReq' = [op |-> "create", service |-> ServiceFor(pCache), fresh |-> FALSE]
  /\ sQueued' = FALSE
  /\ UNCHANGED <<policy, objects, pCache, sCache, sFresh, pQueued, pReq, panicked,
                 disturbed>>

\* The create path; the nil pointer of a port that is not set ends the process.
ServiceCreates ==
  /\ sQueued /\ sReq = None
  /\ pCache # None /\ currentObserved(pCache)
  /\ sCache = None
  /\ IF pCache.spec.port = None
     THEN Restarted /\ panicked' = TRUE
     ELSE /\ sReq' = [op |-> "create", service |-> ServiceFor(pCache), fresh |-> FALSE]
          /\ sQueued' = FALSE
          /\ UNCHANGED <<pCache, sCache, sFresh, pQueued, pReq, panicked>>
  /\ UNCHANGED <<policy, objects, disturbed>>

\* Mutant: the selector of an existing Service is not compared.
updateNothing ==
  /\ sQueued /\ sReq = None
  /\ pCache # None /\ currentObserved(pCache)
  /\ sCache # None
  /\ sQueued' = FALSE
  /\ UNCHANGED <<policy, objects, pCache, sCache, sFresh, pQueued, pReq, sReq,
                 panicked, disturbed>>

\* updateService changes the cached Service itself, which then is what Update
\* sends; nothing is sent if the selector is right.
updateService ==
  /\ sQueued /\ sReq = None
  /\ pCache # None /\ currentObserved(pCache)
  /\ sCache # None
  /\ sQueued' = FALSE
  /\ sCache' = [sCache EXCEPT !.selector = TRUE]
  /\ sReq' = IF sCache.selector THEN None
             ELSE [op |-> "update", service |-> sCache', fresh |-> sFresh]
  /\ UNCHANGED <<policy, objects, pCache, sFresh, pQueued, pReq, panicked, disturbed>>

\* The proxy is gone.
ServiceSkips ==
  /\ sQueued /\ sReq = None
  /\ pCache = None
  /\ sQueued' = FALSE
  /\ UNCHANGED <<policy, objects, pCache, sCache, sFresh, pQueued, pReq, sReq,
                 panicked, disturbed>>

ServiceMatches ==
  IF sReq.op = "create" THEN service = None ELSE service # None /\ sReq.fresh

ServiceCallSucceeds ==
  /\ sReq # None /\ ServiceMatches
  /\ ChangeService(sReq.service)
  /\ sReq' = None /\ sQueued' \in {sQueued, TRUE}
  /\ UNCHANGED <<policy, proxy, wanted, revision, pCache, sCache, pQueued, pReq,
                 panicked, disturbed>>

\* A conflict, or a call that fails: the key is requeued, the copy in the cache
\* stays as updateService left it.
ServiceCallFails ==
  /\ sReq # None
  /\ IF ServiceMatches THEN sReq.op \in FailingCalls /\ Disturb
     ELSE UNCHANGED disturbed
  /\ sReq' = None /\ sQueued' = TRUE
  /\ UNCHANGED <<policy, objects, pCache, sCache, sFresh, pQueued, pReq, panicked>>
-----------------------------------------------------------------------------
Environment ==
  \/ \E spec \in Specs : CreateProxy(spec) \/ EditProxy(spec)
  \/ DeleteProxy \/ DisturbService
  \/ MissServiceDelete \/ Restart

ServiceSync == ServiceWaits \/ ServiceCreates \/ updateService \/ ServiceSkips

Next ==
  \/ Environment
  \/ CollectService \/ ObserveProxy \/ ObserveService \/ Resync
  \/ ProxySync \/ ProxyCallSucceeds \/ ProxyCallFails
  \/ ServiceSync \/ ServiceCallSucceeds \/ ServiceCallFails

Spec == Init /\ [][Next]_vars

\* Workers, watches, calls and the garbage collector make progress, and the
\* informers resync every -default-resync.
Fairness ==
  /\ WF_vars(CollectService)
  /\ WF_vars(ObserveProxy) /\ WF_vars(ObserveService) /\ WF_vars(Resync)
  /\ WF_vars(ProxySync) /\ WF_vars(ProxyCallSucceeds \/ ProxyCallFails)
  /\ WF_vars(ServiceSync) /\ WF_vars(ServiceCallSucceeds \/ ServiceCallFails)

FairSpec == Spec /\ Fairness
-----------------------------------------------------------------------------
TypeOK ==
  /\ policy \in Policies
  /\ proxy \in Proxies \cup {None} /\ pCache \in Proxies \cup {None}
  /\ service \in Services \cup {None} /\ sCache \in Services \cup {None}
  /\ pReq \in ProxyUpdates \cup {None} /\ sReq \in ServiceRequests \cup {None}
  /\ wanted \in Specs \cup {None}
  /\ sFresh \in BOOLEAN /\ panicked \in BOOLEAN
  /\ pQueued \in BOOLEAN /\ sQueued \in BOOLEAN
  /\ revision \in Nat
  /\ disturbed \in 0..MaxDisturbances

\* A proxy behind an open gate has its defaults, in the API server and in the
\* cache.  The Update that fills them in is also the one that sets the observed
\* generation; what keeps the gate shut is that it moves the generation on, and
\* that an edit in between makes it fail.
GateGuardsDefaults ==
  policy # "none" =>
    \A p \in {proxy, pCache} \ {None} : GateOpen(p) => Defaulted(p.spec)

\* The service controller takes no nil port from a proxy, however old its cache
\* is, unless the API server leaves the generation at 0, where the gate is open
\* from the start.
NeverPanics == panicked => policy = "none"

\* The proxy controller's Update undoes no edit: the proxy's spec is what its
\* user wrote last, with defaults.
UserSpecKept == proxy # None => ApplyDefaults(proxy.spec) = ApplyDefaults(wanted)

\* The service controller self-heals: whatever is done to the Service, and whether
\* or not events of it arrive, in the end the proxy's Service is there, belongs to
\* this proxy and not to one of the same name before it, and selects its pods.
EventuallyServed ==
  policy = "spec" =>
    <>[](proxy # None => /\ GateOpen(proxy)
                         /\ service # None /\ service.owner = proxy.uid
                         /\ service.selector)
=============================================================================
