------------------------------ MODULE Cluster ------------------------------
(***************************************************************************)
(* The Kubernetes cluster around one MemcachedProxy, as the operator sees  *)
(* it: the API server's objects, the built-in deployment controller and    *)
(* garbage collector, the shared informer caches the operator reads, and   *)
(* the requests the operator has in flight.  None of this is code of the   *)
(* operator; it is modelled from how the operator uses it.                 *)
(*                                                                         *)
(* A ConfigMap is identified by its content: its name is a hash of the     *)
(* rendered mcrouter configuration, taken here to be injective.  What is   *)
(* kept of it is its set of owners.  A Deployment is the ConfigMap its     *)
(* "config" volume mounts and its creation time, which the API server      *)
(* stamps in whole seconds, so that two may be equal.  A ReplicaSet is     *)
(* <<deployment, ConfigMap its pod template mounts, incarnation>>.         *)
(***************************************************************************)
EXTENDS Naturals, FiniteSets

CONSTANTS
  Configs,          \* the mcrouter configurations the endpoints may lead to
  Deployments,      \* names the API server may generate for Deployments
  Incarnations,     \* tells apart ReplicaSets recreated for one template
  Proxy,            \* the MemcachedProxy, as an owner
  None,             \* no object, no request
  Lag,              \* kinds whose cache may lag behind the API server
  Disturbances,     \* what the environment may do to the operator
  MaxDisturbances   \* ... and how often, in total

ReplicaSets == Deployments \X Configs \X Incarnations

Owners == {Proxy} \cup ReplicaSets

DeploymentState == [cm : Configs, created : Nat]

\* The request carries a copy of the object: "fresh" says whether the
\* resourceVersion in that copy is still the stored one.
ConfigMapRequest ==
  [op : {"create", "reuse", "apply"}, cm : Configs, owners : SUBSET Owners,
   fresh : BOOLEAN]

ASSUME ClusterAssumption ==
  /\ None \notin Configs
  /\ None \notin DeploymentState
  /\ None \notin ConfigMapRequest
  /\ \A S \in SUBSET Owners : None # S
  /\ Proxy \notin ReplicaSets
  /\ Lag \subseteq {"configmap", "deployment", "replicaset"}
  /\ Disturbances \subseteq {"endpoints", "status", "delete", "cleanup",
                             "failure", "lostReply", "restart", "proxy",
                             "sameSecond"}
  /\ MaxDisturbances \in Nat

VARIABLES
  config,     \* configuration the cached Services and Endpoints render to
  cms,        \* API server: the owners of each ConfigMap
  deps,       \* API server: Deployments controlled by the proxy
  rss,        \* API server: ReplicaSets
  cmCache,    \* the operator's cached copies ...
  depCache,
  rsCache,
  cmFresh,    \* ... and those that carry the stored resourceVersion
  depFresh,
  cmReq,      \* request of the configmap controller in flight
  depReq,     \* request of the deployment controller in flight
  disturbed   \* disturbances so far

apiVars == <<cms, deps, rss>>
cacheVars == <<cmCache, depCache, rsCache, cmFresh, depFresh>>
clusterVars == <<config, apiVars, cacheVars, cmReq, depReq, disturbed>>

DeploymentRequest ==
  {q \in [op : {"create", "update", "delete"}, dep : Deployments \cup {None},
          cm : Configs \cup {None}, fresh : BOOLEAN, extra : BOOLEAN,
          doomed : SUBSET Deployments] :
     /\ q.op # "delete" => q.cm \in Configs
     /\ q.op = "update" => q.dep \in Deployments}

ClusterTypeOK ==
  /\ config \in Configs \cup {None}
  /\ cms \in [Configs -> (SUBSET Owners) \cup {None}]
  /\ deps \in [Deployments -> DeploymentState \cup {None}]
  /\ rss \subseteq ReplicaSets
  /\ cmCache \in [Configs -> (SUBSET Owners) \cup {None}]
  /\ depCache \in [Deployments -> DeploymentState \cup {None}]
  /\ rsCache \subseteq ReplicaSets
  /\ cmFresh \subseteq Configs
  /\ depFresh \subseteq Deployments
  /\ cmReq \in ConfigMapRequest \cup {None}
  /\ depReq \in DeploymentRequest \cup {None}
  /\ disturbed \in 0..MaxDisturbances

\* The proxy has been created and defaulted; nothing has been made for it.
ClusterInit ==
  /\ config \in Configs \cup {None}
  /\ cms = [c \in Configs |-> None] /\ cmCache = cms /\ cmFresh = Configs
  /\ deps = [d \in Deployments |-> None] /\ depCache = deps
  /\ depFresh = Deployments
  /\ rss = {} /\ rsCache = {}
  /\ cmReq = None /\ depReq = None
  /\ disturbed = 0
-----------------------------------------------------------------------------
Existing(store) == {x \in DOMAIN store : store[x] # None}

\* ConfigMaps controlled by the proxy: the "new" ones, not yet handed over to
\* the ReplicaSet that mounts them.
GetConfigMapsForProxy(store) == {c \in Existing(store) : Proxy \in store[c]}

\* The Deployments of S that may come first once S is sorted by creation time
\* in reverse order; the sort is not stable, so ties may fall either way.
Newest(store, S) ==
  {d \in S : \A e \in S : store[e].created <= store[d].created}

CaughtUp ==
  /\ "configmap" \in Lag \/ cmFresh = Configs
  /\ "deployment" \in Lag \/ depFresh = Deployments
  /\ "replicaset" \in Lag \/ rsCache = rss

Disturb(kind) ==
  /\ kind \in Disturbances
  /\ disturbed < MaxDisturbances
  /\ disturbed' = disturbed + 1

\* A write of the ConfigMap (Deployment) by someone else outdates the request
\* in flight for it.

TouchConfigMap(c) ==
  /\ cmFresh' = cmFresh \ {c}
  /\ cmReq' = IF cmReq # None /\ cmReq.cm = c
              THEN [cmReq EXCEPT !.fresh = FALSE] ELSE cmReq

TouchDeployment(d) ==
  /\ depFresh' = depFresh \ {d}
  /\ depReq' = IF depReq # None /\ depReq.dep = d
               THEN [depReq EXCEPT !.fresh = FALSE] ELSE depReq

\* Everything some object, copy or request still names as an owner.
Named == rss \cup rsCache
  \cup UNION {cms[c] : c \in Existing(cms)}
  \cup UNION {cmCache[c] : c \in Existing(cmCache)}
  \cup (IF cmReq = None THEN {} ELSE cmReq.owners)

\* GenerateName yields a name (and a UID) nothing refers to.
UnusedDeployments ==
  {d \in Deployments : /\ deps[d] = None /\ depCache[d] = None
                       /\ \A r \in Named \ {Proxy} : r[1] # d}
-----------------------------------------------------------------------------
\* The built-in deployment controller creates the ReplicaSet for the current
\* pod template, if there is none, and records that in the Deployment.
CreateReplicaSet(d) ==
  /\ deps[d] # None
  /\ \A r \in rss : ~(r[1] = d /\ r[2] = deps[d].cm)
  /\ \E i \in Incarnations :
        /\ <<d, deps[d].cm, i>> \notin Named
        /\ rss' = rss \cup {<<d, deps[d].cm, i>>}
  /\ TouchDeployment(d)
  /\ UNCHANGED <<config, cms, deps, cmCache, depCache, rsCache, cmFresh,
                 cmReq, disturbed>>

\* Any other status update of the Deployment.
UpdateStatus(d) ==
  /\ Disturb("status")
  /\ deps[d] # None
  /\ TouchDeployment(d)
  /\ UNCHANGED <<config, apiVars, cmCache, depCache, rsCache, cmFresh, cmReq>>

\* The deployment controller drops an old ReplicaSet of the revision history,
\* once the ReplicaSet of the current template has taken over.
CleanupReplicaSet(r) ==
  /\ Disturb("cleanup")
  /\ r \in rss
  /\ deps[r[1]] # None
  /\ deps[r[1]].cm # r[2]
  /\ \E s \in rss : s[1] = r[1] /\ s[2] = deps[r[1]].cm
  /\ rss' = rss \ {r}
  /\ UNCHANGED <<config, cms, deps, cacheVars, cmReq, depReq>>

\* Garbage collection of a ReplicaSet whose Deployment is gone.
CollectReplicaSet(r) ==
  /\ r \in rss
  /\ deps[r[1]] = None
  /\ rss' = rss \ {r}
  /\ UNCHANGED <<config, cms, deps, cacheVars, cmReq, depReq, disturbed>>

\* Garbage collection of a ConfigMap: references to absent owners are removed
\* while some owner remains, the object itself when all of them are absent.
CollectConfigMap(c) ==
  /\ cms[c] # None
  /\ \E o \in cms[c] : o \notin {Proxy} \cup rss
  /\ cms' = [cms EXCEPT ![c] = IF @ \cap ({Proxy} \cup rss) = {} THEN None
                                 ELSE @ \cap ({Proxy} \cup rss)]
  /\ TouchConfigMap(c)
  /\ UNCHANGED <<config, deps, rss, cmCache, depCache, rsCache, depFresh,
                 depReq, disturbed>>

\* A user deletes the Deployment.
DeleteDeployment(d) ==
  /\ Disturb("delete")
  /\ deps[d] # None
  /\ deps' = [deps EXCEPT ![d] = None]
  /\ TouchDeployment(d)
  /\ UNCHANGED <<config, cms, rss, cmCache, depCache, rsCache, cmFresh, cmReq>>

\* The watch brings the cached copy of an object up to date.
RefreshConfigMap(c) ==
  /\ c \notin cmFresh
  /\ cmCache' = [cmCache EXCEPT ![c] = cms[c]]
  /\ cmFresh' = cmFresh \cup {c}
  /\ UNCHANGED <<config, apiVars, depCache, rsCache, depFresh, cmReq, depReq,
                 disturbed>>

RefreshDeployment(d) ==
  /\ d \notin depFresh
  /\ depCache' = [depCache EXCEPT ![d] = deps[d]]
  /\ depFresh' = depFresh \cup {d}
  /\ UNCHANGED <<config, apiVars, cmCache, rsCache, cmFresh, cmReq, depReq,
                 disturbed>>

RefreshReplicaSet(r) ==
  /\ (r \in rss) # (r \in rsCache)
  /\ rsCache' = IF r \in rss THEN rsCache \cup {r} ELSE rsCache \ {r}
  /\ UNCHANGED <<config, apiVars, cmCache, depCache, cmFresh, depFresh, cmReq,
                 depReq, disturbed>>

\* Endpoints change, and with them the configuration they render to; None when
\* a referenced Service or its Endpoints cannot be found.
ChangeEndpoints(v) ==
  /\ Disturb("endpoints")
  /\ v # config
  /\ config' = v
  /\ UNCHANGED <<apiVars, cacheVars, cmReq, depReq>>

\* The operator process dies and starts anew: the caches are filled from the
\* API server, requests in flight have no one left to answer to.
ClusterRestart ==
  /\ Disturb("restart")
  /\ cmCache' = cms /\ cmFresh' = Configs
  /\ depCache' = deps /\ depFresh' = Deployments
  /\ rsCache' = rss
  /\ cmReq' = None /\ depReq' = None
  /\ UNCHANGED <<config, apiVars>>
=============================================================================
