------------------------------- MODULE Rollout -------------------------------
(***************************************************************************)
(* The configmap and the deployment controller at work on one              *)
(* MemcachedProxy.  They share nothing but the API server, the informer    *)
(* caches and the events those deliver: a new configuration reaches the    *)
(* pods when the configmap controller creates (or takes back) a ConfigMap  *)
(* controlled by the proxy, the deployment controller mounts it, and the   *)
(* configmap controller hands it over to the ReplicaSet that runs it.      *)
(***************************************************************************)
EXTENDS ProxyConfigMap, ProxyDeployment

queues == <<cmQueued, depQueued>>
vars == <<clusterVars, queues>>

TypeOK == ClusterTypeOK /\ cmQueued \in BOOLEAN /\ depQueued \in BOOLEAN

\* The proxy's own add event puts its key in both queues.
Init == ClusterInit /\ cmQueued = TRUE /\ depQueued = TRUE
-----------------------------------------------------------------------------
\* enqueueOwned, for the old and the new object: the deployment controller
\* hears of ConfigMaps the proxy controls, the configmap controller of none.
ConfigMapEvent(c) ==
  /\ RefreshConfigMap(c)
  /\ depQueued' = \/ depQueued
                  \/ c \in GetConfigMapsForProxy(cmCache)
                  \/ c \in GetConfigMapsForProxy(cms)
  /\ UNCHANGED cmQueued

\* Both controllers hear of Deployments, all controlled by the proxy here.
DeploymentEvent(d) ==
  /\ RefreshDeployment(d)
  /\ cmQueued' = TRUE /\ depQueued' = TRUE

\* There is no handler for ReplicaSets.
ReplicaSetEvent(r) == RefreshReplicaSet(r) /\ UNCHANGED queues

EndpointsEvent ==
  /\ \E v \in Configs \cup {None} : ChangeEndpoints(v)
  /\ cmQueued' = TRUE
  /\ UNCHANGED depQueued

\* An update event of the proxy: its own status update, an edit that leaves the
\* configuration as it is, or the replay of an old event by the periodic resync.
ProxyEvent ==
  /\ Disturb("proxy")
  /\ cmQueued' = TRUE /\ depQueued' = TRUE
  /\ UNCHANGED <<config, apiVars, cacheVars, cmReq, depReq>>

Restart == ClusterRestart /\ cmQueued' = TRUE /\ depQueued' = TRUE

Deliver ==
  \/ \E c \in Configs : ConfigMapEvent(c)
  \/ \E d \in Deployments : DeploymentEvent(d)
  \/ \E r \in ReplicaSets : ReplicaSetEvent(r)

Kubernetes ==
  /\ \/ \E d \in Deployments : CreateReplicaSet(d)
     \/ \E r \in ReplicaSets : CollectReplicaSet(r)
     \/ \E c \in Configs : CollectConfigMap(c)
  /\ UNCHANGED queues

Operator ==
  \/ (ConfigMapSync \/ ConfigMapReply) /\ UNCHANGED depQueued
  \/ (DeploymentSync \/ DeploymentReply) /\ UNCHANGED cmQueued

Fault ==
  \/ (ConfigMapCallFails \/ ConfigMapReplyLost) /\ UNCHANGED depQueued
  \/ (DeploymentCallFails \/ DeploymentReplyLost) /\ UNCHANGED cmQueued
  \/ Restart

Environment ==
  \/ EndpointsEvent
  \/ ProxyEvent
  \/ /\ \/ \E d \in Deployments : UpdateStatus(d) \/ DeleteDeployment(d)
        \/ \E r \in ReplicaSets : CleanupReplicaSet(r)
     /\ UNCHANGED queues

\* A cache that does not lag is brought up to date before anything else happens.
Next == Deliver \/ (CaughtUp /\ (Kubernetes \/ Operator \/ Fault \/ Environment))

Spec == Init /\ [][Next]_vars

\* The workers run, the watches deliver, and the cluster's own controllers do
\* their work.  The environment promises nothing.
Fairness ==
  /\ WF_vars(CaughtUp /\ (ConfigMapSync \/ ConfigMapReply) /\ UNCHANGED depQueued)
  /\ WF_vars(CaughtUp /\ (DeploymentSync \/ DeploymentReply) /\ UNCHANGED cmQueued)
  /\ \A c \in Configs : WF_vars(ConfigMapEvent(c))
  /\ \A d \in Deployments : WF_vars(DeploymentEvent(d))
  /\ \A r \in ReplicaSets : WF_vars(ReplicaSetEvent(r))
  /\ \A d \in Deployments :
        WF_vars(CaughtUp /\ CreateReplicaSet(d) /\ UNCHANGED queues)
  /\ \A r \in ReplicaSets :
        WF_vars(CaughtUp /\ CollectReplicaSet(r) /\ UNCHANGED queues)
  /\ \A c \in Configs :
        WF_vars(CaughtUp /\ CollectConfigMap(c) /\ UNCHANGED queues)

FairSpec == Spec /\ Fairness
-----------------------------------------------------------------------------
(* Safety *)

\* A ConfigMap is never left without an owner: the garbage collector would keep
\* it for ever.  applyOwnerRefToCM drops the proxy's reference only after adding
\* the ReplicaSet's, on a shared cached object that later calls start from.
NoOwnerlessConfigMap == \A c \in Configs : cms[c] # {}

\* At most one ConfigMap is controlled by the proxy: what syncHandler's
\* "default" case calls impossible.
AtMostOneNewConfigMap == \A c1, c2 \in GetConfigMapsForProxy(cms) : c1 = c2

\* The removal of superfluous Deployments (deleteDeployments) never removes the
\* last one.
CleanupKeepsADeployment ==
  [][\A d \in Deployments :
        depReq # None /\ RemoveDeployment(d) => Existing(deps') # {}]_vars

\* Seen from the API server, the two controllers do what ConfigRollout promises:
\* one offer at a time, and none withdrawn before there is a Deployment.
AbstractRollout == INSTANCE ConfigRollout WITH
  kept <- Existing(cms),
  offered <- GetConfigMapsForProxy(cms),
  mounted <- {deps[d].cm : d \in Existing(deps)}

ImplementsConfigRollout == AbstractRollout!Spec

(* Liveness *)

\* Once the endpoints have settled, every Deployment of the proxy comes to mount
\* the ConfigMap of the current configuration, and that ConfigMap exists.
Converges ==
  <>[](config # None =>
         /\ Existing(deps) # {}
         /\ \A d \in Existing(deps) : deps[d].cm = config /\ cms[config] # None)

\* Every rollout is completed: the ConfigMap in use ends up owned by a live
\* ReplicaSet that mounts it and no ConfigMap stays with the proxy.
HandsOver ==
  <>[](config # None =>
         /\ cms[config] # None
         /\ \E r \in rss \cap cms[config] : r[2] = config
         /\ GetConfigMapsForProxy(cms) = {})

\* However often Deployments are deleted, and however many a stale cache has made
\* createDeployment create, the newest one comes to mount the current
\* configuration: it is the one updateDeployment is given.  Neither controller can
\* bring a Deployment back alone: reuseConfigMap wants one before it gives the
\* ConfigMap to the proxy again, createDeployment wants such a ConfigMap, until
\* the old one has been garbage collected.
Redeploys ==
  <>[](config # None =>
         \E d \in Newest(deps, Existing(deps)) : deps[d].cm = config)

\* Of the Deployments created by mistake "we delete all but the newest" (the end
\* of syncHandler in the deployment controller).
AllButNewestDeleted == <>[](\A d1, d2 \in Existing(deps) : d1 = d2)
=============================================================================
