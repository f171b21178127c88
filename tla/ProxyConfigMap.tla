--------------------------- MODULE ProxyConfigMap ---------------------------
(***************************************************************************)
(* The configmap controller (internal/controller/proxyconfigmap) for one   *)
(* MemcachedProxy whose spec the proxy controller has observed.            *)
(*                                                                         *)
(* Each syncHandler run is one step that reads the caches, decides, and    *)
(* (for the shared cached object it is about to update) edits the cache in *)
(* place; the API call it then makes is answered by a second step.         *)
(* cmQueued says that the proxy's key is in the work queue, due or waiting *)
(* for its delay; the queue hands it to one worker at a time.              *)
(***************************************************************************)
EXTENDS Cluster

VARIABLE cmQueued

newConfigMaps == GetConfigMapsForProxy(cmCache)

newestDeployments == Newest(depCache, Existing(depCache))

StartConfigMapSync == cmQueued /\ cmReq = None

ConfigMapSyncFrame ==
  UNCHANGED <<config, apiVars, depCache, rsCache, cmFresh, depFresh, depReq,
              disturbed>>

\* The handler ends with an error or an explicit requeue, having done nothing.
RequeueConfigMapSync ==
  /\ cmQueued' = TRUE
  /\ UNCHANGED clusterVars

\* Case 0, and the configuration cannot be rendered.
ConfigUnavailable ==
  /\ StartConfigMapSync
  /\ newConfigMaps = {} /\ config = None
  /\ RequeueConfigMapSync

\* Mutant: the ConfigMaps the proxy controls already are not looked at.
CreateConfigMapAnyway ==
  /\ StartConfigMapSync
  /\ config # None
  /\ cmCache[config] = None
  /\ cmReq' = [op |-> "create", cm |-> config, owners |-> {Proxy},
               fresh |-> TRUE]
  /\ cmQueued' = FALSE
  /\ UNCHANGED cmCache
  /\ ConfigMapSyncFrame

\* Case 0, and no ConfigMap has the configuration's name.
CreateConfigMap ==
  /\ StartConfigMapSync
  /\ newConfigMaps = {} /\ config # None
  /\ cmCache[config] = None
  /\ cmReq' = [op |-> "create", cm |-> config, owners |-> {Proxy},
               fresh |-> TRUE]
  /\ cmQueued' = FALSE
  /\ UNCHANGED cmCache
  /\ ConfigMapSyncFrame

\* Mutant: a missing Deployment is no error.
ReuseGivesUp ==
  /\ StartConfigMapSync
  /\ newConfigMaps = {} /\ config # None
  /\ cmCache[config] # None
  /\ newestDeployments = {}
  /\ cmQueued' = FALSE
  /\ UNCHANGED clusterVars

\* Case 0, the ConfigMap exists, but reuseConfigMap finds no Deployment.
ReuseWithoutDeployment ==
  /\ StartConfigMapSync
  /\ newConfigMaps = {} /\ config # None
  /\ cmCache[config] # None
  /\ newestDeployments = {}
  /\ RequeueConfigMapSync

\* The cached ConfigMap c gets these owners, in place, and is sent off.
UpdateConfigMap(op, c, owners) ==
  /\ cmCache' = [cmCache EXCEPT ![c] = owners]
  /\ cmReq' = [op |-> op, cm |-> c, owners |-> owners,
               fresh |-> c \in cmFresh]
  /\ cmQueued' = FALSE
  /\ ConfigMapSyncFrame

\* Case 0 and the ConfigMap exists: it becomes the proxy's again, unless the
\* Deployment mounts it already.
ReuseConfigMap ==
  /\ StartConfigMapSync
  /\ newConfigMaps = {} /\ config # None
  /\ cmCache[config] # None
  /\ \E d \in newestDeployments :
        UpdateConfigMap("reuse", config,
                        IF depCache[d].cm = config THEN cmCache[config]
                        ELSE cmCache[config] \cup {Proxy})

\* The ReplicaSets whose template equals Deployment d's.  They are selected by
\* the labels all Deployments of the proxy share, not by their owner.
GetNewRSForProxy(d) == {r \in rsCache : r[2] = depCache[d].cm}

\* Mutant: the key is not requeued while there is no ReplicaSet.
AwaitReplicaSetOnce ==
  /\ StartConfigMapSync
  /\ \E c \in newConfigMaps : newConfigMaps = {c}
  /\ \/ newestDeployments = {}
     \/ \E d \in newestDeployments : GetNewRSForProxy(d) = {}
  /\ cmQueued' = FALSE
  /\ UNCHANGED clusterVars

\* Case 1, but no ReplicaSet runs the Deployment's template yet.
AwaitReplicaSet ==
  /\ StartConfigMapSync
  /\ \E c \in newConfigMaps : newConfigMaps = {c}
  /\ \/ newestDeployments = {}
     \/ \E d \in newestDeployments : GetNewRSForProxy(d) = {}
  /\ RequeueConfigMapSync

\* Mutant: the proxy's reference goes, the ReplicaSet's is not added.
DropProxyOwnerRef ==
  /\ StartConfigMapSync
  /\ \E c \in newConfigMaps, d \in newestDeployments :
        /\ newConfigMaps = {c}
        /\ GetNewRSForProxy(d) # {}
        /\ UpdateConfigMap("apply", c, cmCache[c] \ {Proxy})

\* Case 1: the ConfigMap passes from the proxy to the ReplicaSet.
ApplyOwnerRefToCM ==
  /\ StartConfigMapSync
  /\ \E c \in newConfigMaps, d \in newestDeployments :
        /\ newConfigMaps = {c}
        /\ \E r \in GetNewRSForProxy(d) :
              UpdateConfigMap("apply", c, (cmCache[c] \cup {r}) \ {Proxy})

\* Default case: the handler logs an error and returns without one.
TooManyConfigMaps ==
  /\ StartConfigMapSync
  /\ \E c1, c2 \in newConfigMaps : c1 # c2
  /\ cmQueued' = FALSE
  /\ UNCHANGED clusterVars
-----------------------------------------------------------------------------
\* The API server takes the write: a create of a name not in use, an update of
\* the stored resourceVersion.
ConfigMapAccepted ==
  IF cmReq.op = "create" THEN cms[cmReq.cm] = None
  ELSE cms[cmReq.cm] # None /\ cmReq.fresh

StoreConfigMap ==
  /\ cms' = [cms EXCEPT ![cmReq.cm] = cmReq.owners]
  /\ cmFresh' = IF cms' = cms THEN cmFresh ELSE cmFresh \ {cmReq.cm}

EndConfigMapSync ==
  /\ cmReq' = None
  /\ UNCHANGED <<config, deps, rss, cmCache, depCache, rsCache, depFresh,
                 depReq>>

\* Mutant: no requeue after a successful call.
ConfigMapStoredAndDone ==
  /\ cmReq # None /\ ConfigMapAccepted
  /\ StoreConfigMap
  /\ EndConfigMapSync
  /\ UNCHANGED <<cmQueued, disturbed>>

\* The call succeeds; create and apply requeue the key, reuse does not.
ConfigMapStored ==
  /\ cmReq # None /\ ConfigMapAccepted
  /\ StoreConfigMap
  /\ cmQueued' = (cmQueued \/ cmReq.op # "reuse")
  /\ EndConfigMapSync
  /\ UNCHANGED disturbed

\* AlreadyExists, Conflict or NotFound: the handler returns the error.
ConfigMapRejected ==
  /\ cmReq # None /\ ~ConfigMapAccepted
  /\ cmQueued' = TRUE
  /\ EndConfigMapSync
  /\ UNCHANGED <<cms, cmFresh, disturbed>>

\* The call fails before the API server has acted on it ...
ConfigMapCallFails ==
  /\ Disturb("failure")
  /\ cmReq # None
  /\ cmQueued' = TRUE
  /\ EndConfigMapSync
  /\ UNCHANGED <<cms, cmFresh>>

\* ... or after it.
ConfigMapReplyLost ==
  /\ Disturb("lostReply")
  /\ cmReq # None /\ ConfigMapAccepted
  /\ StoreConfigMap
  /\ cmQueued' = TRUE
  /\ EndConfigMapSync

ConfigMapSync ==
  \/ ConfigUnavailable
  \/ CreateConfigMap
  \/ ReuseWithoutDeployment
  \/ ReuseConfigMap
  \/ AwaitReplicaSet
  \/ ApplyOwnerRefToCM
  \/ TooManyConfigMaps

ConfigMapReply == ConfigMapStored \/ ConfigMapRejected
=============================================================================
