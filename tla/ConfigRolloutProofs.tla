------------------------- MODULE ConfigRolloutProofs -------------------------
(***************************************************************************)
(* Rollout implements ConfigRollout, for any number of configurations and  *)
(* disturbances.                                                           *)
(***************************************************************************)
EXTENDS RolloutProofs

\* Nobody but the operator deletes anything, and its Deployment cache keeps up.
NoDeletions ==
  /\ "deployment" \notin Lag
  /\ "delete" \notin Disturbances
  /\ "cleanup" \notin Disturbances

(***************************************************************************)
(* What is mounted is there.  The garbage collector goes by the owners, so *)
(* every owner that is stored, cached or on its way has to be there, and   *)
(* with a ReplicaSet its Deployment; a cache shows no ConfigMap that is    *)
(* not stored, and no Deployment is doomed.                                *)
(***************************************************************************)
OwnersLive ==
  /\ \A r \in rss : deps[r[1]] # None
  /\ rsCache \subseteq rss
  /\ \A c \in Existing(cms) : cms[c] \subseteq {Proxy} \cup rss
  /\ \A c \in Existing(cmCache) : cmCache[c] \subseteq {Proxy} \cup rss
  /\ cmReq # None => cmReq.owners \subseteq {Proxy} \cup rss

MountedConfigMapExists == \A d \in Existing(deps) : cms[deps[d].cm] # None

MountsKept ==
  /\ \A c \in Existing(cmCache) : cms[c] # None
  /\ MountedConfigMapExists
  /\ depReq # None => cms[depReq.cm] # None

NothingDoomed == depReq # None => depReq.op # "delete" /\ depReq.doomed = {}

LiveInv == OwnersLive /\ MountsKept /\ NothingDoomed

LEMMA NothingCollected ==
  ASSUME TypeOK, LiveInv
  PROVE  /\ \A r \in ReplicaSets : ~CollectReplicaSet(r)
         /\ \A c \in Configs : ~CollectConfigMap(c)
         /\ depReq # None => \A d \in depReq.doomed : ~RemoveDeployment(d)
<1>1. \A r \in ReplicaSets : ~CollectReplicaSet(r)
  BY DEF LiveInv, OwnersLive, CollectReplicaSet
<1>2. \A c \in Configs : ~CollectConfigMap(c)
  BY DEF LiveInv, OwnersLive, CollectConfigMap, Existing, TypeOK, ClusterTypeOK
<1>3. depReq # None => \A d \in depReq.doomed : ~RemoveDeployment(d)
  BY DEF LiveInv, NothingDoomed
<1> QED BY <1>1, <1>2, <1>3

\* What a ConfigMap of the API server becomes when a request is accepted.
LEMMA StoredConfigMaps ==
  ASSUME TypeOK, cmReq # None, StoreConfigMap
  PROVE  /\ cmReq \in ConfigMapRequest
         /\ cmReq.cm \in Configs
         /\ cms' \in [Configs -> (SUBSET Owners) \cup {None}]
         /\ cms'[cmReq.cm] = cmReq.owners
         /\ cms'[cmReq.cm] # None
         /\ \A c \in Configs : c # cmReq.cm => cms'[c] = cms[c]
<1>1. cmReq \in ConfigMapRequest
  BY DEF TypeOK, ClusterTypeOK
<1>2. cmReq.cm \in Configs /\ cmReq.owners \in SUBSET Owners
  BY <1>1 DEF ConfigMapRequest
<1>3. cms' = [cms EXCEPT ![cmReq.cm] = cmReq.owners]
  BY DEF StoreConfigMap
<1>4. cmReq.owners # None
  BY <1>2, ClusterAssumption
<1> QED BY <1>1, <1>2, <1>3, <1>4 DEF TypeOK, ClusterTypeOK

\* The steps that change what the API server has.
ConfigMapWrite ==
  /\ cmReq # None
  /\ ConfigMapAccepted
  /\ StoreConfigMap
  /\ EndConfigMapSync

DeploymentWrite ==
  /\ depReq # None
  /\ StoreNewDeployment \/ StoreDeployment
  /\ depReq' = None
  /\ DeploymentFrame

LEMMA Writes ==
  ASSUME TypeOK, LiveInv, NoDeletions, [Next]_vars
  PROVE  \/ /\ UNCHANGED <<cms, deps>>
            /\ UNCHANGED rss \/ \E d \in Deployments : CreateReplicaSet(d)
         \/ ConfigMapWrite
         \/ DeploymentWrite
<1> USE DEF ConfigMapWrite, DeploymentWrite
<1>1. CASE ConfigMapSync \/ ConfigMapReply \/ ConfigMapCallFails
             \/ ConfigMapReplyLost
  BY <1>1 DEF ConfigMapSync, ConfigUnavailable, CreateConfigMap,
     ReuseWithoutDeployment, ReuseConfigMap, AwaitReplicaSet,
     ApplyOwnerRefToCM, TooManyConfigMaps, RequeueConfigMapSync,
     UpdateConfigMap, ConfigMapSyncFrame, ConfigMapReply, ConfigMapStored,
     ConfigMapRejected, ConfigMapCallFails, ConfigMapReplyLost,
     EndConfigMapSync, clusterVars, apiVars, cacheVars
<1>2. CASE DeploymentSync
  BY <1>2 DEF DeploymentSync, AwaitConfigMap, AmbiguousConfigMap,
     RequeueDeploymentSync, CreateDeployment, UpdateDeployment,
     KeepDeployment, clusterVars, apiVars, cacheVars
<1>3. CASE DeploymentReply \/ DeploymentCallFails \/ DeploymentReplyLost
  <2>1. CASE DeploymentCreated
    BY <2>1 DEF DeploymentCreated, FinishDeploymentSync
  <2>2. CASE DeploymentUpdated
    <3>1. depReq.doomed = {}
      BY <2>2 DEF DeploymentUpdated, LiveInv, NothingDoomed
    <3> QED BY <2>2, <3>1 DEF DeploymentUpdated, FinishDeploymentSync
  <2>3. CASE DeploymentDeleted
    BY <2>3, NothingCollected DEF DeploymentDeleted
  <2>4. CASE DeploymentRejected \/ DeploymentCallFails
    BY <2>4 DEF DeploymentRejected, DeploymentCallFails, DeploymentFrame
  <2>5. CASE DeploymentReplyLost
    BY <2>5, NothingCollected DEF DeploymentReplyLost
  <2> QED BY <1>3, <2>1, <2>2, <2>3, <2>4, <2>5 DEF DeploymentReply
<1>4. CASE Restart
  BY <1>4 DEF Restart, ClusterRestart, apiVars
<1>5. CASE Environment
  BY <1>5 DEF Environment, EndpointsEvent, ChangeEndpoints, ProxyEvent,
     UpdateStatus, DeleteDeployment, CleanupReplicaSet, Disturb,
     NoDeletions, clusterVars, apiVars, cacheVars
<1>6. CASE Deliver
  BY <1>6 DEF Deliver, ConfigMapEvent, DeploymentEvent, ReplicaSetEvent,
     RefreshConfigMap, RefreshDeployment, RefreshReplicaSet, apiVars
<1>7. CASE Kubernetes
  BY <1>7, NothingCollected DEF Kubernetes, CreateReplicaSet
<1>8. CASE UNCHANGED vars
  BY <1>8 DEF vars, clusterVars, apiVars
<1> QED BY <1>1, <1>2, <1>3, <1>4, <1>5, <1>6, <1>7, <1>8
    DEF Next, Operator, Fault

\* What a Deployment of the API server becomes when a request is accepted.
LEMMA StoredDeployments ==
  ASSUME TypeOK, DeploymentWrite
  PROVE  \E d \in Deployments :
            /\ depReq.cm \in Configs
            /\ deps'[d] \in DeploymentState
            /\ deps'[d].cm = depReq.cm
            /\ \A e \in Deployments : e # d => deps'[e] = deps[e]
            /\ DOMAIN deps' = Deployments
            /\ depReq.op = "create" \/ deps[d] # None
<1>0. depReq \in DeploymentRequest
  BY DEF DeploymentWrite, TypeOK, ClusterTypeOK
<1>1. CASE StoreNewDeployment
  <2> DEFINE d == CHOOSE x \in UnusedDeployments : TRUE
  <2>1. d \in Deployments
    BY <1>1 DEF StoreNewDeployment, UnusedDeployments
  <2>2. CreationTimes \subseteq Nat
    BY DEF CreationTimes, Existing, DeploymentState, TypeOK, ClusterTypeOK
  <2>3. depReq.op = "create" /\ depReq.cm \in Configs
    BY <1>0, <1>1 DEF StoreNewDeployment, DeploymentRequest
  <2>4. PICK t \in Nat : deps' = [deps EXCEPT ![d] = [cm |-> depReq.cm, created |-> t]]
    BY <1>1, <2>2 DEF StoreNewDeployment
  <2> HIDE DEF d
  <2> QED BY <2>1, <2>3, <2>4 DEF TypeOK, ClusterTypeOK, DeploymentState
<1>2. CASE StoreDeployment
  <2> DEFINE d == depReq.dep
  <2>1. d \in Deployments /\ depReq.cm \in Configs
    BY <1>0, <1>2 DEF StoreDeployment, DeploymentRequest
  <2>2. deps[d] \in DeploymentState /\ deps[d] # None
    BY <1>2, <2>1 DEF StoreDeployment, TypeOK, ClusterTypeOK
  <2>3. deps' = [deps EXCEPT ![d].cm = depReq.cm]
    BY <1>2 DEF StoreDeployment
  <2> HIDE DEF d
  <2> QED BY <2>1, <2>2, <2>3 DEF TypeOK, ClusterTypeOK, DeploymentState
<1> QED BY <1>1, <1>2 DEF DeploymentWrite

\* Nothing goes away.
LEMMA NothingGoes ==
  ASSUME TypeOK, LiveInv, NoDeletions, [Next]_vars
  PROVE  /\ rss \subseteq rss'
         /\ \A c \in Configs : cms[c] # None => cms'[c] # None
         /\ \A d \in Deployments : deps[d] # None => deps'[d] # None
<1>1. CASE /\ UNCHANGED <<cms, deps>>
           /\ UNCHANGED rss \/ \E d \in Deployments : CreateReplicaSet(d)
  BY <1>1 DEF CreateReplicaSet
<1>2. CASE ConfigMapWrite
  BY <1>2, StoredConfigMaps DEF ConfigMapWrite, EndConfigMapSync
<1>3. CASE DeploymentWrite
  BY <1>3, StoredDeployments, ClusterAssumption DEF DeploymentWrite, DeploymentFrame
<1> QED BY <1>1, <1>2, <1>3, Writes

LEMMA OwnersLiveStep ==
  ASSUME TypeOK, LiveInv, NoDeletions, [Next]_vars
  PROVE  OwnersLive'
<1> DEFINE Live == {Proxy} \cup rss
<1>0. TypeOK'
  BY NextType
<1>1. Live \subseteq {Proxy} \cup rss'
  BY NothingGoes
<1>2. \A r \in rss' : deps'[r[1]] # None
  <2>1. \A r \in rss : r[1] \in Deployments /\ deps[r[1]] # None
    BY DEF LiveInv, OwnersLive, TypeOK, ClusterTypeOK, ReplicaSets
  <2>2. ASSUME NEW d \in Deployments, CreateReplicaSet(d)
        PROVE  \A r \in rss' : r \in rss \/ r[1] = d
    BY <2>2 DEF CreateReplicaSet
  <2>3. \A r \in rss' : r \in rss \/ (r[1] \in Deployments /\ deps[r[1]] # None)
    BY <2>2, Writes DEF CreateReplicaSet, ConfigMapWrite, EndConfigMapSync,
       DeploymentWrite, DeploymentFrame
  <2> QED BY <2>1, <2>3, NothingGoes
<1>3. rsCache' \subseteq rss'
  <2>1. rsCache \subseteq rss'
    BY NothingGoes DEF LiveInv, OwnersLive
  <2>2. rsCache' = rsCache \/ rsCache' \subseteq rss'
    <3>1. CASE Deliver
      BY <2>1, <3>1 DEF Deliver, ConfigMapEvent, DeploymentEvent, ReplicaSetEvent,
         RefreshConfigMap, RefreshDeployment, RefreshReplicaSet, apiVars
    <3>2. CASE Restart
      BY <3>2 DEF Restart, ClusterRestart, apiVars
    <3>3. CASE ConfigMapSync \/ ConfigMapReply \/ ConfigMapCallFails
                 \/ ConfigMapReplyLost
      BY <3>3 DEF ConfigMapSync, ConfigUnavailable, CreateConfigMap,
         ReuseWithoutDeployment, ReuseConfigMap, AwaitReplicaSet,
         ApplyOwnerRefToCM, TooManyConfigMaps, RequeueConfigMapSync,
         UpdateConfigMap, ConfigMapSyncFrame, ConfigMapReply, ConfigMapStored,
         ConfigMapRejected, ConfigMapCallFails, ConfigMapReplyLost,
         EndConfigMapSync, clusterVars, cacheVars
    <3>4. CASE DeploymentSync \/ DeploymentReply \/ DeploymentCallFails
                 \/ DeploymentReplyLost
      BY <3>4 DEF DeploymentSync, AwaitConfigMap, AmbiguousConfigMap,
         RequeueDeploymentSync, CreateDeployment, UpdateDeployment,
         KeepDeployment, DeploymentReply, DeploymentCreated, DeploymentUpdated,
         DeploymentDeleted, DeploymentRejected, DeploymentCallFails,
         DeploymentReplyLost, DeploymentFrame, clusterVars, cacheVars
    <3>5. CASE Environment
      BY <3>5 DEF Environment, EndpointsEvent, ChangeEndpoints, ProxyEvent,
         UpdateStatus, DeleteDeployment, CleanupReplicaSet, clusterVars,
         cacheVars
    <3>6. CASE Kubernetes
      BY <3>6 DEF Kubernetes, CreateReplicaSet, CollectReplicaSet,
         CollectConfigMap, cacheVars
    <3>7. CASE UNCHANGED vars
      BY <3>7 DEF vars, clusterVars, cacheVars
    <3> QED BY <3>1, <3>2, <3>3, <3>4, <3>5, <3>6, <3>7
        DEF Next, Operator, Fault
  <2> QED BY <2>1, <2>2
<1>4. ASSUME NEW c \in Configs, cms'[c] # None
      PROVE  cms'[c] \subseteq {Proxy} \cup rss'
  <2>1. cms'[c] = cms[c] \/ cms'[c] \subseteq Live
    BY Writes, StoredConfigMaps DEF ConfigMapWrite, DeploymentWrite,
       DeploymentFrame, LiveInv, OwnersLive
  <2> QED BY <1>1, <1>4, <2>1 DEF LiveInv, OwnersLive, Existing, TypeOK,
      ClusterTypeOK
<1>5. /\ \A c \in Existing(cmCache') : cmCache'[c] \subseteq {Proxy} \cup rss'
      /\ cmReq' # None => cmReq'.owners \subseteq {Proxy} \cup rss'
  <2> DEFINE Good == /\ \A c \in Configs : cmCache'[c] # None =>
                          cmCache'[c] \subseteq Live
                     /\ cmReq' # None => cmReq'.owners \subseteq Live
  <2> SUFFICES Good
    <3>1. DOMAIN cmCache' = Configs
      BY <1>0 DEF TypeOK, ClusterTypeOK
    <3> QED BY <1>1, <3>1 DEF Existing
  <2>0. /\ \A c \in Configs : cmCache[c] # None => cmCache[c] \subseteq Live
        /\ \A c \in Configs : cms[c] # None => cms[c] \subseteq Live
        /\ cmReq # None => cmReq.owners \subseteq Live
    BY DEF LiveInv, OwnersLive, Existing, TypeOK, ClusterTypeOK
  <2> HIDE DEF Live
  <2>1. CASE UNCHANGED <<cmCache, cmReq>>
    BY <2>0, <2>1
  <2>2. CASE Deliver
    <3>1. ASSUME NEW c \in Configs, RefreshConfigMap(c)
          PROVE  Good
      BY <2>0, <3>1 DEF RefreshConfigMap, TypeOK, ClusterTypeOK
    <3> QED BY <2>1, <2>2, <3>1 DEF Deliver, ConfigMapEvent, DeploymentEvent,
        ReplicaSetEvent, RefreshDeployment, RefreshReplicaSet
  <2>3. CASE Restart
    BY <2>0, <2>3 DEF Restart, ClusterRestart
  <2>4. ASSUME NEW op, NEW c \in Configs, NEW owners \in SUBSET Live,
               UpdateConfigMap(op, c, owners)
        PROVE  Good
    BY <2>0, <2>4 DEF UpdateConfigMap, TypeOK, ClusterTypeOK
  <2>5. CASE ConfigMapSync
    <3>1. CASE CreateConfigMap
      BY <2>0, <3>1 DEF CreateConfigMap, Live
    <3>2. CASE ReuseConfigMap
      <4>1. config \in Configs /\ cmCache[config] # None
        BY <3>2 DEF ReuseConfigMap, TypeOK, ClusterTypeOK
      <4>2. PICK owners \in {cmCache[config], cmCache[config] \cup {Proxy}} :
               UpdateConfigMap("reuse", config, owners)
        BY <3>2 DEF ReuseConfigMap
      <4>3. owners \in SUBSET Live
        BY <2>0, <4>1, <4>2 DEF Live
      <4> QED BY <2>4, <4>1, <4>2, <4>3
    <3>3. CASE ApplyOwnerRefToCM
      <4>1. PICK c \in newConfigMaps, r \in rsCache :
               UpdateConfigMap("apply", c, (cmCache[c] \cup {r}) \ {Proxy})
        BY <3>3 DEF ApplyOwnerRefToCM, GetNewRSForProxy
      <4>2. c \in Configs /\ cmCache[c] # None
        BY NewConfigMapsType DEF newConfigMaps, TypeOK, ClusterTypeOK
      <4>3. r \in Live
        BY <4>1 DEF LiveInv, OwnersLive, Live
      <4> QED BY <2>0, <2>4, <4>1, <4>2, <4>3
    <3>4. CASE \/ ConfigUnavailable \/ ReuseWithoutDeployment \/ AwaitReplicaSet
               \/ TooManyConfigMaps
      BY <2>1, <3>4 DEF ConfigUnavailable, ReuseWithoutDeployment,
         AwaitReplicaSet, TooManyConfigMaps, RequeueConfigMapSync, clusterVars,
         cacheVars
    <3> QED BY <2>5, <3>1, <3>2, <3>3, <3>4 DEF ConfigMapSync
  <2>6. CASE ConfigMapReply \/ ConfigMapCallFails \/ ConfigMapReplyLost
    BY <2>0, <2>6 DEF ConfigMapReply, ConfigMapStored, ConfigMapRejected,
       ConfigMapCallFails, ConfigMapReplyLost, EndConfigMapSync
  <2>7. CASE DeploymentSync \/ DeploymentReply \/ DeploymentCallFails
               \/ DeploymentReplyLost
    BY <2>1, <2>7 DEF DeploymentSync, AwaitConfigMap, AmbiguousConfigMap,
       RequeueDeploymentSync, CreateDeployment, UpdateDeployment,
       KeepDeployment, DeploymentReply, DeploymentCreated, DeploymentUpdated,
       DeploymentDeleted, DeploymentRejected, DeploymentCallFails,
       DeploymentReplyLost, DeploymentFrame, clusterVars, cacheVars
  <2>8. CASE Environment
    BY <2>1, <2>8 DEF Environment, EndpointsEvent, ChangeEndpoints, ProxyEvent,
       UpdateStatus, DeleteDeployment, CleanupReplicaSet, clusterVars,
       cacheVars
  <2>9. CASE Kubernetes
    BY <2>1, <2>9, NothingCollected
       DEF Kubernetes, CreateReplicaSet, CollectReplicaSet, cacheVars
  <2>10. CASE UNCHANGED vars
    BY <2>1, <2>10 DEF vars, clusterVars, cacheVars
  <2> QED BY <2>2, <2>3, <2>5, <2>6, <2>7, <2>8, <2>9, <2>10
      DEF Next, Operator, Fault
<1>6. DOMAIN cms' = Configs
  BY <1>0 DEF TypeOK, ClusterTypeOK
<1> QED BY <1>2, <1>3, <1>4, <1>5, <1>6 DEF OwnersLive, Existing

\* With one Deployment around there is nothing to clean up.
LEMMA NothingToDoom ==
  ASSUME TypeOK, DeploymentsInv, "deployment" \notin Lag, CaughtUp,
         NEW d \in Newest(depCache, ownedDeployments)
  PROVE  Doomed(d) = {{}} /\ ownedDeployments = {d}
<1>1. \A e \in Deployments : deps[e] = None <=> depCache[e] = None
  BY DEF CaughtUp, DeploymentsInv
<1>2. ownedDeployments = Existing(deps)
  BY <1>1 DEF ownedDeployments, Existing, TypeOK, ClusterTypeOK
<1>3. ownedDeployments = {d}
  BY <1>2, NewestType DEF DeploymentsInv, AtMostOneDeployment
<1> QED BY <1>3 DEF Doomed

\* What the deployment controller has in flight: nothing that deletes, and what is
\* to be mounted was in flight before, or the cache shows it under the proxy.
LEMMA DeploymentRequests ==
  ASSUME TypeOK, DeploymentsInv, LiveInv, NoDeletions, [Next]_vars,
         depReq' # None
  PROVE  /\ depReq'.op # "delete" /\ depReq'.doomed = {}
         /\ \/ depReq # None /\ depReq'.cm = depReq.cm
            \/ depReq'.cm \in GetConfigMapsForProxy(cmCache)
<1> USE DEF LiveInv, NothingDoomed
<1>1. CASE UNCHANGED depReq
  BY <1>1
<1>2. ASSUME NEW d \in Deployments, TouchDeployment(d)
      PROVE  /\ depReq # None /\ depReq'.op = depReq.op
             /\ depReq'.cm = depReq.cm /\ depReq'.doomed = depReq.doomed
  <2>1. depReq # None
    BY <1>2 DEF TouchDeployment
  <2>2. depReq \in DeploymentRequest
    BY <2>1 DEF TypeOK, ClusterTypeOK
  <2> QED BY <1>2, <2>1, <2>2 DEF TouchDeployment, DeploymentRequest
<1>3. CASE CaughtUp /\ DeploymentSync
  <2>1. CASE CreateDeployment
    BY <2>1 DEF CreateDeployment
  <2>2. CASE UpdateDeployment
    <3>1. PICK d \in Newest(depCache, ownedDeployments),
               c \in GetConfigMapsForProxy(cmCache) :
             \E doomed \in Doomed(d) :
                depReq' = [op |-> "update", dep |-> d, cm |-> c,
                           fresh |-> d \in depFresh,
                           extra |-> ownedDeployments # {d}, doomed |-> doomed]
      BY <2>2 DEF UpdateDeployment
    <3>2. Doomed(d) = {{}}
      BY <1>3, NothingToDoom DEF NoDeletions
    <3> QED BY <3>1, <3>2
  <2>3. CASE KeepDeployment
    <3>1. PICK d \in Newest(depCache, ownedDeployments) :
             \E doomed \in Doomed(d) :
                FinishDeploymentSync(FALSE, ownedDeployments # {d}, doomed)
      BY <2>3 DEF KeepDeployment
    <3>2. Doomed(d) = {{}}
      BY <1>3, NothingToDoom DEF NoDeletions
    <3> QED BY <3>1, <3>2 DEF FinishDeploymentSync
  <2>4. CASE AwaitConfigMap \/ AmbiguousConfigMap
    BY <1>1, <2>4 DEF AwaitConfigMap, AmbiguousConfigMap,
       RequeueDeploymentSync, clusterVars
  <2> QED BY <1>3, <2>1, <2>2, <2>3, <2>4 DEF DeploymentSync
<1>4. CASE DeploymentReply \/ DeploymentCallFails \/ DeploymentReplyLost
  <2>1. ~DeploymentDeleted
    BY NothingCollected DEF DeploymentDeleted
  <2>2. CASE DeploymentUpdated
    <3>1. depReq.doomed = {}
      BY <2>2 DEF DeploymentUpdated
    <3> QED BY <2>2, <3>1 DEF DeploymentUpdated, FinishDeploymentSync
  <2> QED BY <1>4, <2>1, <2>2 DEF DeploymentReply, DeploymentCreated,
      DeploymentRejected, DeploymentCallFails, DeploymentReplyLost,
      FinishDeploymentSync
<1>5. CASE ConfigMapSync \/ ConfigMapReply \/ ConfigMapCallFails
             \/ ConfigMapReplyLost
  BY <1>1, <1>5 DEF ConfigMapSync, ConfigUnavailable, CreateConfigMap,
     ReuseWithoutDeployment, ReuseConfigMap, AwaitReplicaSet,
     ApplyOwnerRefToCM, TooManyConfigMaps, RequeueConfigMapSync,
     UpdateConfigMap, ConfigMapSyncFrame, ConfigMapReply, ConfigMapStored,
     ConfigMapRejected, ConfigMapCallFails, ConfigMapReplyLost,
     EndConfigMapSync, clusterVars
<1>6. CASE Restart
  BY <1>6 DEF Restart, ClusterRestart
<1>7. CASE Environment
  BY <1>1, <1>2, <1>7 DEF Environment, EndpointsEvent, ChangeEndpoints,
     ProxyEvent, UpdateStatus, DeleteDeployment, CleanupReplicaSet,
     clusterVars
<1>8. CASE Deliver
  BY <1>1, <1>8 DEF Deliver, ConfigMapEvent, DeploymentEvent, ReplicaSetEvent,
     RefreshConfigMap, RefreshDeployment, RefreshReplicaSet
<1>9. CASE Kubernetes
  BY <1>1, <1>2, <1>9 DEF Kubernetes, CreateReplicaSet, CollectReplicaSet,
     CollectConfigMap
<1>10. CASE UNCHANGED vars
  BY <1>1, <1>10 DEF vars, clusterVars
<1> QED BY <1>3, <1>4, <1>5, <1>6, <1>7, <1>8, <1>9, <1>10
    DEF Next, Operator, Fault

\* A cache shows what it has shown before, or what is stored.
LEMMA CachedConfigMaps ==
  ASSUME TypeOK, LiveInv, NoDeletions, [Next]_vars,
         NEW c \in Configs, cmCache'[c] # None
  PROVE  cmCache[c] # None \/ cms[c] # None
<1>1. CASE UNCHANGED cmCache
  BY <1>1
<1>2. CASE Deliver
  <2>1. ASSUME NEW b \in Configs, RefreshConfigMap(b)
        PROVE  cmCache[c] # None \/ cms[c] # None
    BY <2>1 DEF RefreshConfigMap, TypeOK, ClusterTypeOK
  <2> QED BY <1>1, <1>2, <2>1 DEF Deliver, ConfigMapEvent, DeploymentEvent,
      ReplicaSetEvent, RefreshDeployment, RefreshReplicaSet
<1>3. CASE Restart
  BY <1>3 DEF Restart, ClusterRestart
<1>4. ASSUME NEW op, NEW b \in Configs, cmCache[b] # None, NEW owners,
             UpdateConfigMap(op, b, owners)
      PROVE  cmCache[c] # None
  BY <1>4 DEF UpdateConfigMap, TypeOK, ClusterTypeOK
<1>5. CASE ConfigMapSync
  <2>1. CASE ReuseConfigMap
    <3>1. config \in Configs /\ cmCache[config] # None
      BY <2>1 DEF ReuseConfigMap, TypeOK, ClusterTypeOK
    <3> QED BY <1>4, <2>1, <3>1 DEF ReuseConfigMap
  <2>2. CASE ApplyOwnerRefToCM
    <3>1. PICK b \in newConfigMaps : \E owners : UpdateConfigMap("apply", b, owners)
      BY <2>2 DEF ApplyOwnerRefToCM
    <3>2. b \in Configs /\ cmCache[b] # None
      BY NewConfigMapsType DEF newConfigMaps, TypeOK, ClusterTypeOK
    <3> QED BY <1>4, <3>1, <3>2
  <2> QED BY <1>1, <1>5, <2>1, <2>2 DEF ConfigMapSync, ConfigUnavailable,
      CreateConfigMap, ReuseWithoutDeployment, AwaitReplicaSet,
      TooManyConfigMaps, RequeueConfigMapSync, clusterVars, cacheVars
<1>6. CASE ConfigMapReply \/ ConfigMapCallFails \/ ConfigMapReplyLost
  BY <1>1, <1>6 DEF ConfigMapReply, ConfigMapStored, ConfigMapRejected,
     ConfigMapCallFails, ConfigMapReplyLost, EndConfigMapSync
<1>7. CASE DeploymentSync \/ DeploymentReply \/ DeploymentCallFails
             \/ DeploymentReplyLost
  BY <1>1, <1>7 DEF DeploymentSync, AwaitConfigMap, AmbiguousConfigMap,
     RequeueDeploymentSync, CreateDeployment, UpdateDeployment,
     KeepDeployment, DeploymentReply, DeploymentCreated, DeploymentUpdated,
     DeploymentDeleted, DeploymentRejected, DeploymentCallFails,
     DeploymentReplyLost, DeploymentFrame, clusterVars, cacheVars
<1>8. CASE Environment
  BY <1>1, <1>8 DEF Environment, EndpointsEvent, ChangeEndpoints, ProxyEvent,
     UpdateStatus, DeleteDeployment, CleanupReplicaSet, clusterVars,
     cacheVars
<1>9. CASE Kubernetes
  BY <1>1, <1>9 DEF Kubernetes, CreateReplicaSet, CollectReplicaSet,
     CollectConfigMap, cacheVars
<1>10. CASE UNCHANGED vars
  BY <1>1, <1>10 DEF vars, clusterVars, cacheVars
<1> QED BY <1>2, <1>3, <1>5, <1>6, <1>7, <1>8, <1>9, <1>10
    DEF Next, Operator, Fault

LEMMA LiveStep ==
  ASSUME TypeOK, DeploymentsInv, LiveInv, NoDeletions, [Next]_vars
  PROVE  LiveInv'
<1>0. TypeOK'
  BY NextType
<1>1. \A c \in Configs : cmCache[c] # None => cms[c] # None
  BY DEF LiveInv, MountsKept, Existing, TypeOK, ClusterTypeOK
<1>2. \A c \in Existing(cmCache') : cms'[c] # None
  <2>1. \A c \in Configs : cmCache'[c] # None => cms'[c] # None
    BY <1>1, CachedConfigMaps, NothingGoes
  <2> QED BY <1>0, <2>1 DEF Existing, TypeOK, ClusterTypeOK
<1>3. MountedConfigMapExists'
  <2>1. \A d \in Deployments : deps[d] # None => cms[deps[d].cm] # None
                                              /\ deps[d].cm \in Configs
    BY DEF LiveInv, MountsKept, MountedConfigMapExists, Existing, TypeOK,
       ClusterTypeOK, DeploymentState
  <2>2. CASE UNCHANGED deps
    BY <2>1, <2>2, NothingGoes, <1>0 DEF MountedConfigMapExists, Existing, TypeOK,
       ClusterTypeOK
  <2>3. CASE DeploymentWrite
    <3>1. PICK d \in Deployments :
             /\ depReq.cm \in Configs
             /\ deps'[d].cm = depReq.cm
             /\ \A e \in Deployments : e # d => deps'[e] = deps[e]
             /\ DOMAIN deps' = Deployments
      BY <2>3, StoredDeployments
    <3>2. cms[depReq.cm] # None
      BY <2>3 DEF DeploymentWrite, LiveInv, MountsKept
    <3>3. \A e \in Deployments : deps'[e] # None =>
            cms[deps'[e].cm] # None /\ deps'[e].cm \in Configs
      BY <2>1, <3>1, <3>2
    <3> QED BY <3>1, <3>3, NothingGoes DEF MountedConfigMapExists, Existing
  <2> QED BY <2>2, <2>3, Writes DEF ConfigMapWrite, EndConfigMapSync
<1>4. depReq' # None => cms'[depReq'.cm] # None
  <2> SUFFICES ASSUME depReq' # None PROVE cms'[depReq'.cm] # None
    OBVIOUS
  <2>1. depReq' \in DeploymentRequest /\ depReq'.op # "delete"
    BY <1>0, DeploymentRequests DEF TypeOK, ClusterTypeOK
  <2>2. depReq'.cm \in Configs
    BY <2>1 DEF DeploymentRequest
  <2>3. cms[depReq'.cm] # None
    BY <1>1, <2>2, DeploymentRequests, NewConfigMapsType DEF LiveInv, MountsKept
  <2> QED BY <2>2, <2>3, NothingGoes
<1>5. NothingDoomed'
  BY DeploymentRequests DEF NothingDoomed
<1> QED BY <1>2, <1>3, <1>4, <1>5, OwnersLiveStep DEF LiveInv, MountsKept

LEMMA InitLive == Init => LiveInv
BY DEF Init, ClusterInit, LiveInv, OwnersLive, MountsKept, NothingDoomed,
   MountedConfigMapExists, Existing

(***************************************************************************)
(* The refinement.  A write of a ConfigMap is an offer or a hand-over, as  *)
(* the proxy is among the owners it stores or not; that there is no other  *)
(* offer is ConfigMapsInv, that there is a Deployment when the last offer  *)
(* goes follows from the owners, which are ReplicaSets then.  A write of   *)
(* a Deployment is a Mount because there is no second one.                 *)
(***************************************************************************)
CreateInv == cmReq # None /\ cmReq.op = "create" => Proxy \in cmReq.owners

LEMMA CreateStep ==
  ASSUME TypeOK, CreateInv, [Next]_vars
  PROVE  CreateInv'
<1> USE DEF CreateInv
<1>1. CASE UNCHANGED cmReq
  BY <1>1
<1>2. CASE ConfigMapSync
  BY <1>1, <1>2 DEF ConfigMapSync, ConfigUnavailable, CreateConfigMap,
     ReuseWithoutDeployment, ReuseConfigMap, AwaitReplicaSet,
     ApplyOwnerRefToCM, TooManyConfigMaps, RequeueConfigMapSync,
     UpdateConfigMap, clusterVars
<1>3. CASE ConfigMapReply \/ ConfigMapCallFails \/ ConfigMapReplyLost
  BY <1>3 DEF ConfigMapReply, ConfigMapStored, ConfigMapRejected,
     ConfigMapCallFails, ConfigMapReplyLost, EndConfigMapSync
<1>4. CASE DeploymentSync \/ DeploymentReply \/ DeploymentCallFails
             \/ DeploymentReplyLost
  BY <1>1, <1>4 DEF DeploymentSync, AwaitConfigMap, AmbiguousConfigMap,
     RequeueDeploymentSync, CreateDeployment, UpdateDeployment,
     KeepDeployment, DeploymentReply, DeploymentCreated, DeploymentUpdated,
     DeploymentDeleted, DeploymentRejected, DeploymentCallFails,
     DeploymentReplyLost, DeploymentFrame, clusterVars
<1>5. CASE Restart
  BY <1>5 DEF Restart, ClusterRestart
<1>6. CASE Environment
  BY <1>1, <1>6 DEF Environment, EndpointsEvent, ChangeEndpoints, ProxyEvent,
     UpdateStatus, DeleteDeployment, CleanupReplicaSet, clusterVars
<1>7. CASE Deliver
  BY <1>1, <1>7 DEF Deliver, ConfigMapEvent, DeploymentEvent, ReplicaSetEvent,
     RefreshConfigMap, RefreshDeployment, RefreshReplicaSet
<1>8. CASE Kubernetes
  <2>1. ASSUME NEW c \in Configs, CollectConfigMap(c)
        PROVE  CreateInv'
    BY <2>1 DEF CollectConfigMap, TouchConfigMap, TypeOK, ClusterTypeOK,
       ConfigMapRequest
  <2> QED BY <1>1, <1>8, <2>1
      DEF Kubernetes, CreateReplicaSet, CollectReplicaSet
<1>9. CASE UNCHANGED vars
  BY <1>1, <1>9 DEF vars, clusterVars
<1> QED BY <1>2, <1>3, <1>4, <1>5, <1>6, <1>7, <1>8, <1>9
    DEF Next, Operator, Fault

RolloutInv ==
  TypeOK /\ OwnersInv /\ DeploymentsInv /\ ConfigMapsInv /\ LiveInv /\ CreateInv

kept == Existing(cms)
offered == GetConfigMapsForProxy(cms)
mounted == {deps[d].cm : d \in Existing(deps)}

abstractNext == [AbstractRollout!Next]_AbstractRollout!vars

LEMMA AbstractStutter ==
  ASSUME kept' = kept, offered' = offered, mounted' = mounted
  PROVE  abstractNext
BY DEF kept, offered, mounted, abstractNext, AbstractRollout!vars

LEMMA AbstractOffer ==
  ASSUME NEW c \in Configs, offered = {}, offered' = {c},
         kept' = kept \cup {c}, mounted' = mounted
  PROVE  abstractNext
BY DEF kept, offered, mounted, abstractNext, AbstractRollout!Next,
   AbstractRollout!Offer

LEMMA AbstractMount ==
  ASSUME NEW c \in Configs, c \in kept, mounted' = {c},
         kept' = kept, offered' = offered
  PROVE  abstractNext
BY DEF kept, offered, mounted, abstractNext, AbstractRollout!Next,
   AbstractRollout!Mount

LEMMA AbstractHandOver ==
  ASSUME offered # {}, mounted # {}, offered' = {},
         kept' = kept, mounted' = mounted
  PROVE  abstractNext
BY DEF kept, offered, mounted, abstractNext, AbstractRollout!Next,
   AbstractRollout!HandOver

LEMMA ConfigMapWriteStep ==
  ASSUME RolloutInv, ConfigMapWrite
  PROVE  abstractNext
<1> USE DEF RolloutInv
<1> DEFINE c == cmReq.cm
<1>1. /\ cmReq \in ConfigMapRequest /\ c \in Configs
      /\ DOMAIN cms' = Configs /\ DOMAIN cms = Configs
      /\ cms'[c] = cmReq.owners /\ cms'[c] # None
      /\ \A b \in Configs : b # c => cms'[b] = cms[b]
  BY StoredConfigMaps DEF ConfigMapWrite, TypeOK, ClusterTypeOK
<1>2. cmReq # None /\ ConfigMapAccepted
  BY DEF ConfigMapWrite
<1>3. mounted' = mounted
  BY DEF ConfigMapWrite, EndConfigMapSync, mounted, Existing
<1>4. kept' = kept \cup {c}
  BY <1>1 DEF kept, Existing
<1>5. cmReq.op # "create" => kept' = kept
  BY <1>1, <1>2, <1>4 DEF ConfigMapAccepted, kept, Existing
<1>6. offered \subseteq {c}
  BY <1>1, <1>2 DEF ConfigMapsInv, RequestInv, offered, ConfigMapRequest
<1>7. cmReq.op \in {"create", "reuse"} => offered = {}
  BY <1>2 DEF ConfigMapsInv, RequestInv, offered
<1>8. offered' = IF Proxy \in cmReq.owners THEN {c} ELSE {}
  BY <1>1, <1>6 DEF offered, GetConfigMapsForProxy, Existing
<1>9. CASE Proxy \in cmReq.owners
  <2>1. CASE offered = {}
    BY <1>1, <1>3, <1>4, <1>8, <1>9, <2>1, AbstractOffer
  <2>2. CASE offered # {}
    <3>1. offered' = offered
      BY <1>6, <1>8, <1>9, <2>2
    <3>2. kept' = kept
      BY <1>5, <1>7, <2>2
    <3> QED BY <1>3, <3>1, <3>2, AbstractStutter
  <2> QED BY <2>1, <2>2
<1>10. CASE Proxy \notin cmReq.owners
  <2>1. kept' = kept
    BY <1>2, <1>5, <1>10 DEF CreateInv
  <2>2. mounted # {}
    <3>1. PICK r \in rss : TRUE
      BY <1>2, <1>10 DEF OwnersInv, LiveInv, OwnersLive
    <3>2. r[1] \in Deployments /\ deps[r[1]] # None
      BY <3>1 DEF LiveInv, OwnersLive, TypeOK, ClusterTypeOK, ReplicaSets
    <3> QED BY <3>2 DEF mounted, Existing, TypeOK, ClusterTypeOK
  <2>3. offered' = {}
    BY <1>8, <1>10
  <2> QED BY <1>3, <2>1, <2>2, <2>3, AbstractStutter, AbstractHandOver
<1> QED BY <1>9, <1>10

LEMMA DeploymentWriteStep ==
  ASSUME RolloutInv, DeploymentWrite
  PROVE  abstractNext
<1> USE DEF RolloutInv
<1>1. PICK d \in Deployments :
         /\ depReq.cm \in Configs
         /\ deps'[d] \in DeploymentState
         /\ deps'[d].cm = depReq.cm
         /\ \A e \in Deployments : e # d => deps'[e] = deps[e]
         /\ DOMAIN deps' = Deployments
         /\ depReq.op = "create" \/ deps[d] # None
  BY StoredDeployments
<1>2. depReq # None /\ UNCHANGED cms
  BY DEF DeploymentWrite, DeploymentFrame
<1>3. deps'[d] # None
  BY <1>1, ClusterAssumption
<1>4. \A e \in Deployments : e # d => deps[e] = None
  BY <1>1, <1>2 DEF DeploymentsInv, AtMostOneDeployment, Existing, TypeOK,
     ClusterTypeOK
<1>5. Existing(deps') = {d}
  BY <1>1, <1>3, <1>4 DEF Existing
<1>6. mounted' = {depReq.cm}
  BY <1>1, <1>5 DEF mounted
<1>7. kept' = kept /\ offered' = offered
  BY <1>2 DEF kept, offered, GetConfigMapsForProxy, Existing
<1>8. depReq.cm \in kept
  BY <1>1, <1>2 DEF LiveInv, MountsKept, kept, Existing, TypeOK, ClusterTypeOK
<1> QED BY <1>1, <1>6, <1>7, <1>8, AbstractMount

LEMMA AbstractStep ==
  ASSUME NoDeletions
  PROVE  RolloutInv /\ [Next]_vars => abstractNext
<1> SUFFICES ASSUME RolloutInv, [Next]_vars
             PROVE  abstractNext
  OBVIOUS
<1>1. CASE UNCHANGED <<cms, deps>>
  BY <1>1, AbstractStutter DEF kept, offered, mounted, GetConfigMapsForProxy,
     Existing
<1> QED BY <1>1, Writes, ConfigMapWriteStep, DeploymentWriteStep
    DEF RolloutInv

\* With caches of ConfigMaps and Deployments that keep up, with restarts,
\* conflicts and lost answers, but no call that fails after the cached object has
\* been edited and nobody else who deletes, the two controllers and the garbage
\* collector together do what ConfigRollout promises.
THEOREM Implementation ==
  ASSUME NoDeletions, "configmap" \notin Lag, "failure" \notin Disturbances
  PROVE  Spec => ImplementsConfigRollout
<1>1. Init => RolloutInv
  <2>1. Init => OwnersInv /\ DeploymentsInv /\ ConfigMapsInv /\ CreateInv
    BY ClusterAssumption DEF Init, ClusterInit, OwnersInv, DeploymentsInv,
       AtMostOneDeployment, ConfigMapsInv, CopiesInv, RequestInv,
       AtMostOneNewConfigMap, CreateInv, GetConfigMapsForProxy, Existing
  <2> QED BY <2>1, InitType, InitLive DEF RolloutInv
<1>2. RolloutInv /\ [Next]_vars => RolloutInv'
  BY NextType, OwnersStep, DeploymentsStep, ConfigMapsStep, LiveStep, CreateStep
     DEF RolloutInv, NoDeletions
<1>3. Init => AbstractRollout!Init
  BY DEF Init, ClusterInit, AbstractRollout!Init, GetConfigMapsForProxy, Existing
<1>4. RolloutInv /\ [Next]_vars => [AbstractRollout!Next]_AbstractRollout!vars
  BY AbstractStep DEF abstractNext
<1> QED BY <1>1, <1>2, <1>3, <1>4, PTL
    DEF Spec, ImplementsConfigRollout, AbstractRollout!Spec
=============================================================================
