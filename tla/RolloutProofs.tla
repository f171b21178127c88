---------------------------- MODULE RolloutProofs ----------------------------
(***************************************************************************)
(* What Rollout guarantees for any number of configurations, Deployments   *)
(* and disturbances.                                                       *)
(***************************************************************************)
EXTENDS Rollout, TLAPS

(***************************************************************************)
(* Type correctness.                                                       *)
(***************************************************************************)
LEMMA NewestType ==
  ASSUME NEW store, NEW S, NEW d \in Newest(store, S)
  PROVE  d \in S
BY DEF Newest

LEMMA NewConfigMapsType ==
  ASSUME NEW store, NEW c \in GetConfigMapsForProxy(store)
  PROVE  c \in DOMAIN store /\ store[c] # None /\ Proxy \in store[c]
BY DEF GetConfigMapsForProxy, Existing

LEMMA TouchType ==
  ASSUME TypeOK
  PROVE  /\ \A c \in Configs : TouchConfigMap(c) =>
               /\ cmFresh' \subseteq Configs
               /\ cmReq' \in ConfigMapRequest \cup {None}
         /\ \A d \in Deployments : TouchDeployment(d) =>
               /\ depFresh' \subseteq Deployments
               /\ depReq' \in DeploymentRequest \cup {None}
<1>1. ASSUME NEW q \in ConfigMapRequest
      PROVE  [q EXCEPT !.fresh = FALSE] \in ConfigMapRequest
  BY <1>1 DEF ConfigMapRequest
<1>2. ASSUME NEW q \in DeploymentRequest
      PROVE  [q EXCEPT !.fresh = FALSE] \in DeploymentRequest
  BY <1>2 DEF DeploymentRequest
<1>3. ASSUME NEW c \in Configs, TouchConfigMap(c)
      PROVE  /\ cmFresh' \subseteq Configs
             /\ cmReq' \in ConfigMapRequest \cup {None}
  BY <1>1, <1>3 DEF TypeOK, ClusterTypeOK, TouchConfigMap
<1>4. ASSUME NEW d \in Deployments, TouchDeployment(d)
      PROVE  /\ depFresh' \subseteq Deployments
             /\ depReq' \in DeploymentRequest \cup {None}
  BY <1>2, <1>4 DEF TypeOK, ClusterTypeOK, TouchDeployment
<1> QED BY <1>3, <1>4

LEMMA DisturbType ==
  ASSUME TypeOK, NEW k, Disturb(k)
  PROVE  disturbed' \in 0..MaxDisturbances
BY ClusterAssumption DEF TypeOK, ClusterTypeOK, Disturb

LEMMA InitType == Init => TypeOK
BY ClusterAssumption
   DEF Init, ClusterInit, TypeOK, ClusterTypeOK

LEMMA DeliverType ==
  ASSUME TypeOK, Deliver
  PROVE  TypeOK'
<1>1. CASE \E c \in Configs : ConfigMapEvent(c)
  BY <1>1 DEF ConfigMapEvent, RefreshConfigMap, TypeOK, ClusterTypeOK, apiVars
<1>2. CASE \E d \in Deployments : DeploymentEvent(d)
  BY <1>2 DEF DeploymentEvent, RefreshDeployment, TypeOK, ClusterTypeOK, apiVars
<1>3. CASE \E r \in ReplicaSets : ReplicaSetEvent(r)
  BY <1>3 DEF ReplicaSetEvent, RefreshReplicaSet, TypeOK, ClusterTypeOK,
     apiVars, queues
<1> QED BY <1>1, <1>2, <1>3 DEF Deliver

LEMMA KubernetesType ==
  ASSUME TypeOK, Kubernetes
  PROVE  TypeOK'
<1>1. CASE \E d \in Deployments : CreateReplicaSet(d)
  <2>1. PICK d \in Deployments : CreateReplicaSet(d)
    BY <1>1
  <2>2. rss' \subseteq ReplicaSets
    BY <2>1 DEF CreateReplicaSet, TypeOK, ClusterTypeOK, ReplicaSets,
       DeploymentState
  <2> QED BY <2>1, <2>2, TouchType
      DEF CreateReplicaSet, Kubernetes, queues, TypeOK, ClusterTypeOK
<1>2. CASE \E r \in ReplicaSets : CollectReplicaSet(r)
  BY <1>2 DEF CollectReplicaSet, Kubernetes, queues, TypeOK, ClusterTypeOK,
     cacheVars
<1>3. CASE \E c \in Configs : CollectConfigMap(c)
  <2>1. PICK c \in Configs : CollectConfigMap(c)
    BY <1>3
  <2>2. cms' \in [Configs -> (SUBSET Owners) \cup {None}]
    BY <2>1 DEF CollectConfigMap, TypeOK, ClusterTypeOK
  <2> QED BY <2>1, <2>2, TouchType
      DEF CollectConfigMap, Kubernetes, queues, TypeOK, ClusterTypeOK
<1> QED BY <1>1, <1>2, <1>3 DEF Kubernetes

LEMMA ConfigMapSyncType ==
  ASSUME TypeOK, ConfigMapSync, UNCHANGED depQueued
  PROVE  TypeOK'
<1>1. CASE ConfigUnavailable \/ ReuseWithoutDeployment \/ AwaitReplicaSet
  BY <1>1 DEF ConfigUnavailable, ReuseWithoutDeployment, AwaitReplicaSet,
     RequeueConfigMapSync, clusterVars, apiVars, cacheVars, TypeOK, ClusterTypeOK
<1>2. CASE CreateConfigMap
  BY <1>2 DEF CreateConfigMap, ConfigMapSyncFrame, apiVars, TypeOK,
     ClusterTypeOK, ConfigMapRequest, Owners
<1>3. ASSUME NEW op \in {"reuse", "apply"}, NEW c \in Configs,
             NEW owners \in SUBSET Owners, UpdateConfigMap(op, c, owners)
      PROVE  TypeOK'
  <2>1. cmReq' \in ConfigMapRequest
    BY <1>3 DEF UpdateConfigMap, ConfigMapRequest
  <2>2. cmCache' \in [Configs -> (SUBSET Owners) \cup {None}]
    BY <1>3 DEF UpdateConfigMap, TypeOK, ClusterTypeOK
  <2> QED BY <1>3, <2>1, <2>2
      DEF UpdateConfigMap, ConfigMapSyncFrame, apiVars, TypeOK, ClusterTypeOK
<1>4. CASE ReuseConfigMap
  <2>1. config \in Configs /\ cmCache[config] \in SUBSET Owners
    BY <1>4 DEF ReuseConfigMap, TypeOK, ClusterTypeOK
  <2>2. PICK owners \in {cmCache[config], cmCache[config] \cup {Proxy}} :
           UpdateConfigMap("reuse", config, owners)
    BY <1>4 DEF ReuseConfigMap
  <2> QED BY <1>3, <2>1, <2>2 DEF Owners
<1>5. CASE ApplyOwnerRefToCM
  <2>1. PICK c \in newConfigMaps, r \in rsCache :
           UpdateConfigMap("apply", c, (cmCache[c] \cup {r}) \ {Proxy})
    BY <1>5 DEF ApplyOwnerRefToCM, GetNewRSForProxy
  <2>2. c \in Configs /\ cmCache[c] \in SUBSET Owners
    BY NewConfigMapsType DEF newConfigMaps, TypeOK, ClusterTypeOK
  <2>3. r \in Owners
    BY DEF TypeOK, ClusterTypeOK, Owners
  <2> QED BY <1>3, <2>1, <2>2, <2>3
<1>6. CASE TooManyConfigMaps
  BY <1>6 DEF TooManyConfigMaps, clusterVars, apiVars, cacheVars, TypeOK,
     ClusterTypeOK
<1> QED BY <1>1, <1>2, <1>4, <1>5, <1>6 DEF ConfigMapSync

LEMMA ConfigMapReplyType ==
  ASSUME TypeOK, UNCHANGED depQueued,
         ConfigMapReply \/ ConfigMapCallFails \/ ConfigMapReplyLost
  PROVE  TypeOK'
<1>1. ASSUME cmReq # None, StoreConfigMap
      PROVE  /\ cms' \in [Configs -> (SUBSET Owners) \cup {None}]
             /\ cmFresh' \subseteq Configs
  BY <1>1 DEF StoreConfigMap, TypeOK, ClusterTypeOK, ConfigMapRequest
<1>2. CASE ConfigMapStored
  BY <1>1, <1>2 DEF ConfigMapStored, EndConfigMapSync, TypeOK, ClusterTypeOK
<1>3. CASE ConfigMapRejected
  BY <1>3 DEF ConfigMapRejected, EndConfigMapSync, TypeOK, ClusterTypeOK
<1>4. CASE ConfigMapCallFails
  BY <1>4, DisturbType
     DEF ConfigMapCallFails, EndConfigMapSync, TypeOK, ClusterTypeOK
<1>5. CASE ConfigMapReplyLost
  BY <1>1, <1>5, DisturbType
     DEF ConfigMapReplyLost, EndConfigMapSync, TypeOK, ClusterTypeOK
<1> QED BY <1>2, <1>3, <1>4, <1>5 DEF ConfigMapReply

LEMMA DoomedType ==
  ASSUME TypeOK, NEW d \in Deployments, NEW doomed \in Doomed(d)
  PROVE  doomed \in SUBSET Deployments
BY DEF Doomed, ownedDeployments, Existing, TypeOK, ClusterTypeOK

LEMMA FinishType ==
  ASSUME NEW q \in BOOLEAN, NEW x \in BOOLEAN, NEW doomed \in SUBSET Deployments,
         FinishDeploymentSync(q, x, doomed)
  PROVE  /\ depReq' \in DeploymentRequest \cup {None}
         /\ depQueued' \in BOOLEAN
<1>1. DeleteRequest(doomed) \in DeploymentRequest
  BY DEF DeleteRequest, DeploymentRequest
<1> QED BY <1>1 DEF FinishDeploymentSync

LEMMA DeploymentSyncType ==
  ASSUME TypeOK, DeploymentSync, UNCHANGED cmQueued
  PROVE  TypeOK'
<1>1. CASE AwaitConfigMap \/ AmbiguousConfigMap
  BY <1>1 DEF AwaitConfigMap, AmbiguousConfigMap, RequeueDeploymentSync,
     clusterVars, apiVars, cacheVars, TypeOK, ClusterTypeOK
<1>2. CASE CreateDeployment
  <2>1. PICK c \in GetConfigMapsForProxy(cmCache) :
           depReq' = [op |-> "create", dep |-> None, cm |-> c, fresh |-> TRUE,
                      extra |-> FALSE, doomed |-> {}]
    BY <1>2 DEF CreateDeployment
  <2>2. c \in Configs
    BY NewConfigMapsType DEF TypeOK, ClusterTypeOK
  <2>3. depReq' \in DeploymentRequest
    BY <2>1, <2>2 DEF DeploymentRequest
  <2> QED BY <1>2, <2>3 DEF CreateDeployment, apiVars, cacheVars, TypeOK,
             ClusterTypeOK
<1>3. CASE UpdateDeployment
  <2>1. PICK d \in Newest(depCache, ownedDeployments),
             c \in GetConfigMapsForProxy(cmCache) :
           /\ depCache' = [depCache EXCEPT ![d].cm = c]
           /\ \E doomed \in Doomed(d) :
                depReq' = [op |-> "update", dep |-> d, cm |-> c,
                           fresh |-> d \in depFresh,
                           extra |-> ownedDeployments # {d}, doomed |-> doomed]
    BY <1>3 DEF UpdateDeployment
  <2>2. c \in Configs
    BY NewConfigMapsType DEF TypeOK, ClusterTypeOK
  <2>3. d \in Deployments /\ depCache[d] \in DeploymentState
    BY NewestType DEF ownedDeployments, Existing, TypeOK, ClusterTypeOK
  <2>4. depReq' \in DeploymentRequest
    BY <2>1, <2>2, <2>3, DoomedType DEF DeploymentRequest
  <2>5. depCache' \in [Deployments -> DeploymentState \cup {None}]
    BY <2>1, <2>2, <2>3 DEF TypeOK, ClusterTypeOK, DeploymentState
  <2> QED BY <1>3, <2>4, <2>5
      DEF UpdateDeployment, apiVars, TypeOK, ClusterTypeOK
<1>4. CASE KeepDeployment
  <2>1. PICK d \in Newest(depCache, ownedDeployments) :
           \E doomed \in Doomed(d) :
              FinishDeploymentSync(FALSE, ownedDeployments # {d}, doomed)
    BY <1>4 DEF KeepDeployment
  <2>2. d \in Deployments
    BY NewestType DEF ownedDeployments, Existing, TypeOK, ClusterTypeOK
  <2>3. depReq' \in DeploymentRequest \cup {None} /\ depQueued' \in BOOLEAN
    BY <2>1, <2>2, DoomedType, FinishType
  <2> QED BY <1>4, <2>3
      DEF KeepDeployment, apiVars, cacheVars, TypeOK, ClusterTypeOK
<1> QED BY <1>1, <1>2, <1>3, <1>4 DEF DeploymentSync

LEMMA DeploymentReplyType ==
  ASSUME TypeOK, UNCHANGED cmQueued,
         DeploymentReply \/ DeploymentCallFails \/ DeploymentReplyLost
  PROVE  TypeOK'
<1>1. ASSUME depReq # None, StoreNewDeployment
      PROVE  /\ deps' \in [Deployments -> DeploymentState \cup {None}]
             /\ depFresh' \subseteq Deployments
  <2> DEFINE d == CHOOSE x \in UnusedDeployments : TRUE
  <2>1. d \in Deployments
    BY <1>1 DEF StoreNewDeployment, UnusedDeployments
  <2>2. CreationTimes \subseteq Nat
    BY DEF CreationTimes, Existing, DeploymentState, TypeOK, ClusterTypeOK
  <2>3. depReq.cm \in Configs
    BY <1>1 DEF StoreNewDeployment, TypeOK, ClusterTypeOK, DeploymentRequest
  <2> QED BY <1>1, <2>1, <2>2, <2>3
      DEF StoreNewDeployment, TypeOK, ClusterTypeOK, DeploymentState
<1>2. ASSUME depReq # None, StoreDeployment
      PROVE  /\ deps' \in [Deployments -> DeploymentState \cup {None}]
             /\ depFresh' \subseteq Deployments
  <2>1. depReq.dep \in Deployments /\ depReq.cm \in Configs
    BY <1>2 DEF StoreDeployment, TypeOK, ClusterTypeOK, DeploymentRequest
  <2>2. deps[depReq.dep] \in DeploymentState
    BY <1>2, <2>1 DEF StoreDeployment, TypeOK, ClusterTypeOK
  <2> QED BY <1>2, <2>1, <2>2
      DEF StoreDeployment, TypeOK, ClusterTypeOK, DeploymentState
<1>3. ASSUME depReq # None, NEW d \in depReq.doomed, RemoveDeployment(d)
      PROVE  /\ deps' \in [Deployments -> DeploymentState \cup {None}]
             /\ depFresh' \subseteq Deployments
  BY <1>3 DEF RemoveDeployment, TypeOK, ClusterTypeOK
<1>4. depReq # None => depReq.doomed \in SUBSET Deployments
                         /\ depReq.extra \in BOOLEAN
  BY DEF TypeOK, ClusterTypeOK, DeploymentRequest
<1>5. depQueued \in BOOLEAN
  BY DEF TypeOK
<1>6. CASE DeploymentCreated
  <2>1. depReq' \in DeploymentRequest \cup {None} /\ depQueued' \in BOOLEAN
    BY <1>5, <1>6, FinishType DEF DeploymentCreated
  <2> QED BY <1>1, <1>6, <2>1
      DEF DeploymentCreated, DeploymentFrame, TypeOK, ClusterTypeOK
<1>7. CASE DeploymentUpdated
  <2>1. depReq' \in DeploymentRequest \cup {None} /\ depQueued' \in BOOLEAN
    BY <1>4, <1>5, <1>7, FinishType DEF DeploymentUpdated
  <2> QED BY <1>2, <1>7, <2>1
      DEF DeploymentUpdated, DeploymentFrame, TypeOK, ClusterTypeOK
<1>8. CASE DeploymentDeleted
  <2>1. PICK d \in depReq.doomed :
           /\ RemoveDeployment(d)
           /\ FinishDeploymentSync(depQueued, TRUE, depReq.doomed \ {d})
    BY <1>8 DEF DeploymentDeleted
  <2>2. depReq' \in DeploymentRequest \cup {None} /\ depQueued' \in BOOLEAN
    <3>1. depReq.doomed \ {d} \in SUBSET Deployments
      BY <1>4, <1>8 DEF DeploymentDeleted
    <3> QED BY <1>5, <2>1, <3>1, FinishType
  <2> QED BY <1>3, <1>8, <2>1, <2>2
      DEF DeploymentDeleted, DeploymentFrame, TypeOK, ClusterTypeOK
<1>9. CASE DeploymentRejected
  BY <1>9 DEF DeploymentRejected, DeploymentFrame, TypeOK, ClusterTypeOK
<1>10. CASE DeploymentCallFails
  BY <1>10, DisturbType
     DEF DeploymentCallFails, DeploymentFrame, TypeOK, ClusterTypeOK
<1>11. CASE DeploymentReplyLost
  BY <1>1, <1>2, <1>3, <1>11, DisturbType
     DEF DeploymentReplyLost, DeploymentFrame, TypeOK, ClusterTypeOK
<1> QED BY <1>6, <1>7, <1>8, <1>9, <1>10, <1>11 DEF DeploymentReply

LEMMA EnvironmentType ==
  ASSUME TypeOK, Environment
  PROVE  TypeOK'
<1>1. CASE EndpointsEvent
  BY <1>1, DisturbType DEF EndpointsEvent, ChangeEndpoints, apiVars, cacheVars,
     TypeOK, ClusterTypeOK
<1>2. CASE ProxyEvent
  BY <1>2, DisturbType DEF ProxyEvent, apiVars, cacheVars, TypeOK, ClusterTypeOK
<1>3. ASSUME NEW d \in Deployments, UpdateStatus(d), UNCHANGED queues
      PROVE  TypeOK'
  BY <1>3, DisturbType, TouchType
     DEF UpdateStatus, apiVars, queues, TypeOK, ClusterTypeOK
<1>4. ASSUME NEW d \in Deployments, DeleteDeployment(d), UNCHANGED queues
      PROVE  TypeOK'
  <2>1. deps' \in [Deployments -> DeploymentState \cup {None}]
    BY <1>4 DEF DeleteDeployment, TypeOK, ClusterTypeOK
  <2> QED BY <1>4, <2>1, DisturbType, TouchType
      DEF DeleteDeployment, queues, TypeOK, ClusterTypeOK
<1>5. ASSUME NEW r \in ReplicaSets, CleanupReplicaSet(r), UNCHANGED queues
      PROVE  TypeOK'
  BY <1>5, DisturbType
     DEF CleanupReplicaSet, cacheVars, queues, TypeOK, ClusterTypeOK
<1> QED BY <1>1, <1>2, <1>3, <1>4, <1>5 DEF Environment

LEMMA RestartType ==
  ASSUME TypeOK, Restart
  PROVE  TypeOK'
BY DisturbType DEF Restart, ClusterRestart, apiVars, TypeOK, ClusterTypeOK

LEMMA NextType == TypeOK /\ [Next]_vars => TypeOK'
<1> SUFFICES ASSUME TypeOK, [Next]_vars
             PROVE  TypeOK'
  OBVIOUS
<1>1. CASE Operator
  BY <1>1, ConfigMapSyncType, ConfigMapReplyType, DeploymentSyncType,
     DeploymentReplyType DEF Operator
<1>2. CASE Fault
  BY <1>2, ConfigMapReplyType, DeploymentReplyType, RestartType DEF Fault
<1>3. CASE UNCHANGED vars
  BY <1>3 DEF vars, queues, clusterVars, apiVars, cacheVars, TypeOK,
     ClusterTypeOK
<1> QED BY <1>1, <1>2, <1>3, DeliverType, KubernetesType, EnvironmentType
    DEF Next

\* The state keeps its type: in particular the deployment controller never
\* sends, caches or stores a Deployment that mounts no ConfigMap.
THEOREM TypeCorrect == Spec => []TypeOK
BY InitType, NextType, PTL DEF Spec

(***************************************************************************)
(* No ConfigMap without an owner.  What is stored was once a cached copy,  *)
(* edited and sent, so the copies and the request have owners as well.     *)
(***************************************************************************)
OwnersInv ==
  /\ \A c \in Configs : cms[c] # {} /\ cmCache[c] # {}
  /\ cmReq # None => cmReq.owners # {}

LEMMA OwnersStep == TypeOK /\ OwnersInv /\ [Next]_vars => OwnersInv'
<1> SUFFICES ASSUME TypeOK, OwnersInv, [Next]_vars
             PROVE  OwnersInv'
  OBVIOUS
<1> USE DEF OwnersInv
<1>1. CASE UNCHANGED <<cms, cmCache, cmReq>>
  BY <1>1
<1>2. ASSUME NEW c \in Configs, RefreshConfigMap(c)
      PROVE  OwnersInv'
  BY <1>2 DEF RefreshConfigMap, apiVars, TypeOK, ClusterTypeOK
<1>3. ASSUME NEW c \in Configs, CollectConfigMap(c)
      PROVE  OwnersInv'
  <2>1. \A b \in Configs : cms'[b] # {}
    BY <1>3, ClusterAssumption DEF CollectConfigMap, TypeOK, ClusterTypeOK
  <2>2. cmReq' # None => cmReq # None /\ cmReq'.owners = cmReq.owners
    BY <1>3 DEF CollectConfigMap, TouchConfigMap, TypeOK, ClusterTypeOK,
       ConfigMapRequest
  <2> QED BY <1>3, <2>1, <2>2 DEF CollectConfigMap
<1>4. ASSUME NEW op, NEW c \in Configs, NEW owners, owners # {},
             UpdateConfigMap(op, c, owners)
      PROVE  OwnersInv'
  BY <1>4 DEF UpdateConfigMap, ConfigMapSyncFrame, apiVars, TypeOK, ClusterTypeOK
<1>5. CASE ConfigMapSync
  <2>1. CASE CreateConfigMap
    BY <2>1 DEF CreateConfigMap, ConfigMapSyncFrame, apiVars
  <2>2. CASE ReuseConfigMap
    <3>1. config \in Configs
      BY <2>2 DEF ReuseConfigMap, TypeOK, ClusterTypeOK
    <3> QED BY <1>4, <2>2, <3>1 DEF ReuseConfigMap
  <2>3. CASE ApplyOwnerRefToCM
    <3>1. PICK c \in newConfigMaps, r \in rsCache :
             UpdateConfigMap("apply", c, (cmCache[c] \cup {r}) \ {Proxy})
      BY <2>3 DEF ApplyOwnerRefToCM, GetNewRSForProxy
    <3>2. c \in Configs
      BY NewConfigMapsType DEF newConfigMaps, TypeOK, ClusterTypeOK
    <3>3. r # Proxy
      BY ClusterAssumption DEF TypeOK, ClusterTypeOK
    <3> QED BY <1>4, <3>1, <3>2, <3>3
  <2>4. CASE \/ ConfigUnavailable \/ ReuseWithoutDeployment \/ AwaitReplicaSet
             \/ TooManyConfigMaps
    BY <1>1, <2>4 DEF ConfigUnavailable, ReuseWithoutDeployment,
       AwaitReplicaSet, TooManyConfigMaps, RequeueConfigMapSync, clusterVars,
       apiVars, cacheVars
  <2> QED BY <1>5, <2>1, <2>2, <2>3, <2>4 DEF ConfigMapSync
<1>6. CASE ConfigMapReply \/ ConfigMapCallFails \/ ConfigMapReplyLost
  <2>1. cmReq # None /\ cmReq' = None /\ UNCHANGED cmCache
    BY <1>6 DEF ConfigMapReply, ConfigMapStored, ConfigMapRejected,
       ConfigMapCallFails, ConfigMapReplyLost, EndConfigMapSync
  <2>2. StoreConfigMap \/ UNCHANGED cms
    BY <1>6 DEF ConfigMapReply, ConfigMapStored, ConfigMapRejected,
       ConfigMapCallFails, ConfigMapReplyLost
  <2> QED BY <2>1, <2>2 DEF StoreConfigMap, TypeOK, ClusterTypeOK
<1>7. CASE DeploymentSync \/ DeploymentReply \/ DeploymentCallFails
             \/ DeploymentReplyLost
  BY <1>1, <1>7 DEF DeploymentSync, AwaitConfigMap, AmbiguousConfigMap,
     CreateDeployment, UpdateDeployment, KeepDeployment, RequeueDeploymentSync,
     DeploymentReply, DeploymentCreated, DeploymentUpdated, DeploymentDeleted,
     DeploymentRejected, DeploymentCallFails, DeploymentReplyLost,
     DeploymentFrame, clusterVars, apiVars, cacheVars
<1>8. CASE Restart
  BY <1>8 DEF Restart, ClusterRestart, apiVars
<1>9. CASE Environment
  BY <1>1, <1>9 DEF Environment, EndpointsEvent, ChangeEndpoints, ProxyEvent,
     UpdateStatus, DeleteDeployment, CleanupReplicaSet, clusterVars,
     apiVars, cacheVars
<1>10. CASE Deliver
  BY <1>1, <1>2, <1>10 DEF Deliver, ConfigMapEvent, DeploymentEvent,
     ReplicaSetEvent, RefreshDeployment, RefreshReplicaSet, apiVars
<1>11. CASE Kubernetes
  BY <1>1, <1>3, <1>11 DEF Kubernetes, CreateReplicaSet, CollectReplicaSet,
     cacheVars
<1>12. CASE UNCHANGED vars
  BY <1>1, <1>12 DEF vars, clusterVars, apiVars, cacheVars
<1> QED BY <1>5, <1>6, <1>7, <1>8, <1>9, <1>10, <1>11, <1>12
    DEF Next, Operator, Fault

\* Whatever fails, lags or is deleted, no ConfigMap of the operator ends up
\* without an owner and thus out of the garbage collector's reach.
THEOREM NoConfigMapLeaks == Spec => []NoOwnerlessConfigMap
<1>1. Init => OwnersInv
  BY ClusterAssumption DEF Init, ClusterInit, OwnersInv
<1>2. OwnersInv => NoOwnerlessConfigMap
  BY DEF OwnersInv, NoOwnerlessConfigMap
<1> QED BY <1>1, <1>2, TypeCorrect, OwnersStep, PTL DEF Spec

(***************************************************************************)
(* At most one Deployment, while the Deployment cache does not lag.  A     *)
(* create is sent when the cache, and so the API server, has none, and no  *)
(* other is created before it is answered.                                 *)
(***************************************************************************)
AtMostOneDeployment == \A d1, d2 \in Existing(deps) : d1 = d2

DeploymentsInv ==
  /\ \A d \in depFresh : deps[d] = None <=> depCache[d] = None
  /\ depReq # None /\ depReq.op = "create" => Existing(deps) = {}
  /\ AtMostOneDeployment

LEMMA DeploymentsStep ==
  ASSUME "deployment" \notin Lag
  PROVE  TypeOK /\ DeploymentsInv /\ [Next]_vars => DeploymentsInv'
<1> SUFFICES ASSUME TypeOK, DeploymentsInv, [Next]_vars
             PROVE  DeploymentsInv'
  OBVIOUS
<1> USE DEF DeploymentsInv, AtMostOneDeployment
<1>1. CASE UNCHANGED <<deps, depCache, depFresh, depReq>>
  BY <1>1 DEF Existing
<1>2. ASSUME NEW d \in Deployments, RefreshDeployment(d)
      PROVE  DeploymentsInv'
  BY <1>2 DEF RefreshDeployment, apiVars, Existing, TypeOK, ClusterTypeOK
<1>3. ASSUME NEW d \in Deployments, TouchDeployment(d), UNCHANGED depCache,
             deps' = deps \/ deps' = [deps EXCEPT ![d] = None]
      PROVE  DeploymentsInv'
  <2>1. Existing(deps') \subseteq Existing(deps)
    BY <1>3 DEF Existing, TypeOK, ClusterTypeOK
  <2>2. depReq' # None => depReq # None /\ depReq'.op = depReq.op
    BY <1>3 DEF TouchDeployment, TypeOK, ClusterTypeOK, DeploymentRequest
  <2>3. \A e \in depFresh' : e \in depFresh /\ deps'[e] = deps[e]
    BY <1>3 DEF TouchDeployment, TypeOK, ClusterTypeOK
  <2>4. \A e \in depFresh' : deps'[e] = None <=> depCache'[e] = None
    BY <1>3, <2>3
  <2> QED BY <2>1, <2>2, <2>4
<1>4. CASE CaughtUp /\ DeploymentSync
  <2>0. depFresh = Deployments
    BY <1>4 DEF CaughtUp
  <2>1. CASE CreateDeployment
    <3>1. Existing(deps) = {}
      BY <2>0, <2>1 DEF CreateDeployment, ownedDeployments, Existing, TypeOK,
         ClusterTypeOK
    <3> QED BY <2>1, <3>1 DEF CreateDeployment, apiVars, cacheVars
  <2>2. CASE UpdateDeployment
    <3>1. PICK d \in Newest(depCache, ownedDeployments), c \in Configs :
             depCache' = [depCache EXCEPT ![d].cm = c]
      BY <2>2, NewConfigMapsType DEF UpdateDeployment, TypeOK, ClusterTypeOK
    <3>2. d \in Deployments /\ depCache[d] # None
      BY NewestType DEF ownedDeployments, Existing, TypeOK, ClusterTypeOK
    <3>3. depCache'[d] \in DeploymentState
      BY <3>1, <3>2 DEF TypeOK, ClusterTypeOK, DeploymentState
    <3>4. depCache'[d] # None
      BY <3>3, ClusterAssumption
    <3>5. \A e \in Deployments : e # d => depCache'[e] = depCache[e]
      BY <3>1 DEF TypeOK, ClusterTypeOK
    <3>6. depReq'.op = "update"
      BY <2>2 DEF UpdateDeployment
    <3>7. UNCHANGED <<deps, depFresh>>
      BY <2>2 DEF UpdateDeployment, apiVars
    <3> QED BY <3>2, <3>4, <3>5, <3>6, <3>7 DEF TypeOK, ClusterTypeOK
  <2>3. CASE KeepDeployment
    <3>1. depReq' # None => depReq'.op = "delete"
      BY <2>3 DEF KeepDeployment, FinishDeploymentSync, DeleteRequest
    <3> QED BY <2>3, <3>1 DEF KeepDeployment, apiVars, cacheVars
  <2>4. CASE AwaitConfigMap \/ AmbiguousConfigMap
    BY <1>1, <2>4 DEF AwaitConfigMap, AmbiguousConfigMap,
       RequeueDeploymentSync, clusterVars, apiVars, cacheVars
  <2> QED BY <1>4, <2>1, <2>2, <2>3, <2>4 DEF DeploymentSync
<1>5. CASE DeploymentReply \/ DeploymentCallFails \/ DeploymentReplyLost
  <2>1. depReq # None /\ UNCHANGED depCache
    BY <1>5 DEF DeploymentReply, DeploymentCreated, DeploymentUpdated,
       DeploymentDeleted, DeploymentRejected, DeploymentCallFails,
       DeploymentReplyLost, DeploymentFrame
  <2>2. depReq' # None => depReq'.op = "delete"
    BY <1>5 DEF DeploymentReply, DeploymentCreated, DeploymentUpdated,
       DeploymentDeleted, DeploymentRejected, DeploymentCallFails,
       DeploymentReplyLost, FinishDeploymentSync, DeleteRequest
  <2>3. CASE StoreNewDeployment
    <3> DEFINE d == CHOOSE x \in UnusedDeployments : TRUE
    <3>1. d \in Deployments
      BY <2>3 DEF StoreNewDeployment, UnusedDeployments
    <3>2. PICK v : deps' = [deps EXCEPT ![d] = v]
      BY <2>3 DEF StoreNewDeployment
    <3>3. depFresh' = depFresh \ {d}
      BY <2>3 DEF StoreNewDeployment
    <3>4. Existing(deps) = {}
      BY <2>1, <2>3 DEF StoreNewDeployment
    <3>5. Existing(deps') \subseteq {d}
      BY <3>1, <3>2, <3>4 DEF Existing, TypeOK, ClusterTypeOK
    <3>6. \A e \in depFresh' : e \in depFresh /\ deps'[e] = deps[e]
      BY <3>2, <3>3 DEF TypeOK, ClusterTypeOK
    <3>7. \A e \in depFresh' : deps'[e] = None <=> depCache'[e] = None
      BY <2>1, <3>6
    <3> HIDE DEF d
    <3> QED BY <2>2, <3>5, <3>7
  <2>4. CASE StoreDeployment
    <3> DEFINE d == depReq.dep
    <3>1. d \in Deployments /\ deps[d] # None
      BY <2>1, <2>4 DEF StoreDeployment, TypeOK, ClusterTypeOK,
         DeploymentRequest
    <3>2. PICK v : deps' = [deps EXCEPT ![d] = v]
      BY <2>4 DEF StoreDeployment
    <3>3. depFresh' \subseteq depFresh /\ (d \notin depFresh' \/ deps' = deps)
      BY <2>4 DEF StoreDeployment
    <3>4. Existing(deps') \subseteq Existing(deps)
      BY <3>1, <3>2 DEF Existing, TypeOK, ClusterTypeOK
    <3>5. \A e \in depFresh' : e \in depFresh /\ deps'[e] = deps[e]
      BY <3>2, <3>3 DEF TypeOK, ClusterTypeOK
    <3>6. \A e \in depFresh' : deps'[e] = None <=> depCache'[e] = None
      BY <2>1, <3>5
    <3> QED BY <2>2, <3>4, <3>6
  <2>5. ASSUME NEW d \in depReq.doomed, RemoveDeployment(d)
        PROVE  DeploymentsInv'
    <3>1. Existing(deps') \subseteq Existing(deps)
      BY <2>5 DEF RemoveDeployment, Existing, TypeOK, ClusterTypeOK
    <3>2. \A e \in depFresh' : e \in depFresh /\ deps'[e] = deps[e]
      BY <2>5 DEF RemoveDeployment, TypeOK, ClusterTypeOK
    <3>3. \A e \in depFresh' : deps'[e] = None <=> depCache'[e] = None
      BY <2>1, <3>2
    <3>4. ~(depReq' # None /\ depReq'.op = "create")
      BY <2>2
    <3> QED BY <3>1, <3>3, <3>4
  <2>6. CASE UNCHANGED <<deps, depFresh>>
    BY <2>1, <2>2, <2>6
  <2> QED BY <1>5, <2>3, <2>4, <2>5, <2>6
      DEF DeploymentReply, DeploymentCreated, DeploymentUpdated,
          DeploymentDeleted, DeploymentRejected, DeploymentCallFails,
          DeploymentReplyLost
<1>6. CASE ConfigMapSync \/ ConfigMapReply \/ ConfigMapCallFails
             \/ ConfigMapReplyLost
  BY <1>1, <1>6 DEF ConfigMapSync, ConfigUnavailable, CreateConfigMap,
     ReuseWithoutDeployment, ReuseConfigMap, AwaitReplicaSet,
     ApplyOwnerRefToCM, TooManyConfigMaps, RequeueConfigMapSync,
     UpdateConfigMap, ConfigMapSyncFrame, ConfigMapReply, ConfigMapStored,
     ConfigMapRejected, ConfigMapCallFails, ConfigMapReplyLost,
     EndConfigMapSync, clusterVars, apiVars, cacheVars
<1>7. CASE Restart
  BY <1>7 DEF Restart, ClusterRestart, apiVars, Existing
<1>8. CASE Environment
  BY <1>1, <1>3, <1>8 DEF Environment, EndpointsEvent, ChangeEndpoints,
     ProxyEvent, UpdateStatus, DeleteDeployment, CleanupReplicaSet,
     clusterVars, apiVars, cacheVars
<1>9. CASE Deliver
  BY <1>1, <1>2, <1>9 DEF Deliver, ConfigMapEvent, DeploymentEvent,
     ReplicaSetEvent, RefreshConfigMap, RefreshReplicaSet, apiVars
<1>10. CASE Kubernetes
  BY <1>1, <1>3, <1>10 DEF Kubernetes, CreateReplicaSet, CollectReplicaSet,
     CollectConfigMap, cacheVars
<1>11. CASE UNCHANGED vars
  BY <1>1, <1>11 DEF vars, clusterVars, apiVars, cacheVars
<1> QED BY <1>4, <1>5, <1>6, <1>7, <1>8, <1>9, <1>10, <1>11
    DEF Next, Operator, Fault

(***************************************************************************)
(* At most one new ConfigMap, while the ConfigMap cache does not lag and   *)
(* no call fails unnoticed by the API server.  The cached copy the         *)
(* controller has edited is then never relied on before the API server has *)
(* taken the edit over: an up-to-date copy differs from the stored object  *)
(* only while the request that says so is in flight.                       *)
(***************************************************************************)
Edited(c) ==
  /\ cmReq # None
  /\ cmReq.op # "create"
  /\ cmReq.cm = c
  /\ cmReq.fresh

CopiesInv == \A c \in cmFresh : cmCache[c] = cms[c] \/ Edited(c)

RequestInv ==
  cmReq # None =>
    /\ cmReq.op \in {"create", "reuse"} => GetConfigMapsForProxy(cms) = {}
    /\ cmReq.op = "apply" => GetConfigMapsForProxy(cms) \subseteq {cmReq.cm}
    /\ cmReq.op # "create" /\ cmReq.fresh =>
         /\ cmReq.cm \in cmFresh
         /\ cms[cmReq.cm] # None
         /\ cmCache[cmReq.cm] = cmReq.owners

ConfigMapsInv == CopiesInv /\ RequestInv /\ AtMostOneNewConfigMap

LEMMA SameConfigMaps ==
  ASSUME TypeOK, ConfigMapsInv, "configmap" \notin Lag, CaughtUp, cmReq = None
  PROVE  cmCache = cms /\ cmFresh = Configs
<1>1. cmFresh = Configs
  BY DEF CaughtUp
<1>2. \A c \in Configs : cmCache[c] = cms[c]
  BY <1>1 DEF ConfigMapsInv, CopiesInv, Edited
<1> QED BY <1>1, <1>2 DEF TypeOK, ClusterTypeOK

LEMMA ConfigMapsSyncStep ==
  ASSUME TypeOK, ConfigMapsInv, "configmap" \notin Lag, CaughtUp, ConfigMapSync
  PROVE  ConfigMapsInv'
<1> USE DEF ConfigMapsInv, AtMostOneNewConfigMap
<1>1. cmCache = cms /\ cmFresh = Configs
  BY SameConfigMaps DEF ConfigMapSync, ConfigUnavailable, CreateConfigMap,
     ReuseWithoutDeployment, ReuseConfigMap, AwaitReplicaSet,
     ApplyOwnerRefToCM, TooManyConfigMaps, StartConfigMapSync
<1>2. CASE CreateConfigMap
  <2>1. GetConfigMapsForProxy(cms) = {}
    BY <1>1, <1>2 DEF CreateConfigMap, newConfigMaps
  <2>2. cmReq'.op = "create" /\ UNCHANGED <<cms, cmCache, cmFresh>>
    BY <1>2 DEF CreateConfigMap, ConfigMapSyncFrame, apiVars
  <2> QED BY <1>1, <2>1, <2>2 DEF CopiesInv, RequestInv
<1>3. ASSUME NEW op \in {"reuse", "apply"}, NEW c \in Configs,
             NEW owners \in SUBSET Owners, UpdateConfigMap(op, c, owners),
             cmCache[c] # None,
             \/ GetConfigMapsForProxy(cms) = {}
             \/ op = "apply" /\ GetConfigMapsForProxy(cms) = {c}
      PROVE  ConfigMapsInv'
  <2>1. /\ cmReq' = [op |-> op, cm |-> c, owners |-> owners, fresh |-> TRUE]
        /\ cmCache' = [cmCache EXCEPT ![c] = owners]
        /\ UNCHANGED <<cms, cmFresh>>
    BY <1>1, <1>3 DEF UpdateConfigMap, ConfigMapSyncFrame, apiVars
  <2>2. cmReq' # None
    <3>1. cmReq' \in ConfigMapRequest
      BY <1>3, <2>1 DEF ConfigMapRequest
    <3> QED BY <3>1, ClusterAssumption
  <2>3. CopiesInv'
    BY <1>1, <1>3, <2>1, <2>2 DEF CopiesInv, Edited, TypeOK, ClusterTypeOK
  <2>4. RequestInv'
    BY <1>1, <1>3, <2>1 DEF RequestInv, TypeOK, ClusterTypeOK
  <2> QED BY <2>1, <2>3, <2>4
<1>4. CASE ReuseConfigMap
  <2>1. config \in Configs
    BY <1>4 DEF ReuseConfigMap, TypeOK, ClusterTypeOK
  <2>2. PICK owners \in SUBSET Owners :
           UpdateConfigMap("reuse", config, owners)
    BY <1>4, <2>1 DEF ReuseConfigMap, TypeOK, ClusterTypeOK, Owners
  <2>3. GetConfigMapsForProxy(cms) = {}
    BY <1>1, <1>4 DEF ReuseConfigMap, newConfigMaps
  <2> QED BY <1>3, <1>4, <2>1, <2>2, <2>3 DEF ReuseConfigMap
<1>5. CASE ApplyOwnerRefToCM
  <2>1. PICK c \in newConfigMaps :
           /\ newConfigMaps = {c}
           /\ \E owners \in SUBSET Owners :
                 UpdateConfigMap("apply", c, owners)
    <3>1. PICK c \in newConfigMaps, d \in newestDeployments :
             /\ newConfigMaps = {c}
             /\ \E r \in GetNewRSForProxy(d) :
                   UpdateConfigMap("apply", c, (cmCache[c] \cup {r}) \ {Proxy})
      BY <1>5 DEF ApplyOwnerRefToCM
    <3>2. cmCache[c] \in SUBSET Owners
      BY NewConfigMapsType DEF newConfigMaps, TypeOK, ClusterTypeOK
    <3>3. GetNewRSForProxy(d) \subseteq Owners
      BY DEF GetNewRSForProxy, TypeOK, ClusterTypeOK, Owners
    <3> QED BY <3>1, <3>2, <3>3
  <2>2. c \in Configs /\ cmCache[c] # None
    BY NewConfigMapsType DEF newConfigMaps, TypeOK, ClusterTypeOK
  <2>3. GetConfigMapsForProxy(cms) = {c}
    BY <1>1, <2>1 DEF newConfigMaps
  <2> QED BY <1>3, <2>1, <2>2, <2>3
<1>6. CASE \/ ConfigUnavailable \/ ReuseWithoutDeployment \/ AwaitReplicaSet
           \/ TooManyConfigMaps
  BY <1>6 DEF ConfigUnavailable, ReuseWithoutDeployment, AwaitReplicaSet,
     TooManyConfigMaps, RequeueConfigMapSync, clusterVars, apiVars, cacheVars,
     CopiesInv, Edited, RequestInv
<1> QED BY <1>2, <1>4, <1>5, <1>6 DEF ConfigMapSync

LEMMA ConfigMapsStep ==
  ASSUME TypeOK, ConfigMapsInv, "configmap" \notin Lag,
         "failure" \notin Disturbances, [Next]_vars
  PROVE  ConfigMapsInv'
<1> USE DEF ConfigMapsInv, AtMostOneNewConfigMap
<1>1. ASSUME UNCHANGED <<cms, cmCache, cmFresh, cmReq>>
      PROVE  ConfigMapsInv'
  BY <1>1 DEF CopiesInv, Edited, RequestInv, GetConfigMapsForProxy, Existing
<1>2. ASSUME NEW c \in Configs, CollectConfigMap(c)
      PROVE  ConfigMapsInv'
  <2>1. GetConfigMapsForProxy(cms') \subseteq GetConfigMapsForProxy(cms)
    BY <1>2 DEF CollectConfigMap, GetConfigMapsForProxy, Existing, TypeOK,
       ClusterTypeOK
  <2>2. /\ cmFresh' = cmFresh \ {c}
        /\ UNCHANGED cmCache
        /\ \A e \in Configs : e # c => cms'[e] = cms[e]
    BY <1>2 DEF CollectConfigMap, TouchConfigMap, TypeOK, ClusterTypeOK
  <2>3. cmReq # None => cmReq \in ConfigMapRequest
    BY DEF TypeOK, ClusterTypeOK
  <2>4. cmReq' # None =>
          /\ cmReq # None
          /\ cmReq'.op = cmReq.op /\ cmReq'.cm = cmReq.cm
          /\ cmReq'.owners = cmReq.owners
          /\ cmReq'.fresh => cmReq.fresh /\ cmReq.cm # c
    BY <1>2, <2>3 DEF CollectConfigMap, TouchConfigMap, ConfigMapRequest
  <2>5. cmReq # None /\ cmReq.cm # c => cmReq' = cmReq
    BY <1>2 DEF CollectConfigMap, TouchConfigMap
  <2>6. CopiesInv'
    BY <2>2, <2>5 DEF CopiesInv, Edited, TypeOK, ClusterTypeOK
  <2>7. RequestInv'
    BY <2>1, <2>2, <2>3, <2>4 DEF RequestInv, ConfigMapRequest
  <2> QED BY <2>1, <2>6, <2>7
<1>3. ASSUME NEW c \in Configs, RefreshConfigMap(c)
      PROVE  ConfigMapsInv'
  <2>1. /\ UNCHANGED <<cms, cmReq>>
        /\ c \notin cmFresh
        /\ cmFresh' = cmFresh \cup {c}
        /\ cmCache'[c] = cms[c]
        /\ \A e \in Configs : e # c => cmCache'[e] = cmCache[e]
    BY <1>3 DEF RefreshConfigMap, apiVars, TypeOK, ClusterTypeOK
  <2>2. CopiesInv'
    BY <2>1 DEF CopiesInv, Edited, TypeOK, ClusterTypeOK
  <2>3. RequestInv'
    BY <2>1 DEF RequestInv, TypeOK, ClusterTypeOK, ConfigMapRequest
  <2> QED BY <2>1, <2>2, <2>3
<1>4. CASE CaughtUp /\ (ConfigMapReply \/ ConfigMapReplyLost)
  <2>1. /\ cmReq # None /\ cmReq \in ConfigMapRequest
        /\ cmReq' = None
        /\ UNCHANGED cmCache
        /\ cmFresh = Configs
    BY <1>4 DEF ConfigMapReply, ConfigMapStored, ConfigMapRejected,
       ConfigMapReplyLost, EndConfigMapSync, TypeOK, ClusterTypeOK, CaughtUp
  <2>2. CASE ConfigMapAccepted /\ StoreConfigMap
    <3> DEFINE c == cmReq.cm
    <3>1. c \in Configs
      BY <2>1 DEF ConfigMapRequest
    <3>2. cms' = [cms EXCEPT ![c] = cmReq.owners]
      BY <2>2 DEF StoreConfigMap
    <3>3. \A e \in Configs : e # c => cms'[e] = cms[e]
      BY <3>2 DEF TypeOK, ClusterTypeOK
    <3>4. GetConfigMapsForProxy(cms') \subseteq {c}
      BY <2>1, <3>1, <3>2 DEF GetConfigMapsForProxy, Existing, RequestInv,
         TypeOK, ClusterTypeOK, ConfigMapRequest
    <3>5. CopiesInv'
      <4>1. c \in cmFresh' => cmCache[c] = cms'[c]
        <5>1. SUFFICES ASSUME c \in cmFresh' PROVE cmCache[c] = cms'[c]
          OBVIOUS
        <5>2. cms' = cms /\ cms[c] = cmReq.owners
          BY <2>2, <3>1, <3>2, <5>1 DEF StoreConfigMap, TypeOK, ClusterTypeOK
        <5>3. CASE cmReq.op = "create"
          BY <2>1, <3>1, <5>2, <5>3 DEF CopiesInv, Edited
        <5>4. CASE cmReq.op # "create"
          BY <2>1, <2>2, <5>2, <5>4 DEF ConfigMapAccepted, RequestInv
        <5> QED BY <5>3, <5>4
      <4>2. \A e \in cmFresh' : e # c => cmCache[e] = cms'[e]
        BY <2>1, <2>2, <3>3 DEF StoreConfigMap, CopiesInv, Edited, TypeOK,
           ClusterTypeOK
      <4> QED BY <2>1, <4>1, <4>2 DEF CopiesInv
    <3> QED BY <2>1, <3>4, <3>5 DEF RequestInv
  <2>3. CASE ~ConfigMapAccepted /\ UNCHANGED <<cms, cmFresh>>
    <3>1. \A c \in Configs : ~Edited(c)
      BY <2>1, <2>3 DEF ConfigMapAccepted, Edited, RequestInv
    <3> QED BY <2>1, <2>3, <3>1 DEF CopiesInv, RequestInv
  <2> QED BY <1>4, <2>2, <2>3 DEF ConfigMapReply, ConfigMapStored,
      ConfigMapRejected, ConfigMapReplyLost
<1>5. CASE Restart
  BY <1>5 DEF Restart, ClusterRestart, apiVars, CopiesInv, RequestInv,
     GetConfigMapsForProxy, Existing
<1>6. ASSUME ConfigMapCallFails PROVE FALSE
  BY <1>6 DEF ConfigMapCallFails, Disturb
<1>7. CASE DeploymentSync \/ DeploymentReply \/ DeploymentCallFails
             \/ DeploymentReplyLost
  BY <1>1, <1>7 DEF DeploymentSync, AwaitConfigMap, AmbiguousConfigMap,
     RequeueDeploymentSync, CreateDeployment, UpdateDeployment,
     KeepDeployment, DeploymentReply, DeploymentCreated, DeploymentUpdated,
     DeploymentDeleted, DeploymentRejected, DeploymentCallFails,
     DeploymentReplyLost, DeploymentFrame, clusterVars, apiVars, cacheVars
<1>8. CASE Environment
  BY <1>1, <1>8 DEF Environment, EndpointsEvent, ChangeEndpoints, ProxyEvent,
     UpdateStatus, DeleteDeployment, CleanupReplicaSet, clusterVars,
     apiVars, cacheVars
<1>9. CASE Deliver
  BY <1>1, <1>3, <1>9 DEF Deliver, ConfigMapEvent, DeploymentEvent,
     ReplicaSetEvent, RefreshDeployment, RefreshReplicaSet, apiVars
<1>10. CASE Kubernetes
  BY <1>1, <1>2, <1>10 DEF Kubernetes, CreateReplicaSet, CollectReplicaSet,
     cacheVars
<1>11. CASE UNCHANGED vars
  BY <1>1, <1>11 DEF vars, clusterVars, apiVars, cacheVars
<1> QED BY <1>4, <1>5, <1>6, <1>7, <1>8, <1>9, <1>10, <1>11,
    ConfigMapsSyncStep DEF Next, Operator, Fault

\* With a ConfigMap cache that keeps up, and unless a call fails after the
\* cached object has been edited, restarts, conflicts and lost answers never
\* lead to a second new ConfigMap.
THEOREM OneNewConfigMap ==
  ASSUME "configmap" \notin Lag, "failure" \notin Disturbances
  PROVE  Spec => []AtMostOneNewConfigMap
<1>1. Init => ConfigMapsInv
  BY DEF Init, ClusterInit, ConfigMapsInv, CopiesInv, RequestInv,
     AtMostOneNewConfigMap, GetConfigMapsForProxy, Existing
<1>2. ConfigMapsInv => AtMostOneNewConfigMap
  BY DEF ConfigMapsInv
<1> QED BY <1>1, <1>2, TypeCorrect, ConfigMapsStep, PTL DEF Spec

(***************************************************************************)
(* Cleaning up never removes the last Deployment, if creation times tell   *)
(* Deployments apart and users delete none.  The latest one of all is      *)
(* never doomed: a cache that shows it has it first, and a cache that does *)
(* not has nothing to doom it for.  What a stale cache still shows besides *)
(* is older.                                                               *)
(***************************************************************************)
Latest(m) ==
  /\ deps[m] # None
  /\ \A e \in Existing(deps) : e # m => deps[e].created < deps[m].created
  /\ \A e \in Existing(depCache) : e # m => depCache[e].created < deps[m].created
  /\ depCache[m] # None => depCache[m].created = deps[m].created
  /\ depReq # None => m \notin depReq.doomed

CleanupInv ==
  /\ depReq # None /\ depReq.op = "create" => depReq.doomed = {}
  /\ \/ /\ Existing(deps) = {} /\ Existing(depCache) = {}
        /\ depReq # None => depReq.doomed = {}
     \/ \E m \in Deployments : Latest(m)

LEMMA LatestKept ==
  ASSUME TypeOK, NEW m \in Deployments, Latest(m), TypeOK',
         deps'[m] # None,
         \A e \in Deployments : deps'[e] # None =>
            deps[e] # None /\ deps'[e].created = deps[e].created,
         \A e \in Deployments : depCache'[e] # None =>
            \/ depCache[e] # None /\ depCache'[e].created = depCache[e].created
            \/ deps[e] # None /\ depCache'[e].created = deps[e].created,
         depReq' # None => m \notin depReq'.doomed
  PROVE  Latest(m)'
<1>1. \A e \in Deployments : deps'[e] # None /\ e # m =>
         deps'[e].created < deps'[m].created
  BY DEF Latest, Existing, TypeOK, ClusterTypeOK
<1>2. \A e \in Deployments : depCache'[e] # None =>
         IF e = m THEN depCache'[e].created = deps'[m].created
         ELSE depCache'[e].created < deps'[m].created
  BY DEF Latest, Existing, TypeOK, ClusterTypeOK
<1> QED BY <1>1, <1>2 DEF Latest, Existing, TypeOK, ClusterTypeOK

\* A run of syncHandler does not doom the latest Deployment.
LEMMA LatestSpared ==
  ASSUME TypeOK, NEW m \in Deployments, Latest(m),
         NEW d \in Newest(depCache, ownedDeployments), NEW doomed \in Doomed(d)
  PROVE  m \notin doomed
<1>1. CASE m \notin ownedDeployments
  BY <1>1 DEF Doomed
<1>2. CASE m \in ownedDeployments
  <2>1. d \in ownedDeployments /\ depCache[m].created <= depCache[d].created
    BY <1>2 DEF Newest
  <2>2. d \in Deployments /\ depCache[d].created \in Nat /\ depCache[m].created \in Nat
    BY <1>2, <2>1 DEF ownedDeployments, Existing, TypeOK, ClusterTypeOK,
       DeploymentState
  <2>3. d = m
    BY <1>2, <2>1, <2>2 DEF Latest, ownedDeployments, Existing
  <2> QED BY <2>3 DEF Doomed
<1> QED BY <1>1, <1>2

LEMMA CleanupStep ==
  ASSUME "sameSecond" \notin Disturbances, "delete" \notin Disturbances
  PROVE  TypeOK /\ CleanupInv /\ [Next]_vars => CleanupInv'
<1> SUFFICES ASSUME TypeOK, CleanupInv, [Next]_vars
             PROVE  CleanupInv'
  OBVIOUS
<1>0. TypeOK'
  BY NextType
\* Steps that create nothing: of the stored Deployments, the copies and the
\* doomed none is new, and the latest Deployment is not removed.
<1>1. ASSUME \A e \in Deployments : deps'[e] # None =>
                deps[e] # None /\ deps'[e].created = deps[e].created,
             \A e \in Deployments : depCache'[e] # None =>
                \/ /\ depCache[e] # None
                   /\ depCache'[e].created = depCache[e].created
                \/ deps[e] # None /\ depCache'[e].created = deps[e].created,
             \A m \in Deployments : Latest(m) => deps'[m] # None,
             depReq' # None =>
               /\ depReq'.op = "create" => depReq'.doomed = {}
               /\ \A e \in depReq'.doomed : depCache[e] # None \/
                      (depReq # None /\ e \in depReq.doomed)
               /\ \A m \in Deployments : Latest(m) => m \notin depReq'.doomed
      PROVE  CleanupInv'
  <2>1. CASE \E m \in Deployments : Latest(m)
    <3>1. PICK m \in Deployments : Latest(m)
      BY <2>1
    <3>2. Latest(m)'
      BY <1>0, <1>1, <3>1, LatestKept
    <3> QED BY <1>1, <3>2 DEF CleanupInv
  <2>2. CASE /\ Existing(deps) = {} /\ Existing(depCache) = {}
             /\ depReq # None => depReq.doomed = {}
    <3>1. \A e \in Deployments : deps[e] = None /\ depCache[e] = None
      BY <2>2 DEF Existing, TypeOK, ClusterTypeOK
    <3>2. \A e \in Deployments : deps'[e] = None /\ depCache'[e] = None
      BY <1>1, <3>1
    <3>3. Existing(deps)' = {} /\ Existing(depCache)' = {}
      BY <1>0, <3>2 DEF Existing, TypeOK, ClusterTypeOK
    <3>4. depReq' # None => depReq'.doomed \subseteq Deployments
      BY <1>0 DEF TypeOK, ClusterTypeOK, DeploymentRequest
    <3>5. depReq' # None => depReq'.doomed = {}
      BY <1>1, <2>2, <3>1, <3>4
    <3> QED BY <3>3, <3>5 DEF CleanupInv
  <2> QED BY <2>1, <2>2 DEF CleanupInv
<1>2. \A m \in Deployments : Latest(m) =>
         deps[m] # None /\ (depReq # None => m \notin depReq.doomed)
  BY DEF Latest
<1>3. depReq # None /\ depReq.op = "create" => depReq.doomed = {}
  BY DEF CleanupInv
<1>4. CASE UNCHANGED <<deps, depCache, depReq>>
  BY <1>1, <1>2, <1>3, <1>4
<1>5. ASSUME NEW d \in Deployments, RefreshDeployment(d)
      PROVE  CleanupInv'
  <2>1. UNCHANGED <<deps, depReq>>
    BY <1>5 DEF RefreshDeployment, apiVars
  <2>2. \A e \in Deployments : depCache'[e] = depCache[e] \/ depCache'[e] = deps[e]
    BY <1>5 DEF RefreshDeployment, TypeOK, ClusterTypeOK
  <2> QED BY <1>1, <1>2, <1>3, <2>1, <2>2
<1>6. ASSUME NEW d \in Deployments, TouchDeployment(d), UNCHANGED <<deps, depCache>>
      PROVE  CleanupInv'
  <2>1. depReq' # None => /\ depReq # None /\ depReq'.op = depReq.op
                          /\ depReq'.doomed = depReq.doomed
    BY <1>6 DEF TouchDeployment, TypeOK, ClusterTypeOK, DeploymentRequest
  <2> QED BY <1>1, <1>2, <1>3, <1>6, <2>1
<1>7. ASSUME NEW d \in Newest(depCache, ownedDeployments), NEW doomed \in Doomed(d)
      PROVE  /\ \A e \in doomed : depCache[e] # None
             /\ \A m \in Deployments : Latest(m) => m \notin doomed
  BY <1>7, LatestSpared DEF Doomed, ownedDeployments, Existing
<1>8. CASE DeploymentSync
  <2>1. UNCHANGED deps
    BY <1>8 DEF DeploymentSync, AwaitConfigMap, AmbiguousConfigMap,
       CreateDeployment, UpdateDeployment, KeepDeployment,
       RequeueDeploymentSync, clusterVars, apiVars
  <2>2. CASE CreateDeployment
    <3>1. UNCHANGED depCache /\ depReq'.doomed = {}
      BY <2>2 DEF CreateDeployment, cacheVars
    <3> QED BY <1>1, <1>2, <2>1, <3>1
  <2>3. CASE UpdateDeployment
    <3>1. PICK d \in Newest(depCache, ownedDeployments), c \in Configs :
             /\ depCache' = [depCache EXCEPT ![d].cm = c]
             /\ depReq'.op = "update" /\ depReq'.doomed \in Doomed(d)
      <4>1. PICK d \in Newest(depCache, ownedDeployments),
                 c \in GetConfigMapsForProxy(cmCache) :
               /\ depCache' = [depCache EXCEPT ![d].cm = c]
               /\ \E doomed \in Doomed(d) :
                     depReq' = [op |-> "update", dep |-> d, cm |-> c,
                                fresh |-> d \in depFresh,
                                extra |-> ownedDeployments # {d}, doomed |-> doomed]
        BY <2>3 DEF UpdateDeployment
      <4>2. depReq'.op = "update" /\ depReq'.doomed \in Doomed(d)
        BY <4>1
      <4>3. c \in Configs
        BY NewConfigMapsType DEF TypeOK, ClusterTypeOK
      <4> QED BY <4>1, <4>2, <4>3
    <3>2. d \in Deployments /\ depCache[d] \in DeploymentState
      BY NewestType DEF ownedDeployments, Existing, TypeOK, ClusterTypeOK
    <3>3. \A e \in Deployments : depCache'[e] # None =>
             depCache[e] # None /\ depCache'[e].created = depCache[e].created
      BY <3>1, <3>2, ClusterAssumption DEF TypeOK, ClusterTypeOK, DeploymentState
    <3> QED BY <1>1, <1>2, <1>7, <2>1, <3>1, <3>3
  <2>4. CASE KeepDeployment
    <3>1. PICK d \in Newest(depCache, ownedDeployments) :
             depReq' # None => depReq'.op = "delete" /\ depReq'.doomed \in Doomed(d)
      BY <2>4 DEF KeepDeployment, FinishDeploymentSync, DeleteRequest
    <3>2. UNCHANGED depCache
      BY <2>4 DEF KeepDeployment, cacheVars
    <3> QED BY <1>1, <1>2, <1>7, <2>1, <3>1, <3>2
  <2>5. CASE AwaitConfigMap \/ AmbiguousConfigMap
    BY <1>4, <2>5 DEF AwaitConfigMap, AmbiguousConfigMap,
       RequeueDeploymentSync, clusterVars, apiVars, cacheVars
  <2> QED BY <1>8, <2>2, <2>3, <2>4, <2>5 DEF DeploymentSync
<1>9. CASE DeploymentReply \/ DeploymentCallFails \/ DeploymentReplyLost
  <2>1. depReq # None /\ UNCHANGED depCache
    BY <1>9 DEF DeploymentReply, DeploymentCreated, DeploymentUpdated,
       DeploymentDeleted, DeploymentRejected, DeploymentCallFails,
       DeploymentReplyLost, DeploymentFrame
  <2>2. depReq' # None => /\ depReq'.op = "delete"
                          /\ depReq'.doomed \subseteq depReq.doomed
    BY <1>9 DEF DeploymentReply, DeploymentCreated, DeploymentUpdated,
       DeploymentDeleted, DeploymentRejected, DeploymentCallFails,
       DeploymentReplyLost, FinishDeploymentSync, DeleteRequest
  <2>3. CASE StoreNewDeployment
    <3>0. PICK d \in UnusedDeployments, t \in CreationTimes :
             deps' = [deps EXCEPT ![d] = [cm |-> depReq.cm, created |-> t]]
      BY <2>3 DEF StoreNewDeployment
    <3>1. d \in Deployments /\ deps[d] = None /\ depCache[d] = None
      BY DEF UnusedDeployments
    <3>2. /\ t \in CreationTimes
          /\ deps' = [deps EXCEPT ![d] = [cm |-> depReq.cm, created |-> t]]
      BY <3>0
    <3>3. /\ \A e \in Existing(deps) : deps[e].created < t
          /\ \A e \in Existing(depCache) : depCache[e].created < t
      BY <3>2 DEF CreationTimes
    <3>4. depReq.op = "create" /\ depReq.doomed = {}
      BY <1>3, <2>1, <2>3 DEF StoreNewDeployment
    <3>5. deps'[d] = [cm |-> depReq.cm, created |-> t]
      BY <3>1, <3>2 DEF TypeOK, ClusterTypeOK
    <3>6. deps'[d] # None
      <4>1. deps'[d].created = t
        BY <3>5
      <4>2. depReq.cm \in Configs
        BY <2>1, <3>4 DEF TypeOK, ClusterTypeOK, DeploymentRequest
      <4>3. t \in Nat
        BY <3>2 DEF CreationTimes, Existing, DeploymentState, TypeOK, ClusterTypeOK
      <4> QED BY <3>5, <4>2, <4>3, ClusterAssumption DEF DeploymentState
    <3>7. \A e \in Deployments : e # d => deps'[e] = deps[e]
      BY <3>2 DEF TypeOK, ClusterTypeOK
    <3>8. Latest(d)'
      <4>1. \A e \in Existing(deps)' : e # d => deps'[e].created < deps'[d].created
        BY <1>0, <3>3, <3>5, <3>7 DEF Existing, TypeOK, ClusterTypeOK
      <4>2. \A e \in Existing(depCache)' : depCache'[e].created < deps'[d].created
        BY <2>1, <3>3, <3>5 DEF Existing
      <4>3. depReq' # None => d \notin depReq'.doomed
        BY <2>2, <3>4
      <4> QED BY <2>1, <3>1, <3>6, <4>1, <4>2, <4>3 DEF Latest
    <3> QED BY <2>2, <3>1, <3>8 DEF CleanupInv
  <2>4. CASE StoreDeployment
    <3>1. depReq.dep \in Deployments /\ deps[depReq.dep] \in DeploymentState
          /\ depReq.cm \in Configs
      BY <2>1, <2>4 DEF StoreDeployment, TypeOK, ClusterTypeOK,
         DeploymentRequest
    <3>2. \A e \in Deployments : (deps'[e] = None <=> deps[e] = None)
             /\ (deps[e] # None => deps'[e].created = deps[e].created)
      BY <2>4, <3>1, <1>0, ClusterAssumption
         DEF StoreDeployment, TypeOK, ClusterTypeOK, DeploymentState
    <3> QED BY <1>1, <1>2, <2>1, <2>2, <3>2
  <2>5. ASSUME NEW d \in depReq.doomed, RemoveDeployment(d)
        PROVE  CleanupInv'
    <3>1. \A e \in Deployments : IF e = d THEN deps'[e] = None ELSE deps'[e] = deps[e]
      BY <2>5 DEF RemoveDeployment, TypeOK, ClusterTypeOK
    <3> QED BY <1>1, <1>2, <2>1, <2>2, <2>5, <3>1
  <2>6. CASE UNCHANGED <<deps, depFresh>>
    BY <1>1, <1>2, <2>1, <2>2, <2>6
  <2> QED BY <1>9, <2>3, <2>4, <2>5, <2>6
      DEF DeploymentReply, DeploymentCreated, DeploymentUpdated,
          DeploymentDeleted, DeploymentRejected, DeploymentCallFails,
          DeploymentReplyLost
<1>10. CASE ConfigMapSync \/ ConfigMapReply \/ ConfigMapCallFails
              \/ ConfigMapReplyLost
  BY <1>4, <1>10 DEF ConfigMapSync, ConfigUnavailable, CreateConfigMap,
     ReuseWithoutDeployment, ReuseConfigMap, AwaitReplicaSet,
     ApplyOwnerRefToCM, TooManyConfigMaps, RequeueConfigMapSync,
     UpdateConfigMap, ConfigMapSyncFrame, ConfigMapReply, ConfigMapStored,
     ConfigMapRejected, ConfigMapCallFails, ConfigMapReplyLost,
     EndConfigMapSync, clusterVars, apiVars, cacheVars
<1>11. CASE Restart
  <2>1. UNCHANGED deps /\ depCache' = deps /\ depReq' = None
    BY <1>11 DEF Restart, ClusterRestart, apiVars
  <2> QED BY <1>1, <1>2, <2>1
<1>12. CASE Environment
  BY <1>4, <1>6, <1>12 DEF Environment, EndpointsEvent, ChangeEndpoints,
     ProxyEvent, UpdateStatus, DeleteDeployment, Disturb,
     CleanupReplicaSet, clusterVars, apiVars, cacheVars
<1>13. CASE Deliver
  BY <1>4, <1>5, <1>13 DEF Deliver, ConfigMapEvent, DeploymentEvent,
     ReplicaSetEvent, RefreshConfigMap, RefreshReplicaSet, apiVars
<1>14. CASE Kubernetes
  BY <1>4, <1>6, <1>14 DEF Kubernetes, CreateReplicaSet, CollectReplicaSet,
     CollectConfigMap, cacheVars
<1>15. CASE UNCHANGED vars
  BY <1>4, <1>15 DEF vars, clusterVars, apiVars, cacheVars
<1> QED BY <1>8, <1>9, <1>10, <1>11, <1>12, <1>13, <1>14, <1>15
    DEF Next, Operator, Fault

\* However many Deployments a stale cache, a lost answer or a restart has led
\* to, deleteDeployments leaves one, if no two are created within a second and
\* users delete none.
THEOREM CleanupIsSafe ==
  ASSUME "sameSecond" \notin Disturbances, "delete" \notin Disturbances
  PROVE  Spec => CleanupKeepsADeployment
<1>1. Init => CleanupInv
  BY DEF Init, ClusterInit, CleanupInv, Existing
<1>2. TypeOK /\ CleanupInv /\ [Next]_vars =>
        [\A d \in Deployments :
           depReq # None /\ RemoveDeployment(d) => Existing(deps') # {}]_vars
  <2> SUFFICES ASSUME TypeOK, CleanupInv, NEW d \in Deployments,
                      depReq # None, RemoveDeployment(d)
               PROVE  Existing(deps') # {}
    OBVIOUS
  <2>1. d \in depReq.doomed /\ deps' = [deps EXCEPT ![d] = None]
    BY DEF RemoveDeployment
  <2>2. PICK m \in Deployments : Latest(m)
    BY <2>1 DEF CleanupInv
  <2>3. m # d /\ deps[m] # None
    BY <2>1, <2>2 DEF Latest
  <2> QED BY <2>1, <2>3 DEF Existing, TypeOK, ClusterTypeOK
<1> QED BY <1>1, <1>2, TypeCorrect, CleanupStep, PTL DEF Spec, CleanupKeepsADeployment
=============================================================================
