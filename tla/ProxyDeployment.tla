--------------------------- MODULE ProxyDeployment ---------------------------
(***************************************************************************)
(* The deployment controller of the operator                               *)
(* (internal/controller/proxydeployment) for one MemcachedProxy whose spec *)
(* the proxy controller has observed.  As in ProxyConfigMap, a syncHandler *)
(* run is a step that reads the caches and edits the cached Deployment in  *)
(* place, followed by one step for each API call.                          *)
(***************************************************************************)
EXTENDS Cluster

VARIABLE depQueued

ownedDeployments == Existing(depCache)

StartDeploymentSync == depQueued /\ depReq = None

RequeueDeploymentSync ==
  /\ depQueued' = TRUE
  /\ UNCHANGED clusterVars

\* createDeployment without a ConfigMap to mount.
AwaitConfigMap ==
  /\ StartDeploymentSync
  /\ ownedDeployments = {}
  /\ GetConfigMapsForProxy(cmCache) = {}
  /\ RequeueDeploymentSync

\* GetConfigMapForProxy finds several ConfigMaps, when creating or updating.
AmbiguousConfigMap ==
  /\ StartDeploymentSync
  /\ \E c1, c2 \in GetConfigMapsForProxy(cmCache) : c1 # c2
  /\ RequeueDeploymentSync

\* Mutant: a Deployment is created for every new ConfigMap.
CreateDeploymentAnyway ==
  /\ StartDeploymentSync
  /\ UnusedDeployments # {}
  /\ \E c \in GetConfigMapsForProxy(cmCache) :
        depReq' = [op |-> "create", dep |-> None, cm |-> c, fresh |-> TRUE,
                   extra |-> FALSE, doomed |-> {}]
  /\ depQueued' = FALSE
  /\ UNCHANGED <<config, apiVars, cacheVars, cmReq, disturbed>>

\* (No Deployment is created beyond the bound Deployments sets.)
CreateDeployment ==
  /\ StartDeploymentSync
  /\ ownedDeployments = {}
  /\ UnusedDeployments # {}
  /\ \E c \in GetConfigMapsForProxy(cmCache) :
        /\ GetConfigMapsForProxy(cmCache) = {c}
        /\ depReq' = [op |-> "create", dep |-> None, cm |-> c, fresh |-> TRUE,
                      extra |-> FALSE, doomed |-> {}]
  /\ depQueued' = FALSE
  /\ UNCHANGED <<config, apiVars, cacheVars, cmReq, disturbed>>

\* Mutant: the list of the others includes d.
DoomedWithNewest(d) ==
  IF ownedDeployments = {d} THEN {{}} ELSE {ownedDeployments}

\* What deleteDeployments is to delete when d comes first in the sorted list:
\* dList leaves d out, and dList[1:] leaves out another one.
Doomed(d) ==
  LET dList == ownedDeployments \ {d}
  IN IF dList = {} THEN {{}} ELSE {dList \ {e} : e \in Newest(depCache, dList)}

DeleteRequest(doomed) ==
  [op |-> "delete", dep |-> None, cm |-> None, fresh |-> TRUE, extra |-> TRUE,
   doomed |-> doomed]

\* The end of syncHandler, once the newest Deployment is up to date: the doomed
\* Deployments are deleted, and an error requeues the key if there were others.
FinishDeploymentSync(queued, extra, doomed) ==
  /\ depReq' = IF doomed = {} THEN None ELSE DeleteRequest(doomed)
  /\ depQueued' = (queued \/ (doomed = {} /\ extra))

UpdateDeployment ==
  /\ StartDeploymentSync
  /\ \E d \in Newest(depCache, ownedDeployments),
        c \in GetConfigMapsForProxy(cmCache) :
        /\ GetConfigMapsForProxy(cmCache) = {c}
        /\ depCache' = [depCache EXCEPT ![d].cm = c]
        /\ \E doomed \in Doomed(d) :
              depReq' = [op |-> "update", dep |-> d, cm |-> c,
                         fresh |-> d \in depFresh,
                         extra |-> ownedDeployments # {d}, doomed |-> doomed]
  /\ depQueued' = FALSE
  /\ UNCHANGED <<config, apiVars, cmCache, rsCache, cmFresh, depFresh, cmReq,
                 disturbed>>

\* Mutant: updateDeployment mounts the ConfigMap it did not find.
MountNothing ==
  /\ StartDeploymentSync
  /\ GetConfigMapsForProxy(cmCache) = {}
  /\ \E d \in Newest(depCache, ownedDeployments) :
        depCache' = [depCache EXCEPT ![d].cm = None]
  /\ depQueued' = FALSE
  /\ UNCHANGED <<config, apiVars, cmCache, rsCache, cmFresh, depFresh, cmReq,
                 depReq, disturbed>>

\* updateDeployment without a new ConfigMap does nothing.
KeepDeployment ==
  /\ StartDeploymentSync
  /\ GetConfigMapsForProxy(cmCache) = {}
  /\ \E d \in Newest(depCache, ownedDeployments) :
        \E doomed \in Doomed(d) :
           FinishDeploymentSync(FALSE, ownedDeployments # {d}, doomed)
  /\ UNCHANGED <<config, apiVars, cacheVars, cmReq, disturbed>>
-----------------------------------------------------------------------------
DeploymentFrame ==
  UNCHANGED <<config, cms, rss, cmCache, depCache, rsCache, cmFresh, cmReq>>

\* Creation times are whole seconds: later than those of the Deployments around,
\* or, when two are created within a second, that of the latest.
CreationTimes ==
  LET known == {deps[d].created : d \in Existing(deps)}
                 \cup {depCache[d].created : d \in Existing(depCache)}
  IN {t \in {0} \cup known \cup {k + 1 : k \in known} :
        \A k \in known : k < t \/ (k = t /\ "sameSecond" \in Disturbances)}

StoreNewDeployment ==
  /\ depReq.op = "create"
  /\ UnusedDeployments # {}
  /\ LET d == CHOOSE d \in UnusedDeployments : TRUE
     IN /\ \E t \in CreationTimes :
              deps' = [deps EXCEPT ![d] = [cm |-> depReq.cm, created |-> t]]
        /\ depFresh' = depFresh \ {d}

StoreDeployment ==
  /\ depReq.op = "update"
  /\ deps[depReq.dep] # None /\ depReq.fresh
  /\ deps' = [deps EXCEPT ![depReq.dep].cm = depReq.cm]
  /\ depFresh' = IF deps' = deps THEN depFresh ELSE depFresh \ {depReq.dep}

RemoveDeployment(d) ==
  /\ depReq.op = "delete"
  /\ d \in depReq.doomed
  /\ deps[d] # None
  /\ deps' = [deps EXCEPT ![d] = None]
  /\ depFresh' = depFresh \ {d}

\* createDeployment succeeds; the cache held no Deployment, so the handler ends.
DeploymentCreated ==
  /\ depReq # None
  /\ StoreNewDeployment
  /\ FinishDeploymentSync(depQueued, FALSE, {})
  /\ DeploymentFrame /\ UNCHANGED disturbed

DeploymentUpdated ==
  /\ depReq # None
  /\ StoreDeployment
  /\ FinishDeploymentSync(depQueued, depReq.extra, depReq.doomed)
  /\ DeploymentFrame /\ UNCHANGED disturbed

DeploymentDeleted ==
  /\ depReq # None
  /\ \E d \in depReq.doomed :
        /\ RemoveDeployment(d)
        /\ FinishDeploymentSync(depQueued, TRUE, depReq.doomed \ {d})
  /\ DeploymentFrame /\ UNCHANGED disturbed

\* Conflict on an update, NotFound on an update or a delete.
DeploymentRejected ==
  /\ depReq # None
  /\ \/ /\ depReq.op = "update"
        /\ deps[depReq.dep] = None \/ ~depReq.fresh
     \/ /\ depReq.op = "delete"
        /\ \E d \in depReq.doomed : deps[d] = None
  /\ depReq' = None
  /\ depQueued' = TRUE
  /\ DeploymentFrame /\ UNCHANGED <<deps, depFresh, disturbed>>

DeploymentCallFails ==
  /\ Disturb("failure")
  /\ depReq # None
  /\ depReq' = None
  /\ depQueued' = TRUE
  /\ DeploymentFrame /\ UNCHANGED <<deps, depFresh>>

DeploymentReplyLost ==
  /\ Disturb("lostReply")
  /\ depReq # None
  /\ \/ StoreNewDeployment
     \/ StoreDeployment
     \/ \E d \in depReq.doomed : RemoveDeployment(d)
  /\ depReq' = None
  /\ depQueued' = TRUE
  /\ DeploymentFrame

DeploymentSync ==
  \/ AwaitConfigMap
  \/ AmbiguousConfigMap
  \/ CreateDeployment
  \/ UpdateDeployment
  \/ KeepDeployment

DeploymentReply ==
  \/ DeploymentCreated
  \/ DeploymentUpdated
  \/ DeploymentDeleted
  \/ DeploymentRejected
=============================================================================
