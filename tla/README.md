# memcached-operator in TLA+

The operator turns a `MemcachedProxy` into a Service, a ConfigMap with an
mcrouter configuration and a Deployment of mcrouter that mounts it.  Four
controllers run in one process.  They share no state but the informer caches and
talk to each other through the API server only: what one of them writes comes
back to the others as an event, late, and in any order across kinds of objects.

The project models the rollout of a new configuration, where that matters most;
the generation gate, behind which three of the controllers wait for the fourth;
what a configuration is and when it is rendered anew; the work queue all four
controllers stand on; and the start and the end of the process.

## The system

| Part | State | Operations | Interaction |
|---|---|---|---|
| proxy controller (`internal/controller/proxy`) | defaults in the spec, `status.observedGeneration` | `syncHandler` | opens the generation gate for the other three |
| service controller (`proxyservice`) | the Service of the proxy | `syncHandler`: create, update the selector | watches Services |
| configmap controller (`proxyconfigmap`) | ConfigMaps; "new" ones are controlled by the proxy, others belong to ReplicaSets | `syncHandler`: create, `reuseConfigMap`, `applyOwnerRefToCM` | watches proxies, Endpoints, Deployments |
| deployment controller (`proxydeployment`) | the Deployment of the proxy | `syncHandler`: create, update, delete duplicates | watches proxies, ConfigMaps, Deployments |
| mcrouter configuration (`config.go`, `endpoints.go`) | none | `configForProxy`, `routeForRule`, `poolForService`, `getAffectedProxies` | called by the configmap controller |
| work queue and workers (`Run`, `worker`, `processWorkItem`, `enqueue` in all four; client-go `workqueue`) | queue, dirty, processing, waiting | Add, Get, Done, AddAfter, ShutDown | handlers add keys, workers take them |
| API types and defaults (`v1alpha1/types.go`) | none | `ApplyDefaults` | called by the proxy controller |
| process set-up (`main.go`, the vendored controller manager and its shared informers) | controllers, informers, a lock, a context | register, construct, wait for caches, start, cancel | starts the controllers, ends them on a signal |
| generated clients, event recording | none of interest | | |

A rollout takes both the configmap and the deployment controller.  Endpoints
change; the configmap controller finds no ConfigMap controlled by the proxy and
creates one for the new configuration (or, if one with that content is still
around, makes the proxy its controller again).  The deployment controller hears
of a ConfigMap controlled by the proxy and mounts it in the Deployment.
Kubernetes creates a ReplicaSet.  The configmap controller finds it and passes
the ConfigMap on: it adds the ReplicaSet as an owner and removes the proxy.  From
then on the garbage collector looks after the ConfigMap.

What is hard about it:

* every decision is taken from caches that may be out of date, in two
  controllers that run at the same time;
* both controllers change the *cached* object in place before they send it off,
  so that a failed call leaves a copy nobody stored, which the next run of either
  controller starts from;
* the process may die, calls may fail, and answers may get lost, between any two
  of these steps;
* Deployments are created with `GenerateName`, so that nothing stops a second
  create;
* nothing watches ReplicaSets: progress depends on requeues and on status updates
  of the Deployment.

What makes each part correct: the rollout always ends with the Deployment
mounting the ConfigMap of the current configuration and with that ConfigMap owned
by the ReplicaSet that runs it; there is one Deployment and at most one ConfigMap
under way; nothing is leaked, and nothing in use is deleted.  For the queue: no
event is lost, no key is given to two workers, no key starves, workers end at shut
down.  For the gate: nobody works on a spec without defaults, the defaults undo no
edit, and a proxy that is left alone gets its Service.  For the configuration:
each key is stored on the servers the rules name, and no change of them goes
unnoticed.  For the process: no worker reads a cache before it is filled, and
every wait ends.  `PROJECT.json` lists under "hazards" where the code is exposed, with the
properties that watch each place.

## Modules

| Module | Models |
|---|---|
| `Cluster` | what is around the operator: API server, informer caches, built-in deployment controller, garbage collector, requests in flight, disturbances |
| `ProxyConfigMap` | `syncHandler` of the configmap controller |
| `ProxyDeployment` | `syncHandler` of the deployment controller |
| `Rollout` | both of them with the event handlers, faults and the environment; all properties of the rollout |
| `RolloutProofs` | theorems about `Rollout` |
| `ConfigRollout` | what a rollout looks like from the API server (abstract) |
| `ConfigRolloutProofs` | `Rollout` implements `ConfigRollout` |
| `KeyQueue` | what a controller relies on its queue for (abstract) |
| `WorkQueue` | client-go's queue, the handlers that fill it and the workers that serve it |
| `WorkQueueProofs` | theorems about `WorkQueue` |
| `RouteConfig` | rules, defaults, pools and routes as operators, and what mcrouter does with them |
| `ConfigWatch` | the handlers for proxies and Endpoints and the runs that render a configuration, for several proxies |
| `ConfigWatchProofs` | theorems about `ConfigWatch` |
| `ProxyGate` | the proxy controller, the service controller and the gate between them |
| `ProxyGateProofs` | theorems about `ProxyGate` |
| `Lifecycle` | `main`, the controller manager, the shared informers |
| `LifecycleProofs` | theorems about `Lifecycle` |
| `MCRollout`, `MCWorkQueue`, `MCConfigWatch` | instances for TLC |

`Rollout` EXTENDS `ProxyConfigMap` and `ProxyDeployment`, which both EXTEND
`Cluster`, and instantiates `ConfigRollout`; `WorkQueue` instantiates `KeyQueue`;
`ConfigWatch` EXTENDS `RouteConfig`.  The modules meet where one takes for granted what another shows:
`Rollout` starts with a proxy whose gate is open (`ProxyGate`) and a configuration
that is given (`ConfigWatch`), all of them have a queue that is a set of keys
(`WorkQueue`) and caches that have synced (`Lifecycle`).

### Cluster

A ConfigMap *is* its configuration, since its name is made from a hash of the
content (taken to be injective here); `cms[c]` is the set of its owners, `None` if
it does not exist.  A Deployment keeps the ConfigMap its `config` volume mounts
and its creation time.  A ReplicaSet is `<<deployment, configmap, incarnation>>`.
`cmCache`, `depCache` and `rsCache` are the informer caches.  `cmFresh` and
`depFresh` hold the objects whose cached copy carries the stored
`resourceVersion`.  An update is accepted only if the copy it was made from did,
and still does when it arrives; that is how the API server rejects conflicting
updates.  Note that a copy can carry the current `resourceVersion` and still
differ from what is stored, because the controllers edit cached objects.

`Lag` says which caches may be out of date when something happens.  A cache that
is not in `Lag` is brought up to date before any other step.  `Disturbances` says
what else may happen, `MaxDisturbances` how often: changes of endpoints, status
updates, updates of the proxy, failed calls, lost answers, restarts, deletion of
a Deployment by a user, clean-up of old ReplicaSets; `sameSecond` (two creations
within a second) switches a behaviour on.

### The two controllers

A run of `syncHandler` is one step up to its API call (`ConfigMapSync`,
`DeploymentSync`), which is one action for each way through the handler.  The
request then sits in `cmReq` or `depReq` until it is answered: it may succeed, be
rejected, fail unseen, or take effect and lose its answer.  The rest of the
handler is part of that second step, including the requeues.  While a request is
in flight everything else goes on, the other controller included.

| Action | Code |
|---|---|
| `CreateConfigMap`, `ConfigUnavailable` | `case 0` of `syncHandler`, up to the create |
| `ReuseConfigMap`, `ReuseWithoutDeployment` | `reuseConfigMap` |
| `AwaitReplicaSet`, `ApplyOwnerRefToCM` | `case 1`, `applyOwnerRefToCM`, `getNewRSForProxy` |
| `TooManyConfigMaps` | `default` |
| `AwaitConfigMap`, `AmbiguousConfigMap`, `CreateDeployment` | `createDeployment`, `deploymentForProxy`, `GetConfigMapForProxy` |
| `UpdateDeployment`, `KeepDeployment` | `updateDeployment` |
| `Doomed`, `FinishDeploymentSync`, `DeploymentDeleted` | the end of `syncHandler`, `deleteDeployments` |

`cmQueued` and `depQueued` say that the proxy's key is to be worked on.  That is
all `KeyQueue` keeps of a queue, too, and `WorkQueue` is proved to implement it:
no two workers have the same key (hence one request in flight per controller), and
a key asked for is worked on later.  `KeyQueue` also allows one run more than was
asked for; in `Rollout` that is a `ProxyEvent`, an update of the proxy or its replay
by a resync, and the theorems hold with any number of them.

The order in which `deleteDeployments` goes through its list is left open.

### WorkQueue

An informer changes the cache first and calls the handlers later (`Change`,
`enqueue`).  A worker goes through `Get`, the read of the cache, one of three
outcomes (success, an error, or success after having requeued the key itself),
`Done`, and for an error `AddRateLimited`, which comes *after* `Done` has released
the key.  Keys that wait for a delay are in `waiting`; how long they wait is left
open.  `cached` and `synced` are versions: the one in the cache, and the one the
last successful run has read.

### RouteConfig and ConfigWatch

Rules are a tree, written as an outline: the list of all rules in the order in
which a walk meets them, each with the positions of the rules it is `under`.  What
the code does by recursion is then said of positions: a rule is visited if none of
the rules it is under has a service (a service hides the children next to it), and
of services with one pool name the one visited last fills the pool.  A route is a
function from visited positions to route handles.  That keeps the operators free
of recursion, so that they can be proved about; `IsRules` says which lists are
outlines of a tree.

`configForProxy` finds the services of the rules, gives each a pool under a name
made of service name, namespace and port, and builds a route.  Names and numbers
are sequences of tokens, so that the concatenation `MakeName` hashes is one here;
the hash is taken to be injective.  `ApplyDefaults` fills in the type of the root
only: nested rules are reached through a loop variable that is a copy.  `Ways` says
which sets of servers mcrouter may send a request to, `WaysOfRule` which ones the
documentation of the CRD allows, computed from the Service and its Endpoints by
port name, as Kubernetes does it.  The two are compared when the Service is one the
API server accepts (`ValidPorts`: names and numbers tell its ports apart) and the
Endpoints have been made from it (`EndpointsMatch`).  Two things more are needed for
them to agree which nobody sees to, and which are therefore not part of the model
but hypotheses of the theorem, and of the instance TLC is given (`MCUnambiguous`):
pool names that tell services apart (`PoolNamesTellApart`), and ports that have the
name of the container port they lead to by name (`NamedLikeTargets`).

`ConfigWatch` has the cached proxies, Services and Endpoints, the queue, the
configurations on their way to the API server (`storing`) and the one in each
proxy's latest ConfigMap (`rendered`).  `EditProxy`, `ObserveProxy` (the
update of the proxy controller) and `DeleteProxy` are events of a proxy,
`EndpointsEvent` goes through `addEndpoints`, `updateEndpoints` or
`deleteEndpoints`, and `ServiceEvent` through no handler at all, because the
configmap controller has none.  `unaware` keeps track of who may have missed such a
change.  `SkipProxy` and `RenderConfig` are the ways through `syncHandler` up to its
call; `StoreConfig` and `StoreFails` are the call's ends, and everything else may
happen before.  A run with a ConfigMap under way is `ProxyConfigMap`'s business.

### ProxyGate

The proxy controller copies the cached proxy, fills in defaults, sets
`status.observedGeneration` to the generation it has read, and sends all of that
with one `Update`.  The other controllers leave a proxy alone while the two numbers
differ.  The first update changes the spec and so moves the generation on; a second
one, which the event of the first leads to, observes it.

What moves a generation on is not in the repository.  Its README asks for
"subresources for CRDs", its CustomResourceDefinition declares none.  `policy` is
chosen at the start and stays: "spec" is what the gate supposes, "any" counts
changes of the status as well, "status" is a server with a status subresource,
which drops the status of an `Update`, and "none" leaves the generation at 0.  A
write that changes nothing is none.

`proxy` and `service` are what the API server has, `pCache` and `sCache` the caches,
`pReq` and `sReq` requests in flight.  Users create, edit and delete the proxy and
the Service; calls fail (those in `FailingCalls`), take effect with a lost answer,
or meet a conflict; a
deletion of the Service may be missed and come as a tombstone; the process may be
restarted at any time, or restart itself over a nil port (`panicked`).  A deleted
proxy can be created again under its name: `uid` tells the two apart.
`updateService` edits the cached Service, as the code does.

### Lifecycle

The main goroutine builds clients, calls the constructors of the four controllers
(which register the informers they use), launches `sharedInformers.Run`, waits for
the caches, starts the controllers and waits for them.  `informers = "running"` is
where `sharedInformers.Run` holds the lock, which it does until the context is
done.  Signals and crashes come at any time; the kubelet starts the process again.

## Runs

The runs of `Rollout`, `WorkQueue` and `ConfigWatch` have `CHECK_DEADLOCK FALSE`: with
everything rolled out or rendered the operator waits for events, and workers end
at shut down.

| Run | Lag | Disturbances (at most) | Checks |
|---|---|---|---|
| `Rollout_complete` | ReplicaSets | endpoints, status, lost answers, proxy (4) | `TypeOK`, `HandsOver` |
| `Rollout_faults` | ReplicaSets | endpoints, status, restart, lost answers, proxy (4) | `AtMostOneNewConfigMap`, `ImplementsConfigRollout`, `Converges` |
| `Rollout_stale` | all three | all of these, failed calls, clean-up of ReplicaSets (2) | `NoOwnerlessConfigMap`, `CleanupKeepsADeployment` |
| `Rollout_delete` | Deployments | endpoints, delete, proxy, clean-up of ReplicaSets (2) | `Redeploys` |
| `WorkQueue` | | 2 changes per key, 1 error, one key that fails for ever | `TypeOK`, `NoLostChange`, `SyncedNeverRegresses`, `ImplementsKeyQueue`, `Settles`, `Drains` |
| `ConfigWatch` | | changes of rules, Services, Endpoints, failed calls (3) | `TypeOK`, `NothingElseMissed`, `SetsGoWhereRulesSay`, `EventuallyCurrent` |
| `ProxyGate` | both | edits, deletions, failed calls but for updates of the Service, missed deletions, restarts (4), four kinds of API server | `TypeOK`, `GateGuardsDefaults`, `NeverPanics`, `UserSpecKept`, `EventuallyServed` |
| `Lifecycle` | | signals, crashes, restarts (any number) | `TypeOK`, `WorkersReadSyncedCaches`, `SignalEndsProcess`, `SyncLeadsToWork` |

What they show.  `HandsOver`: with caches that keep up every rollout is completed,
also when the endpoints change again in the middle of it or the ConfigMap goes
to the wrong ReplicaSet first.  A restart can end that correction early (the
ConfigMap in use then stays with the old ReplicaSet), which is why the run for
restarts checks `Converges` only: the Deployment does come to mount the current
configuration, whatever step the process died in.  `Redeploys`: after a deletion,
and next to Deployments created on a stale cache, the newest one comes to mount
the current configuration, although each controller waits for the other until the
garbage collector acts; that its ConfigMap stays is not said, and not so (below).
`ImplementsConfigRollout`: while ConfigMaps change hands, also to the wrong
ReplicaSet and back, there is one offer at a time, and it is withdrawn only when
there is a Deployment.  `NoOwnerlessConfigMap` and `CleanupKeepsADeployment` hold
with everything lagging and failing that the module has, but for deletions by
users and, for the latter, creations within one second.

`NothingElseMissed`: the search for affected proxies in `endpoints.go` and the
configuration in `config.go` agree on what a configuration depends on, at every
moment, also before defaults are applied and while a configuration is being
stored; only a change of a Service can leave a proxy behind, and
`EventuallyCurrent` says that the resync makes good for it.
`SetsGoWhereRulesSay`: routes, pools and target ports lead what is stored to where
the documentation says, for the rules and ports of the instance; for which others,
the theorem says, and for which not, the list below.

`GateGuardsDefaults`, `NeverPanics` and `UserSpecKept`: the gate does what it is for on
any cache, however old, unless the API server counts no generations.
`EventuallyServed`: on the kind of server the code supposes the Service comes back
whatever was done to it, also after a missed deletion and after a proxy of the same
name.  An update of the Service that fails is left out of this run, as it is the
one thing the operator does not recover from (`ProxyGate_selfheal`).

`WorkersReadSyncedCaches`: constructors, map of informers and wait fit together so
that no worker ever takes an object that is not listed yet for one that does not
exist.  `SignalEndsProcess`: a signal ends the process from any state, the ones
below included in which it hangs.  `SyncLeadsToWork`: past the lock nothing hangs.

The others say that what must not happen does not, under the faults listed.

Bounds.  Two configurations are enough for every case of the configmap controller:
a new one, the current one, and one that comes back.  Two Deployment names allow
for a re-creation or a duplicate, three for a clean-up that deletes something and
still has a choice.  `Rollout_stale` takes configurations to be interchangeable,
which they are: no property or action names one.  One incarnation per ReplicaSet
suffices because a name is not used again while anything still refers to it.  Two
disturbances put a second fault into the handling of the first, four do so in the
middle of a rollout that follows another one; a lagging cache is none of them, and
enough for any number of duplicates.  Two workers and two keys show every conflict
between workers over a key, and one key's hold on the other; a second change
during the run for the first is the case the dirty set is for.

`ConfigWatch` has two proxies over two services, four rules (a default type and a
service next to children; replication over a service; a sharded rule over
replicated ones, of a service and of sharded services; a nested rule without a
type), three lists of ports (one found by number, several, found by name, and two
that lead to the same number) and Endpoints without, with one and with two
subsets, some of them with a port that is not asked for.  Three changes are enough
to write rules, change what they refer to, and change it again, delete the proxy
or have the call fail, before or after the configuration is rendered.  `ProxyGate`
has two ports and a flag for the other fields with defaults; four disturbances
are, for instance, create, edit, a failed call and a restart, or create, delete,
create and an edit.  `MaxGeneration` (4) only ends what an "any" server makes
endless.  `Lifecycle` has the four controllers and the six kinds of informers of
`main.go`, and two workers for each controller; it needs no bound.

### Disagreements with comments and documentation

Each of these runs ends in a counterexample to what the repository says.

| Run | Text | What happens |
|---|---|---|
| `Rollout_two_new` | `proxyconfigmap/controller.go:378` "This shouldn't happen" | create, requeue, endpoints change, run on a cache without the new ConfigMap: a second one is created, and neither controller does anything from then on |
| `Rollout_newest` | `proxydeployment/controller.go:267` "Here we delete all but the newest" | two creates on a cache that lags by one event; `dList[1:]` is taken of a list that leaves out the newest already, so that neither of the two is ever deleted |
| `ProxyGate_selfheal` | `proxyservice/controller.go:101` "Watch services for changes and self-heal." and `:295` | `updateService` edits the cached Service, the `Update` fails, the retry and every resync find the cached copy as it should be: the wrong selector stays |
| `Lifecycle_start` | `controllerutil/manager.go:64` "starts shared informers and waits for their caches to be synced before starting controllers" | if the goroutine of `sharedInformers.Run` is first, it has the lock `WaitForCacheSync` needs, and no controller is started |

The conditions of the passing runs, and of some theorems, on lagging caches and
faults are there because outside of them the property fails.  Instances of
`Rollout` that show it (constants not mentioned as in `Rollout_complete`):

* `HandsOver` with "restart": the ConfigMap of a rollout is first given to the old
  ReplicaSet, as the Deployment does not mount it yet, and the correction is cut
  short (`proxyconfigmap/controller.go:424` "whose podspec references the
  configmap").
* `HandsOver` and `Converges` with "cleanup": the old ReplicaSet drops out of the
  revision history before the correction has arrived, and the ConfigMap in use is
  collected with it.  `Converges` with one "delete": the ReplicaSet of the deleted
  Deployment does the same.
* `HandsOver` with three Deployments and a Deployment cache that lags: the
  ConfigMap is given to a duplicate's ReplicaSet, and is collected with it when the
  clean-up removes that duplicate.
* `Converges` and `HandsOver` with "endpoints", "failure" and "proxy", `Redeploys` with
  "failure": the cached object has the change already and the retry finds nothing to
  do.
* `CleanupKeepsADeployment` with the constants of `Rollout_stale` and "sameSecond" in
  addition: equal creation times fall in any order, two runs disagree about the
  newest, and all are deleted.
* `ImplementsConfigRollout` with "failure": a hand-over that failed is in the cached
  copy, the ConfigMap looks handed over, and a second one is offered.

And of `ConfigWatch`: `SetsGoWhereRulesSay` with a port `mc` that leads to a container
port by another name, `Port("1", "mc", "string", "memcache")` in `MCPorts`.
`portMatches` (`config.go:162`) compares the name of the endpoint port, which
Kubernetes takes from the Service's port, with the name of the container port: no
server is found and the pool is empty, while the comment at `config.go:142` says
"Here we match the endpoint subset's ports with the service's port".

More disagreements, which need no run:

* The README relies on "subresources for CRDs" (`README.md:25`) and promises "a single
  Service endpoint" (`README.md:7`).  With a status subresource the `Update` of the
  proxy controller drops the observed generation, and there never is a Service, nor
  a ConfigMap or a Deployment: `GateNeverOpens` proves it, also for servers that
  count updates of the status.
* Deletes of a replicated rule go through `LatestRoute`, to one replica, and the
  others go on to answer with the deleted value; `docs/memcachedproxy-crd.md:46` says
  "write requests are replicated to each member pod".  `SetsGoWhereRulesSay` with the
  policy "delete" instead of "default_policy" fails.
* Gets of a replicated rule go to all replicas, by the same `AllSyncRoute` as sets,
  and not "to a random pod" (`:46`).
* The default type of a nested rule is lost (`types.go:102`), while
  `docs/memcachedproxy-crd.md:44` gives "sharded" as the default of every rule; the
  proxy stays in the queue, with an error, for ever.
* `poolNameForServiceSpec` promises a unique name for each service and port
  (`config.go:98`), while service `a` in namespace `bc` and service `ab` in namespace
  `c` have the same one.

### Fairness

`Rollout`: workers run and calls are answered (`WF` for each controller), watches
deliver (`WF` for each object), and Kubernetes' own controllers do their work (`WF`
for each Deployment, ReplicaSet and ConfigMap).  That is what `Run` starts
goroutines for, what a watch does, and what a cluster is expected to do.
Weak fairness is enough for everything that is checked.  Nothing is assumed of
disturbances.  `WorkQueue`: goroutines run, handlers are called, delays elapse.
That the context is cancelled is not assumed, and neither is that a handler
succeeds, for the flaky key.

`ConfigWatch`: the proxy controller and the workers run, and the resync happens,
every `-default-resync` (12 hours, `main.go:55`).  `ProxyGate`: workers run, calls are
answered, watches deliver, the garbage collector acts, and the resync happens.
`Lifecycle`: the goroutines of main, of the informers and of the controllers' `Run`
make progress and the API server answers lists.  Nothing is assumed of workers (a
signal ends the process with a worker that never returns), of signals, of crashes
and of the kubelet.

## Proofs

For any number of configurations, Deployments, keys, workers and disturbances:

| Theorem | States | Argument |
|---|---|---|
| `RolloutProofs!TypeCorrect` | `Spec => []TypeOK` | inductive as it stands |
| `NoConfigMapLeaks` | `Spec => []NoOwnerlessConfigMap` | `OwnersInv`: no stored ConfigMap, cached copy or request in flight has an empty set of owners.  The copies are needed because the next update starts from one of them, edited or not |
| `OneNewConfigMap` | `[]AtMostOneNewConfigMap`, if the ConfigMap cache does not lag and no call fails without reaching the API server | `ConfigMapsInv`: an up-to-date copy differs from the stored ConfigMap only while the request that carries the difference is in flight and bound to be accepted; a request in flight to create or to reuse means that there is no new ConfigMap |
| `CleanupIsSafe` | `CleanupKeepsADeployment`, if no two Deployments are created within a second and users delete none | `CleanupInv`: there is a latest Deployment, stored, later than all others that are stored or cached, and not doomed; the cached copies are needed because a run dooms what its cache shows |
| `ConfigRolloutProofs!Implementation` | `Spec => ImplementsConfigRollout`, under the conditions of `OneNewConfigMap` and if the Deployment cache does not lag and nobody else deletes Deployments or ReplicaSets (`NoDeletions`) | by `ConfigMapsInv` and two more.  `DeploymentsInv`: an up-to-date cached copy exists if and only if the Deployment does, and there is none while a create is in flight, so that there is one Deployment at most.  `LiveInv`: every owner that is stored, cached or on its way is there, and what a request is about to mount is stored, so that the garbage collector finds nothing to do.  A write of a ConfigMap then is an `Offer` or a `HandOver`, a write of a Deployment is a `Mount`, and nothing else shows |
| `WorkQueueProofs!TypeCorrect` | `Spec => []TypeOK` | inductive as it stands |
| `WorkQueueProofs!Implementation` | `Spec => ImplementsKeyQueue` | `QueueInv`: the queue holds marked keys nobody processes, each once; `WorkersInv`: a worker's key is being processed, and no other worker has it.  A key is "to do" when it is marked, waits, or belongs to an item that has failed and is not back yet |
| `RunsInOrder` | `Spec => SyncedNeverRegresses` | `VersionsInv`: a run has read nothing older than what has been dealt with |
| `NothingLost` | `Spec => []NoLostChange` | `ReadInv`: a key changed after the read of the run under way is marked, or its handler call is still to come |
| `ProxyGateProofs!TypeCorrect` | `Spec => []TypeOK` | inductive as it stands |
| `DefaultsBehindGate` | `Spec => []GateGuardsDefaults` | `Sound`: the observed generation is at most the generation, and if they are equal, the spec has its defaults; this holds of the stored proxy and of the cached copy.  `Derived`: an update in flight with the stored `resourceVersion` was made from the stored spec and generation |
| `NoNilPort` | `Spec => []NeverPanics` | from `Sound` of the cached copy, which is all the service controller reads |
| `EditsSurvive` | `Spec => []UserSpecKept` | `Derived`, and that applying defaults twice is applying them once |
| `GateNeverOpens` | `Spec => []GateStaysShut`, a statement of what goes wrong (above) | `Sound` says strictly less for these servers, and no Service is stored, cached or requested |
| `ConfigWatchProofs!TypeCorrect` | `Spec => []TypeOK` | what `ApplyDefaults` does to a rule at any depth |
| `OnlyServicesMissed` | `Spec => []NothingElseMissed` | a configuration depends on the Endpoints only at the keys of the services the rules name (`ConfigIsLocal`), and `getAffectedProxies` finds every proxy with such a key; an edit or an update of the proxy queues it anyway, and so does a failed call |
| `SetsFollowRules` | `Spec => []SetsGoWhereRulesSay`, if no two services of a proxy share a pool name (`PoolNamesTellApart`) and ports are named like the container ports they lead to by name (`NamedLikeTargets`) | a settled proxy is observed and has the configuration of its rules.  Positions, branching and replication of the route are those of the rules (`RoutesLikeRules`); each pool is found under its name (`PoolIsFound`); and a pool has the servers of the port its rule names, whether the target port is a number or a name (`ServersOfPool`) |
| `LifecycleProofs!TypeCorrect` | `Spec => []TypeOK` | with `IInv` |
| `CachesSynced` | `Spec => []WorkersReadSyncedCaches` | `IInv`: what a constructed controller uses is registered, the map is copied after the last constructor, and what is registered has synced or is still waited for |

The assumptions on the constants are `ClusterAssumption`, `WorkQueueAssumption`,
`ProxyGateAssumption`, `WorkersAssumption`, `RouteConfigAssumption` and
`ConfigWatchAssumption`; TLC evaluates them in the runs.  They say that `None`,
`Proxy`, `Error` and `NoKey` are none of the other values, that bounds are numbers
and that there are workers, name the kinds of disturbances and of API servers, and
say what rules and ports look like.  `PoolNamesTellApart` and `NamedLikeTargets` are
hypotheses of `SetsFollowRules` which neither the code nor the API server ensures;
`MCUnambiguous` checks them of the rules and ports of the run.

Only model-checked: all liveness properties (`HandsOver`, `Converges`,
`Redeploys`, `Settles`, `Drains`, `EventuallyCurrent`, `EventuallyServed`,
`SignalEndsProcess`, `SyncLeadsToWork`), as fairness and `ENABLED` are outside the
prover's reach.  Every invariant, every action property and both refinements that
the passing runs check are proved as well.

## Not modelled

* In `Rollout` the proxy is there, its defaults are applied and the gate is open,
  and the configuration is given; in `ProxyGate` there is one proxy at a time, and of
  the three controllers behind the gate the service controller.
* An edit of the proxy's port, image or security context reaches neither the
  existing Service nor the existing Deployment: the code compares the selector
  and the mounted ConfigMap only, so that there is nothing to model.
* Hash collisions: `MakeName` keeps 20 bits.
* A run of `syncHandler` is one step up to its API call.  In the code another
  controller can change a cached object in the middle of it, without a lock.
* Each object's watch delivers its latest version; versions in between are
  skipped, which a run cannot tell from a slow watch.  The informer's cache update
  and its handler call are one step everywhere but in `WorkQueue`.
* A missed deletion of a ConfigMap or a Deployment, foreground or orphaning
  deletion, and a request that takes effect after the operator has given up on it.
* Back-off times and rate limits.
* mcrouter beyond the routing of a request to servers: failures of servers, the
  order of replicas, the reload of its configuration.
* Flags, generated clients but for the calls the operator makes, event recording,
  logging.

## Plan

1. A `Rollout` with `syncHandler` split at its reads, for the shared cached objects.
2. Proofs: which ConfigMaps are kept when the revision history is cleaned up, and
   what still holds of `ConfigRollout` when calls fail.
