------------------------------ MODULE Lifecycle ------------------------------
(***************************************************************************)
(* The operator's process: main, the controller manager and the informers  *)
(* the controllers share.  The goroutines are main's own (which runs the   *)
(* manager), the one in sharedInformers.Run, one for each informer, each   *)
(* controller's Run, and the workers.                                      *)
(***************************************************************************)
CONSTANT Workers   \* the workers each controller has

ASSUME WorkersAssumption == Workers # {}

\* What main registers with the manager: constructors by name, and the types
\* whose informers each asks for.
ProxyInformers == {"MemcachedProxy"}
ServiceInformers == {"MemcachedProxy", "Service"}
ConfigMapInformers ==
  {"MemcachedProxy", "ConfigMap", "Deployment", "ReplicaSet", "Service", "Endpoints"}
DeploymentInformers == {"MemcachedProxy", "Deployment", "ConfigMap"}

Controllers == {"proxy", "service", "configmap", "deployment"}

Uses(c) ==
  CASE c = "proxy" -> ProxyInformers
    [] c = "service" -> ServiceInformers
    [] c = "configmap" -> ConfigMapInformers
    [] c = "deployment" -> DeploymentInformers

Kinds == UNION {Uses(c) : c \in Controllers}

VARIABLES
  main,        \* where the main goroutine is
  created,     \* controllers constructed
  registered,  \* keys of sharedInformers.informers
  informers,   \* where sharedInformers.Run is; it has the lock if "running"
  toSync,      \* informers WaitForCacheSync still waits for
  synced,      \* informers with HasSynced
  started,     \* controllers whose Run has been called
  stopped,     \* controllers whose Run has returned
  working,     \* controllers' workers in a run
  cancelled    \* the context is done

vars == <<main, created, registered, informers, toSync, synced, started,
          stopped, working, cancelled>>

TypeOK ==
  /\ main \in {"build", "construct", "lock", "poll", "wait", "exited"}
  /\ informers \in {"none", "launched", "running", "returned"}
  /\ created \subseteq Controllers /\ started \subseteq created
  /\ stopped \subseteq started /\ working \subseteq started \X Workers
  /\ registered \subseteq Kinds /\ synced \subseteq registered
  /\ toSync \subseteq registered
  /\ cancelled \in BOOLEAN

Init ==
  /\ main = "build" /\ informers = "none"
  /\ created = {} /\ started = {} /\ stopped = {} /\ working = {}
  /\ registered = {} /\ toSync = {} /\ synced = {}
  /\ cancelled = FALSE

running == main # "exited"
-----------------------------------------------------------------------------
\* buildConfig and the two clients, or Exitf when one of them fails.
BuildClients ==
  /\ main = "build"
  /\ main' \in {"construct", "exited"}
  /\ UNCHANGED <<created, registered, informers, toSync, synced, started,
                 stopped, working, cancelled>>

\* Mutant: the constructor makes informers of its own.
ConstructUnshared(c) ==
  /\ main = "construct"
  /\ c \in Controllers \ created
  /\ created' = created \cup {c}
  /\ UNCHANGED <<main, registered, informers, toSync, synced, started,
                 stopped, working, cancelled>>

\* The manager calls a registered constructor, which asks for its informers;
\* InformerFor makes those that do not exist.
Construct(c) ==
  /\ main = "construct"
  /\ c \in Controllers \ created
  /\ created' = created \cup {c}
  /\ registered' = registered \cup Uses(c)
  /\ UNCHANGED <<main, informers, toSync, synced, started, stopped, working,
                 cancelled>>

\* Mutant: the informers are started while constructors still run.
LaunchInformersEarly ==
  /\ main = "construct"
  /\ main' = "lock" /\ informers' = "launched"
  /\ UNCHANGED <<created, registered, toSync, synced, started, stopped,
                 working, cancelled>>

LaunchInformers ==
  /\ main = "construct" /\ created = Controllers
  /\ main' = "lock" /\ informers' = "launched"
  /\ UNCHANGED <<created, registered, toSync, synced, started, stopped,
                 working, cancelled>>

\* Mutant: WaitForCacheSync keeps the lock as well.
InformersRunLater ==
  /\ informers = "launched" /\ running /\ main # "poll"
  /\ informers' = "running"
  /\ UNCHANGED <<main, created, registered, toSync, synced, started, stopped,
                 working, cancelled>>

\* sharedInformers.Run takes the lock, starts the informers and keeps the lock.
InformersRun ==
  /\ informers = "launched" /\ running
  /\ informers' = "running"
  /\ UNCHANGED <<main, created, registered, toSync, synced, started, stopped,
                 working, cancelled>>

InformersStop ==
  /\ informers = "running" /\ cancelled /\ running
  /\ informers' = "returned"
  /\ UNCHANGED <<main, created, registered, toSync, synced, started, stopped,
                 working, cancelled>>

\* An informer's first list has been put in its cache.
CacheSynced(k) ==
  /\ informers \in {"running", "returned"} /\ running
  /\ k \in registered \ synced
  /\ synced' = synced \cup {k}
  /\ UNCHANGED <<main, created, registered, informers, toSync, started,
                 stopped, working, cancelled>>

\* WaitForCacheSync copies the map of informers under the lock.
WaitForCacheSync ==
  /\ main = "lock" /\ informers # "running"
  /\ main' = "poll" /\ toSync' = registered
  /\ UNCHANGED <<created, registered, informers, synced, started, stopped,
                 working, cancelled>>

\* An informer has synced, also if the context is done by now.
Poll ==
  /\ main = "poll"
  /\ \E k \in toSync \cap synced : toSync' = toSync \ {k}
  /\ UNCHANGED <<main, created, registered, informers, synced, started, stopped,
                 working, cancelled>>

\* The context is done before an informer has synced: an error, which ends main
\* and does not wait for other goroutines.
PollAborted ==
  /\ main = "poll" /\ cancelled
  /\ ~(toSync \subseteq synced)
  /\ main' = "exited"
  /\ UNCHANGED <<created, registered, informers, toSync, synced, started,
                 stopped, working, cancelled>>

StartController(c) ==
  /\ main = "poll" /\ toSync = {}
  /\ c \in Controllers \ started
  /\ started' = started \cup {c}
  /\ main' = IF started' = Controllers THEN "wait" ELSE "poll"
  /\ UNCHANGED <<created, registered, informers, toSync, synced, stopped,
                 working, cancelled>>
-----------------------------------------------------------------------------
\* A worker takes a key, and later is done with it.  What is in the queue when
\* it is shut down is still worked on.
WorkerBegins(c, w) ==
  /\ c \in started /\ <<c, w>> \notin working /\ running
  /\ working' = working \cup {<<c, w>>}
  /\ UNCHANGED <<main, created, registered, informers, toSync, synced, started,
                 stopped, cancelled>>

WorkerEnds(c, w) ==
  /\ <<c, w>> \in working /\ running
  /\ working' = working \ {<<c, w>>}
  /\ UNCHANGED <<main, created, registered, informers, toSync, synced, started,
                 stopped, cancelled>>

\* Mutant: Run waits for a worker in the middle of a run.
ControllerStopsLast(c) ==
  /\ c \in started \ stopped /\ cancelled /\ running
  /\ \A w \in Workers : <<c, w>> \notin working
  /\ stopped' = stopped \cup {c}
  /\ UNCHANGED <<main, created, registered, informers, toSync, synced, started,
                 working, cancelled>>

\* A controller's Run returns when the context is done; it does not wait for
\* its workers.
ControllerStops(c) ==
  /\ c \in started \ stopped /\ cancelled /\ running
  /\ stopped' = stopped \cup {c}
  /\ UNCHANGED <<main, created, registered, informers, toSync, synced, started,
                 working, cancelled>>

\* wg.Wait returns, and with it the manager's Run and main.
Exit ==
  /\ main = "wait"
  /\ stopped = Controllers /\ informers = "returned"
  /\ main' = "exited"
  /\ UNCHANGED <<created, registered, informers, toSync, synced, started,
                 stopped, working, cancelled>>

\* SIGINT or SIGTERM, after the goroutine that waits for them has been started.
Signal ==
  /\ main # "build" /\ running
  /\ cancelled' = TRUE
  /\ UNCHANGED <<main, created, registered, informers, toSync, synced, started,
                 stopped, working>>

\* The process is killed, or dies of a panic in a worker.
Crash ==
  /\ running
  /\ main' = "exited"
  /\ UNCHANGED <<created, registered, informers, toSync, synced, started,
                 stopped, working, cancelled>>

\* The kubelet starts the operator again.
Restart ==
  /\ main = "exited"
  /\ main' = "build" /\ informers' = "none"
  /\ created' = {} /\ started' = {} /\ stopped' = {} /\ working' = {}
  /\ registered' = {} /\ toSync' = {} /\ synced' = {}
  /\ cancelled' = FALSE

MainStep ==
  \/ BuildClients \/ LaunchInformers \/ WaitForCacheSync
  \/ Poll \/ PollAborted \/ Exit
  \/ \E c \in Controllers : Construct(c) \/ StartController(c)

Next ==
  \/ MainStep
  \/ InformersRun \/ InformersStop
  \/ \E k \in Kinds : CacheSynced(k)
  \/ \E c \in Controllers :
        \/ ControllerStops(c)
        \/ \E w \in Workers : WorkerBegins(c, w) \/ WorkerEnds(c, w)
  \/ Signal \/ Crash \/ Restart

Spec == Init /\ [][Next]_vars

\* Goroutines run, and the API server answers lists.  Nothing is assumed of
\* workers, signals and crashes.
Fairness ==
  /\ WF_vars(MainStep)
  /\ WF_vars(InformersRun) /\ WF_vars(InformersStop)
  /\ \A k \in Kinds : WF_vars(CacheSynced(k))
  /\ \A c \in Controllers : WF_vars(ControllerStops(c))

FairSpec == Spec /\ Fairness
-----------------------------------------------------------------------------
\* A run reads caches that hold the whole first list: what a lister does not
\* find does not exist, and is not created a second time after a restart.  It
\* takes constructors that register with sharedInformers, the copy of the map
\* made after the last of them, and a wait for each entry.
WorkersReadSyncedCaches ==
  \A c \in Controllers, w \in Workers :
    <<c, w>> \in working => Uses(c) \subseteq synced

\* A signal ends the process, wherever its goroutines are, also with the
\* informers still to sync, and with the lock held by sharedInformers.Run.
SignalEndsProcess == cancelled ~> ~running

\* Once WaitForCacheSync has had the lock all controllers are started.
SyncLeadsToWork == main = "poll" ~> main = "wait" \/ cancelled \/ ~running

\* The manager "starts shared informers and waits for their caches to be synced
\* before starting controllers": the process gets to where controllers run.
ManagerStarts == main = "construct" ~> main = "wait" \/ cancelled \/ ~running
=============================================================================
