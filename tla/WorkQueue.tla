------------------------------ MODULE WorkQueue ------------------------------
(***************************************************************************)
(* The work queue of a controller and the workers that serve it.  All four *)
(* controllers of the operator have the same Run, worker, processWorkItem  *)
(* and enqueue; the queue is client-go's rate limiting queue.              *)
(*                                                                         *)
(* An informer first changes the cached object, then calls the handlers;   *)
(* the cached object is kept as a version number.  A syncHandler run reads *)
(* it and later succeeds, fails, or asks for another run by itself.  How   *)
(* long a delayed key waits is left open: the back-off is not modelled.    *)
(***************************************************************************)
EXTENDS Naturals, Sequences

CONSTANTS
  Keys, Workers,
  Flaky,        \* keys whose syncHandler may go on failing for ever
  NoKey,
  MaxChanges,   \* bound on the versions of each object
  MaxErrors     \* bound on the failures of the keys that are not flaky

ASSUME WorkQueueAssumption ==
  /\ NoKey \notin Keys
  /\ MaxChanges \in Nat
  /\ MaxErrors \in Nat

VARIABLES
  queue, dirty, processing,  \* workqueue.Type
  waiting,                   \* keys that wait for their delay to elapse
  shuttingDown,
  pc, key,                   \* where each worker is, and with which key
  read,                      \* version the worker's syncHandler has read
  cached,                    \* version of the object in the informer cache
  pending,                   \* handler calls the informer has still to make
  synced,                    \* version of the last successful syncHandler
  errors

queueVars == <<queue, dirty, processing>>
workerVars == <<pc, key, read>>
cacheVars == <<cached, pending>>
vars == <<queueVars, waiting, shuttingDown, workerVars, cacheVars, synced,
          errors>>

Labels == {"idle", "start", "sync", "finish", "failed", "retry", "stopped"}

TypeOK ==
  /\ queue \in Seq(Keys)
  /\ dirty \subseteq Keys /\ processing \subseteq Keys /\ waiting \subseteq Keys
  /\ shuttingDown \in BOOLEAN
  /\ pc \in [Workers -> Labels]
  /\ key \in [Workers -> Keys \cup {NoKey}]
  /\ \A w \in Workers : pc[w] \notin {"idle", "stopped"} => key[w] \in Keys
  /\ read \in [Workers -> Nat]
  /\ cached \in [Keys -> Nat] /\ pending \in [Keys -> Nat]
  /\ synced \in [Keys -> Nat]
  /\ errors \in Nat

Init ==
  /\ queue = <<>> /\ dirty = {} /\ processing = {} /\ waiting = {}
  /\ shuttingDown = FALSE
  /\ pc = [w \in Workers |-> "idle"] /\ key = [w \in Workers |-> NoKey]
  /\ read = [w \in Workers |-> 0]
  /\ cached = [k \in Keys |-> 0] /\ pending = [k \in Keys |-> 0]
  /\ synced = [k \in Keys |-> 0]
  /\ errors = 0
-----------------------------------------------------------------------------
(* workqueue.Type *)

\* Mutants: a key is queued although it is being processed; a key that is being
\* processed is not marked.
AddTwice(k) ==
  IF shuttingDown \/ k \in dirty THEN UNCHANGED <<queue, dirty>>
  ELSE dirty' = dirty \cup {k} /\ queue' = Append(queue, k)

AddUnlessProcessing(k) ==
  IF shuttingDown \/ k \in dirty \cup processing THEN UNCHANGED <<queue, dirty>>
  ELSE dirty' = dirty \cup {k} /\ queue' = Append(queue, k)

Add(k) ==
  IF shuttingDown \/ k \in dirty THEN UNCHANGED <<queue, dirty>>
  ELSE /\ dirty' = dirty \cup {k}
       /\ queue' = IF k \in processing THEN queue ELSE Append(queue, k)

\* Mutant: a key marked meanwhile is not put back in the queue.
DoneForGood(k) ==
  /\ processing' = processing \ {k}
  /\ UNCHANGED <<queue, dirty>>

Done(k) ==
  /\ processing' = processing \ {k}
  /\ queue' = IF k \in dirty THEN Append(queue, k) ELSE queue
  /\ UNCHANGED dirty

\* AddRateLimited and AddAfter: nothing is accepted any more at shut down.
AddAfter(k) == waiting' = IF shuttingDown THEN waiting ELSE waiting \cup {k}

\* waitingLoop adds a key whose time has come.
Elapse(k) ==
  /\ ~shuttingDown
  /\ k \in waiting
  /\ waiting' = waiting \ {k}
  /\ Add(k)
  /\ UNCHANGED <<processing, shuttingDown, workerVars, cacheVars, synced, errors>>
-----------------------------------------------------------------------------
(* The informer and its handlers *)

Change(k) ==
  /\ cached[k] < MaxChanges
  /\ cached' = [cached EXCEPT ![k] = @ + 1]
  /\ pending' = [pending EXCEPT ![k] = @ + 1]
  /\ UNCHANGED <<queueVars, waiting, shuttingDown, workerVars, synced, errors>>

enqueue(k) ==
  /\ pending[k] > 0
  /\ pending' = [pending EXCEPT ![k] = @ - 1]
  /\ Add(k)
  /\ UNCHANGED <<processing, waiting, shuttingDown, workerVars, cached, synced,
                 errors>>
-----------------------------------------------------------------------------
(* The workers *)

Goto(w, from, to) == pc[w] = from /\ pc' = [pc EXCEPT ![w] = to]

\* Get returns the first key.
Get(w) ==
  /\ Goto(w, "idle", "start")
  /\ queue # <<>>
  /\ key' = [key EXCEPT ![w] = Head(queue)]
  /\ queue' = Tail(queue)
  /\ processing' = processing \cup {Head(queue)}
  /\ dirty' = dirty \ {Head(queue)}
  /\ UNCHANGED <<waiting, shuttingDown, read, cacheVars, synced, errors>>

\* Mutants: a worker goes on with the nil that Get returns at shut down, or
\* waits for another key.
ProcessNil(w) ==
  /\ Goto(w, "idle", "start")
  /\ queue = <<>> /\ shuttingDown
  /\ key' = [key EXCEPT ![w] = NoKey]
  /\ UNCHANGED <<queueVars, waiting, shuttingDown, read, cacheVars, synced,
                 errors>>

NeverStop(w) ==
  /\ Goto(w, "idle", "idle")
  /\ queue = <<>> /\ shuttingDown
  /\ UNCHANGED <<queueVars, waiting, shuttingDown, key, read, cacheVars, synced,
                 errors>>

\* Get returns "shutdown" once the queue is drained.
Stop(w) ==
  /\ Goto(w, "idle", "stopped")
  /\ queue = <<>> /\ shuttingDown
  /\ UNCHANGED <<queueVars, waiting, shuttingDown, key, read, cacheVars, synced,
                 errors>>

\* syncHandler reads the cache ...
ReadCache(w) ==
  /\ Goto(w, "start", "sync")
  /\ read' = [read EXCEPT ![w] = cached[key[w]]]
  /\ UNCHANGED <<queueVars, waiting, shuttingDown, key, cacheVars, synced, errors>>

\* ... and returns nil, having brought the cluster in line with what it read,
SyncSucceeds(w) ==
  /\ Goto(w, "sync", "finish")
  /\ synced' = [synced EXCEPT ![key[w]] = read[w]]
  /\ UNCHANGED <<queueVars, waiting, shuttingDown, key, read, cacheVars, errors>>

SyncError(w) ==
  IF key[w] \in Flaky THEN UNCHANGED errors
  ELSE errors < MaxErrors /\ errors' = errors + 1

\* or returns nil, having put the key back by itself,
SyncRequeues(w) ==
  /\ Goto(w, "sync", "finish")
  /\ SyncError(w)
  /\ AddAfter(key[w])
  /\ UNCHANGED <<queueVars, shuttingDown, key, read, cacheVars, synced>>

\* or returns an error.
SyncFails(w) ==
  /\ Goto(w, "sync", "failed")
  /\ SyncError(w)
  /\ UNCHANGED <<queueVars, waiting, shuttingDown, key, read, cacheVars, synced>>

\* processWorkItem returns; Done is deferred.
ItemDone(w) ==
  /\ \/ Goto(w, "finish", "idle")
     \/ Goto(w, "failed", "retry")
  /\ Done(key[w])
  /\ UNCHANGED <<waiting, shuttingDown, key, read, cacheVars, synced, errors>>

\* Mutant: an error is logged and no more.
ForgetError(w) ==
  /\ Goto(w, "retry", "idle")
  /\ UNCHANGED <<queueVars, waiting, shuttingDown, key, read, cacheVars, synced,
                 errors>>

\* worker puts the key of a failed item back, after Done has released it.
Retry(w) ==
  /\ Goto(w, "retry", "idle")
  /\ AddAfter(key[w])
  /\ UNCHANGED <<queueVars, shuttingDown, key, read, cacheVars, synced, errors>>

\* Run's deferred ShutDown, when the context is cancelled.
ShutDown ==
  /\ ~shuttingDown /\ shuttingDown' = TRUE
  /\ UNCHANGED <<queueVars, waiting, workerVars, cacheVars, synced, errors>>

worker(w) ==
  \/ Get(w) \/ Stop(w) \/ ReadCache(w)
  \/ SyncSucceeds(w) \/ SyncRequeues(w) \/ SyncFails(w)
  \/ ItemDone(w) \/ Retry(w)

Next ==
  \/ \E k \in Keys : Change(k) \/ enqueue(k) \/ Elapse(k)
  \/ \E w \in Workers : worker(w)
  \/ ShutDown

Spec == Init /\ [][Next]_vars

\* Goroutines run, and delays elapse.  The context need not be cancelled.
Fairness ==
  /\ \A k \in Keys : WF_vars(enqueue(k)) /\ WF_vars(Elapse(k))
  /\ \A w \in Workers : WF_vars(worker(w))

FairSpec == Spec /\ Fairness
-----------------------------------------------------------------------------
\* No change of a cached object is lost: while syncHandler has not dealt with
\* it, a handler call is due, the key is marked or waits, or a worker has yet
\* to read the object, to deal with what it read, or to put the key back.
\* Changes arrive while the key is processed, retries cross in the gap that
\* worker leaves between Done and AddRateLimited.
NoLostChange ==
  shuttingDown \/ \A k \in Keys :
    synced[k] # cached[k] =>
      \/ pending[k] > 0
      \/ k \in dirty \cup waiting
      \/ \E w \in Workers :
            /\ key[w] = k
            /\ \/ pc[w] \in {"start", "failed", "retry"}
               \/ pc[w] = "sync" /\ read[w] = cached[k]

\* A syncHandler run never undoes what a later one has done with a newer
\* version of the object: runs of one key do not overlap.
SyncedNeverRegresses == [][\A k \in Keys : synced[k] <= synced'[k]]_synced

\* Every change of an object whose syncHandler does not fail for ever is dealt
\* with, however often the keys next to it fail and are retried.
Settles ==
  \A k \in Keys \ Flaky : <>[](shuttingDown \/ synced[k] = cached[k])

\* At shut down the workers finish what is queued and end.
Drains == shuttingDown ~> \A w \in Workers : pc[w] = "stopped"

\* The keys a failed item is still to be put back for.
failed == {key[w] : w \in {v \in Workers : pc[v] \in {"failed", "retry"}}}

\* The queue and its workers do what KeyQueue promises: a key marked while it
\* is being processed, or about to be retried, is as good as queued, and no two
\* workers have the same one.
AbstractQueue == INSTANCE KeyQueue WITH
  todo <- dirty \cup (IF shuttingDown THEN {} ELSE waiting \cup failed),
  busy <- processing,
  open <- ~shuttingDown

ImplementsKeyQueue == AbstractQueue!Spec
=============================================================================
