--------------------------- MODULE WorkQueueProofs ---------------------------
(***************************************************************************)
(* What WorkQueue guarantees for any number of keys, workers, changes and  *)
(* errors.                                                                 *)
(***************************************************************************)
EXTENDS WorkQueue, TLAPS

LEMMA AppendType ==
  ASSUME NEW S, NEW s \in Seq(S), NEW x \in S
  PROVE  /\ Append(s, x) \in Seq(S)
         /\ Len(Append(s, x)) = Len(s) + 1
         /\ \A i \in 1..Len(s) : Append(s, x)[i] = s[i]
         /\ Append(s, x)[Len(s) + 1] = x
OBVIOUS

LEMMA TailType ==
  ASSUME NEW S, NEW s \in Seq(S), s # <<>>
  PROVE  /\ Head(s) \in S /\ Head(s) = s[1]
         /\ Tail(s) \in Seq(S)
         /\ Len(s) \in Nat \ {0} /\ Len(Tail(s)) = Len(s) - 1
         /\ \A i \in 1..Len(Tail(s)) : Tail(s)[i] = s[i + 1]
OBVIOUS

LEMMA AddType ==
  ASSUME TypeOK, NEW k \in Keys, Add(k)
  PROVE  queue' \in Seq(Keys) /\ dirty' \subseteq Keys
<1>1. queue \in Seq(Keys) /\ Append(queue, k) \in Seq(Keys)
  BY AppendType DEF TypeOK
<1>2. queue' \in {queue, Append(queue, k)} /\ dirty' \in {dirty, dirty \cup {k}}
  BY DEF Add
<1> QED BY <1>1, <1>2 DEF TypeOK

LEMMA InitType == Init => TypeOK
<1> SUFFICES ASSUME Init PROVE TypeOK
  OBVIOUS
<1>1. queue \in Seq(Keys)
  BY DEF Init
<1>2. pc \in [Workers -> Labels] /\ \A w \in Workers : pc[w] = "idle"
  BY DEF Init, Labels
<1> QED BY <1>1, <1>2 DEF Init, TypeOK

LEMMA NextType ==
  ASSUME TypeOK, [Next]_vars
  PROVE  TypeOK'
<1> USE DEF queueVars, workerVars, cacheVars
<1>1. ASSUME NEW k \in Keys, Change(k) PROVE TypeOK'
  BY <1>1 DEF Change, TypeOK
<1>2. ASSUME NEW k \in Keys, enqueue(k) PROVE TypeOK'
  <2>1. pending' \in [Keys -> Nat]
    BY <1>2 DEF enqueue, TypeOK
  <2>2. queue' \in Seq(Keys) /\ dirty' \subseteq Keys
    BY <1>2, AddType DEF enqueue
  <2> QED BY <1>2, <2>1, <2>2 DEF enqueue, TypeOK
<1>3. ASSUME NEW k \in Keys, Elapse(k) PROVE TypeOK'
  <2>1. queue' \in Seq(Keys) /\ dirty' \subseteq Keys
    BY <1>3, AddType DEF Elapse
  <2> QED BY <1>3, <2>1 DEF Elapse, TypeOK
<1>4. ASSUME NEW w \in Workers, Get(w) PROVE TypeOK'
  <2>1. Head(queue) \in Keys /\ Tail(queue) \in Seq(Keys)
    BY <1>4, TailType DEF Get, TypeOK
  <2> QED BY <1>4, <2>1 DEF Get, Goto, TypeOK, Labels
<1>5. ASSUME NEW w \in Workers, ItemDone(w) PROVE TypeOK'
  <2>1. key[w] \in Keys
    BY <1>5 DEF ItemDone, Goto, TypeOK
  <2>2. queue' \in Seq(Keys) /\ processing' \subseteq Keys
    BY <1>5, <2>1, AppendType DEF ItemDone, Done, TypeOK
  <2> QED BY <1>5, <2>1, <2>2 DEF ItemDone, Done, Goto, TypeOK, Labels
<1>6. ASSUME NEW w \in Workers, ReadCache(w) PROVE TypeOK'
  <2>1. key[w] \in Keys /\ read' \in [Workers -> Nat]
    BY <1>6 DEF ReadCache, Goto, TypeOK
  <2> QED BY <1>6, <2>1 DEF ReadCache, Goto, TypeOK, Labels
<1>7. ASSUME NEW w \in Workers, SyncSucceeds(w) PROVE TypeOK'
  BY <1>7 DEF SyncSucceeds, Goto, TypeOK, Labels
<1>8. ASSUME NEW w \in Workers,
             Stop(w) \/ SyncRequeues(w) \/ SyncFails(w) \/ Retry(w)
      PROVE  TypeOK'
  <2>1. /\ pc' \in [Workers -> Labels] /\ UNCHANGED key
        /\ \A v \in Workers : pc'[v] \notin {"idle", "stopped"} =>
                               key'[v] \in Keys
    BY <1>8 DEF Stop, SyncRequeues, SyncFails, Retry, Goto, TypeOK, Labels
  <2>2. waiting' \subseteq Keys
    BY <1>8 DEF Stop, SyncRequeues, SyncFails, Retry, AddAfter, Goto, TypeOK
  <2>3. errors' \in Nat
    BY <1>8 DEF Stop, SyncRequeues, SyncFails, Retry, SyncError, TypeOK
  <2> QED BY <1>8, <2>1, <2>2, <2>3 DEF Stop, SyncRequeues, SyncFails, Retry,
      TypeOK
<1>9. CASE ShutDown
  BY <1>9 DEF ShutDown, TypeOK
<1>10. CASE UNCHANGED vars
  BY <1>10 DEF vars, TypeOK
<1> QED BY <1>1, <1>2, <1>3, <1>4, <1>5, <1>6, <1>7, <1>8, <1>9, <1>10
    DEF Next, worker

\* The queue, the workers and the informer keep to their types, whatever the
\* number of keys and workers.
THEOREM TypeCorrect == Spec => []TypeOK
BY InitType, NextType, PTL DEF Spec

(***************************************************************************)
(* The queue holds marked keys that nobody works on, each once; the key    *)
(* a worker has is in processing, and no other worker has it.              *)
(***************************************************************************)
Busy(w) == pc[w] \in {"start", "sync", "finish", "failed"}

QueueInv ==
  /\ \A i \in 1..Len(queue) : queue[i] \in dirty \ processing
  /\ \A i, j \in 1..Len(queue) : queue[i] = queue[j] => i = j

WorkersInv ==
  /\ \A w \in Workers : Busy(w) => key[w] \in processing
  /\ \A v, w \in Workers : Busy(v) /\ Busy(w) /\ key[v] = key[w] => v = w

LEMMA AddStep ==
  ASSUME TypeOK, QueueInv, NEW k \in Keys, Add(k), UNCHANGED processing
  PROVE  QueueInv'
<1>1. CASE UNCHANGED <<queue, dirty>>
  BY <1>1 DEF QueueInv
<1>2. CASE k \notin dirty /\ dirty' = dirty \cup {k} /\ queue' = queue
  BY <1>2 DEF QueueInv
<1>3. CASE /\ k \notin dirty /\ k \notin processing
           /\ dirty' = dirty \cup {k} /\ queue' = Append(queue, k)
  <2>1. /\ Len(queue') = Len(queue) + 1 /\ Len(queue) \in Nat
        /\ \A i \in 1..Len(queue) : queue'[i] = queue[i]
        /\ queue'[Len(queue) + 1] = k
    BY <1>3, AppendType DEF TypeOK
  <2>2. \A i \in 1..Len(queue) : queue[i] # k
    BY <1>3 DEF QueueInv
  <2> QED BY <1>3, <2>1, <2>2 DEF QueueInv
<1> QED BY <1>1, <1>2, <1>3 DEF Add

LEMMA GetStep ==
  ASSUME TypeOK, QueueInv, WorkersInv, NEW w \in Workers, Get(w)
  PROVE  QueueInv' /\ WorkersInv' /\ Head(queue) \in dirty \ processing
<1>1. /\ Head(queue) = queue[1] /\ Head(queue) \in Keys
      /\ Len(queue) \in Nat \ {0} /\ Len(queue') = Len(queue) - 1
      /\ \A i \in 1..Len(queue') : queue'[i] = queue[i + 1]
  BY TailType DEF Get, TypeOK
<1>2. Head(queue) \in dirty \ processing
  BY <1>1 DEF QueueInv
<1>3. \A i \in 1..Len(queue') :
         i + 1 \in 1..Len(queue) /\ queue'[i] # Head(queue)
  BY <1>1 DEF QueueInv
<1>4. QueueInv'
  BY <1>1, <1>3 DEF QueueInv, Get
<1>5. WorkersInv'
  BY <1>1, <1>2 DEF WorkersInv, Busy, Get, Goto, TypeOK
<1> QED BY <1>2, <1>4, <1>5

LEMMA ItemDoneStep ==
  ASSUME TypeOK, QueueInv, WorkersInv, NEW w \in Workers, ItemDone(w)
  PROVE  QueueInv' /\ WorkersInv'
<1> DEFINE k == key[w]
<1>1. /\ Busy(w) /\ k \in Keys /\ k \in processing
      /\ processing' = processing \ {k}
      /\ UNCHANGED <<dirty, key>>
      /\ ~Busy(w)' /\ \A v \in Workers : Busy(v)' => Busy(v)
  BY DEF ItemDone, Done, Goto, TypeOK, WorkersInv, Busy
<1>2. \A i \in 1..Len(queue) : queue[i] # k
  BY <1>1 DEF QueueInv
<1>3. WorkersInv'
  BY <1>1 DEF WorkersInv
<1>4. CASE queue' = queue
  BY <1>1, <1>2, <1>3, <1>4 DEF QueueInv
<1>5. CASE k \in dirty /\ queue' = Append(queue, k)
  <2>1. /\ Len(queue') = Len(queue) + 1 /\ Len(queue) \in Nat
        /\ \A i \in 1..Len(queue) : queue'[i] = queue[i]
        /\ queue'[Len(queue) + 1] = k
    BY <1>1, <1>5, AppendType DEF TypeOK
  <2> QED BY <1>1, <1>2, <1>3, <1>5, <2>1 DEF QueueInv
<1> QED BY <1>4, <1>5 DEF ItemDone, Done

LEMMA QueueStep ==
  ASSUME TypeOK, QueueInv, WorkersInv, [Next]_vars
  PROVE  QueueInv' /\ WorkersInv'
<1>1. ASSUME NEW k \in Keys, enqueue(k) \/ Elapse(k)
      PROVE  QueueInv' /\ WorkersInv'
  <2>1. QueueInv'
    BY <1>1, AddStep DEF enqueue, Elapse
  <2> QED BY <1>1, <2>1 DEF enqueue, Elapse, WorkersInv, Busy, workerVars
<1>2. ASSUME NEW w \in Workers,
             \/ Stop(w) \/ ReadCache(w) \/ SyncSucceeds(w)
             \/ SyncRequeues(w) \/ SyncFails(w) \/ Retry(w)
      PROVE  QueueInv' /\ WorkersInv'
  <2>1. UNCHANGED <<queueVars, key>> /\ \A v \in Workers : Busy(v)' => Busy(v)
    BY <1>2 DEF Stop, ReadCache, SyncSucceeds, SyncRequeues, SyncFails, Retry,
       Goto, Busy, TypeOK
  <2> QED BY <2>1 DEF QueueInv, WorkersInv, queueVars
<1>3. CASE ShutDown \/ (\E k \in Keys : Change(k)) \/ UNCHANGED vars
  <2>1. UNCHANGED <<queueVars, workerVars>>
    BY <1>3 DEF ShutDown, Change, vars
  <2> QED BY <2>1 DEF QueueInv, WorkersInv, Busy, queueVars, workerVars
<1> QED BY <1>1, <1>2, <1>3, GetStep, ItemDoneStep DEF Next, worker

LEMMA InitQueue == Init => QueueInv /\ WorkersInv
BY DEF Init, QueueInv, WorkersInv, Busy

(***************************************************************************)
(* The implementation of KeyQueue, one step of Next after the other.       *)
(***************************************************************************)
todo == dirty \cup (IF shuttingDown THEN {} ELSE waiting \cup failed)

abstractNext == [AbstractQueue!Next]_AbstractQueue!vars

LEMMA AbstractRequest ==
  ASSUME NEW k \in Keys, shuttingDown' = shuttingDown,
         processing' = processing,
         todo' = todo \/ (~shuttingDown /\ todo' = todo \cup {k})
  PROVE  abstractNext
BY DEF abstractNext, todo, AbstractQueue!Next, AbstractQueue!Request,
   AbstractQueue!vars

Failed(w) == pc[w] \in {"failed", "retry"}

LEMMA FailedStep ==
  ASSUME NEW w \in Workers,
         \A v \in Workers : v # w => pc'[v] = pc[v] /\ key'[v] = key[v]
  PROVE  /\ ~Failed(w) /\ ~Failed(w)' => failed' = failed
         /\ Failed(w) /\ Failed(w)' /\ key'[w] = key[w] => failed' = failed
         /\ ~Failed(w) /\ Failed(w)' => failed' = failed \cup {key'[w]}
         /\ Failed(w) /\ ~Failed(w)' =>
              /\ failed' \subseteq failed
              /\ failed \subseteq failed' \cup {key[w]}
              /\ key[w] \in failed
<1>1. \A v \in Workers : v # w => Failed(v)' = Failed(v) /\ key'[v] = key[v]
  BY DEF Failed
<1>2. \A k : k \in failed <=> \E v \in Workers : Failed(v) /\ key[v] = k
  BY DEF failed, Failed
<1>3. \A k : k \in failed' <=> \E v \in Workers : Failed(v)' /\ key'[v] = k
  BY DEF failed, Failed
<1> QED BY <1>1, <1>2, <1>3

LEMMA AbstractStep ==
  ASSUME TypeOK, QueueInv, WorkersInv, [Next]_vars
  PROVE  abstractNext
<1> USE DEF queueVars, workerVars, cacheVars
<1>1. ASSUME NEW k \in Keys, enqueue(k) PROVE abstractNext
  <2>1. failed' = failed
    BY <1>1 DEF enqueue, failed
  <2>2. todo' = todo \/ (~shuttingDown /\ todo' = todo \cup {k})
    BY <1>1, <2>1 DEF enqueue, Add, todo
  <2> QED BY <1>1, <2>2, AbstractRequest DEF enqueue
<1>2. ASSUME NEW k \in Keys, Elapse(k) PROVE abstractNext
  <2>1. failed' = failed
    BY <1>2 DEF Elapse, failed
  <2>2. todo' = todo
    BY <1>2, <2>1 DEF Elapse, Add, todo
  <2> QED BY <1>2, <2>2, AbstractRequest DEF Elapse
<1>3. ASSUME NEW w \in Workers, Get(w) PROVE abstractNext
  <2>1. failed' = failed
    BY <1>3, FailedStep DEF Get, Goto, Failed, TypeOK
  <2>2. Head(queue) \in Keys /\ Head(queue) \in dirty \ processing
    BY <1>3, GetStep DEF TypeOK
  <2>3. todo' = todo \/ todo' = todo \ {Head(queue)}
    BY <1>3, <2>1 DEF Get, todo
  <2>4. Head(queue) \in todo
    BY <2>2 DEF todo
  <2> QED BY <1>3, <2>2, <2>3, <2>4 DEF Get, abstractNext, todo,
      AbstractQueue!Next, AbstractQueue!Start, AbstractQueue!vars
<1>4. ASSUME NEW w \in Workers, ItemDone(w) PROVE abstractNext
  <2>1. key[w] \in Keys /\ key[w] \in processing
    BY <1>4 DEF ItemDone, Goto, WorkersInv, Busy, TypeOK
  <2>2. failed' = failed
    BY <1>4, FailedStep DEF ItemDone, Goto, Failed, TypeOK
  <2>3. todo' = todo
    BY <1>4, <2>2 DEF ItemDone, Done, todo
  <2> QED BY <1>4, <2>1, <2>3 DEF ItemDone, Done, abstractNext, todo,
      AbstractQueue!Next, AbstractQueue!Finish, AbstractQueue!vars
<1>5. ASSUME NEW w \in Workers, SyncFails(w) PROVE abstractNext
  <2>1. key[w] \in Keys
    BY <1>5 DEF SyncFails, Goto, TypeOK
  <2>2. failed' = failed \cup {key[w]}
    BY <1>5, FailedStep DEF SyncFails, Goto, Failed, TypeOK
  <2>3. todo' = todo \/ (~shuttingDown /\ todo' = todo \cup {key[w]})
    BY <1>5, <2>2 DEF SyncFails, todo
  <2> QED BY <1>5, <2>1, <2>3, AbstractRequest DEF SyncFails
<1>6. ASSUME NEW w \in Workers, SyncRequeues(w) PROVE abstractNext
  <2>1. key[w] \in Keys
    BY <1>6 DEF SyncRequeues, Goto, TypeOK
  <2>2. failed' = failed
    BY <1>6, FailedStep DEF SyncRequeues, Goto, Failed, TypeOK
  <2>3. todo' = todo \/ (~shuttingDown /\ todo' = todo \cup {key[w]})
    BY <1>6, <2>2 DEF SyncRequeues, AddAfter, todo
  <2> QED BY <1>6, <2>1, <2>3, AbstractRequest DEF SyncRequeues
<1>7. ASSUME NEW w \in Workers, Retry(w) PROVE abstractNext
  <2>1. key[w] \in Keys
    BY <1>7 DEF Retry, Goto, TypeOK
  <2>2. /\ failed' \subseteq failed
        /\ failed \subseteq failed' \cup {key[w]}
        /\ key[w] \in failed
    BY <1>7, FailedStep DEF Retry, Goto, Failed, TypeOK
  <2>3. todo' = todo
    BY <1>7, <2>2 DEF Retry, AddAfter, todo
  <2> QED BY <1>7, <2>1, <2>3, AbstractRequest DEF Retry
<1>8. ASSUME NEW w \in Workers, Stop(w) \/ ReadCache(w) \/ SyncSucceeds(w)
      PROVE  abstractNext
  <2>1. failed' = failed
    BY <1>8, FailedStep DEF Stop, ReadCache, SyncSucceeds, Goto, Failed, TypeOK
  <2>2. todo' = todo /\ UNCHANGED <<processing, shuttingDown>>
    BY <1>8, <2>1 DEF Stop, ReadCache, SyncSucceeds, todo
  <2> QED BY <2>2 DEF abstractNext, todo, AbstractQueue!vars
<1>9. CASE ShutDown
  <2>1. todo' \in SUBSET todo
    BY <1>9 DEF ShutDown, todo
  <2> QED BY <1>9, <2>1 DEF ShutDown, abstractNext, todo, AbstractQueue!Next,
      AbstractQueue!ShutDown, AbstractQueue!vars
<1>10. CASE (\E k \in Keys : Change(k)) \/ UNCHANGED vars
  <2>1. todo' = todo /\ UNCHANGED <<processing, shuttingDown>>
    BY <1>10 DEF Change, vars, todo, failed
  <2> QED BY <2>1 DEF abstractNext, todo, AbstractQueue!vars
<1> QED BY <1>1, <1>2, <1>3, <1>4, <1>5, <1>6, <1>7, <1>8, <1>9, <1>10
    DEF Next, worker

\* Any number of workers serve any number of keys the way KeyQueue promises: one
\* at a time for each key, and no request dropped before shut down.
THEOREM Implementation == Spec => ImplementsKeyQueue
<1>1. Init => AbstractQueue!Init
  BY DEF Init, AbstractQueue!Init, failed
<1>2. TypeOK /\ QueueInv /\ WorkersInv /\ [Next]_vars =>
         [AbstractQueue!Next]_AbstractQueue!vars
  BY AbstractStep DEF abstractNext
<1> QED BY <1>1, <1>2, TypeCorrect, InitQueue, QueueStep, PTL
    DEF Spec, ImplementsKeyQueue, AbstractQueue!Spec

(***************************************************************************)
(* Runs of one key are ordered: what a syncHandler run has read is not     *)
(* older than what has been dealt with.                                    *)
(***************************************************************************)
VersionsInv ==
  /\ \A k \in Keys : synced[k] <= cached[k]
  /\ \A w \in Workers : pc[w] = "sync" =>
        synced[key[w]] <= read[w] /\ read[w] <= cached[key[w]]

LEMMA VersionsStep ==
  ASSUME TypeOK, WorkersInv, VersionsInv, [Next]_vars
  PROVE  VersionsInv' /\ \A k \in Keys : synced[k] <= synced'[k]
<1> USE DEF queueVars, workerVars, cacheVars
<1>1. ASSUME NEW k \in Keys, Change(k)
      PROVE  VersionsInv' /\ \A e \in Keys : synced[e] <= synced'[e]
  <2>1. \A e \in Keys : cached[e] <= cached'[e] /\ cached'[e] \in Nat
    BY <1>1 DEF Change, TypeOK
  <2>2. \A w \in Workers : pc[w] = "sync" => key[w] \in Keys
    BY DEF TypeOK
  <2> QED BY <1>1, <2>1, <2>2 DEF Change, TypeOK, VersionsInv
<1>2. ASSUME NEW w \in Workers, SyncSucceeds(w)
      PROVE  VersionsInv' /\ \A e \in Keys : synced[e] <= synced'[e]
  <2>1. /\ pc[w] = "sync" /\ pc'[w] = "finish" /\ key[w] \in Keys
        /\ UNCHANGED <<key, read, cached>>
        /\ \A v \in Workers : v # w => pc'[v] = pc[v]
    BY <1>2 DEF SyncSucceeds, Goto, TypeOK
  <2>2. \A v \in Workers : pc'[v] = "sync" => pc[v] = "sync" /\ key[v] # key[w]
    BY <2>1 DEF WorkersInv, Busy
  <2>3. \A e \in Keys : synced'[e] = IF e = key[w] THEN read[w] ELSE synced[e]
    BY <1>2 DEF SyncSucceeds, TypeOK
  <2>4. \A v \in Workers : pc[v] = "sync" => key[v] \in Keys
    BY DEF TypeOK
  <2>5. \A e \in Keys : synced[e] \in Nat /\ cached[e] \in Nat
    BY DEF TypeOK
  <2>6. \A e \in Keys : synced[e] <= synced'[e] /\ synced'[e] <= cached'[e]
    BY <2>1, <2>3, <2>5 DEF VersionsInv
  <2>7. \A v \in Workers : pc'[v] = "sync" => synced'[key[v]] = synced[key[v]]
    BY <2>2, <2>3, <2>4
  <2> QED BY <2>1, <2>2, <2>6, <2>7 DEF VersionsInv
<1>3. ASSUME NEW w \in Workers, ReadCache(w)
      PROVE  VersionsInv' /\ \A e \in Keys : synced[e] <= synced'[e]
  <2>1. /\ key[w] \in Keys /\ read'[w] = cached[key[w]]
        /\ \A v \in Workers : v # w => pc'[v] = pc[v] /\ read'[v] = read[v]
        /\ UNCHANGED <<key, synced, cached>>
    BY <1>3 DEF ReadCache, Goto, TypeOK
  <2>2. \A e \in Keys : synced[e] \in Nat /\ cached[e] \in Nat
    BY DEF TypeOK
  <2> QED BY <2>1, <2>2 DEF VersionsInv
<1>4. ASSUME NEW w \in Workers,
             \/ Get(w) \/ Stop(w) \/ SyncRequeues(w) \/ SyncFails(w)
             \/ ItemDone(w) \/ Retry(w)
      PROVE  VersionsInv' /\ \A e \in Keys : synced[e] <= synced'[e]
  <2>1. /\ \A v \in Workers : pc'[v] = "sync" =>
               pc[v] = "sync" /\ key'[v] = key[v]
        /\ UNCHANGED <<read, synced, cached>>
    BY <1>4 DEF Get, Stop, SyncRequeues, SyncFails, ItemDone, Retry, Goto,
       TypeOK
  <2> QED BY <2>1 DEF TypeOK, VersionsInv
<1>5. CASE \/ ShutDown \/ UNCHANGED vars
           \/ \E k \in Keys : enqueue(k) \/ Elapse(k)
  <2>1. UNCHANGED <<pc, key, read, synced, cached>>
    BY <1>5 DEF ShutDown, vars, enqueue, Elapse
  <2> QED BY <2>1 DEF TypeOK, VersionsInv
<1> QED BY <1>1, <1>2, <1>3, <1>4, <1>5 DEF Next, worker

\* No run of syncHandler is overtaken by a later run of the same key.
THEOREM RunsInOrder == Spec => SyncedNeverRegresses
<1>1. Init => VersionsInv
  BY DEF Init, VersionsInv
<1>2. TypeOK /\ WorkersInv /\ VersionsInv /\ [Next]_vars =>
         VersionsInv' /\ [\A k \in Keys : synced[k] <= synced'[k]]_synced
  BY VersionsStep
<1> QED BY <1>1, <1>2, TypeCorrect, InitQueue, QueueStep, PTL
    DEF Spec, SyncedNeverRegresses

(***************************************************************************)
(* No change is lost.  What the invariant has to add is the case of a      *)
(* change that comes after the read of a run under way: such a key is      *)
(* marked, or about to be, and stays so until the run is over.             *)
(***************************************************************************)
AwaitsRun(k) ==
  \/ pending[k] > 0
  \/ k \in dirty \cup waiting
  \/ \E w \in Workers :
        /\ key[w] = k
        /\ \/ pc[w] \in {"start", "failed", "retry"}
           \/ pc[w] = "sync" /\ read[w] = cached[k]

ReadInv ==
  shuttingDown \/ \A w \in Workers :
    pc[w] = "sync" /\ read[w] # cached[key[w]] =>
      pending[key[w]] > 0 \/ key[w] \in dirty

ChangesInv == NoLostChange /\ ReadInv

LEMMA ReadStep ==
  ASSUME TypeOK, QueueInv, WorkersInv, ReadInv, [Next]_vars
  PROVE  ReadInv'
<1> USE DEF queueVars, workerVars, cacheVars
<1>0. \A w \in Workers : pc[w] = "sync" => key[w] \in Keys
  BY DEF TypeOK
<1>1. ASSUME NEW k \in Keys, Change(k) PROVE ReadInv'
  <2>1. \A e \in Keys : \/ cached'[e] = cached[e] /\ pending'[e] = pending[e]
                        \/ pending'[e] > 0
    BY <1>1 DEF Change, TypeOK
  <2> QED BY <1>0, <1>1, <2>1 DEF Change, ReadInv
<1>2. ASSUME NEW k \in Keys, enqueue(k) \/ Elapse(k) PROVE ReadInv'
  <2>1. UNCHANGED <<pc, key, read, cached, shuttingDown>>
    BY <1>2 DEF enqueue, Elapse
  <2>2. shuttingDown \/ \A e \in Keys :
          pending[e] > 0 \/ e \in dirty => pending'[e] > 0 \/ e \in dirty'
    BY <1>2 DEF enqueue, Elapse, Add, TypeOK
  <2> QED BY <1>0, <2>1, <2>2 DEF ReadInv
<1>3. ASSUME NEW w \in Workers, Get(w) PROVE ReadInv'
  <2>1. Head(queue) \notin processing
    BY <1>3, GetStep
  <2>2. \A v \in Workers : pc'[v] = "sync" =>
           pc[v] = "sync" /\ key'[v] = key[v] /\ key[v] # Head(queue)
    BY <1>3, <2>1 DEF Get, Goto, TypeOK, WorkersInv, Busy
  <2> QED BY <1>3, <2>2 DEF Get, ReadInv
<1>4. ASSUME NEW w \in Workers, ReadCache(w) PROVE ReadInv'
  BY <1>4 DEF ReadCache, Goto, TypeOK, ReadInv
<1>5. ASSUME NEW w \in Workers,
             \/ Stop(w) \/ SyncSucceeds(w) \/ SyncRequeues(w)
             \/ SyncFails(w) \/ ItemDone(w) \/ Retry(w)
      PROVE  ReadInv'
  <2>1. /\ \A v \in Workers : pc'[v] = "sync" => pc[v] = "sync"
        /\ UNCHANGED <<key, read, cached, pending, dirty, shuttingDown>>
    BY <1>5 DEF Stop, SyncSucceeds, SyncRequeues, SyncFails, ItemDone, Done,
       Retry, Goto, TypeOK
  <2> QED BY <2>1 DEF ReadInv
<1>6. CASE ShutDown \/ UNCHANGED vars
  BY <1>6 DEF ShutDown, vars, ReadInv
<1> QED BY <1>1, <1>2, <1>3, <1>4, <1>5, <1>6 DEF Next, worker

LEMMA ChangesStep ==
  ASSUME TypeOK, QueueInv, WorkersInv, ChangesInv, [Next]_vars
  PROVE  NoLostChange'
<1> USE DEF queueVars, workerVars, cacheVars
<1>0. SUFFICES ASSUME ~shuttingDown', NEW k \in Keys, synced'[k] # cached'[k]
               PROVE  AwaitsRun(k)'
  BY DEF NoLostChange, AwaitsRun
<1>1. ~shuttingDown /\ (synced[k] # cached[k] => AwaitsRun(k))
  BY <1>0 DEF Next, worker, Change, enqueue, Elapse, Get, Stop, ReadCache,
     SyncSucceeds, SyncRequeues, SyncFails, ItemDone, Retry, ShutDown, vars,
     ChangesInv, NoLostChange, AwaitsRun
<1>2. ASSUME NEW e \in Keys, Change(e) PROVE AwaitsRun(k)'
  <2>1. CASE e = k
    <3>1. pending'[k] > 0
      BY <1>2, <2>1 DEF Change, TypeOK
    <3> QED BY <3>1 DEF AwaitsRun
  <2>2. CASE e # k
    <3>1. /\ cached'[k] = cached[k] /\ pending'[k] = pending[k]
          /\ UNCHANGED <<dirty, waiting, key, pc, read, synced>>
      BY <1>2, <2>2 DEF Change, TypeOK
    <3> QED BY <1>0, <1>1, <3>1 DEF AwaitsRun
  <2> QED BY <2>1, <2>2
<1>3. ASSUME NEW e \in Keys, enqueue(e) \/ Elapse(e) PROVE AwaitsRun(k)'
  <2>1. UNCHANGED <<pc, key, read, cached, synced>>
    BY <1>3 DEF enqueue, Elapse
  <2>2. pending[k] > 0 \/ k \in dirty \cup waiting =>
           pending'[k] > 0 \/ k \in dirty' \cup waiting'
    BY <1>1, <1>3 DEF enqueue, Elapse, Add, TypeOK
  <2> QED BY <1>0, <1>1, <2>1, <2>2 DEF AwaitsRun
<1>4. ASSUME NEW w \in Workers, Get(w) PROVE AwaitsRun(k)'
  <2>1. /\ pc[w] = "idle" /\ pc'[w] = "start" /\ key'[w] = Head(queue)
        /\ \A v \in Workers : v # w => pc'[v] = pc[v] /\ key'[v] = key[v]
        /\ dirty' = dirty \ {Head(queue)}
        /\ UNCHANGED <<waiting, read, cached, pending, synced>>
    BY <1>4 DEF Get, Goto, TypeOK
  <2> QED BY <1>0, <1>1, <2>1 DEF AwaitsRun
<1>5. ASSUME NEW w \in Workers, ReadCache(w) PROVE AwaitsRun(k)'
  <2>1. /\ pc[w] = "start" /\ pc'[w] = "sync" /\ read'[w] = cached[key[w]]
        /\ \A v \in Workers : v # w => pc'[v] = pc[v] /\ read'[v] = read[v]
        /\ UNCHANGED <<dirty, waiting, key, cached, pending, synced>>
    BY <1>5 DEF ReadCache, Goto, TypeOK
  <2> QED BY <1>0, <1>1, <2>1 DEF AwaitsRun
<1>6. ASSUME NEW w \in Workers, SyncSucceeds(w) PROVE AwaitsRun(k)'
  <2>1. /\ pc[w] = "sync" /\ pc'[w] = "finish"
        /\ synced' = [synced EXCEPT ![key[w]] = read[w]]
        /\ \A v \in Workers : v # w => pc'[v] = pc[v]
        /\ UNCHANGED <<dirty, waiting, key, read, cached, pending>>
    BY <1>6 DEF SyncSucceeds, Goto, TypeOK
  <2>2. CASE key[w] = k
    <3>1. read[w] # cached[k]
      BY <1>0, <2>1, <2>2 DEF TypeOK
    <3>2. pending[k] > 0 \/ k \in dirty
      BY <1>1, <2>1, <2>2, <3>1 DEF ChangesInv, ReadInv
    <3> QED BY <2>1, <3>2 DEF AwaitsRun
  <2>3. CASE key[w] # k
    <3>1. synced'[k] = synced[k]
      BY <2>1, <2>3 DEF TypeOK
    <3> QED BY <1>0, <1>1, <2>1, <2>3, <3>1 DEF AwaitsRun
  <2> QED BY <2>2, <2>3
<1>7. ASSUME NEW w \in Workers, SyncRequeues(w) \/ Retry(w)
      PROVE  AwaitsRun(k)'
  <2>1. /\ waiting' = waiting \cup {key[w]}
        /\ \A v \in Workers : v # w => pc'[v] = pc[v]
        /\ UNCHANGED <<dirty, key, read, cached, pending, synced>>
    BY <1>1, <1>7 DEF SyncRequeues, Retry, AddAfter, Goto, TypeOK
  <2> QED BY <1>0, <1>1, <2>1 DEF AwaitsRun
<1>8. ASSUME NEW w \in Workers, Stop(w) \/ SyncFails(w) \/ ItemDone(w)
      PROVE  AwaitsRun(k)'
  <2>1. /\ pc'[w] \in {"failed", "retry"} \/ pc[w] \in {"idle", "finish"}
        /\ \A v \in Workers : v # w => pc'[v] = pc[v]
        /\ UNCHANGED <<dirty, waiting, key, read, cached, pending, synced>>
    BY <1>8 DEF Stop, SyncFails, ItemDone, Done, Goto, TypeOK
  <2> QED BY <1>0, <1>1, <2>1 DEF AwaitsRun
<1>9. CASE ShutDown
  BY <1>0, <1>9 DEF ShutDown
<1>10. CASE UNCHANGED vars
  BY <1>0, <1>1, <1>10 DEF vars, AwaitsRun
<1> QED BY <1>2, <1>3, <1>4, <1>5, <1>6, <1>7, <1>8, <1>9, <1>10
    DEF Next, worker

\* No change of a cached object goes unnoticed, whenever it comes and however
\* the runs of its key end.
THEOREM NothingLost == Spec => []NoLostChange
<1>1. Init => ChangesInv
  BY DEF Init, ChangesInv, NoLostChange, ReadInv
<1>2. TypeOK /\ QueueInv /\ WorkersInv /\ ChangesInv /\ [Next]_vars =>
         ChangesInv'
  BY ReadStep, ChangesStep DEF ChangesInv
<1>3. ChangesInv => NoLostChange
  BY DEF ChangesInv
<1> QED BY <1>1, <1>2, <1>3, TypeCorrect, InitQueue, QueueStep, PTL DEF Spec
=============================================================================
