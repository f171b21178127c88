-------------------------- MODULE LifecycleProofs --------------------------
(***************************************************************************)
(* No worker of the operator's process ever reads a cache that has not     *)
(* synced, whatever the number of workers, and wherever signals, crashes   *)
(* and restarts come in.                                                   *)
(***************************************************************************)
EXTENDS Lifecycle, TLAPS

\* The informers of the constructors called so far are registered; the map that
\* WaitForCacheSync copies has all of them; what it no longer waits for has
\* synced; and controllers are started with nothing left to wait for.
IInv ==
  /\ TypeOK
  /\ \A c \in created : Uses(c) \subseteq registered
  /\ main \in {"lock", "poll", "wait"} => created = Controllers
  /\ main \in {"poll", "wait"} => registered \subseteq toSync \cup synced
  /\ main \in {"build", "construct", "lock"} => started = {}
  /\ main = "wait" => toSync = {}
  /\ started # {} => registered \subseteq synced /\ created = Controllers

LEMMA UsesInKinds == \A c \in Controllers : Uses(c) \subseteq Kinds
BY DEF Kinds

LEMMA InitIInv == Init => IInv
BY DEF Init, IInv, TypeOK

\* A worker of a started controller finds its informers synced.
LEMMA IInvImplies == IInv => WorkersReadSyncedCaches
BY DEF IInv, TypeOK, WorkersReadSyncedCaches

\* Every step of the process keeps the invariant.
LEMMA NextIInv == IInv /\ [Next]_vars => IInv'
<1> SUFFICES ASSUME IInv, [Next]_vars PROVE IInv'
  OBVIOUS
<1> USE DEF IInv, TypeOK
<1>1. CASE BuildClients
  BY <1>1 DEF BuildClients
<1>2. ASSUME NEW c \in Controllers, Construct(c) PROVE IInv'
  BY <1>2, UsesInKinds DEF Construct
<1>3. CASE LaunchInformers
  BY <1>3 DEF LaunchInformers
<1>4. CASE InformersRun
  BY <1>4 DEF InformersRun
<1>5. CASE InformersStop
  BY <1>5 DEF InformersStop
<1>6. ASSUME NEW k \in Kinds, CacheSynced(k) PROVE IInv'
  BY <1>6 DEF CacheSynced
<1>7. CASE WaitForCacheSync
  BY <1>7 DEF WaitForCacheSync
<1>8. CASE Poll
  BY <1>8 DEF Poll
<1>9. CASE PollAborted
  BY <1>9 DEF PollAborted
<1>10. ASSUME NEW c \in Controllers, StartController(c) PROVE IInv'
  BY <1>10 DEF StartController
<1>11. ASSUME NEW c \in Controllers, NEW w \in Workers,
              WorkerBegins(c, w) \/ WorkerEnds(c, w)
       PROVE IInv'
  BY <1>11 DEF WorkerBegins, WorkerEnds
<1>12. ASSUME NEW c \in Controllers, ControllerStops(c) PROVE IInv'
  BY <1>12 DEF ControllerStops
<1>13. CASE Exit
  BY <1>13 DEF Exit
<1>14. CASE Signal
  BY <1>14 DEF Signal
<1>15. CASE Crash
  BY <1>15 DEF Crash
<1>16. CASE Restart
  BY <1>16 DEF Restart
<1>17. CASE UNCHANGED vars
  BY <1>17 DEF vars
<1> QED
  BY <1>1, <1>2, <1>3, <1>4, <1>5, <1>6, <1>7, <1>8, <1>9, <1>10, <1>11, <1>12,
     <1>13, <1>14, <1>15, <1>16, <1>17 DEF Next, MainStep

\* The variables keep their types: in particular no controller runs that was
\* not constructed, and only registered informers are waited for.
THEOREM TypeCorrect == Spec => []TypeOK
<1>1. IInv => TypeOK
  BY DEF IInv
<1> QED
  BY InitIInv, NextIInv, <1>1, PTL DEF Spec

\* The manager's promise that "controllers do not need to wait for informers to
\* sync": no run of a worker reads a cache without its first list.
THEOREM CachesSynced == Spec => []WorkersReadSyncedCaches
BY InitIInv, NextIInv, IInvImplies, PTL DEF Spec
=============================================================================
