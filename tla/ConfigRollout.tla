---------------------------- MODULE ConfigRollout ----------------------------
(***************************************************************************)
(* What the rollout of configurations looks like to somebody who sees the  *)
(* API server only, while nobody deletes anything and the caches keep up.  *)
(* Configurations are offered to the Deployment one at a time, in a        *)
(* ConfigMap that stays; the Deployment mounts one configuration after     *)
(* another, always one that is there; and an offer is withdrawn, by        *)
(* handing the ConfigMap over, only when there is a Deployment.            *)
(***************************************************************************)
CONSTANT Configs

VARIABLES
  kept,     \* configurations that have a ConfigMap
  offered,  \* those whose ConfigMap the proxy controls
  mounted   \* those that Deployments mount

vars == <<kept, offered, mounted>>

Init == kept = {} /\ offered = {} /\ mounted = {}

\* A ConfigMap is created for the proxy, or becomes the proxy's again.
Offer(c) ==
  /\ offered = {}
  /\ offered' = {c}
  /\ kept' = kept \cup {c}
  /\ UNCHANGED mounted

\* The one Deployment is created, or changed in place.
Mount(c) ==
  /\ c \in kept
  /\ mounted' = {c}
  /\ UNCHANGED <<kept, offered>>

HandOver ==
  /\ offered # {} /\ mounted # {}
  /\ offered' = {}
  /\ UNCHANGED <<kept, mounted>>

Next == HandOver \/ \E c \in Configs : Offer(c) \/ Mount(c)

Spec == Init /\ [][Next]_vars
=============================================================================
