------------------------------ MODULE MCRollout ------------------------------
(***************************************************************************)
(* Rollout for TLC.  The instances differ in which caches may lag, in what *)
(* the environment may do, and in what is asked of the operator then.      *)
(***************************************************************************)
EXTENDS Rollout, TLC

\* Nothing tells one configuration from another.  (For safety only.)
ConfigSymmetry == Permutations(Configs)
=============================================================================
