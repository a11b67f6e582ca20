----------------------------- MODULE MCDeployment -----------------------------
(***************************************************************************)
(* An instance of Deployment for TLC: two versions of identity_registry,   *)
(* so that it can change, and change back.  The directory lists            *)
(* truth_registry first, which imports identity_registry's client before   *)
(* that one is rebuilt; called for one contract at a time, the script      *)
(* deploys the two registries in either order.                             *)
(***************************************************************************)
EXTENDS Deployment, TLC

MCSymmetry == Permutations(Versions)

MCOrders == {<<"truth_registry", "trust_anchor", "identity_registry">>}
=============================================================================
