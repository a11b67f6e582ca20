---------------------------- MODULE MCTruthRegistry ----------------------------
(***************************************************************************)
(* Instances of TruthRegistry for TLC: accounts that may be admin, creator,*)
(* institution or none of these, two traits and two proof ids.             *)
(***************************************************************************)
EXTENDS TruthRegistry, TLC

MCSymmetry == Permutations(TraitIds) \cup Permutations(ProofIds) \cup Permutations(Commitments)
=============================================================================
