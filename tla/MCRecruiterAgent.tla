--------------------------- MODULE MCRecruiterAgent ---------------------------
(***************************************************************************)
(* Instances of RecruiterAgent for TLC: a few rounds of the chain, so that *)
(* two attempts may fall into the same round or into different ones.       *)
(***************************************************************************)
EXTENDS RecruiterAgent
=============================================================================
