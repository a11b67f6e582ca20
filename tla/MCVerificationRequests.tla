------------------------ MODULE MCVerificationRequests ------------------------
(***************************************************************************)
(* Instances of VerificationRequests for TLC.  Numbers are small: incomes, *)
(* secrets and thresholds on both sides of each other, negative ones that  *)
(* wrap, fractions, those that are cut to zero, which both the KYC agent   *)
(* and the prover take for "missing", and a secret too large for the flags *)
(* of the prover.  A record of -2 (4 halves) is above a threshold of -2.5. *)
(***************************************************************************)
EXTENDS VerificationRequests, TLC

MCIncomes == {-2, 0, 1}
MCThresholds == {-5, 1, 3}
MCSecrets == {-3, 5, 9}

MCSymmetry == Permutations(Users) \cup Permutations(RequestIds) \cup Permutations(Handlers)
=============================================================================
