-------------------------- MODULE MCVerifierContract --------------------------
(***************************************************************************)
(* An instance of VerifierContract for TLC: ids of three bytes, and proofs *)
(* shorter than an id, as long as one, and longer.  Different submissions  *)
(* get the same id, and the id of one is the encoding of another's.        *)
(***************************************************************************)
EXTENDS VerifierContract, TLC

MCSymmetry == Permutations(Accounts)

MCProofs == {<<>>, <<0, 0>>, <<0, 1, 1, 2>>}
MCInputs == {<<>>, <<1>>}
MCBatches == {[a |-> <<>>, b |-> <<>>], [a |-> <<48>>, b |-> <<96>>],
              [a |-> <<48, 47>>, b |-> <<96, 96>>], [a |-> <<48>>, b |-> <<>>]}
=============================================================================
