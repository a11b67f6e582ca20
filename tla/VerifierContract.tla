--------------------------- MODULE VerifierContract ---------------------------
(***************************************************************************)
(* circuits/verifier_contract.py: a proof is submitted by anybody, checked *)
(* off chain, and confirmed by one trusted account; whoever holds its id   *)
(* can then ask whether a threshold is met.  The helper contract of the    *)
(* same file that looks at batches of pairings is modelled beside it.      *)
(*                                                                         *)
(* Proofs and public inputs are byte strings, because the id is cut from   *)
(* their concatenation.  The box maps are written and read under the ABI   *)
(* encoding of an id, which begins with its length, but the tests of       *)
(* membership ask for its bare bytes (proof_id.native): another key, which *)
(* is in a map only if a shorter id has that encoding.  The hash of a      *)
(* proof is modelled by the proof.  A call that fails, by an assert or by  *)
(* reading a box that does not exist, changes nothing, and is not enabled. *)
(***************************************************************************)
EXTENDS Integers, FiniteSets, Sequences

CONSTANTS
  Accounts, Proofs, Inputs, Thresholds, Rounds,
  PairSizes,  \* sizes of precomputed pairs somebody may send
  Batches,    \* pairing batches: the sizes of the points in a and in b
  IdSize,     \* bytes of a proof id (32)
  MaxUint64,  \* a counter beyond it fails the call
  None

ASSUME VerifierAssumption ==
  /\ Proofs \subseteq Seq(Nat) /\ Inputs \subseteq Seq(Nat)
  /\ Thresholds \subseteq Nat /\ Rounds \subseteq Nat
  /\ IdSize \in Nat /\ MaxUint64 \in Nat
  /\ None \notin Accounts \cup Nat

VARIABLES
  trustedVerifier,      \* None before the contract is created
  verificationCounter,
  verifications,        \* box map: encoded proof id -> VerificationStatus
  proofRegistry,        \* box map: encoded proof id -> public inputs
  generators,           \* bytes in g1_generator and g2_generator of the helper
  pairingResult         \* verification_result of the helper contract

pairingVars == <<generators, pairingResult>>
contractVars == <<trustedVerifier, verificationCounter, verifications, proofRegistry>>
vars == <<contractVars, pairingVars>>

VerificationStatus ==
  [threshold : Thresholds, proof_hash : Proofs, is_verified : BOOLEAN,
   verifier_address : Accounts, verified_at_round : Rounds \cup {0}]

TypeOK ==
  /\ trustedVerifier \in Accounts \cup {None}
  /\ verificationCounter \in 0 .. MaxUint64
  /\ verifications \in [DOMAIN verifications -> VerificationStatus]
  /\ proofRegistry \in [DOMAIN proofRegistry -> Inputs]
  /\ generators \in {0, 96} /\ pairingResult \in {None, 0, 1}

Empty == [i \in {} |-> None]

Init ==
  /\ trustedVerifier = None /\ verificationCounter = 0
  /\ verifications = Empty /\ proofRegistry = Empty
  /\ generators = 0 /\ pairingResult = None
-----------------------------------------------------------------------------
(* _compute_proof_id: the first bytes of the proof and what follows it. *)
ComputeProofId(proof, inputs) ==
  LET combined == proof \o inputs IN
  SubSeq(combined, 1, IF Len(combined) < IdSize THEN Len(combined) ELSE IdSize)

(* arc4.DynamicBytes: two bytes of length, then the bytes. *)
Stored(id) == <<Len(id) \div 256, Len(id) % 256>> \o id

Put(boxes, key, value) ==
  [k \in DOMAIN boxes \cup {key} |-> IF k = key THEN value ELSE boxes[k]]

Create(verifier) ==
  /\ trustedVerifier = None
  /\ trustedVerifier' = verifier
  /\ verificationCounter' = 0
  /\ UNCHANGED <<verifications, proofRegistry, pairingVars>>

Submitted(sender, threshold, proof) ==
  [threshold |-> threshold, proof_hash |-> proof, is_verified |-> FALSE,
   verifier_address |-> sender, verified_at_round |-> 0]

(* Fault: the status of a known id is written again. *)
SubmitProofAgain(sender, threshold, proof, inputs) ==
  LET key == Stored(ComputeProofId(proof, inputs)) IN
  /\ trustedVerifier # None
  /\ proofRegistry' = Put(proofRegistry, key, inputs)
  /\ verifications' = Put(verifications, key, Submitted(sender, threshold, proof))
  /\ UNCHANGED <<trustedVerifier, verificationCounter, pairingVars>>

(* Fault: one of the maps is written under the bare bytes. *)
SubmitUnderNative(sender, threshold, proof, inputs) ==
  LET id == ComputeProofId(proof, inputs) IN
  /\ trustedVerifier # None
  /\ id \notin DOMAIN proofRegistry
  /\ proofRegistry' = Put(proofRegistry, Stored(id), inputs)
  /\ verifications' = Put(verifications, id, Submitted(sender, threshold, proof))
  /\ UNCHANGED <<trustedVerifier, verificationCounter, pairingVars>>

(* submit_proof_for_verification.  An id that the test takes for a known   *)
(* one is only returned; any other is filed, over what was filed under it. *)
SubmitProof(sender, threshold, proof, inputs) ==
  LET id == ComputeProofId(proof, inputs) IN
  /\ trustedVerifier # None
  /\ id \notin DOMAIN proofRegistry
  /\ proofRegistry' = Put(proofRegistry, Stored(id), inputs)
  /\ verifications' = Put(verifications, Stored(id), Submitted(sender, threshold, proof))
  /\ UNCHANGED <<trustedVerifier, verificationCounter, pairingVars>>

Confirmed(status, round) ==
  [status EXCEPT !.is_verified = TRUE, !.verified_at_round = round]

(* Fault: the first confirmation only is counted. *)
ConfirmUncounted(sender, id, round) ==
  /\ sender = trustedVerifier
  /\ id \in DOMAIN verifications /\ Stored(id) \in DOMAIN verifications
  /\ verifications' = Put(verifications, Stored(id), Confirmed(verifications[Stored(id)], round))
  /\ verificationCounter' = 1
  /\ UNCHANGED <<trustedVerifier, proofRegistry, pairingVars>>

(* confirm_verification, of an id that passes the test and is filed; also  *)
(* when it is confirmed already, which is counted again.                   *)
ConfirmVerification(sender, id, round) ==
  /\ sender = trustedVerifier
  /\ id \in DOMAIN verifications /\ Stored(id) \in DOMAIN verifications
  /\ verificationCounter < MaxUint64
  /\ verifications' = Put(verifications, Stored(id), Confirmed(verifications[Stored(id)], round))
  /\ verificationCounter' = verificationCounter + 1
  /\ UNCHANGED <<trustedVerifier, proofRegistry, pairingVars>>

(* PairingVerifierSubroutine, the other contract: initialize, *)
InitializePairing ==
  /\ pairingResult = None
  /\ pairingResult' = 0
  /\ UNCHANGED <<generators, contractVars>>

(* set_precomputed_pairs, *)
SetPrecomputedPairs(size) ==
  /\ pairingResult # None
  /\ size = 96
  /\ generators' = size
  /\ UNCHANGED <<pairingResult, contractVars>>

(* and verify_pairing_batch: as many a as b, each of the right size.  An   *)
(* empty batch is answered True as well, and leaves the result alone.      *)
VerifyPairingBatch(a, b) ==
  /\ pairingResult # None
  /\ Len(a) = Len(b) /\ Len(a) > 0
  /\ \A i \in DOMAIN a : a[i] = 48 /\ b[i] = 96
  /\ pairingResult' = 1
  /\ UNCHANGED <<generators, contractVars>>

Next ==
  \/ \E account \in Accounts :
       \/ Create(account)
       \/ \E threshold \in Thresholds, proof \in Proofs, inputs \in Inputs :
            SubmitProof(account, threshold, proof, inputs)
       \/ \E id \in DOMAIN verifications, round \in Rounds :
            ConfirmVerification(account, id, round)
  \/ InitializePairing
  \/ \E size \in PairSizes : SetPrecomputedPairs(size)
  \/ \E batch \in Batches : VerifyPairingBatch(batch.a, batch.b)

Spec == Init /\ [][Next]_vars
-----------------------------------------------------------------------------
(* is_verified, of an id for which it does not fail. *)
IsVerified(id) ==
  /\ id \in DOMAIN verifications /\ Stored(id) \in DOMAIN verifications
  /\ verifications[Stored(id)].is_verified

(* verify_greater_than, the question the contract exists for. *)
VerifyGreaterThan(id, required) ==
  IsVerified(id) /\ verifications[Stored(id)].threshold >= required

(* The two box maps speak of the same proofs: the key of a box encodes the *)
(* id of the proof and the inputs filed under it, also after one of the    *)
(* submissions that have the same id replaced another.                     *)
BoxesAgree ==
  /\ DOMAIN verifications = DOMAIN proofRegistry
  /\ \A key \in DOMAIN verifications :
       key = Stored(ComputeProofId(verifications[key].proof_hash, proofRegistry[key]))

(* get_verification_count is never less than the number of boxes that say  *)
(* verified (it is more when a proof is confirmed again).                  *)
CountCoversVerified ==
  Cardinality({key \in DOMAIN verifications : verifications[key].is_verified})
    <= verificationCounter

(* A positive answer is never withdrawn, and what answers was submitted:   *)
(* although submissions replace each other, no confirmation is carried     *)
(* over to another proof, threshold or account.                            *)
AnswersStand ==
  [][\A id \in DOMAIN verifications, required \in Thresholds :
       /\ VerifyGreaterThan(id, required) => VerifyGreaterThan(id, required)'
       /\ VerifyGreaterThan(id, required)' /\ Stored(id) \in DOMAIN verifications =>
            LET status == verifications[Stored(id)] IN
            /\ status.threshold >= required
            /\ verifications'[Stored(id)].proof_hash = status.proof_hash
            /\ verifications'[Stored(id)].verifier_address = status.verifier_address]_vars
=============================================================================
