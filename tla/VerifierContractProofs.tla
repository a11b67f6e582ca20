------------------------ MODULE VerifierContractProofs ------------------------
(***************************************************************************)
(* Proofs about VerifierContract, for any accounts, proofs, inputs,        *)
(* thresholds and rounds: every proof that counts as verified was counted, *)
(* the two box maps agree, what verify_greater_than once said stands, and  *)
(* which proofs can be confirmed at all.                                   *)
(***************************************************************************)
EXTENDS VerifierContract, FiniteSetTheorems, SequenceTheorems, TLAPS

Verified == {key \in DOMAIN verifications : verifications[key].is_verified}

(* Before the contract is created it holds nothing, so that create may set *)
(* the counter to zero; and it only ever holds finitely many boxes, under  *)
(* byte strings.                                                           *)
BoxesFinite ==
  /\ trustedVerifier = None => DOMAIN verifications = {}
  /\ IsFiniteSet(DOMAIN verifications) /\ DOMAIN verifications \subseteq Seq(Nat)

(* A box says verified only if its id is, bare, the key of another box:    *)
(* nothing else passes the test of confirm_verification.                   *)
OnlyShadowed == \A key \in Verified : \E id \in DOMAIN verifications : key = Stored(id)

IInv == TypeOK /\ BoxesAgree /\ BoxesFinite /\ CountCoversVerified /\ OnlyShadowed

-----------------------------------------------------------------------------
LEMMA StoredBytes ==
  ASSUME NEW id \in Seq(Nat)
  PROVE  /\ Stored(id) \in Seq(Nat) /\ Len(Stored(id)) = Len(id) + 2
         /\ \A i \in 1 .. Len(id) : Stored(id)[i + 2] = id[i]
  <1>1. Len(id) \in Nat OBVIOUS
  <1>2. PICK h, l : h = Len(id) \div 256 /\ l = Len(id) % 256 OBVIOUS
  <1>3. h \in Nat /\ l \in Nat BY <1>1, <1>2
  <1>4. Stored(id) = <<h, l>> \o id BY <1>2 DEF Stored
  <1>5. <<h, l>> \in Seq(Nat) /\ Len(<<h, l>>) = 2 BY <1>3
  <1> QED BY <1>1, <1>4, <1>5

(* Different ids have different encodings. *)
LEMMA StoredInjective ==
  ASSUME NEW a \in Seq(Nat), NEW b \in Seq(Nat), Stored(a) = Stored(b)
  PROVE  a = b
  <1>1. Len(a) = Len(b) BY StoredBytes
  <1>2. ASSUME NEW i \in 1 .. Len(a) PROVE a[i] = b[i]
    <2>1. Stored(a)[i + 2] = a[i] BY StoredBytes
    <2>2. Stored(b)[i + 2] = b[i] BY <1>1, StoredBytes
    <2> QED BY <2>1, <2>2
  <1> QED BY <1>1, <1>2, SeqEqual

LEMMA ProofIdBytes ==
  ASSUME NEW proof \in Seq(Nat), NEW inputs \in Seq(Nat)
  PROVE  ComputeProofId(proof, inputs) \in Seq(Nat)
  <1> DEFINE combined == proof \o inputs
  <1>1. combined \in Seq(Nat) /\ Len(combined) \in Nat /\ IdSize \in Nat
    BY VerifierAssumption
  <1> HIDE DEF combined
  <1>2. SubSeq(combined, 1, IF Len(combined) < IdSize THEN Len(combined) ELSE IdSize) \in Seq(Nat)
    BY <1>1, SubSeqProperties
  <1> QED BY <1>2 DEF ComputeProofId, combined

(* A step that leaves the boxes alone. *)
LEMMA SameContract ==
  ASSUME IInv, UNCHANGED <<verifications, proofRegistry>>,
         verificationCounter' = verificationCounter,
         trustedVerifier' = trustedVerifier
  PROVE  BoxesAgree' /\ BoxesFinite' /\ CountCoversVerified' /\ OnlyShadowed'
  <1> USE DEF IInv
  <1>1. BoxesAgree' BY DEF BoxesAgree, ComputeProofId, Stored
  <1>2. BoxesFinite' BY DEF BoxesFinite
  <1>3. CountCoversVerified' /\ OnlyShadowed'
    BY DEF CountCoversVerified, OnlyShadowed, Verified, Stored
  <1> QED BY <1>1, <1>2, <1>3

LEMMA InitEstablishes == Init => IInv
  <1> SUFFICES ASSUME Init PROVE IInv OBVIOUS
  <1> USE DEF Init, Empty
  <1>1. DOMAIN verifications = {} /\ DOMAIN proofRegistry = {} OBVIOUS
  <1>2. TypeOK BY <1>1, VerifierAssumption DEF TypeOK
  <1>3. BoxesAgree BY <1>1 DEF BoxesAgree
  <1>4. BoxesFinite BY <1>1, FS_EmptySet DEF BoxesFinite
  <1>5. CountCoversVerified
    <2>1. {key \in DOMAIN verifications : verifications[key].is_verified} = {} BY <1>1
    <2> QED BY <2>1, FS_EmptySet DEF CountCoversVerified
  <1>6. OnlyShadowed BY <1>1 DEF OnlyShadowed, Verified
  <1> QED BY <1>2, <1>3, <1>4, <1>5, <1>6 DEF IInv

LEMMA CreatePreserves ==
  ASSUME IInv, NEW account \in Accounts, Create(account)
  PROVE  IInv'
  <1> USE DEF IInv, Create, pairingVars
  <1>1. DOMAIN verifications = {} BY DEF BoxesFinite
  <1>2. TypeOK' BY VerifierAssumption DEF TypeOK
  <1>3. BoxesAgree' BY DEF BoxesAgree, ComputeProofId, Stored
  <1>4. BoxesFinite' BY VerifierAssumption DEF BoxesFinite
  <1>5. CountCoversVerified'
    <2>1. {key \in DOMAIN verifications : verifications[key].is_verified}' = {} BY <1>1
    <2> QED BY <2>1, FS_EmptySet DEF CountCoversVerified
  <1>6. OnlyShadowed' BY <1>1 DEF OnlyShadowed, Verified
  <1> QED BY <1>2, <1>3, <1>4, <1>5, <1>6

(* What a submission writes over was not verified: an id that is confirmed *)
(* is one that the test takes for a known one.                             *)
LEMMA SubmitPreserves ==
  ASSUME IInv, NEW account \in Accounts, NEW threshold \in Thresholds,
         NEW proof \in Proofs, NEW inputs \in Inputs,
         SubmitProof(account, threshold, proof, inputs)
  PROVE  /\ IInv' /\ DOMAIN verifications \subseteq DOMAIN verifications'
         /\ Verified' = Verified
         /\ \A key \in Verified : verifications'[key] = verifications[key]
  <1> DEFINE id == ComputeProofId(proof, inputs)
             status == Submitted(account, threshold, proof)
  <1>0. PICK key : key = Stored(id) OBVIOUS
  <1> HIDE DEF id, status
  <1>1. /\ trustedVerifier # None /\ id \notin DOMAIN proofRegistry
        /\ proofRegistry' = Put(proofRegistry, key, inputs)
        /\ verifications' = Put(verifications, key, status)
        /\ UNCHANGED <<trustedVerifier, verificationCounter, generators, pairingResult>>
    BY <1>0 DEF SubmitProof, id, status, pairingVars
  <1>2. status \in VerificationStatus /\ ~status.is_verified /\ status.proof_hash = proof
    BY DEF Submitted, VerificationStatus, status
  <1>3. /\ DOMAIN verifications' = DOMAIN verifications \cup {key}
        /\ verifications'[key] = status
        /\ \A k \in DOMAIN verifications : k # key => verifications'[k] = verifications[k]
    BY <1>1 DEF Put
  <1>4. /\ DOMAIN proofRegistry' = DOMAIN proofRegistry \cup {key}
        /\ proofRegistry'[key] = inputs
        /\ \A k \in DOMAIN proofRegistry : k # key => proofRegistry'[k] = proofRegistry[k]
    BY <1>1 DEF Put
  <1>5. id \in Seq(Nat) /\ key \in Seq(Nat)
    BY <1>0, VerifierAssumption, ProofIdBytes, StoredBytes DEF id
  <1>6. key \notin Verified
    <2> SUFFICES ASSUME key \in Verified PROVE FALSE OBVIOUS
    <2>1. PICK other \in DOMAIN verifications : key = Stored(other) BY DEF IInv, OnlyShadowed
    <2>2. other = id BY <1>0, <1>5, <2>1, StoredInjective DEF IInv, BoxesFinite
    <2> QED BY <1>1, <2>1, <2>2 DEF IInv, BoxesAgree
  <1>7. Verified' = Verified /\ \A k \in Verified : verifications'[k] = verifications[k]
    BY <1>2, <1>3, <1>6 DEF Verified
  <1>8. TypeOK'
    <2>1. verifications' \in [DOMAIN verifications' -> VerificationStatus]
      BY <1>1, <1>2, <1>3 DEF IInv, TypeOK, Put
    <2>2. proofRegistry' \in [DOMAIN proofRegistry' -> Inputs]
      BY <1>1, <1>4 DEF IInv, TypeOK, Put
    <2> QED BY <1>1, <2>1, <2>2 DEF IInv, TypeOK
  <1>9. BoxesAgree'
    <2>1. DOMAIN verifications' = DOMAIN proofRegistry'
      BY <1>3, <1>4 DEF IInv, BoxesAgree
    <2>2. ASSUME NEW k \in DOMAIN verifications'
          PROVE  k = Stored(ComputeProofId(verifications'[k].proof_hash, proofRegistry'[k]))
      <3>1. CASE k = key BY <1>0, <3>1, <1>2, <1>3, <1>4 DEF id
      <3>2. CASE k # key BY <3>2, <1>3, <1>4 DEF IInv, BoxesAgree
      <3> QED BY <3>1, <3>2
    <2> QED BY <2>1, <2>2 DEF BoxesAgree, ComputeProofId, Stored
  <1>10. BoxesFinite' BY <1>1, <1>3, <1>5, FS_AddElement DEF IInv, BoxesFinite
  <1>11. CountCoversVerified'
    BY <1>1, <1>7 DEF IInv, CountCoversVerified, Verified
  <1>12. OnlyShadowed'
    <2>1. \A k \in Verified : \E other \in DOMAIN verifications' : k = Stored(other)
      BY <1>3 DEF IInv, OnlyShadowed
    <2> QED BY <1>7, <2>1 DEF OnlyShadowed, Stored
  <1> QED BY <1>3, <1>7, <1>8, <1>9, <1>10, <1>11, <1>12 DEF IInv

LEMMA ConfirmPreserves ==
  ASSUME IInv, NEW account \in Accounts, NEW id \in DOMAIN verifications,
         NEW round \in Rounds, ConfirmVerification(account, id, round)
  PROVE  /\ IInv' /\ DOMAIN verifications' = DOMAIN verifications
         /\ Verified \subseteq Verified'
         /\ \A key \in DOMAIN verifications :
              /\ verifications'[key].threshold = verifications[key].threshold
              /\ verifications'[key].proof_hash = verifications[key].proof_hash
              /\ verifications'[key].verifier_address = verifications[key].verifier_address
  <1>0. PICK key : key = Stored(id) OBVIOUS
  <1> DEFINE status == Confirmed(verifications[key], round)
  <1> HIDE DEF status
  <1>1. /\ key \in DOMAIN verifications /\ verificationCounter < MaxUint64
        /\ verifications' = Put(verifications, key, status)
        /\ verificationCounter' = verificationCounter + 1
        /\ UNCHANGED <<trustedVerifier, proofRegistry, generators, pairingResult>>
    BY <1>0 DEF ConfirmVerification, status, pairingVars
  <1>2. verifications[key] \in VerificationStatus BY <1>1 DEF IInv, TypeOK
  <1>3. /\ status \in VerificationStatus /\ status.is_verified
        /\ status.threshold = verifications[key].threshold
        /\ status.proof_hash = verifications[key].proof_hash
        /\ status.verifier_address = verifications[key].verifier_address
    BY <1>2 DEF Confirmed, VerificationStatus, status
  <1>4. /\ DOMAIN verifications' = DOMAIN verifications
        /\ verifications'[key] = status
        /\ \A k \in DOMAIN verifications : k # key => verifications'[k] = verifications[k]
    BY <1>1 DEF Put
  <1>5. TypeOK'
    <2>1. verifications' \in [DOMAIN verifications' -> VerificationStatus]
      BY <1>1, <1>3, <1>4 DEF IInv, TypeOK, Put
    <2>2. verificationCounter' \in 0 .. MaxUint64
      BY <1>1, VerifierAssumption DEF IInv, TypeOK
    <2> QED BY <1>1, <2>1, <2>2 DEF IInv, TypeOK
  <1>6. BoxesAgree'
    <2>1. ASSUME NEW k \in DOMAIN verifications'
          PROVE  k = Stored(ComputeProofId(verifications'[k].proof_hash, proofRegistry'[k]))
      <3>1. verifications'[k].proof_hash = verifications[k].proof_hash
        BY <1>3, <1>4
      <3> QED BY <3>1, <1>1, <1>4 DEF IInv, BoxesAgree
    <2> QED BY <2>1, <1>1, <1>4 DEF IInv, BoxesAgree, ComputeProofId, Stored
  <1>7. BoxesFinite' BY <1>1, <1>4 DEF IInv, BoxesFinite
  <1>8. Verified' = Verified \cup {key} BY <1>1, <1>3, <1>4 DEF Verified
  <1>9. CountCoversVerified'
    <2>1. IsFiniteSet(Verified) /\ Cardinality(Verified) \in Nat
      BY FS_Subset, FS_CardinalityType DEF IInv, BoxesFinite, Verified
    <2>2. \/ Cardinality(Verified \cup {key}) = Cardinality(Verified)
          \/ Cardinality(Verified \cup {key}) = Cardinality(Verified) + 1
      BY <2>1, FS_AddElement
    <2>3. Cardinality(Verified) <= verificationCounter
      BY DEF IInv, CountCoversVerified, Verified
    <2>4. verificationCounter \in Nat BY VerifierAssumption DEF IInv, TypeOK
    <2>5. Cardinality(Verified') <= verificationCounter' BY <1>1, <1>8, <2>1, <2>2, <2>3, <2>4
    <2> QED BY <2>5 DEF CountCoversVerified, Verified
  <1>10. OnlyShadowed'
    <2>1. \A k \in Verified \cup {key} : \E other \in DOMAIN verifications : k = Stored(other)
      BY <1>0 DEF IInv, OnlyShadowed
    <2> QED BY <1>4, <1>8, <2>1 DEF OnlyShadowed, Stored
  <1> QED BY <1>3, <1>4, <1>5, <1>6, <1>7, <1>8, <1>9, <1>10 DEF IInv

LEMMA PairingPreserves ==
  ASSUME IInv, UNCHANGED contractVars,
         generators' \in {0, 96}, pairingResult' \in {None, 0, 1}
  PROVE  IInv'
  <1>1. TypeOK' BY DEF IInv, TypeOK, contractVars
  <1>2. BoxesAgree' /\ BoxesFinite' /\ CountCoversVerified' /\ OnlyShadowed'
    BY SameContract DEF contractVars
  <1> QED BY <1>1, <1>2 DEF IInv

LEMMA StepPreserves == IInv /\ [Next]_vars => IInv'
  <1> SUFFICES ASSUME IInv, [Next]_vars PROVE IInv' OBVIOUS
  <1>1. ASSUME NEW account \in Accounts, Create(account) PROVE IInv'
    BY <1>1, CreatePreserves
  <1>2. ASSUME NEW account \in Accounts, NEW threshold \in Thresholds,
               NEW proof \in Proofs, NEW inputs \in Inputs,
               SubmitProof(account, threshold, proof, inputs)
        PROVE  IInv'
    BY <1>2, SubmitPreserves
  <1>3. ASSUME NEW account \in Accounts, NEW id \in DOMAIN verifications,
               NEW round \in Rounds, ConfirmVerification(account, id, round)
        PROVE  IInv'
    BY <1>3, ConfirmPreserves
  <1>4. CASE InitializePairing
    BY <1>4, PairingPreserves DEF InitializePairing, IInv, TypeOK
  <1>5. ASSUME NEW size \in PairSizes, SetPrecomputedPairs(size) PROVE IInv'
    BY <1>5, PairingPreserves DEF SetPrecomputedPairs, IInv, TypeOK
  <1>6. ASSUME NEW a, NEW b, VerifyPairingBatch(a, b) PROVE IInv'
    BY <1>6, PairingPreserves DEF VerifyPairingBatch, IInv, TypeOK
  <1>7. CASE UNCHANGED vars
    BY <1>7, PairingPreserves DEF vars, pairingVars, IInv, TypeOK
  <1> QED BY <1>1, <1>2, <1>3, <1>4, <1>5, <1>6, <1>7 DEF Next

LEMMA Invariance == Spec => []IInv
  BY InitEstablishes, StepPreserves, PTL DEF Spec

-----------------------------------------------------------------------------
(* The storage of both contracts of verifier_contract.py keeps its types,  *)
(* and the counter stays within a uint64.                                  *)
THEOREM VerifierTypeCorrect == Spec => []TypeOK
  <1>1. IInv => TypeOK BY DEF IInv
  <1> QED BY <1>1, Invariance, PTL

(* submit_proof_for_verification and confirm_verification keep the two box *)
(* maps in agreement, whatever proofs share an id.                         *)
THEOREM BoxMapsAgree == Spec => []BoxesAgree
  <1>1. IInv => BoxesAgree BY DEF IInv
  <1> QED BY <1>1, Invariance, PTL

(* get_verification_count covers every verified proof. *)
THEOREM VerifiedAreCounted == Spec => []CountCoversVerified
  <1>1. IInv => CountCoversVerified BY DEF IInv
  <1> QED BY <1>1, Invariance, PTL

(* No step touches a box that says verified, but to confirm it again; and  *)
(* a box that comes to say so keeps what was submitted in it.              *)
LEMMA StepKeepsAnswers ==
  ASSUME IInv, [Next]_vars
  PROVE  /\ DOMAIN verifications \subseteq DOMAIN verifications'
         /\ Verified \subseteq Verified'
         /\ \A key \in Verified' \cap DOMAIN verifications :
              /\ verifications'[key].threshold = verifications[key].threshold
              /\ verifications'[key].proof_hash = verifications[key].proof_hash
              /\ verifications'[key].verifier_address = verifications[key].verifier_address
  <1> DEFINE Kept == /\ DOMAIN verifications \subseteq DOMAIN verifications'
                     /\ Verified \subseteq Verified'
                     /\ \A key \in Verified' \cap DOMAIN verifications :
                          /\ verifications'[key].threshold = verifications[key].threshold
                          /\ verifications'[key].proof_hash = verifications[key].proof_hash
                          /\ verifications'[key].verifier_address
                               = verifications[key].verifier_address
  <1>1. ASSUME NEW account \in Accounts, NEW threshold \in Thresholds,
               NEW proof \in Proofs, NEW inputs \in Inputs,
               SubmitProof(account, threshold, proof, inputs)
        PROVE  Kept
    BY <1>1, SubmitPreserves
  <1>2. ASSUME NEW account \in Accounts, NEW id \in DOMAIN verifications,
               NEW round \in Rounds, ConfirmVerification(account, id, round)
        PROVE  Kept
    BY <1>2, ConfirmPreserves
  <1>3. ASSUME UNCHANGED verifications PROVE Kept BY <1>3 DEF Verified
  <1> HIDE DEF Kept
  <1>4. Next => Kept
    BY <1>1, <1>2, <1>3
       DEF Next, Create, InitializePairing, SetPrecomputedPairs, VerifyPairingBatch, contractVars
  <1>5. UNCHANGED vars => Kept BY <1>3 DEF vars, contractVars
  <1>6. Kept BY <1>4, <1>5
  <1> QED BY <1>6 DEF Kept

(* A yes of verify_greater_than is never withdrawn, and what it says was   *)
(* submitted for that id before it was confirmed.                          *)
THEOREM AnswersNeverChange == Spec => AnswersStand
  <1> DEFINE Keeps(id, required) ==
        /\ VerifyGreaterThan(id, required) => VerifyGreaterThan(id, required)'
        /\ VerifyGreaterThan(id, required)' /\ Stored(id) \in DOMAIN verifications =>
             LET status == verifications[Stored(id)] IN
             /\ status.threshold >= required
             /\ verifications'[Stored(id)].proof_hash = status.proof_hash
             /\ verifications'[Stored(id)].verifier_address = status.verifier_address
  <1>1. IInv /\ [Next]_vars =>
          \A id \in DOMAIN verifications, required \in Thresholds : Keeps(id, required)
    <2> SUFFICES ASSUME IInv, [Next]_vars, NEW id \in DOMAIN verifications,
                        NEW required \in Thresholds
                 PROVE  Keeps(id, required)
      OBVIOUS
    <2>1. PICK key : key = Stored(id) OBVIOUS
    <2>2. /\ IsVerified(id) <=> key \in Verified
          /\ IsVerified(id)' <=> id \in DOMAIN verifications' /\ key \in Verified'
      BY <2>1 DEF IsVerified, Verified, Stored
    <2>3. /\ VerifyGreaterThan(id, required) <=>
               key \in Verified /\ verifications[key].threshold >= required
          /\ VerifyGreaterThan(id, required)' <=>
               /\ id \in DOMAIN verifications' /\ key \in Verified'
               /\ verifications'[key].threshold >= required
      BY <2>1, <2>2 DEF VerifyGreaterThan, Stored
    <2>4. Verified \subseteq DOMAIN verifications BY DEF Verified
    <2> QED BY <2>1, <2>3, <2>4, StepKeepsAnswers
  <1>2. IInv /\ [Next]_vars =>
          [\A id \in DOMAIN verifications, required \in Thresholds : Keeps(id, required)]_vars
    BY <1>1
  <1> QED BY <1>2, Invariance, PTL DEF Spec, AnswersStand

-----------------------------------------------------------------------------
(* confirm_verification only reaches a submission whose id happens to be   *)
(* the encoding of another one's, with its length in front: all others can *)
(* be submitted but never confirmed.                                       *)
THEOREM OthersNeverConfirmed == Spec => []OnlyShadowed
  <1>1. IInv => OnlyShadowed BY DEF IInv
  <1> QED BY <1>1, Invariance, PTL

(* _compute_proof_id cuts the id from proof and inputs, one behind the     *)
(* other: the inputs do not enter the id of a proof of IdSize bytes or more.*)
LEMMA LongProofId ==
  ASSUME NEW proof \in Seq(Nat), NEW inputs \in Seq(Nat), Len(proof) >= IdSize
  PROVE  ComputeProofId(proof, inputs) = SubSeq(proof, 1, IdSize)
  <1> DEFINE combined == proof \o inputs
             short == SubSeq(combined, 1, IdSize)
             long == SubSeq(proof, 1, IdSize)
  <1>1. /\ combined \in Seq(Nat) /\ Len(combined) = Len(proof) + Len(inputs)
        /\ \A i \in 1 .. IdSize : combined[i] = proof[i] /\ proof[i] \in Nat
        /\ IdSize \in Nat /\ Len(proof) \in Nat /\ Len(inputs) \in Nat
        /\ IdSize \in 0 .. Len(combined) /\ 1 \in 1 .. Len(combined) + 1
        /\ IdSize \in 0 .. Len(proof) /\ 1 \in 1 .. Len(proof) + 1
    BY VerifierAssumption
  <1>2. ComputeProofId(proof, inputs) = short
    BY <1>1 DEF ComputeProofId
  <1> HIDE DEF combined
  <1>3. /\ short \in Seq(Nat) /\ Len(short) = IdSize
        /\ \A i \in 1 .. IdSize : short[i] = proof[i]
    <2>1. Len(short) = IdSize /\ \A i \in 1 .. IdSize : short[i] = combined[i]
      BY <1>1
    <2>2. short \in Seq(Nat) BY <1>1, SubSeqProperties
    <2> HIDE DEF short
    <2> QED BY <1>1, <2>1, <2>2
  <1>4. /\ long \in Seq(Nat) /\ Len(long) = IdSize
        /\ \A i \in 1 .. IdSize : long[i] = proof[i]
    BY <1>1, SubSeqProperties
  <1> HIDE DEF short, long
  <1>5. short = long BY <1>3, <1>4, SeqEqual
  <1> QED BY <1>2, <1>5 DEF long

(* Of all submissions of proofs that begin with the same IdSize bytes (a   *)
(* proof of the circuits is longer than that) one at most is kept at a     *)
(* time, with its inputs and its threshold: the same proof is never filed  *)
(* for two inputs, nor two such proofs beside each other.                  *)
LongProofsFiledOnce ==
  \A i, j \in DOMAIN verifications :
    LET p == verifications[i].proof_hash
        q == verifications[j].proof_hash IN
    (/\ Len(p) >= IdSize /\ Len(q) >= IdSize
     /\ SubSeq(p, 1, IdSize) = SubSeq(q, 1, IdSize)) => i = j

(* submit_proof_for_verification files long proofs by their first bytes,   *)
(* each over the one before it.                                            *)
THEOREM PrefixesFiledOnce == Spec => []LongProofsFiledOnce
  <1>1. ASSUME IInv, NEW i \in DOMAIN verifications,
               Len(verifications[i].proof_hash) >= IdSize
        PROVE  i = Stored(SubSeq(verifications[i].proof_hash, 1, IdSize))
    <2>1. /\ verifications[i].proof_hash \in Seq(Nat) /\ proofRegistry[i] \in Seq(Nat)
          /\ i = Stored(ComputeProofId(verifications[i].proof_hash, proofRegistry[i]))
      BY <1>1, VerifierAssumption DEF IInv, TypeOK, BoxesAgree, VerificationStatus
    <2> QED BY <1>1, <2>1, LongProofId
  <1>2. IInv => LongProofsFiledOnce BY <1>1 DEF LongProofsFiledOnce
  <1> QED BY <1>2, Invariance, PTL
=============================================================================
