-------------------------- MODULE TruthRegistryProofs --------------------------
(***************************************************************************)
(* Proofs about the two registries, for any accounts, traits, proof ids    *)
(* and any number of calls.  Types and the exact count of anchors are      *)
(* proved together (the count needs the anchored traits to be finite in    *)
(* number, which they are because each call adds one); the property of     *)
(* proofs needs that anchors are never removed.                            *)
(*                                                                         *)
(* The second part is about the programs that use the registries: they do  *)
(* to them only what the contracts allow, and as the registries only grow, *)
(* what a program was told stays true, however late or often its calls are *)
(* executed.                                                               *)
(***************************************************************************)
EXTENDS RegistryClients, FiniteSetTheorems, TLAPS

FiniteBoxes == IsFiniteSet(DOMAIN institutions) /\ IsFiniteSet(DOMAIN anchors)

(* Whoever a proof was claimed by, the trait was anchored. *)
ClaimsAnchored ==
  \A proof \in ProofIds : \A c \in claims[proof] : c[1] \in DOMAIN anchors

SettledByClaim ==
  \A proof \in DOMAIN proofs : claims[proof] # {} /\ proofs[proof].submittedAt <= round

Inv ==
  /\ TypeOK
  /\ FiniteBoxes
  /\ AnchorCountExact
  /\ CountCoversBoxes
  /\ ClaimsAnchored
  /\ SettledByClaim
-----------------------------------------------------------------------------
(* Writing a box adds its key to the domain and changes no other box.      *)
LEMMA PutBoxFacts ==
  ASSUME NEW box, NEW k, NEW v
  PROVE  /\ DOMAIN PutBox(box, k, v) = DOMAIN box \cup {k}
         /\ PutBox(box, k, v)[k] = v
         /\ \A j \in DOMAIN box \ {k} : PutBox(box, k, v)[j] = box[j]
  BY DEF PutBox

(* A box map of values in V stays one.                                     *)
LEMMA PutBoxType ==
  ASSUME NEW V, NEW box, box \in [DOMAIN box -> V], NEW k, NEW v \in V
  PROVE  PutBox(box, k, v) \in [DOMAIN PutBox(box, k, v) -> V]
  BY DEF PutBox

LEMMA InitInv == Init => Inv
<1> SUFFICES ASSUME Init PROVE Inv
  OBVIOUS
<1> USE DEF Init, IdentityInit, NoBoxes
<1>1. TypeOK
  BY TruthAssumption DEF TypeOK, IdentityTypeOK
<1>2. DOMAIN institutions = {} /\ DOMAIN anchors = {} /\ DOMAIN proofs = {}
  OBVIOUS
<1>3. FiniteBoxes /\ AnchorCountExact /\ CountCoversBoxes
  BY <1>2, FS_EmptySet DEF FiniteBoxes, AnchorCountExact, CountCoversBoxes
<1>4. ClaimsAnchored /\ SettledByClaim
  BY <1>2 DEF ClaimsAnchored, SettledByClaim
<1> QED
  BY <1>1, <1>3, <1>4 DEF Inv
-----------------------------------------------------------------------------
LEMMA RegisterInstitutionKeeps ==
  ASSUME Inv, UNCHANGED truthVars,
         NEW sender \in Accounts, NEW addr \in Accounts, NEW profile \in Profiles,
         RegisterInstitution(sender, addr, profile)
  PROVE  Inv'
<1> USE DEF Inv
<1> DEFINE new == [profile |-> profile, isActive |-> TRUE]
<1>1. institutions' = PutBox(institutions, addr, new) /\ UNCHANGED admin
      /\ institutionCount' = institutionCount + 1
  BY DEF RegisterInstitution, StoreInstitution
<1>2. new \in Metadata
  BY DEF Metadata
<1>3. DOMAIN institutions' = DOMAIN institutions \cup {addr}
  BY <1>1, PutBoxFacts
<1>4. institutions' \in [DOMAIN institutions' -> Metadata]
  BY <1>1, <1>2, PutBoxType DEF TypeOK, IdentityTypeOK
<1>5. TypeOK'
  <2>0. IdentityTypeOK
    BY DEF TypeOK
  <2>1. IdentityTypeOK'
    <3>1. admin' \in Accounts /\ institutionCount' \in Nat
      BY <1>1, <2>0 DEF IdentityTypeOK
    <3>2. DOMAIN institutions' \subseteq Accounts
      BY <1>3, <2>0 DEF IdentityTypeOK
    <3> QED
      BY <3>1, <3>2, <1>4 DEF IdentityTypeOK
  <2> QED
    BY <2>1 DEF TypeOK, truthVars
<1>6. /\ IsFiniteSet(DOMAIN institutions')
      /\ Cardinality(DOMAIN institutions') <= Cardinality(DOMAIN institutions) + 1
  <2>1. IsFiniteSet(DOMAIN institutions) /\ Cardinality(DOMAIN institutions) \in Nat
    BY FS_CardinalityType DEF FiniteBoxes
  <2>2. /\ IsFiniteSet(DOMAIN institutions \cup {addr})
        /\ Cardinality(DOMAIN institutions \cup {addr})
             = IF addr \in DOMAIN institutions THEN Cardinality(DOMAIN institutions)
               ELSE Cardinality(DOMAIN institutions) + 1
    BY <2>1, FS_AddElement
  <2> HIDE DEF Inv
  <2> QED
    BY <1>3, <2>1, <2>2
<1>7. FiniteBoxes' /\ AnchorCountExact'
  BY <1>6 DEF FiniteBoxes, AnchorCountExact, truthVars
<1>8. CountCoversBoxes'
  <2>1. Cardinality(DOMAIN institutions) \in Nat /\ Cardinality(DOMAIN institutions') \in Nat
    BY <1>6, FS_CardinalityType DEF FiniteBoxes
  <2> QED
    BY <2>1, <1>1, <1>6 DEF CountCoversBoxes, TypeOK, IdentityTypeOK
<1>9. ClaimsAnchored' /\ SettledByClaim'
  BY DEF ClaimsAnchored, SettledByClaim, truthVars
<1> QED
  BY <1>5, <1>7, <1>8, <1>9

LEMMA DeactivateInstitutionKeeps ==
  ASSUME Inv, UNCHANGED truthVars,
         NEW sender \in Accounts, NEW addr \in Accounts,
         DeactivateInstitution(sender, addr)
  PROVE  Inv'
<1> USE DEF Inv
<1>1. DOMAIN institutions' = DOMAIN institutions /\ UNCHANGED <<admin, institutionCount>>
  BY DEF DeactivateInstitution
<1>2. institutions' \in [DOMAIN institutions' -> Metadata]
  BY DEF DeactivateInstitution, Metadata, TypeOK, IdentityTypeOK
<1>3. TypeOK'
  BY <1>1, <1>2 DEF TypeOK, IdentityTypeOK, truthVars
<1>4. FiniteBoxes' /\ AnchorCountExact' /\ CountCoversBoxes'
  BY <1>1 DEF FiniteBoxes, AnchorCountExact, CountCoversBoxes, truthVars
<1>5. ClaimsAnchored' /\ SettledByClaim'
  BY DEF ClaimsAnchored, SettledByClaim, truthVars
<1> QED
  BY <1>3, <1>4, <1>5

LEMMA RegisterAnchorKeeps ==
  ASSUME Inv,
         NEW sender \in Accounts, NEW trait \in TraitIds, NEW commitment \in Commitments,
         RegisterAnchor(sender, trait, commitment)
  PROVE  Inv'
<1> USE DEF Inv
<1>1. /\ anchors' = PutBox(anchors, trait, commitment) /\ trait \notin DOMAIN anchors
      /\ anchorCount' = anchorCount + 1
      /\ anchoredBy' = PutBox(anchoredBy, trait, sender)
      /\ UNCHANGED <<identityVars, proofs, verifierAppId, round, claims>>
  BY DEF RegisterAnchor, StoreAnchor
<1>2. DOMAIN anchors' = DOMAIN anchors \cup {trait}
  BY <1>1, PutBoxFacts
<1>3. anchors' \in [DOMAIN anchors' -> Commitments]
  BY <1>1, PutBoxType DEF TypeOK
<1>4. anchoredBy' \in [DOMAIN anchoredBy' -> Accounts]
  BY <1>1, PutBoxType DEF TypeOK
<1>5. TypeOK'
  BY <1>1, <1>2, <1>3, <1>4 DEF TypeOK, IdentityTypeOK, identityVars
<1>6. /\ IsFiniteSet(DOMAIN anchors')
      /\ Cardinality(DOMAIN anchors') = Cardinality(DOMAIN anchors) + 1
  BY <1>1, <1>2, FS_AddElement DEF FiniteBoxes
<1>7. FiniteBoxes' /\ AnchorCountExact' /\ CountCoversBoxes'
  BY <1>1, <1>6 DEF FiniteBoxes, AnchorCountExact, CountCoversBoxes, identityVars
<1>8. ClaimsAnchored' /\ SettledByClaim'
  BY <1>1, <1>2 DEF ClaimsAnchored, SettledByClaim
<1> QED
  BY <1>5, <1>7, <1>8

LEMMA VerifyZkClaimKeeps ==
  ASSUME Inv,
         NEW sender \in Accounts, NEW trait \in TraitIds, NEW proof \in ProofIds,
         NEW threshold \in Thresholds, NEW hash \in ProofHashes,
         VerifyZkClaim(sender, trait, proof, threshold, hash)
  PROVE  Inv'
<1> USE DEF Inv
<1> DEFINE new == [threshold |-> threshold, proofHash |-> hash, isVerified |-> TRUE,
                   submittedAt |-> round]
<1>1. /\ proofs' = PutBox(proofs, proof, new) /\ trait \in DOMAIN anchors
      /\ claims' = [claims EXCEPT ![proof] = @ \cup {<<trait, sender>>}]
      /\ UNCHANGED <<identityVars, anchors, anchorCount, verifierAppId, round, anchoredBy>>
  BY DEF VerifyZkClaim, SettleClaim
<1>2. new \in ProofStatus
  BY DEF ProofStatus, TypeOK
<1>3. proofs' \in [DOMAIN proofs' -> ProofStatus]
  BY <1>1, <1>2, PutBoxType DEF TypeOK
<1>4. DOMAIN proofs' = DOMAIN proofs \cup {proof}
  BY <1>1, PutBoxFacts
<1>5. claims' \in [ProofIds -> SUBSET (TraitIds \X Accounts)]
  BY <1>1 DEF TypeOK
<1>6. TypeOK'
  BY <1>1, <1>3, <1>4, <1>5 DEF TypeOK, IdentityTypeOK, identityVars
<1>7. FiniteBoxes' /\ AnchorCountExact' /\ CountCoversBoxes'
  BY <1>1 DEF FiniteBoxes, AnchorCountExact, CountCoversBoxes, identityVars
<1>8. ClaimsAnchored'
  BY <1>1 DEF ClaimsAnchored, TypeOK
<1>9. SettledByClaim'
  <2> SUFFICES ASSUME NEW p \in DOMAIN proofs'
               PROVE  claims'[p] # {} /\ proofs'[p].submittedAt <= round
    BY <1>1 DEF SettledByClaim
  <2>1. CASE p = proof
    <3>1. proofs'[p] = new /\ <<trait, sender>> \in claims'[p]
      BY <2>1, <1>1 DEF PutBox, TypeOK
    <3> QED
      BY <3>1 DEF TypeOK
  <2>2. CASE p # proof
    <3>1. p \in DOMAIN proofs /\ proofs'[p] = proofs[p]
      BY <2>2, <1>1, <1>4 DEF PutBox
    <3>2. claims'[p] = claims[p]
      BY <2>2, <3>1, <1>1 DEF TypeOK
    <3> QED
      BY <3>1, <3>2 DEF SettledByClaim
  <2> QED
    BY <2>1, <2>2
<1> QED
  BY <1>6, <1>7, <1>8, <1>9

LEMMA QuietStepKeeps ==
  ASSUME Inv,
         \/ \E sender \in Accounts, app \in Verifiers : SetVerifier(sender, app)
         \/ NextRound
         \/ UNCHANGED vars
  PROVE  Inv'
<1> USE DEF Inv
<1>1. /\ UNCHANGED <<identityVars, anchors, anchorCount, proofs, anchoredBy, claims>>
      /\ verifierAppId' \in Verifiers
      /\ round' \in Nat /\ round <= round'
  BY DEF SetVerifier, NextRound, vars, truthVars, TypeOK
<1>2. TypeOK'
  BY <1>1 DEF TypeOK, IdentityTypeOK, identityVars
<1>3. FiniteBoxes' /\ AnchorCountExact' /\ CountCoversBoxes' /\ ClaimsAnchored'
  BY <1>1 DEF FiniteBoxes, AnchorCountExact, CountCoversBoxes, ClaimsAnchored, identityVars
<1>4. SettledByClaim'
  BY <1>1 DEF SettledByClaim, TypeOK, ProofStatus
<1> QED
  BY <1>2, <1>3, <1>4

LEMMA StepInv == Inv /\ [Next]_vars => Inv'
<1> SUFFICES ASSUME Inv, [Next]_vars PROVE Inv'
  OBVIOUS
<1>1. CASE IdentityCall
  BY <1>1, RegisterInstitutionKeeps, DeactivateInstitutionKeeps DEF IdentityCall, IdentityNext
<1>2. ASSUME NEW sender \in Accounts, NEW app \in Verifiers, SetVerifier(sender, app)
      PROVE  Inv'
  BY <1>2, QuietStepKeeps
<1>3. ASSUME NEW sender \in Accounts, NEW trait \in TraitIds, NEW commitment \in Commitments,
             RegisterAnchor(sender, trait, commitment)
      PROVE  Inv'
  BY <1>3, RegisterAnchorKeeps
<1>4. ASSUME NEW sender \in Accounts, NEW trait \in TraitIds, NEW proof \in ProofIds,
             NEW threshold \in Thresholds, NEW hash \in ProofHashes,
             VerifyZkClaim(sender, trait, proof, threshold, hash)
      PROVE  Inv'
  BY <1>4, VerifyZkClaimKeeps
<1>5. CASE NextRound
  BY <1>5, QuietStepKeeps
<1>6. CASE UNCHANGED vars
  BY <1>6, QuietStepKeeps
<1> QED
  BY <1>1, <1>2, <1>3, <1>4, <1>5, <1>6 DEF Next

LEMMA Invariant == Spec => []Inv
  BY InitInv, StepInv, PTL DEF Spec
-----------------------------------------------------------------------------
(* Both registries keep well-typed boxes and counters.                     *)
THEOREM Types == Spec => []TypeOK
<1>1. Inv => TypeOK
  BY DEF Inv
<1> QED
  BY <1>1, Invariant, PTL

(* get_anchor_count is the number of anchored traits, after any sequence   *)
(* of calls by any accounts.                                               *)
THEOREM CountIsExact == Spec => []AnchorCountExact
<1>1. Inv => AnchorCountExact
  BY DEF Inv
<1> QED
  BY <1>1, Invariant, PTL

(* institution_count is never below the number of institutions with a box, *)
(* whatever registrations are repeated.                                    *)
THEOREM CountCovers == Spec => []CountCoversBoxes
<1>1. Inv => CountCoversBoxes
  BY DEF Inv
<1> QED
  BY <1>1, Invariant, PTL

(* A proof that reads as verified has been claimed, and every trait it was *)
(* claimed for is still anchored.                                          *)
THEOREM VerifiedProofsAnchored == Spec => []VerifiedHasAnchor
<1>1. Inv => VerifiedHasAnchor
  BY DEF Inv, TypeOK, ClaimsAnchored, SettledByClaim, VerifiedHasAnchor, IsProofVerified
<1> QED
  BY <1>1, Invariant, PTL

(* No call of any account changes or removes a commitment once anchored.   *)
THEOREM AnchorsStay == Spec => AnchorsImmutable
<1> DEFINE Stays == \A trait \in DOMAIN anchors :
                      trait \in DOMAIN anchors' /\ anchors'[trait] = anchors[trait]
<1>1. [Next]_vars => [Stays]_vars
  <2> SUFFICES ASSUME Next PROVE Stays
    OBVIOUS
  <2>1. ASSUME NEW sender \in Accounts, NEW trait \in TraitIds,
               NEW commitment \in Commitments,
               RegisterAnchor(sender, trait, commitment)
        PROVE  Stays
    <3>1. anchors' = PutBox(anchors, trait, commitment) /\ trait \notin DOMAIN anchors
      BY <2>1 DEF RegisterAnchor, StoreAnchor
    <3> QED
      BY <3>1 DEF PutBox
  <2>2. CASE UNCHANGED anchors
    BY <2>2
  <2> HIDE DEF Stays
  <2> QED
    BY <2>1, <2>2
       DEF Next, IdentityCall, truthVars, SetVerifier, VerifyZkClaim, SettleClaim, NextRound
<1> QED
  BY <1>1, PTL DEF Spec, AnchorsImmutable

(* A trait is anchored, or a claim settled, only by an account that is an  *)
(* active institution of the identity registry at that moment.             *)
THEOREM OnlyActiveInstitutionsWrite == Spec => OnlyActiveWrite
<1> DEFINE active == {a \in DOMAIN institutions : institutions[a].isActive}
<1> DEFINE Anchoring == \A trait \in DOMAIN anchors' \ DOMAIN anchors :
                          anchoredBy'[trait] \in active
<1> DEFINE Claiming == \A proof \in ProofIds : \A c \in claims'[proof] \ claims[proof] :
                         c[2] \in active
<1>1. ASSUME Inv, [Next]_vars PROVE [Anchoring /\ Claiming]_vars
  <2> SUFFICES ASSUME Next PROVE Anchoring /\ Claiming
    BY <1>1
  <2>1. ASSUME NEW sender \in Accounts, NEW trait \in TraitIds,
               NEW commitment \in Commitments,
               RegisterAnchor(sender, trait, commitment)
        PROVE  Anchoring /\ Claiming
    <3>1. /\ anchors' = PutBox(anchors, trait, commitment)
          /\ anchoredBy' = PutBox(anchoredBy, trait, sender)
          /\ sender \in active /\ UNCHANGED claims
      BY <2>1 DEF RegisterAnchor, StoreAnchor, IsRegistered
    <3>2. Anchoring
      BY <3>1 DEF PutBox
    <3> QED
      BY <3>1, <3>2
  <2>2. ASSUME NEW sender \in Accounts, NEW trait \in TraitIds, NEW proof \in ProofIds,
               NEW threshold \in Thresholds, NEW hash \in ProofHashes,
               VerifyZkClaim(sender, trait, proof, threshold, hash)
        PROVE  Anchoring /\ Claiming
    <3>1. /\ claims' = [claims EXCEPT ![proof] = @ \cup {<<trait, sender>>}]
          /\ sender \in active /\ UNCHANGED anchors
      BY <2>2 DEF VerifyZkClaim, SettleClaim, IsRegistered
    <3>2. ASSUME NEW p \in ProofIds, NEW c \in claims'[p] \ claims[p] PROVE c[2] \in active
      <4>1. c = <<trait, sender>>
        BY <1>1, <3>1 DEF Inv, TypeOK
      <4> QED
        BY <4>1, <3>1
    <3> QED
      BY <3>1, <3>2
  <2>3. CASE UNCHANGED <<anchors, claims>>
    BY <2>3
  <2> HIDE DEF Anchoring, Claiming
  <2> QED
    BY <2>1, <2>2, <2>3
       DEF Next, IdentityCall, truthVars, SetVerifier, NextRound
<1> QED
  BY <1>1, Invariant, PTL DEF Spec, OnlyActiveWrite
-----------------------------------------------------------------------------
(* The truth registry asks the identity registry and never writes to it:   *)
(* together they are an identity registry to its admin and institutions.   *)
THEOREM IdentityUndisturbed == Spec => IdentitySpec
<1>1. Init => IdentityInit
  BY DEF Init
<1>2. [Next]_vars => [IdentityNext]_identityVars
  <2> SUFFICES ASSUME [Next]_vars PROVE IdentityNext \/ UNCHANGED identityVars
    OBVIOUS
  <2>1. CASE IdentityCall
    BY <2>1 DEF IdentityCall
  <2> QED
    BY <2>1
       DEF Next, vars, SetVerifier, RegisterAnchor, StoreAnchor, VerifyZkClaim, SettleClaim,
           NextRound
<1> QED
  BY <1>1, <1>2, PTL DEF Spec, IdentitySpec

(* Everything in the truth registry can be traced to an institution: every *)
(* anchor has somebody who made it, every verified proof somebody who      *)
(* claimed it, and the identity registry keeps a box of each of them, also *)
(* after the admin deactivated it.                                         *)
WritersTraced ==
  /\ DOMAIN anchoredBy = DOMAIN anchors
  /\ \A trait \in DOMAIN anchors : anchoredBy[trait] \in DOMAIN institutions
  /\ \A proof \in ProofIds : IsProofVerified(proof) =>
       \E c \in claims[proof] : c[2] \in DOMAIN institutions

ClaimantsKnown == \A proof \in ProofIds : \A c \in claims[proof] : c[2] \in DOMAIN institutions

AnchorersKnown ==
  /\ DOMAIN anchoredBy = DOMAIN anchors
  /\ \A trait \in DOMAIN anchors : anchoredBy[trait] \in DOMAIN institutions

(* No institution's box is ever removed.                                   *)
LEMMA BoxesStay ==
  ASSUME [IdentityNext]_identityVars
  PROVE  DOMAIN institutions \subseteq DOMAIN institutions'
  BY DEF IdentityNext, identityVars, RegisterInstitution, StoreInstitution,
         DeactivateInstitution, PutBox

LEMMA WritersStayKnown ==
  ASSUME Inv, AnchorersKnown, ClaimantsKnown, [Next]_vars
  PROVE  AnchorersKnown' /\ ClaimantsKnown'
<1>1. ASSUME DOMAIN institutions \subseteq DOMAIN institutions',
             UNCHANGED <<anchors, anchoredBy, claims>>
      PROVE  AnchorersKnown' /\ ClaimantsKnown'
  BY <1>1 DEF AnchorersKnown, ClaimantsKnown
<1>2. CASE IdentityCall
  BY <1>1, <1>2, BoxesStay DEF IdentityCall, truthVars
<1>3. ASSUME NEW sender \in Accounts, NEW trait \in TraitIds, NEW commitment \in Commitments,
             RegisterAnchor(sender, trait, commitment)
      PROVE  AnchorersKnown' /\ ClaimantsKnown'
  <2>1. /\ anchors' = PutBox(anchors, trait, commitment)
        /\ anchoredBy' = PutBox(anchoredBy, trait, sender)
        /\ sender \in DOMAIN institutions /\ UNCHANGED <<institutions, claims>>
    BY <1>3 DEF RegisterAnchor, StoreAnchor, IsRegistered, identityVars
  <2>2. DOMAIN anchors' = DOMAIN anchors \cup {trait}
        /\ DOMAIN anchoredBy' = DOMAIN anchoredBy \cup {trait}
    BY <2>1, PutBoxFacts
  <2>3. \A t \in DOMAIN anchors' : anchoredBy'[t] \in DOMAIN institutions
    <3>1. anchoredBy'[trait] = sender
          /\ \A t \in DOMAIN anchoredBy \ {trait} : anchoredBy'[t] = anchoredBy[t]
      BY <2>1 DEF PutBox
    <3> QED
      BY <2>1, <2>2, <3>1 DEF AnchorersKnown
  <2> QED
    BY <2>1, <2>2, <2>3 DEF AnchorersKnown, ClaimantsKnown
<1>4. ASSUME NEW sender \in Accounts, NEW trait \in TraitIds, NEW proof \in ProofIds,
             NEW threshold \in Thresholds, NEW hash \in ProofHashes,
             VerifyZkClaim(sender, trait, proof, threshold, hash)
      PROVE  AnchorersKnown' /\ ClaimantsKnown'
  <2>1. /\ claims' = [claims EXCEPT ![proof] = @ \cup {<<trait, sender>>}]
        /\ sender \in DOMAIN institutions /\ UNCHANGED <<institutions, anchors, anchoredBy>>
    BY <1>4 DEF VerifyZkClaim, SettleClaim, IsRegistered, identityVars
  <2>2. claims \in [ProofIds -> SUBSET (TraitIds \X Accounts)]
    BY DEF Inv, TypeOK
  <2> QED
    BY <2>1, <2>2 DEF AnchorersKnown, ClaimantsKnown
<1>5. CASE UNCHANGED <<institutions, anchors, anchoredBy, claims>>
  BY <1>1, <1>5
<1>6. \/ IdentityCall
      \/ \E sender \in Accounts, trait \in TraitIds, commitment \in Commitments :
           RegisterAnchor(sender, trait, commitment)
      \/ \E sender \in Accounts, trait \in TraitIds, proof \in ProofIds,
            threshold \in Thresholds, hash \in ProofHashes :
           VerifyZkClaim(sender, trait, proof, threshold, hash)
      \/ UNCHANGED <<institutions, anchors, anchoredBy, claims>>
  BY DEF Next, vars, identityVars, truthVars, SetVerifier, NextRound
<1> QED
  BY <1>2, <1>3, <1>4, <1>5, <1>6

(* No anchor and no verified proof is ever without its institution, after  *)
(* any calls of any accounts, deactivations among them.                    *)
THEOREM WritersAreTraced == Spec => []WritersTraced
<1>1. Init => AnchorersKnown /\ ClaimantsKnown
  BY DEF Init, NoBoxes, AnchorersKnown, ClaimantsKnown
<1>2. Inv /\ AnchorersKnown /\ ClaimantsKnown => WritersTraced
  BY DEF Inv, TypeOK, SettledByClaim, AnchorersKnown, ClaimantsKnown, WritersTraced,
         IsProofVerified
<1>3. Inv /\ AnchorersKnown /\ ClaimantsKnown /\ [Next]_vars
        => AnchorersKnown' /\ ClaimantsKnown'
  BY WritersStayKnown
<1> QED
  BY <1>1, <1>2, <1>3, Invariant, PTL DEF Spec
-----------------------------------------------------------------------------
(* The registries only grow: the count, the anchors, the verified proofs.  *)
LEMMA RegistriesGrow ==
  ASSUME Inv, [Next]_vars
  PROVE  /\ anchorCount' >= anchorCount
         /\ \A trait \in DOMAIN anchors :
              trait \in DOMAIN anchors' /\ anchors'[trait] = anchors[trait]
         /\ \A proof : IsProofVerified(proof) => IsProofVerified(proof)'
<1>1. anchorCount \in Nat
  BY DEF Inv, TypeOK
<1>2. ASSUME NEW sender \in Accounts, NEW trait \in TraitIds, NEW commitment \in Commitments,
             RegisterAnchor(sender, trait, commitment)
      PROVE  /\ anchorCount' = anchorCount + 1
             /\ anchors' = PutBox(anchors, trait, commitment) /\ trait \notin DOMAIN anchors
             /\ UNCHANGED proofs
  BY <1>2 DEF RegisterAnchor, StoreAnchor
<1>3. ASSUME NEW sender \in Accounts, NEW trait \in TraitIds, NEW proof \in ProofIds,
             NEW threshold \in Thresholds, NEW hash \in ProofHashes,
             VerifyZkClaim(sender, trait, proof, threshold, hash)
      PROVE  /\ UNCHANGED <<anchors, anchorCount>>
             /\ \E status : status.isVerified /\ proofs' = PutBox(proofs, proof, status)
  <2> DEFINE status == [threshold |-> threshold, proofHash |-> hash, isVerified |-> TRUE,
                        submittedAt |-> round]
  <2>1. status.isVerified
    OBVIOUS
  <2>2. proofs' = PutBox(proofs, proof, status) /\ UNCHANGED <<anchors, anchorCount>>
    BY <1>3 DEF VerifyZkClaim, SettleClaim
  <2> HIDE DEF status
  <2> QED
    BY <2>1, <2>2
<1>4. CASE \E sender \in Accounts, trait \in TraitIds, commitment \in Commitments :
             RegisterAnchor(sender, trait, commitment)
  <2>1. PICK trait, commitment : /\ anchorCount' = anchorCount + 1
                                 /\ anchors' = PutBox(anchors, trait, commitment)
                                 /\ trait \notin DOMAIN anchors /\ UNCHANGED proofs
    BY <1>2, <1>4
  <2>2. anchorCount' >= anchorCount
    BY <1>1, <2>1
  <2>3. \A t \in DOMAIN anchors : t \in DOMAIN anchors' /\ anchors'[t] = anchors[t]
    BY <2>1 DEF PutBox
  <2>4. \A p : IsProofVerified(p) => IsProofVerified(p)'
    BY <2>1 DEF IsProofVerified
  <2> QED
    BY <2>2, <2>3, <2>4
<1>5. CASE \E sender \in Accounts, trait \in TraitIds, proof \in ProofIds,
             threshold \in Thresholds, hash \in ProofHashes :
             VerifyZkClaim(sender, trait, proof, threshold, hash)
  <2>1. PICK proof, status : status.isVerified /\ proofs' = PutBox(proofs, proof, status)
    BY <1>3, <1>5
  <2>2. ASSUME NEW p, IsProofVerified(p) PROVE IsProofVerified(p)'
    <3>1. p \in DOMAIN proofs /\ proofs[p].isVerified /\ p \in DOMAIN proofs'
      BY <2>1, <2>2 DEF IsProofVerified, PutBox
    <3>2. CASE p = proof
      <4>1. proofs'[p] = status
        BY <2>1, <3>2 DEF PutBox
      <4> QED
        BY <2>1, <3>1, <4>1, Zenon DEF IsProofVerified
    <3>3. CASE p # proof
      <4>1. proofs'[p] = proofs[p]
        BY <2>1, <3>1, <3>3 DEF PutBox
      <4> QED
        BY <3>1, <4>1, Zenon DEF IsProofVerified
    <3> QED
      BY <3>2, <3>3
  <2> QED
    BY <1>1, <1>3, <1>5, <2>2
<1>6. CASE UNCHANGED <<anchors, anchorCount, proofs>>
  BY <1>1, <1>6 DEF IsProofVerified
<1> QED
  BY <1>4, <1>5, <1>6
     DEF Next, vars, IdentityCall, truthVars, SetVerifier, NextRound

(* A call named by its arguments is a call of one of the contracts.        *)
LEMMA ExecuteIsCall ==
  ASSUME ClientTypeOK, NEW entry \in submitted, Execute(entry)
  PROVE  Next
<1> DEFINE sender == entry.send.sender
           call == entry.send.call
<1>1. sender \in Accounts /\ call \in InstitutionCall \cup RegistryCall
  BY ClientsAssumption DEF ClientTypeOK
<1> HIDE DEF sender, call
<1>2. CASE RunInstitutionCall(sender, call)
  <2>1. CASE call.method = "register_institution"
    <3>1. call.address \in Accounts /\ call.profile \in Profiles
      BY <1>1, <2>1 DEF InstitutionCall, RegistryCall
    <3> QED
      BY <1>1, <1>2, <2>1, <3>1 DEF RunInstitutionCall, Next, IdentityCall, IdentityNext
  <2>2. CASE call.method = "deactivate_institution"
    <3>1. call.address \in Accounts
      BY <1>1, <2>2 DEF InstitutionCall, RegistryCall
    <3> QED
      BY <1>1, <1>2, <2>2, <3>1 DEF RunInstitutionCall, Next, IdentityCall, IdentityNext
  <2> QED
    BY <1>2, <2>1, <2>2 DEF RunInstitutionCall
<1>3. CASE RunRegistryCall(sender, call)
  <2>1. CASE call.method = "set_verifier"
    <3>1. call.app \in Verifiers
      BY <1>1, <2>1 DEF InstitutionCall, RegistryCall
    <3> QED
      BY <1>1, <1>3, <2>1, <3>1 DEF RunRegistryCall, Next
  <2>2. CASE call.method = "register_anchor"
    <3>1. call.trait \in TraitIds /\ call.commitment \in Commitments
      BY <1>1, <2>2 DEF InstitutionCall, RegistryCall
    <3> QED
      BY <1>1, <1>3, <2>2, <3>1 DEF RunRegistryCall, Next
  <2>3. CASE call.method = "verify_zk_claim"
    <3>1. /\ call.trait \in TraitIds /\ call.proof \in ProofIds
          /\ call.threshold \in Thresholds /\ call.hash \in ProofHashes
      BY <1>1, <2>3 DEF InstitutionCall, RegistryCall
    <3> QED
      BY <1>1, <1>3, <2>3, <3>1 DEF RunRegistryCall, Next
  <2> QED
    BY <1>3, <2>1, <2>2, <2>3 DEF RunRegistryCall
<1> QED
  BY <1>2, <1>3 DEF Execute, sender, call

(* Every step of the programs and of the pool is a step of the registries, *)
(* or none.                                                                *)
LEMMA ClientStep ==
  ASSUME ClientTypeOK, [ClientNext]_allVars
  PROVE  [Next]_vars
<1>1. ASSUME NEW entry \in submitted, Execute(entry) PROVE Next
  BY <1>1, ExecuteIsCall
<1>2. CASE Round
  BY <1>2 DEF Round, Next
<1>3. CASE UNCHANGED vars
  BY <1>3
<1> QED
  BY <1>1, <1>2, <1>3
     DEF ClientNext, allVars, Send, Ask, Discard, Raise, ReadCount, ListBoxes, ReadBox, ReadDone
-----------------------------------------------------------------------------
Answer == [trait : TraitIds, commitment : Commitments] \cup [proof : ProofIds]

(* The answer is still right.                                              *)
Right(answer) ==
  IF "proof" \in DOMAIN answer THEN IsProofVerified(answer.proof)
  ELSE answer.trait \in DOMAIN anchors /\ anchors[answer.trait] = answer.commitment

(* ReadsFitTogether, with what it needs of a read that has no keys yet and *)
(* of keys that are not read yet.                                          *)
ReadingFits ==
  reading # None =>
    /\ reading.count <= anchorCount
    /\ reading.keys # None =>
         /\ reading.count <= Cardinality(reading.keys)
         /\ reading.keys \subseteq DOMAIN anchors
         /\ \A v \in reading.values : v[1] \in reading.keys
    /\ \A v \in reading.values : v[1] \in DOMAIN anchors /\ anchors[v[1]] = v[2]

ClientInv == Inv /\ ClientTypeOK /\ (\A answer \in answers : Right(answer)) /\ ReadingFits

LEMMA RightStays ==
  ASSUME Inv, [Next]_vars, NEW answer, Right(answer)
  PROVE  Right(answer)'
<1>1. CASE "proof" \in DOMAIN answer
  BY <1>1, RegistriesGrow DEF Right
<1>2. CASE "proof" \notin DOMAIN answer
  BY <1>2, RegistriesGrow DEF Right
<1> QED
  BY <1>1, <1>2

LEMMA RightProof ==
  ASSUME NEW proof \in ProofIds
  PROVE  /\ [proof |-> proof] \in Answer
         /\ Right([proof |-> proof]) <=> IsProofVerified(proof)
  BY DEF Answer, Right

LEMMA RightAnchor ==
  ASSUME NEW trait \in TraitIds, NEW commitment \in Commitments
  PROVE  /\ [trait |-> trait, commitment |-> commitment] \in Answer
         /\ Right([trait |-> trait, commitment |-> commitment]) <=>
              trait \in DOMAIN anchors /\ anchors[trait] = commitment
  BY DEF Answer, Right

(* What a getter answers is right when it answers.                         *)
LEMMA AskLearnsRight ==
  ASSUME Inv, NEW query \in Query, NEW answer \in Learnt(query)
  PROVE  answer \in Answer /\ Right(answer)
<1>1. CASE query.method = "get_commitment"
  <2>1. query.trait \in TraitIds
    BY <1>1 DEF Query
  <2>2. /\ query.trait \in DOMAIN anchors
        /\ answer = [trait |-> query.trait, commitment |-> anchors[query.trait]]
    BY <1>1 DEF Learnt
  <2>3. anchors[query.trait] \in Commitments
    BY <2>2 DEF Inv, TypeOK
  <2> QED
    BY <2>1, <2>2, <2>3, RightAnchor
<1>2. CASE query.method = "is_proof_verified"
  <2>1. query.proof \in ProofIds
    BY <1>2 DEF Query
  <2>2. IsProofVerified(query.proof) /\ answer = [proof |-> query.proof]
    BY <1>2 DEF Learnt
  <2> QED
    BY <2>1, <2>2, RightProof
<1> QED
  BY <1>1, <1>2 DEF Query

(* What the answer to a call says is right when the call was executed.     *)
LEMMA CallLearnsRight ==
  ASSUME ClientTypeOK, NEW entry \in submitted, Execute(entry),
         NEW answer \in Learnt(entry.send.call)
  PROVE  answer \in Answer /\ Right(answer)'
<1> DEFINE sender == entry.send.sender
           call == entry.send.call
<1>1. call \in InstitutionCall \cup RegistryCall
  BY ClientsAssumption DEF ClientTypeOK
<1>2. RunInstitutionCall(sender, call) \/ RunRegistryCall(sender, call)
  BY DEF Execute
<1> HIDE DEF sender, call
<1>3. CASE call.method = "register_anchor"
  <2>1. call.trait \in TraitIds /\ call.commitment \in Commitments
    BY <1>1, <1>3 DEF InstitutionCall, RegistryCall
  <2>2. answer = [trait |-> call.trait, commitment |-> call.commitment]
    BY <1>3 DEF Learnt, call
  <2>3. RegisterAnchor(sender, call.trait, call.commitment)
    BY <1>2, <1>3 DEF RunInstitutionCall, RunRegistryCall
  <2>4. call.trait \in DOMAIN anchors' /\ anchors'[call.trait] = call.commitment
    BY <2>3 DEF RegisterAnchor, StoreAnchor, PutBox
  <2>5. "proof" \notin DOMAIN answer /\ answer.trait = call.trait
        /\ answer.commitment = call.commitment
    BY <2>2
  <2> QED
    BY <2>1, <2>2, <2>4, <2>5, RightAnchor DEF Right
<1>4. CASE call.method = "verify_zk_claim"
  <2>1. call.proof \in ProofIds
    BY <1>1, <1>4 DEF InstitutionCall, RegistryCall
  <2>2. answer = [proof |-> call.proof]
    BY <1>4 DEF Learnt, call
  <2>3. VerifyZkClaim(sender, call.trait, call.proof, call.threshold, call.hash)
    BY <1>2, <1>4 DEF RunInstitutionCall, RunRegistryCall
  <2>4. IsProofVerified(call.proof)'
    BY <2>3 DEF VerifyZkClaim, SettleClaim, PutBox, IsProofVerified
  <2>5. "proof" \in DOMAIN answer /\ answer.proof = call.proof
    BY <2>2
  <2> QED
    BY <2>1, <2>2, <2>4, <2>5, RightProof DEF Right
<1>5. CASE call.method \notin {"register_anchor", "verify_zk_claim"}
  <2>1. call.method \in {"register_institution", "deactivate_institution", "set_verifier"}
    BY <1>1, <1>5 DEF InstitutionCall, RegistryCall
  <2>2. Learnt(call) = {}
    BY <2>1 DEF Learnt
  <2> QED
    BY <2>2 DEF call
<1> QED
  BY <1>3, <1>4, <1>5
(* A read under way is undisturbed by the registries' growth.              *)
LEMMA ReadingStays ==
  ASSUME Inv, Inv', [Next]_vars, ClientTypeOK, ReadingFits, UNCHANGED reading
  PROVE  ReadingFits'
<1> SUFFICES ASSUME reading # None PROVE ReadingFits'
  BY DEF ReadingFits
<1>1. reading.count \in Nat /\ anchorCount \in Nat /\ anchorCount' \in Nat
  BY DEF ClientTypeOK, Inv, TypeOK
<1>2. reading.count <= anchorCount'
  <2>1. reading.count <= anchorCount /\ anchorCount <= anchorCount'
    BY RegistriesGrow DEF ReadingFits
  <2> QED
    BY <1>1, <2>1
<1>3. DOMAIN anchors \subseteq DOMAIN anchors'
  BY RegistriesGrow
<1>4. \A v \in reading.values : v[1] \in DOMAIN anchors' /\ anchors'[v[1]] = v[2]
  BY RegistriesGrow DEF ReadingFits
<1> QED
  BY <1>2, <1>3, <1>4 DEF ReadingFits

LEMMA ReadCountKeeps ==
  ASSUME Inv, ClientTypeOK, ReadCount
  PROVE  ClientTypeOK' /\ ReadingFits'
<1>1. anchorCount \in Nat
  BY DEF Inv, TypeOK
<1>2. reading' = [count |-> anchorCount, keys |-> None, values |-> {}]
  BY DEF ReadCount
<1>3. reading'.count = anchorCount' /\ reading'.keys = None /\ reading'.values = {}
  BY <1>2 DEF ReadCount, vars, truthVars
<1>4. reading' \in [count : Nat, keys : (SUBSET TraitIds) \cup {None},
                    values : SUBSET (TraitIds \X Commitments)]
  BY <1>1, <1>2
<1> QED
  BY <1>1, <1>3, <1>4 DEF ReadCount, ClientTypeOK, ReadingFits, vars, truthVars

LEMMA ListBoxesKeeps ==
  ASSUME Inv, ClientTypeOK, ReadingFits, ListBoxes
  PROVE  ClientTypeOK' /\ ReadingFits'
<1>1. DOMAIN anchors \subseteq TraitIds /\ anchorCount = Cardinality(DOMAIN anchors)
  BY DEF Inv, TypeOK, AnchorCountExact
<1>2. reading \in [count : Nat, keys : (SUBSET TraitIds) \cup {None},
                   values : SUBSET (TraitIds \X Commitments)]
  BY DEF ListBoxes, ClientTypeOK
<1>3. /\ reading'.count = reading.count /\ reading'.keys = DOMAIN anchors
      /\ reading'.values = reading.values
  BY <1>2 DEF ListBoxes
<1>4. reading' \in [count : Nat, keys : (SUBSET TraitIds) \cup {None},
                    values : SUBSET (TraitIds \X Commitments)]
  BY <1>1, <1>2 DEF ListBoxes
<1>5. UNCHANGED <<anchors, anchorCount, submitted, answers>>
  BY DEF ListBoxes, vars, truthVars
<1>6. /\ reading.count <= anchorCount
      /\ \A v \in reading.values : v[1] \in DOMAIN anchors /\ anchors[v[1]] = v[2]
  BY DEF ListBoxes, ReadingFits
<1> QED
  BY <1>1, <1>3, <1>4, <1>5, <1>6 DEF ClientTypeOK, ReadingFits

LEMMA ReadBoxKeeps ==
  ASSUME Inv, ClientTypeOK, ReadingFits, NEW trait \in TraitIds, ReadBox(trait)
  PROVE  ClientTypeOK' /\ ReadingFits'
<1> DEFINE new == <<trait, anchors[trait]>>
<1>1. trait \in DOMAIN anchors /\ anchors[trait] \in Commitments
  BY DEF ReadBox, ReadingFits, Inv, TypeOK
<1>2. reading \in [count : Nat, keys : (SUBSET TraitIds) \cup {None},
                   values : SUBSET (TraitIds \X Commitments)]
  BY DEF ReadBox, ClientTypeOK
<1>3. /\ reading'.count = reading.count /\ reading'.keys = reading.keys
      /\ reading'.values = reading.values \cup {new}
  BY <1>2 DEF ReadBox
<1>4. new \in TraitIds \X Commitments /\ new[1] = trait /\ new[2] = anchors[trait]
  BY <1>1
<1>5. reading' \in [count : Nat, keys : (SUBSET TraitIds) \cup {None},
                    values : SUBSET (TraitIds \X Commitments)]
  BY <1>1, <1>2 DEF ReadBox
<1>6. UNCHANGED <<anchors, anchorCount, submitted, answers>> /\ trait \in reading.keys
  BY DEF ReadBox, vars, truthVars
<1> HIDE DEF new
<1>7. /\ reading.count <= anchorCount
      /\ reading.count <= Cardinality(reading.keys) /\ reading.keys \subseteq DOMAIN anchors
      /\ \A v \in reading.values : v[1] \in reading.keys
      /\ \A v \in reading.values : v[1] \in DOMAIN anchors /\ anchors[v[1]] = v[2]
  BY DEF ReadBox, ReadingFits
<1>8. \A v \in reading'.values : /\ v[1] \in reading.keys /\ v[1] \in DOMAIN anchors
                                 /\ anchors[v[1]] = v[2]
  BY <1>1, <1>3, <1>4, <1>6, <1>7
<1> QED
  BY <1>3, <1>5, <1>6, <1>7, <1>8 DEF ClientTypeOK, ReadingFits

(* The pool keeps its type, and what programs are told is right.           *)
LEMMA PoolStepKeeps ==
  ASSUME ClientInv, Inv', [Next]_vars, NEW entry \in submitted,
         Execute(entry) \/ Discard(entry) \/ Raise(entry)
  PROVE  ClientTypeOK' /\ \A answer \in answers' : Right(answer)'
<1>1. entry \in [send : Sends, awaited : BOOLEAN]
  BY DEF ClientInv, ClientTypeOK
<1>2. submitted' \subseteq [send : Sends, awaited : BOOLEAN]
  <2>1. [entry EXCEPT !.awaited = FALSE] \in [send : Sends, awaited : BOOLEAN]
    BY <1>1
  <2> QED
    BY <2>1 DEF ClientInv, ClientTypeOK, Execute, Discard, Raise
<1>3. UNCHANGED reading
  BY DEF Execute, Discard, Raise
<1>4. answers \subseteq Answer /\ \A answer \in answers : Right(answer)'
  BY RightStays DEF ClientInv, ClientTypeOK, Answer
<1>5. \A answer \in answers' \ answers : answer \in Answer /\ Right(answer)'
  <2> SUFFICES ASSUME NEW answer \in answers' \ answers
               PROVE  answer \in Answer /\ Right(answer)'
    OBVIOUS
  <2>1. Execute(entry) /\ answer \in Learnt(entry.send.call)
    BY DEF Execute, Discard, Raise
  <2> QED
    BY <2>1, CallLearnsRight DEF ClientInv
<1>6. answers' \subseteq Answer
  BY <1>4, <1>5
<1> QED
  BY <1>2, <1>3, <1>4, <1>5, <1>6 DEF ClientInv, ClientTypeOK, Answer

LEMMA ClientStepInv == ClientInv /\ [ClientNext]_allVars => ClientInv'
<1> SUFFICES ASSUME ClientInv, [ClientNext]_allVars PROVE ClientInv'
  OBVIOUS
<1>1. Inv /\ ClientTypeOK /\ ReadingFits
  BY DEF ClientInv
<1>2. [Next]_vars /\ Inv'
  BY <1>1, ClientStep, StepInv
<1>3. \A answer \in answers : Right(answer)'
  BY <1>2, RightStays DEF ClientInv
<1>4. ASSUME NEW send \in Sends, Send(send) PROVE ClientInv'
  <2>1. [send |-> send, awaited |-> TRUE] \in [send : Sends, awaited : BOOLEAN]
    OBVIOUS
  <2>2. ClientTypeOK'
    BY <1>1, <1>4, <2>1 DEF Send, ClientTypeOK
  <2>3. ReadingFits'
    BY <1>1, <1>2, <1>4, ReadingStays DEF Send
  <2> QED
    BY <1>2, <1>3, <1>4, <2>2, <2>3 DEF ClientInv, Send
<1>5. ASSUME NEW query \in Query, Ask(query) PROVE ClientInv'
  <2>1. UNCHANGED <<vars, submitted, reading>> /\ answers' = answers \cup Learnt(query)
    BY <1>5 DEF Ask
  <2>2. \A answer \in Learnt(query) : answer \in Answer /\ Right(answer)
    BY <1>1, AskLearnsRight
  <2>3. \A answer \in Learnt(query) : Right(answer)'
    BY <1>1, <1>2, <2>2, RightStays
  <2>4. ClientTypeOK'
    BY <1>1, <2>1, <2>2 DEF ClientTypeOK, Answer
  <2>5. ReadingFits'
    BY <1>1, <1>2, <2>1, ReadingStays
  <2> QED
    BY <1>2, <1>3, <2>1, <2>3, <2>4, <2>5 DEF ClientInv
<1>6. ASSUME NEW entry \in submitted, Execute(entry) \/ Discard(entry) \/ Raise(entry)
      PROVE  ClientInv'
  <2>1. UNCHANGED reading
    BY <1>6 DEF Execute, Discard, Raise
  <2>2. ReadingFits'
    BY <1>1, <1>2, <2>1, ReadingStays
  <2> QED
    BY <1>2, <1>6, <2>2, PoolStepKeeps DEF ClientInv
<1>7. CASE ReadCount
  BY <1>1, <1>2, <1>3, <1>7, ReadCountKeeps DEF ClientInv, ReadCount
<1>8. CASE ListBoxes
  BY <1>1, <1>2, <1>3, <1>8, ListBoxesKeeps DEF ClientInv, ListBoxes
<1>9. ASSUME NEW trait \in TraitIds, ReadBox(trait) PROVE ClientInv'
  BY <1>1, <1>2, <1>3, <1>9, ReadBoxKeeps DEF ClientInv, ReadBox
<1>10. CASE ReadDone
  <2>1. ClientTypeOK' /\ ReadingFits'
    BY <1>1, <1>10 DEF ReadDone, ClientTypeOK, ReadingFits
  <2> QED
    BY <1>2, <1>3, <1>10, <2>1 DEF ClientInv, ReadDone
<1>11. CASE Round \/ UNCHANGED allVars
  <2>1. UNCHANGED clientVars
    BY <1>11 DEF Round, allVars
  <2>2. ClientTypeOK'
    BY <1>1, <2>1 DEF clientVars, ClientTypeOK
  <2>3. ReadingFits'
    BY <1>1, <1>2, <2>1, ReadingStays DEF clientVars
  <2> QED
    BY <1>2, <1>3, <2>1, <2>2, <2>3 DEF ClientInv, clientVars
<1> QED
  BY <1>4, <1>5, <1>6, <1>7, <1>8, <1>9, <1>10, <1>11 DEF ClientNext

LEMMA ClientInvariant == ClientSpec => []ClientInv
<1>1. ClientInit => ClientInv
  <2> SUFFICES ASSUME ClientInit PROVE ClientInv
    OBVIOUS
  <2>1. Inv /\ ClientTypeOK
    BY InitInv DEF ClientInit, ClientTypeOK
  <2> QED
    BY <2>1 DEF ClientInit, ClientInv, ReadingFits
<1> QED
  BY <1>1, ClientStepInv, PTL DEF ClientSpec

(* Programs that send, wait, give up and send again do to the registries   *)
(* only what the contracts' methods do: every theorem above holds of them. *)
THEOREM ClientsImplementRegistries == ClientSpec => Spec
<1>1. ClientInit => Init
  BY DEF ClientInit
<1>2. ClientInv /\ [ClientNext]_allVars => [Next]_vars
  BY ClientStep DEF ClientInv
<1> QED
  BY <1>1, <1>2, ClientInvariant, PTL DEF ClientSpec, Spec

(* What a program was told of a commitment or a proof stays true.          *)
THEOREM AnswersRemainTrue == ClientSpec => []AnswersStayTrue
<1>1. ClientInv => AnswersStayTrue
  BY DEF ClientInv, Right, AnswersStayTrue
<1> QED
  BY <1>1, ClientInvariant, PTL

(* A read of the anchors, one request after the other, fits together.      *)
THEOREM ReadsFit == ClientSpec => []ReadsFitTogether
<1>1. ClientInv => ReadsFitTogether
  BY DEF ClientInv, ReadingFits, ReadsFitTogether
<1> QED
  BY <1>1, ClientInvariant, PTL
==============================================================================
