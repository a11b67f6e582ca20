----------------------------- MODULE TruthRegistry -----------------------------
(***************************************************************************)
(* The TruthRegistry contract (truth_registry/contract.py) together with   *)
(* the IdentityRegistry it asks, by an inner application call, whether its *)
(* caller is a registered institution.  Transactions of all accounts are   *)
(* executed one after the other, in any order; a round of the chain holds  *)
(* any number of them.                                                     *)
(***************************************************************************)
EXTENDS IdentityRegistry

CONSTANTS
  Creator,                  \* Global.creator_address
  TraitIds, Commitments,
  ProofIds, ProofHashes, Thresholds,
  Verifiers,                \* values of verifier_app_id, NoVerifier among them
  NoVerifier,
  MaxRound                  \* bound on the chain's rounds, for model checking

ASSUME TruthAssumption ==
  Creator \in Accounts /\ NoVerifier \in Verifiers /\ MaxRound \in Nat

VARIABLES
  anchors,         \* BoxMap trait_id -> commitment
  anchorCount,
  proofs,          \* BoxMap proof_id -> ZKProofStatus
  verifierAppId,
  round,           \* Global.round
  anchoredBy,      \* history: who registered each anchor
  claims           \* history: per proof_id, the traits it was claimed for and by whom

truthVars == <<anchors, anchorCount, proofs, verifierAppId, round, anchoredBy, claims>>
vars == <<identityVars, truthVars>>

ProofStatus == [threshold : Thresholds, proofHash : ProofHashes,
                isVerified : BOOLEAN, submittedAt : Nat]

TypeOK ==
  /\ IdentityTypeOK
  /\ anchors \in [DOMAIN anchors -> Commitments] /\ DOMAIN anchors \subseteq TraitIds
  /\ anchorCount \in Nat
  /\ proofs \in [DOMAIN proofs -> ProofStatus] /\ DOMAIN proofs \subseteq ProofIds
  /\ verifierAppId \in Verifiers
  /\ round \in Nat
  /\ anchoredBy \in [DOMAIN anchoredBy -> Accounts]
  /\ claims \in [ProofIds -> SUBSET (TraitIds \X Accounts)]

NoBoxes == [k \in {} |-> NoVerifier]

Init ==
  /\ IdentityInit
  /\ anchors = NoBoxes
  /\ anchorCount = 0
  /\ proofs = NoBoxes
  /\ verifierAppId = NoVerifier
  /\ round = 0
  /\ anchoredBy = NoBoxes
  /\ claims = [p \in ProofIds |-> {}]
-----------------------------------------------------------------------------
SetVerifier(sender, app) ==
  /\ sender = Creator
  /\ verifierAppId' = app
  /\ UNCHANGED <<identityVars, anchors, anchorCount, proofs, round, anchoredBy, claims>>

(* The part of register_anchor that writes, and what it counts. *)
StoreAnchor(sender, trait, commitment, count) ==
  /\ IsRegistered(sender)
  /\ anchors' = PutBox(anchors, trait, commitment)
  /\ anchorCount' = count
  /\ anchoredBy' = PutBox(anchoredBy, trait, sender)
  /\ UNCHANGED <<identityVars, proofs, verifierAppId, round, claims>>

(* Faults: a trait can be anchored again; the count runs backwards. *)
RegisterAnchorAgain(sender, trait, commitment) ==
  anchorCount < MaxUint64 /\ StoreAnchor(sender, trait, commitment, anchorCount + 1)
RegisterAnchorDown(sender, trait, commitment) ==
  trait \notin DOMAIN anchors /\ StoreAnchor(sender, trait, commitment, anchorCount - 1)

RegisterAnchor(sender, trait, commitment) ==
  /\ trait \notin DOMAIN anchors
  /\ anchorCount < MaxUint64
  /\ StoreAnchor(sender, trait, commitment, anchorCount + 1)

(* verify_zk_claim: the status is filed under the proof id alone; the      *)
(* trait is looked up and not kept, and an earlier status is overwritten.  *)
SettleClaim(sender, trait, proof, threshold, hash) ==
  /\ IsRegistered(sender)
  /\ proofs' = PutBox(proofs, proof,
       [threshold |-> threshold, proofHash |-> hash, isVerified |-> TRUE,
        submittedAt |-> round])
  /\ claims' = [claims EXCEPT ![proof] = @ \cup {<<trait, sender>>}]
  /\ UNCHANGED <<identityVars, anchors, anchorCount, verifierAppId, round, anchoredBy>>

(* Fault: the trait need not be anchored. *)
VerifyZkClaimUnanchored(sender, trait, proof, threshold, hash) ==
  SettleClaim(sender, trait, proof, threshold, hash)

VerifyZkClaim(sender, trait, proof, threshold, hash) ==
  trait \in DOMAIN anchors /\ SettleClaim(sender, trait, proof, threshold, hash)

(* A call to the other contract, or the next round of the chain. *)
IdentityCall == IdentityNext /\ UNCHANGED truthVars

NextRound ==
  /\ round < MaxRound
  /\ round' = round + 1
  /\ UNCHANGED <<identityVars, anchors, anchorCount, proofs, verifierAppId, anchoredBy, claims>>

Next ==
  \/ IdentityCall
  \/ \E sender \in Accounts :
       \/ \E app \in Verifiers : SetVerifier(sender, app)
       \/ \E trait \in TraitIds :
            \/ \E commitment \in Commitments : RegisterAnchor(sender, trait, commitment)
            \/ \E proof \in ProofIds, threshold \in Thresholds, hash \in ProofHashes :
                 VerifyZkClaim(sender, trait, proof, threshold, hash)
  \/ NextRound

Spec == Init /\ [][Next]_vars

IsProofVerified(proof) == proof \in DOMAIN proofs /\ proofs[proof].isVerified
-----------------------------------------------------------------------------
(* get_anchor_count tells how many traits are anchored. *)
AnchorCountExact == anchorCount = Cardinality(DOMAIN anchors)

(* A commitment, once anchored, is never changed or removed by any later   *)
(* sequence of calls, of its own institution or of another.                *)
AnchorsImmutable ==
  [][\A trait \in DOMAIN anchors :
       trait \in DOMAIN anchors' /\ anchors'[trait] = anchors[trait]]_vars

(* Whoever anchors a trait or settles a claim has an active box in the     *)
(* identity registry at that moment: one that was deactivated since it     *)
(* registered can do neither, until the admin registers it again.          *)
OnlyActiveWrite ==
  [][LET active == {a \in DOMAIN institutions : institutions[a].isActive} IN
     /\ \A trait \in DOMAIN anchors' \ DOMAIN anchors : anchoredBy'[trait] \in active
     /\ \A proof \in ProofIds : \A c \in claims'[proof] \ claims[proof] : c[2] \in active]_vars

(* A proof that reads as verified was claimed for a trait that is anchored *)
(* now, though the contract stores no link between the two: this holds     *)
(* because anchors are never removed.                                      *)
VerifiedHasAnchor ==
  \A proof \in ProofIds : IsProofVerified(proof) =>
    /\ claims[proof] # {}
    /\ \A c \in claims[proof] : c[1] \in DOMAIN anchors
    /\ proofs[proof].submittedAt <= round

(* The registry counts registrations, a second one of an account too, so   *)
(* the count never falls below the number of institutions with a box.      *)
CountCoversBoxes == institutionCount >= Cardinality(DOMAIN institutions)
=============================================================================
