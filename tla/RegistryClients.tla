---------------------------- MODULE RegistryClients ----------------------------
(***************************************************************************)
(* Programs that use the registries through their typed clients            *)
(* (artifacts/*/*_client.py).  A method of client.send makes one           *)
(* application call, waits until it is confirmed and returns its answer,   *)
(* or raises; what was submitted may be executed after the wait ended, and *)
(* a program that sends again may have both of its calls executed.         *)
(* client.state reads the global state and the boxes by requests of their  *)
(* own to algod, between which the chain goes on.                          *)
(*                                                                         *)
(* algod, its pool and the algokit library below the clients are external. *)
(***************************************************************************)
EXTENDS TruthRegistry

CONSTANTS
  Sends,       \* what the programs send: senders and calls
  MaxPending,  \* bound on submitted calls, for model checking only
  None

(* The arguments of the methods, one record type for each. *)
InstitutionCall ==
  [method : {"register_institution"}, address : Accounts, profile : Profiles]
    \cup [method : {"deactivate_institution"}, address : Accounts]

RegistryCall ==
  [method : {"set_verifier"}, app : Verifiers]
    \cup [method : {"register_anchor"}, trait : TraitIds, commitment : Commitments]
    \cup [method : {"verify_zk_claim"}, trait : TraitIds, proof : ProofIds,
          threshold : Thresholds, hash : ProofHashes]

(* The getters are readonly: algod simulates them, nothing is submitted. *)
Query ==
  [method : {"get_commitment"}, trait : TraitIds]
    \cup [method : {"is_proof_verified"}, proof : ProofIds]

ASSUME ClientsAssumption ==
  /\ Sends \subseteq [sender : Accounts, call : InstitutionCall \cup RegistryCall]
  /\ MaxPending \in Nat /\ None \notin InstitutionCall \cup RegistryCall /\ None \notin Nat

VARIABLES
  submitted, \* calls in algod's pool, and whether their program still waits
  answers,   \* history: commitments the programs were told of, and proofs
  reading    \* a read of the anchors under way: count, keys, values so far

clientVars == <<submitted, answers, reading>>
allVars == <<vars, clientVars>>

ClientTypeOK ==
  /\ submitted \subseteq [send : Sends, awaited : BOOLEAN]
  /\ answers \subseteq [trait : TraitIds, commitment : Commitments] \cup [proof : ProofIds]
  /\ reading \in {None} \cup [count : Nat, keys : (SUBSET TraitIds) \cup {None},
                              values : SUBSET (TraitIds \X Commitments)]

ClientInit ==
  /\ Init
  /\ submitted = {} /\ answers = {} /\ reading = None
-----------------------------------------------------------------------------
Waits(sender) == \E entry \in submitted : entry.awaited /\ entry.send.sender = sender

(* A method of client.send: the call is submitted, and awaited. *)
Send(send) ==
  /\ ~Waits(send.sender)
  /\ Cardinality(submitted) < MaxPending
  /\ submitted' = submitted \cup {[send |-> send, awaited |-> TRUE]}
  /\ UNCHANGED <<vars, answers, reading>>

(* The contract method a call names, with its arguments: of the identity   *)
(* registry, *)
RunInstitutionCall(sender, call) ==
  /\ \/ /\ call.method = "register_institution"
        /\ RegisterInstitution(sender, call.address, call.profile)
     \/ call.method = "deactivate_institution" /\ DeactivateInstitution(sender, call.address)
  /\ UNCHANGED truthVars

(* or of the truth registry. *)
RunRegistryCall(sender, call) ==
  \/ call.method = "set_verifier" /\ SetVerifier(sender, call.app)
  \/ call.method = "register_anchor" /\ RegisterAnchor(sender, call.trait, call.commitment)
  \/ /\ call.method = "verify_zk_claim"
     /\ VerifyZkClaim(sender, call.trait, call.proof, call.threshold, call.hash)

(* What a program learns from an answer. *)
Learnt(call) ==
  CASE call.method = "register_anchor" ->
         {[trait |-> call.trait, commitment |-> call.commitment]}
    [] call.method = "get_commitment" ->
         {[trait |-> trait, commitment |-> anchors[trait]] : trait \in {call.trait} \cap DOMAIN anchors}
    [] call.method = "verify_zk_claim" -> {[proof |-> call.proof]}
    [] call.method = "is_proof_verified" ->
         {[proof |-> proof] : proof \in {p \in {call.proof} : IsProofVerified(p)}}
    [] OTHER -> {}

(* A getter: it raises if there is no such box, and changes nothing. *)
Ask(query) ==
  /\ answers' = answers \cup Learnt(query)
  /\ UNCHANGED <<vars, submitted, reading>>

(* The chain executes a call, and a program that waits for it is told. *)
Execute(entry) ==
  /\ \/ RunInstitutionCall(entry.send.sender, entry.send.call)
     \/ RunRegistryCall(entry.send.sender, entry.send.call)
  /\ submitted' = submitted \ {entry}
  /\ answers' = IF entry.awaited THEN answers \cup Learnt(entry.send.call) ELSE answers
  /\ UNCHANGED reading

(* An assert fails, or the call's validity ends: it is gone, and a program *)
(* that waits for it gets an exception.                                    *)
Discard(entry) ==
  /\ submitted' = submitted \ {entry}
  /\ UNCHANGED <<vars, answers, reading>>

(* The wait was too long, or the connection is lost: the method raises,    *)
(* and the call stays in the pool.                                         *)
Raise(entry) ==
  /\ entry.awaited
  /\ submitted' = (submitted \ {entry}) \cup {[entry EXCEPT !.awaited = FALSE]}
  /\ UNCHANGED <<vars, answers, reading>>

(* client.state.global_state.anchor_count; *)
ReadCount ==
  /\ reading = None
  /\ reading' = [count |-> anchorCount, keys |-> None, values |-> {}]
  /\ UNCHANGED <<vars, submitted, answers>>

(* client.state.box.anchors.get_map(): the names of the boxes, *)
ListBoxes ==
  /\ reading # None /\ reading.keys = None
  /\ reading' = [reading EXCEPT !.keys = DOMAIN anchors]
  /\ UNCHANGED <<vars, submitted, answers>>

(* and each box by itself. *)
ReadBox(trait) ==
  /\ reading # None /\ reading.keys # None
  /\ trait \in reading.keys
  /\ reading' = [reading EXCEPT !.values = @ \cup {<<trait, anchors[trait]>>}]
  /\ UNCHANGED <<vars, submitted, answers>>

ReadDone ==
  /\ reading # None /\ reading.keys # None
  /\ reading' = None
  /\ UNCHANGED <<vars, submitted, answers>>

Round == NextRound /\ UNCHANGED clientVars

ClientNext ==
  \/ \E send \in Sends : Send(send)
  \/ \E query \in Query : Ask(query)
  \/ \E entry \in submitted : Execute(entry) \/ Discard(entry) \/ Raise(entry)
  \/ ReadCount \/ ListBoxes \/ ReadDone
  \/ \E trait \in TraitIds : ReadBox(trait)
  \/ Round

ClientSpec == ClientInit /\ [][ClientNext]_allVars
-----------------------------------------------------------------------------
(* What a program was told stays true: the commitment it anchored or read  *)
(* is the anchored one, the proof it settled or asked about is verified,   *)
(* whichever calls, of itself or of others, are executed late or twice.    *)
AnswersStayTrue ==
  \A answer \in answers :
    IF "proof" \in DOMAIN answer THEN IsProofVerified(answer.proof)
    ELSE /\ answer.trait \in DOMAIN anchors
         /\ anchors[answer.trait] = answer.commitment

(* A read that is spread over many requests still fits together: it has at *)
(* least as many keys as the count it began with, and each value it has is *)
(* the one value of its key, and is the present one.                       *)
ReadsFitTogether ==
  reading # None =>
    /\ reading.keys # None =>
         /\ reading.count <= Cardinality(reading.keys)
         /\ \A v \in reading.values : v[1] \in reading.keys
    /\ \A v \in reading.values : v[1] \in DOMAIN anchors /\ anchors[v[1]] = v[2]

=============================================================================
