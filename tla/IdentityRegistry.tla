--------------------------- MODULE IdentityRegistry ---------------------------
(***************************************************************************)
(* The IdentityRegistry contract (identity_registry/contract.py): which    *)
(* accounts the admin has registered as institutions, and which of those   *)
(* are active.  Each action is one application call: it takes effect whole *)
(* or, when an assert fails, not at all.  The name, DID and public key of  *)
(* an institution are carried along but no method reads them; they are one *)
(* opaque value here.                                                      *)
(***************************************************************************)
EXTENDS Integers, FiniteSets

CONSTANTS
  Accounts,
  Profiles,          \* name, did and public_key of an institution
  MaxUint64          \* 2^64 - 1 on the AVM, where a larger sum fails the call

ASSUME Uint64Assumption == MaxUint64 \in Nat

VARIABLES
  admin,
  institutions,      \* BoxMap: a partial function of accounts
  institutionCount

identityVars == <<admin, institutions, institutionCount>>

Metadata == [profile : Profiles, isActive : BOOLEAN]

IdentityTypeOK ==
  /\ admin \in Accounts
  /\ institutions \in [DOMAIN institutions -> Metadata]
  /\ DOMAIN institutions \subseteq Accounts
  /\ institutionCount \in Nat

(* create: the application starts with an admin and no institution. *)
IdentityInit ==
  /\ admin \in Accounts
  /\ institutions = [a \in {} |-> [profile |-> a, isActive |-> FALSE]]
  /\ institutionCount = 0
-----------------------------------------------------------------------------
(* box[k] = v on a BoxMap. *)
PutBox(box, k, v) == [j \in DOMAIN box \cup {k} |-> IF j = k THEN v ELSE box[j]]

(* register_institution: also overwrites, and so re-activates, an account  *)
(* that has a box already.                                                 *)
StoreInstitution(sender, addr, profile) ==
  /\ sender = admin
  /\ institutions' = PutBox(institutions, addr, [profile |-> profile, isActive |-> TRUE])
  /\ UNCHANGED admin

(* Fault: the first registration of an account is not counted. *)
RegisterUncounted(sender, addr, profile) ==
  /\ StoreInstitution(sender, addr, profile)
  /\ institutionCount' = institutionCount + (IF addr \in DOMAIN institutions THEN 1 ELSE 0)

RegisterInstitution(sender, addr, profile) ==
  /\ StoreInstitution(sender, addr, profile)
  /\ institutionCount < MaxUint64
  /\ institutionCount' = institutionCount + 1

DeactivateInstitution(sender, addr) ==
  /\ sender = admin
  /\ addr \in DOMAIN institutions
  /\ institutions' = [institutions EXCEPT ![addr].isActive = FALSE]
  /\ UNCHANGED <<admin, institutionCount>>

(* Fault: a deactivated institution still counts as registered. *)
HasBox(addr) == addr \in DOMAIN institutions

IsRegistered(addr) == addr \in DOMAIN institutions /\ institutions[addr].isActive

IdentityNext ==
  \E sender, addr \in Accounts :
    \/ \E profile \in Profiles : RegisterInstitution(sender, addr, profile)
    \/ DeactivateInstitution(sender, addr)

IdentitySpec == IdentityInit /\ [][IdentityNext]_identityVars
=============================================================================
