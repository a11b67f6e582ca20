----------------------------- MODULE Institutions -----------------------------
(***************************************************************************)
(* The institution side of main.py: registration and subscription against  *)
(* a USDC payment, the quota they buy (pricing.SubscriptionTracker), and   *)
(* the verification requests that consume it.                              *)
(*                                                                         *)
(* register_institution and subscribe_monthly are handlers of              *)
(* PaymentVerifier with a continuation: after the await of verify_payment  *)
(* returns valid nothing suspends, so the acceptance and what it buys are  *)
(* one step.  create_verification_request never awaits: one step.          *)
(* Everything is kept in memory and is lost when the process restarts.     *)
(***************************************************************************)
EXTENDS PaymentVerifier, FiniteSetsExt, Functions

CONSTANTS
  InstIds, RequestIds,   \* what uuid4 may return; every draw is a fresh one
  OnboardingFee, SubscriptionCost,
  Quota                  \* SUBSCRIPTION_MONTHLY_QUOTA (1,000 in the code)

ASSUME QuotaAssumption == Quota \in Nat \ {0}
ASSUME FeesAssumption ==
  \A x \in Txids, fee \in {OnboardingFee, SubscriptionCost} :
    [txid |-> x, amount |-> fee, sender |-> None, note |-> None] \in Calls

(* A sum over the institutions, or over the payments, is one of finitely   *)
(* many numbers: ids are uuids, and transaction ids are hashes.            *)
ASSUME IdsAssumption == IsFiniteSet(InstIds) /\ IsFiniteSet(Txids)

VARIABLES
  institutionStore,     \* institution_store: tier of each registered id
  quotas,               \* subscription_tracker._quotas
  requests,             \* verification_requests: who created each request
  purpose,              \* what each handler's payment is for
  grants,               \* history: quotas bought by each institution
  forfeited,            \* history: what set_quota threw away of each institution's quota
  issued                \* history: institution ids (and keys) handed out

stores == <<institutionStore, quotas, requests>>
instVars == <<verifierVars, stores, purpose, grants, forfeited, issued>>

Register == "register"

ASSUME InstIdsAssumption == None \notin InstIds /\ Register \notin InstIds \cup {None}

InstTypeOK ==
  /\ VerifierTypeOK
  /\ institutionStore \in [DOMAIN institutionStore -> {"free", "subscription"}]
  /\ quotas \in [DOMAIN quotas -> 0 .. Quota]
  /\ requests \in [DOMAIN requests -> InstIds]
  /\ DOMAIN institutionStore \cup DOMAIN quotas \subseteq InstIds
  /\ DOMAIN requests \subseteq RequestIds
  /\ purpose \in [Tasks -> InstIds \cup {Register, None}]
  /\ grants \in [InstIds -> Nat] /\ forfeited \in [InstIds -> Nat]
  /\ issued \subseteq InstIds

Nothing == [x \in {} |-> None]

InstInit ==
  /\ VerifierInit
  /\ institutionStore = Nothing
  /\ quotas = Nothing
  /\ requests = Nothing
  /\ purpose = [t \in Tasks |-> None]
  /\ grants = [i \in InstIds |-> 0]
  /\ forfeited = [i \in InstIds |-> 0]
  /\ issued = {}
-----------------------------------------------------------------------------
(* d[k] = v on a dict. *)
Put(d, k, v) == [j \in DOMAIN d \cup {k} |-> IF j = k THEN v ELSE d[j]]

SetQuota(i) == quotas' = Put(quotas, i, Quota)

Remaining(i) == IF i \in DOMAIN quotas THEN quotas[i] ELSE 0

Begin(t, x, fee, goal) ==
  /\ VerifyBegin(t, [txid |-> x, amount |-> fee, sender |-> None, note |-> None])
  /\ purpose' = [purpose EXCEPT ![t] = goal]
  /\ UNCHANGED <<stores, grants, forfeited, issued>>

(* POST /institutions/register, up to the await.  Without a txid the       *)
(* answer is 402 and nothing changes.                                      *)
RegisterBegin(t, x) == Begin(t, x, OnboardingFee, Register)

(* require_institution: the API key is that of a registered institution. *)
Authenticated(i) == i \in DOMAIN institutionStore

(* Fault: the subscription is verified against the onboarding fee. *)
SubscribeBeginAtFee(t, i, x) ==
  /\ Authenticated(i)
  /\ Begin(t, x, OnboardingFee, i)

(* POST /institutions/subscribe, of an institution whose key is known. *)
SubscribeBegin(t, i, x) ==
  /\ Authenticated(i)
  /\ Begin(t, x, SubscriptionCost, i)

Grant(t, i, tier) ==
  /\ VerifyAccept(t)
  /\ institutionStore' = Put(institutionStore, i, tier)
  /\ SetQuota(i)
  /\ grants' = [grants EXCEPT ![i] = @ + 1]
  /\ forfeited' = [forfeited EXCEPT ![i] = @ + Remaining(i)]
  /\ issued' = issued \cup {i}
  /\ UNCHANGED <<requests, purpose>>

RegisterDone(t, i) ==
  /\ purpose[t] = Register
  /\ i \notin issued
  /\ Grant(t, i, "free")

(* Fault: a payment of an institution that has a subscription buys nothing.*)
SubscribeDoneOnce(t) ==
  /\ purpose[t] \in InstIds
  /\ IF institutionStore[purpose[t]] = "subscription"
     THEN VerifyAccept(t) /\ UNCHANGED <<stores, purpose, grants, forfeited, issued>>
     ELSE Grant(t, purpose[t], "subscription")

SubscribeDone(t) ==
  /\ purpose[t] \in InstIds
  /\ Grant(t, purpose[t], "subscription")

(* A verification that is retried or refused: 400, nothing else changes. *)
PaymentPending(t) ==
  /\ \E answer \in Answers : VerifyRetry(t, answer) \/ VerifyRefuse(t, answer)
  /\ UNCHANGED <<stores, purpose, grants, forfeited, issued>>

Respond(t) ==
  /\ Return(t)
  /\ purpose' = [purpose EXCEPT ![t] = None]
  /\ UNCHANGED <<stores, grants, forfeited, issued>>

(* POST /verify/request: consume one unit of quota, then store the request.*)
(* With no quota left the answer is 402 and nothing changes.               *)
Consume(i, enough) ==
  /\ enough
  /\ quotas' = [quotas EXCEPT ![i] = @ - 1]

StoreRequest(i, r) ==
  /\ Authenticated(i)
  /\ r \notin DOMAIN requests
  /\ requests' = Put(requests, r, i)
  /\ UNCHANGED <<verifierVars, institutionStore, purpose, grants, forfeited, issued>>

(* Faults: an off-by-one in consume; a request that consumes nothing. *)
CreateRequestOverdrawn(i, r) == StoreRequest(i, r) /\ Consume(i, Remaining(i) >= 0)
CreateRequestFree(i, r) == StoreRequest(i, r) /\ Remaining(i) > 0 /\ UNCHANGED quotas

CreateRequest(i, r) == StoreRequest(i, r) /\ Consume(i, Remaining(i) > 0)

(* The process restarts; nothing of the stores was kept anywhere else. *)
RestartStores ==
  /\ ProcessRestart
  /\ institutionStore' = Nothing
  /\ requests' = Nothing
  /\ purpose' = [t \in Tasks |-> None]
  /\ grants' = [i \in InstIds |-> 0]
  /\ forfeited' = [i \in InstIds |-> 0]
  /\ UNCHANGED issued

(* Fault: the quotas survive a restart that forgets the institutions. *)
RestartKeepingQuotas == RestartStores /\ UNCHANGED quotas

Restart == RestartStores /\ quotas' = Nothing

Environment ==
  /\ Clock \/ \E x \in Txids : Confirm(x)
  /\ UNCHANGED <<stores, purpose, grants, forfeited, issued>>

InstNext ==
  \/ \E t \in Tasks :
       \/ \E x \in Txids : RegisterBegin(t, x) \/ \E i \in InstIds : SubscribeBegin(t, i, x)
       \/ \E i \in InstIds : RegisterDone(t, i)
       \/ SubscribeDone(t)
       \/ PaymentPending(t)
       \/ Respond(t)
  \/ \E i \in InstIds, r \in RequestIds : CreateRequest(i, r)
  \/ Restart
  \/ Environment

InstSpec == InstInit /\ [][InstNext]_instVars
-----------------------------------------------------------------------------
CreatedBy(i) == {r \in DOMAIN requests : requests[r] = i}

(* An institution never gets more verification requests than it paid for:  *)
(* what it created and what it may still create is covered by its grants.  *)
QuotaBacked ==
  \A i \in InstIds : Cardinality(CreatedBy(i)) + Remaining(i) <= Quota * grants[i]

(* No quota is lost or made but by set_quota: the requests created, what is*)
(* left to create, and what set_quota replaced while some of it was left,  *)
(* add up over all institutions to one quota for each accepted payment,    *)
(* however registrations, subscriptions and requests overlap.              *)
EveryPaymentAccounted ==
  Cardinality(DOMAIN requests) + SumFunction([i \in InstIds |-> Remaining(i) + forfeited[i]])
    = Quota * SumFunction(credited)

(* An institution is in the subscription tier exactly when it has paid     *)
(* again after its registration; a handler that answers a subscription has *)
(* accepted its price, and the tier is not lost before it answers, whatever*)
(* other handlers wrote.                                                   *)
SubscriptionTierPaid ==
  /\ \A i \in DOMAIN institutionStore :
       institutionStore[i] = "subscription" <=> grants[i] > 1
  /\ \A t \in Tasks : pc[t] = "valid" /\ purpose[t] \in InstIds =>
       /\ institutionStore[purpose[t]] = "subscription"
       /\ Tx[call[t].txid].amount >= SubscriptionCost

(* The stores agree: a registered institution has a quota entry, and every *)
(* request and every payment in flight belongs to a registered institution *)
(* (subscribe_monthly writes institution_store[id] after its await).       *)
StoresAgree ==
  /\ DOMAIN quotas = DOMAIN institutionStore
  /\ \A r \in DOMAIN requests : requests[r] \in DOMAIN institutionStore
  /\ \A t \in Tasks : purpose[t] \in InstIds => purpose[t] \in DOMAIN institutionStore
=============================================================================
