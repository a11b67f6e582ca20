-------------------------- MODULE InstitutionsProofs --------------------------
(***************************************************************************)
(* Proofs about Institutions, for any institutions, fees and quota: its    *)
(* handlers are handlers of PaymentVerifier, so what is proved of that     *)
(* holds here; and no institution gets more than it has paid for.          *)
(***************************************************************************)
EXTENDS Institutions, PaymentVerifierProofs

(* Who has an entry has been granted one, under an id that was given out.  *)
GrantsKnown ==
  /\ \A i \in InstIds : grants[i] > 0 <=> i \in DOMAIN institutionStore
  /\ DOMAIN institutionStore \subseteq issued

(* A handler of a subscription asked for its price. *)
PurposePriced ==
  \A t \in Tasks : pc[t] \in {"query", "valid"} /\ purpose[t] \in InstIds =>
    call[t].amount = SubscriptionCost

RequestsFinite == IsFiniteSet(DOMAIN requests)

(* The stores' own types. *)
StoresTyped ==
  /\ institutionStore \in [DOMAIN institutionStore -> {"free", "subscription"}]
  /\ quotas \in [DOMAIN quotas -> 0 .. Quota]
  /\ requests \in [DOMAIN requests -> InstIds]
  /\ DOMAIN institutionStore \cup DOMAIN quotas \subseteq InstIds
  /\ DOMAIN requests \subseteq RequestIds
  /\ purpose \in [Tasks -> InstIds \cup {Register, None}]
  /\ grants \in [InstIds -> Nat] /\ forfeited \in [InstIds -> Nat]
  /\ issued \subseteq InstIds

StoresInv ==
  /\ StoresTyped /\ StoresAgree /\ RequestsFinite
  /\ GrantsKnown /\ QuotaBacked /\ PurposePriced /\ SubscriptionTierPaid

IInv == VInv /\ StoresInv

-----------------------------------------------------------------------------
(* The handlers of main.py run verify_payment and nothing else touches it. *)
LEMMA StepIsVerifierStep == InstNext => [VerifierNext]_verifierVars
<1> SUFFICES ASSUME InstNext PROVE VerifierNext \/ UNCHANGED verifierVars
  OBVIOUS
<1>0. ASSUME NEW t \in Tasks, NEW x \in Txids, NEW fee \in {OnboardingFee, SubscriptionCost},
             NEW goal, Begin(t, x, fee, goal)
      PROVE  VerifierNext
  BY <1>0, FeesAssumption DEF Begin, VerifierNext
<1>1. ASSUME NEW t \in Tasks, NEW x \in Txids, RegisterBegin(t, x) PROVE VerifierNext
  BY <1>0, <1>1 DEF RegisterBegin
<1>2. ASSUME NEW t \in Tasks, NEW x \in Txids, NEW i \in InstIds, SubscribeBegin(t, i, x)
      PROVE  VerifierNext
  BY <1>0, <1>2 DEF SubscribeBegin
<1>3. ASSUME NEW t \in Tasks, VerifyAccept(t) PROVE VerifierNext
  BY <1>3 DEF VerifierNext, VerifierStep
<1>4. ASSUME NEW t \in Tasks, PaymentPending(t) PROVE VerifierNext
  BY <1>4 DEF PaymentPending, VerifierNext, VerifierStep
<1>5. ASSUME NEW t \in Tasks, Respond(t) PROVE VerifierNext
  BY <1>5 DEF Respond, VerifierNext, VerifierStep
<1>6. ASSUME NEW i \in InstIds, NEW r \in RequestIds, CreateRequest(i, r)
      PROVE  UNCHANGED verifierVars
  BY <1>6 DEF CreateRequest, StoreRequest
<1>7. CASE Restart
  BY <1>7 DEF Restart, RestartStores, VerifierNext
<1>8. CASE Environment
  BY <1>8 DEF Environment, VerifierNext
<1> QED
  BY <1>1, <1>2, <1>3, <1>4, <1>5, <1>6, <1>7, <1>8
     DEF InstNext, RegisterDone, SubscribeDone, Grant

LEMMA InstStart == InstInit => IInv
<1> SUFFICES ASSUME InstInit PROVE IInv
  OBVIOUS
<1>1. VInv
  BY VerifierStart DEF InstInit
<1>2. /\ DOMAIN institutionStore = {} /\ DOMAIN quotas = {} /\ DOMAIN requests = {}
      /\ institutionStore = Nothing /\ quotas = Nothing /\ requests = Nothing
      /\ purpose = [t \in Tasks |-> None] /\ grants = [i \in InstIds |-> 0] /\ issued = {}
      /\ forfeited = [i \in InstIds |-> 0]
  BY DEF InstInit, Nothing
<1>3. StoresTyped
  BY <1>2 DEF StoresTyped, Nothing
<1>4. StoresAgree
  BY <1>2, InstIdsAssumption DEF StoresAgree
<1>5. RequestsFinite
  BY <1>2, FS_EmptySet DEF RequestsFinite
<1>6. GrantsKnown /\ PurposePriced /\ SubscriptionTierPaid
  BY <1>2, InstIdsAssumption DEF GrantsKnown, PurposePriced, SubscriptionTierPaid
<1>7. QuotaBacked
  <2>1. \A i \in InstIds : CreatedBy(i) = {} /\ Remaining(i) = 0 /\ grants[i] = 0
    BY <1>2 DEF CreatedBy, Remaining
  <2>2. Cardinality({}) = 0 /\ Quota * 0 = 0
    BY FS_EmptySet, QuotaAssumption
  <2> QED
    BY <2>1, <2>2 DEF QuotaBacked
<1> QED
  BY <1>1, <1>3, <1>4, <1>5, <1>6, <1>7 DEF IInv, StoresInv

(* A step that changes none of the stores, and no payment under way. *)
LEMMA SameStores ==
  ASSUME StoresInv, UNCHANGED <<stores, grants, forfeited, issued>>,
         purpose' \in [Tasks -> InstIds \cup {Register, None}],
         \A t \in Tasks : purpose'[t] \in InstIds => purpose'[t] \in DOMAIN institutionStore,
         PurposePriced',
         \A t \in Tasks : pc'[t] = "valid" /\ purpose'[t] \in InstIds =>
           pc[t] = "valid" /\ purpose'[t] = purpose[t] /\ call'[t] = call[t]
  PROVE  StoresInv'
<1> USE DEF StoresInv
<1>1. UNCHANGED <<institutionStore, quotas, requests, grants, forfeited, issued>>
  BY DEF stores
<1>2. StoresTyped'
  BY <1>1 DEF StoresTyped
<1>3. StoresAgree' /\ RequestsFinite' /\ GrantsKnown'
  BY <1>1 DEF StoresAgree, RequestsFinite, GrantsKnown
<1>4. QuotaBacked'
  BY <1>1 DEF QuotaBacked, CreatedBy, Remaining
<1>5. SubscriptionTierPaid'
  BY <1>1 DEF SubscriptionTierPaid
<1> QED
  BY <1>2, <1>3, <1>4, <1>5

LEMMA BeginKeepsStores ==
  ASSUME IInv, NEW t \in Tasks, NEW x \in Txids, NEW fee, NEW goal,
         Begin(t, x, fee, goal),
         \/ goal = Register
         \/ goal \in DOMAIN institutionStore /\ fee = SubscriptionCost
  PROVE  StoresInv'
<1>1. /\ pc \in [Tasks -> {"idle", "query", "valid", "refused"}]
      /\ call \in [Tasks -> Calls \cup {None}]
      /\ purpose \in [Tasks -> InstIds \cup {Register, None}]
      /\ DOMAIN institutionStore \subseteq InstIds
  BY DEF IInv, VInv, VTypeInv, VerifierTypeOK, StoresInv, StoresTyped
<1> DEFINE c == [txid |-> x, amount |-> fee, sender |-> None, note |-> None]
<1>2. /\ \E label \in {"refused", "query"} : pc' = [pc EXCEPT ![t] = label]
      /\ call' = [call EXCEPT ![t] = c]
      /\ purpose' = [purpose EXCEPT ![t] = goal]
      /\ UNCHANGED <<stores, grants, forfeited, issued>>
  BY DEF Begin, VerifyBegin, StartCall, Goto
<1>3. c.amount = fee
  OBVIOUS
<1> HIDE DEF c
<1>4. purpose' \in [Tasks -> InstIds \cup {Register, None}]
  BY <1>1, <1>2
<1>5. \A s \in Tasks : purpose'[s] \in InstIds => purpose'[s] \in DOMAIN institutionStore
  BY <1>1, <1>2, InstIdsAssumption DEF IInv, StoresInv, StoresAgree
<1>6. PurposePriced'
  BY <1>1, <1>2, <1>3, InstIdsAssumption DEF IInv, StoresInv, PurposePriced
<1>7. \A s \in Tasks : pc'[s] = "valid" =>
        pc[s] = "valid" /\ purpose'[s] = purpose[s] /\ call'[s] = call[s]
  BY <1>1, <1>2
<1> QED
  BY <1>2, <1>4, <1>5, <1>6, <1>7, SameStores DEF IInv

LEMMA Distribute ==
  ASSUME NEW n \in Nat PROVE Quota * (n + 1) = Quota * n + Quota
  BY QuotaAssumption

(* The grant: what the payment buys is written, and counted, in one step.  *)
LEMMA GrantKeepsStores ==
  ASSUME IInv, NEW t \in Tasks, NEW i \in InstIds, NEW tier \in {"free", "subscription"},
         Grant(t, i, tier),
         \/ tier = "free" /\ i \notin issued /\ purpose[t] = Register
         \/ tier = "subscription" /\ purpose[t] = i
  PROVE  StoresInv'
<1>1. /\ institutionStore' = Put(institutionStore, i, tier)
      /\ quotas' = Put(quotas, i, Quota)
      /\ grants' = [grants EXCEPT ![i] = @ + 1]
      /\ forfeited' = [forfeited EXCEPT ![i] = @ + Remaining(i)]
      /\ issued' = issued \cup {i}
      /\ requests' = requests /\ purpose' = purpose
  BY DEF Grant, SetQuota
<1>2. /\ pc[t] = "query" /\ pc' = [pc EXCEPT ![t] = "valid"] /\ call' = call
      /\ Acceptable(call[t])
  BY DEF Grant, VerifyAccept, Credit, Goto
<1>3. /\ pc \in [Tasks -> {"idle", "query", "valid", "refused"}]
      /\ StoresTyped /\ QuotaBacked /\ GrantsKnown /\ StoresAgree /\ PurposePriced
      /\ SubscriptionTierPaid /\ RequestsFinite
  BY DEF IInv, VInv, VTypeInv, VerifierTypeOK, StoresInv
<1>4. /\ DOMAIN institutionStore' = DOMAIN institutionStore \cup {i}
      /\ institutionStore'[i] = tier
      /\ \A j \in DOMAIN institutionStore : j # i => institutionStore'[j] = institutionStore[j]
      /\ DOMAIN quotas' = DOMAIN quotas \cup {i}
      /\ quotas'[i] = Quota
      /\ \A j \in DOMAIN quotas : j # i => quotas'[j] = quotas[j]
  BY <1>1 DEF Put
<1>5. /\ grants'[i] = grants[i] + 1 /\ \A j \in InstIds : j # i => grants'[j] = grants[j]
      /\ \A j \in InstIds : grants[j] \in Nat
  BY <1>1, <1>3 DEF StoresTyped
<1>6. StoresTyped'
  <2>1. institutionStore' \in [DOMAIN institutionStore' -> {"free", "subscription"}]
    BY <1>1, <1>3, <1>4 DEF StoresTyped, Put
  <2>2. quotas' \in [DOMAIN quotas' -> 0 .. Quota]
    BY <1>1, <1>3, <1>4, QuotaAssumption DEF StoresTyped, Put
  <2>3. forfeited' \in [InstIds -> Nat]
    BY <1>1, <1>3, QuotaAssumption DEF StoresTyped, Remaining
  <2> QED
    BY <1>1, <1>3, <1>4, <2>1, <2>2, <2>3 DEF StoresTyped
<1>7. StoresAgree'
  BY <1>1, <1>3, <1>4 DEF StoresAgree
<1>8. GrantsKnown'
  BY <1>1, <1>3, <1>4, <1>5 DEF GrantsKnown
<1>9. RequestsFinite'
  BY <1>1, <1>3 DEF RequestsFinite
<1>10. PurposePriced'
  BY <1>1, <1>2, <1>3 DEF PurposePriced
<1>11. QuotaBacked'
  <2>1. ASSUME NEW j \in InstIds
        PROVE  Cardinality(CreatedBy(j)') + Remaining(j)' <= Quota * grants'[j]
    <3>1. CreatedBy(j)' = CreatedBy(j)
      BY <1>1 DEF CreatedBy
    <3>2. CreatedBy(j) \subseteq DOMAIN requests
      BY DEF CreatedBy
    <3>3. Cardinality(CreatedBy(j)) \in Nat
      BY <1>3, <3>2, FS_Subset, FS_CardinalityType DEF RequestsFinite
    <3>4. Cardinality(CreatedBy(j)) + Remaining(j) <= Quota * grants[j]
      BY <1>3 DEF QuotaBacked
    <3>5. CASE j = i
      <4>1. Remaining(j)' = Quota
        BY <1>4, <3>5 DEF Remaining
      <4>2. Remaining(j) \in Nat
        BY <1>3, QuotaAssumption DEF StoresTyped, Remaining
      <4>3. Quota * (grants[j] + 1) = Quota * grants[j] + Quota
        BY <1>5, Distribute
      <4>4. Quota * grants[j] \in Nat /\ Quota \in Nat
        BY <1>5, QuotaAssumption
      <4>5. grants'[j] = grants[j] + 1
        BY <1>5, <3>5
      <4> QED
        BY <3>1, <3>3, <3>4, <4>1, <4>2, <4>3, <4>4, <4>5
    <3>6. CASE j # i
      <4>1. Remaining(j)' = Remaining(j)
        BY <1>4, <3>6 DEF Remaining
      <4> QED
        BY <1>5, <3>1, <3>4, <3>6, <4>1
    <3> QED
      BY <3>5, <3>6
  <2> QED
    BY <2>1 DEF QuotaBacked
<1>12. SubscriptionTierPaid'
  <2>1. ASSUME NEW j \in DOMAIN institutionStore'
        PROVE  institutionStore'[j] = "subscription" <=> grants'[j] > 1
    <3>1. CASE j = i
      <4>1. CASE tier = "free"
        BY <1>3, <1>4, <1>5, <3>1, <4>1, InstIdsAssumption DEF GrantsKnown
      <4>2. CASE tier = "subscription"
        <5>1. grants[i] > 0
          BY <1>3, <4>2 DEF GrantsKnown, StoresAgree
        <5> QED
          BY <1>4, <1>5, <3>1, <4>2, <5>1
      <4> QED
        BY <4>1, <4>2
    <3>2. CASE j # i
      BY <1>3, <1>4, <1>5, <3>2 DEF SubscriptionTierPaid, StoresTyped
    <3> QED
      BY <3>1, <3>2
  <2>2. ASSUME NEW s \in Tasks, pc'[s] = "valid", purpose[s] \in InstIds
        PROVE  /\ institutionStore'[purpose[s]] = "subscription"
               /\ Tx[call[s].txid].amount >= SubscriptionCost
    <3>1. CASE s = t
      <4>1. tier = "subscription" /\ purpose[t] = i
        BY <2>2, <3>1, InstIdsAssumption
      <4>2. call[t].amount = SubscriptionCost
        BY <1>2, <1>3, <4>1 DEF PurposePriced
      <4> QED
        BY <1>2, <1>4, <3>1, <4>1, <4>2 DEF Acceptable, Matches
    <3>2. CASE s # t
      <4>1. pc[s] = "valid"
        BY <1>2, <1>3, <2>2, <3>2
      <4>2. /\ institutionStore[purpose[s]] = "subscription"
            /\ Tx[call[s].txid].amount >= SubscriptionCost
            /\ purpose[s] \in DOMAIN institutionStore
        BY <1>3, <2>2, <4>1 DEF SubscriptionTierPaid, StoresAgree
      <4>3. purpose[s] = i => tier = "subscription"
        BY <1>3, <4>2 DEF GrantsKnown
      <4> QED
        BY <1>4, <4>2, <4>3
    <3> QED
      BY <3>1, <3>2
  <2> QED
    BY <1>1, <1>2, <2>1, <2>2 DEF SubscriptionTierPaid
<1> QED
  BY <1>6, <1>7, <1>8, <1>9, <1>10, <1>11, <1>12 DEF StoresInv

(* One unit of quota becomes one request. *)
LEMMA CreateKeepsStores ==
  ASSUME IInv, NEW i \in InstIds, NEW r \in RequestIds, CreateRequest(i, r)
  PROVE  StoresInv'
<1>1. /\ i \in DOMAIN institutionStore /\ r \notin DOMAIN requests
      /\ requests' = Put(requests, r, i)
      /\ Remaining(i) > 0 /\ quotas' = [quotas EXCEPT ![i] = @ - 1]
      /\ UNCHANGED <<pc, call, institutionStore, purpose, grants, forfeited, issued>>
  BY DEF CreateRequest, StoreRequest, Consume, Authenticated, verifierVars, taskVars
<1>2. /\ StoresTyped /\ QuotaBacked /\ GrantsKnown /\ StoresAgree /\ PurposePriced
      /\ SubscriptionTierPaid /\ RequestsFinite
  BY DEF IInv, StoresInv
<1>3. /\ DOMAIN requests' = DOMAIN requests \cup {r} /\ requests'[r] = i
      /\ \A q \in DOMAIN requests : requests'[q] = requests[q]
  BY <1>1 DEF Put
<1>4. /\ i \in DOMAIN quotas /\ DOMAIN quotas' = DOMAIN quotas
      /\ quotas[i] \in 1 .. Quota /\ quotas'[i] = quotas[i] - 1
      /\ \A j \in DOMAIN quotas : j # i => quotas'[j] = quotas[j]
  BY <1>1, <1>2, QuotaAssumption DEF StoresTyped, StoresAgree, Remaining
<1>5. StoresTyped'
  <2>1. requests' \in [DOMAIN requests' -> InstIds]
    BY <1>1, <1>2, <1>3 DEF StoresTyped, Put
  <2>2. quotas' \in [DOMAIN quotas' -> 0 .. Quota]
    BY <1>1, <1>2, <1>4, QuotaAssumption DEF StoresTyped
  <2> QED
    BY <1>1, <1>2, <1>3, <1>4, <2>1, <2>2 DEF StoresTyped
<1>6. StoresAgree'
  BY <1>1, <1>2, <1>3, <1>4 DEF StoresAgree
<1>7. RequestsFinite'
  BY <1>2, <1>3, FS_AddElement DEF RequestsFinite
<1>8. GrantsKnown' /\ PurposePriced' /\ SubscriptionTierPaid'
  BY <1>1, <1>2 DEF GrantsKnown, PurposePriced, SubscriptionTierPaid
<1>9. QuotaBacked'
  <2>1. ASSUME NEW j \in InstIds
        PROVE  Cardinality(CreatedBy(j)') + Remaining(j)' <= Quota * grants[j]
    <3>1. Cardinality(CreatedBy(j)) + Remaining(j) <= Quota * grants[j]
      BY <1>2 DEF QuotaBacked
    <3>2. CASE j = i
      <4>1. CreatedBy(j)' = CreatedBy(j) \cup {r} /\ r \notin CreatedBy(j)
        BY <1>1, <1>3, <3>2 DEF CreatedBy
      <4>2. CreatedBy(j) \subseteq DOMAIN requests
        BY DEF CreatedBy
      <4>3. IsFiniteSet(CreatedBy(j)) /\ Cardinality(CreatedBy(j)) \in Nat
        BY <1>2, <4>2, FS_Subset, FS_CardinalityType DEF RequestsFinite
      <4>4. Cardinality(CreatedBy(j) \cup {r}) = Cardinality(CreatedBy(j)) + 1
        BY <4>1, <4>3, FS_AddElement
      <4>5. Remaining(j)' = Remaining(j) - 1 /\ Remaining(j) \in Int
        BY <1>4, <3>2, QuotaAssumption DEF Remaining
      <4> QED
        BY <3>1, <4>1, <4>3, <4>4, <4>5
    <3>3. CASE j # i
      <4>1. CreatedBy(j)' = CreatedBy(j)
        BY <1>1, <1>3, <3>3 DEF CreatedBy
      <4>2. Remaining(j)' = Remaining(j)
        BY <1>4, <3>3 DEF Remaining
      <4> QED
        BY <3>1, <4>1, <4>2
    <3> QED
      BY <3>2, <3>3
  <2> QED
    BY <2>1, <1>1 DEF QuotaBacked
<1> QED
  BY <1>5, <1>6, <1>7, <1>8, <1>9 DEF StoresInv

LEMMA RestartKeepsStores == ASSUME IInv, Restart PROVE StoresInv'
<1>1. /\ institutionStore' = Nothing /\ quotas' = Nothing /\ requests' = Nothing
      /\ purpose' = [t \in Tasks |-> None] /\ grants' = [i \in InstIds |-> 0]
      /\ forfeited' = [i \in InstIds |-> 0] /\ issued' = issued
  BY DEF Restart, RestartStores
<1>2. DOMAIN institutionStore' = {} /\ DOMAIN quotas' = {} /\ DOMAIN requests' = {}
  BY <1>1 DEF Nothing
<1>3. issued \subseteq InstIds
  BY DEF IInv, StoresInv, StoresTyped
<1>4. StoresTyped'
  BY <1>1, <1>2, <1>3 DEF StoresTyped, Nothing
<1>5. StoresAgree' /\ GrantsKnown' /\ PurposePriced' /\ SubscriptionTierPaid'
  BY <1>1, <1>2, InstIdsAssumption
     DEF StoresAgree, GrantsKnown, PurposePriced, SubscriptionTierPaid
<1>6. RequestsFinite'
  BY <1>2, FS_EmptySet DEF RequestsFinite
<1>7. QuotaBacked'
  <2>1. \A i \in InstIds : CreatedBy(i)' = {} /\ Remaining(i)' = 0 /\ grants'[i] = 0
    BY <1>1, <1>2 DEF CreatedBy, Remaining
  <2>2. Cardinality({}) = 0 /\ Quota * 0 = 0
    BY FS_EmptySet, QuotaAssumption
  <2> QED
    BY <2>1, <2>2 DEF QuotaBacked
<1> QED
  BY <1>4, <1>5, <1>6, <1>7 DEF StoresInv

LEMMA StepKeeps == IInv /\ [InstNext]_instVars => IInv'
<1> SUFFICES ASSUME IInv, [InstNext]_instVars PROVE IInv'
  OBVIOUS
<1>0. /\ pc \in [Tasks -> {"idle", "query", "valid", "refused"}]
      /\ StoresInv /\ purpose \in [Tasks -> InstIds \cup {Register, None}]
      /\ \A t \in Tasks : purpose[t] \in InstIds => purpose[t] \in DOMAIN institutionStore
      /\ PurposePriced
  BY DEF IInv, VInv, VTypeInv, VerifierTypeOK, StoresInv, StoresTyped, StoresAgree
<1>1. VInv'
  <2>1. [VerifierNext]_verifierVars
    BY StepIsVerifierStep DEF instVars
  <2> QED
    BY <2>1, VInvStep DEF IInv
<1>2. ASSUME NEW t \in Tasks, NEW x \in Txids, RegisterBegin(t, x) PROVE StoresInv'
  BY <1>2, BeginKeepsStores DEF RegisterBegin
<1>3. ASSUME NEW t \in Tasks, NEW i \in InstIds, NEW x \in Txids, SubscribeBegin(t, i, x)
      PROVE  StoresInv'
  BY <1>3, BeginKeepsStores DEF SubscribeBegin, Authenticated
<1>4. ASSUME NEW t \in Tasks, NEW i \in InstIds, RegisterDone(t, i) PROVE StoresInv'
  BY <1>4, GrantKeepsStores DEF RegisterDone
<1>5. ASSUME NEW t \in Tasks, SubscribeDone(t) PROVE StoresInv'
  BY <1>5, GrantKeepsStores DEF SubscribeDone
<1>6. ASSUME NEW t \in Tasks, PaymentPending(t) PROVE StoresInv'
  <2>1. /\ UNCHANGED <<stores, purpose, grants, forfeited, issued, call>>
        /\ \A s \in Tasks : pc'[s] # "refused" => pc'[s] = pc[s]
    BY <1>0, <1>6 DEF PaymentPending, VerifyRetry, TryAgain, VerifyRefuse, Goto
  <2>2. PurposePriced'
    BY <1>0, <2>1 DEF PurposePriced
  <2> QED
    BY <1>0, <2>1, <2>2, SameStores
<1>7. ASSUME NEW t \in Tasks, Respond(t) PROVE StoresInv'
  <2>1. /\ UNCHANGED <<stores, grants, forfeited, issued>>
        /\ purpose' = [purpose EXCEPT ![t] = None]
        /\ pc' = [pc EXCEPT ![t] = "idle"] /\ call' = [call EXCEPT ![t] = None]
    BY <1>7 DEF Respond, Return, Goto
  <2>2. /\ purpose' \in [Tasks -> InstIds \cup {Register, None}]
        /\ \A s \in Tasks : purpose'[s] \in InstIds => purpose'[s] = purpose[s] /\ s # t
    BY <1>0, <2>1, InstIdsAssumption
  <2>3. call \in [Tasks -> Calls \cup {None}]
    BY DEF IInv, VInv, VTypeInv, VerifierTypeOK
  <2>4. \A s \in Tasks : s # t => pc'[s] = pc[s] /\ call'[s] = call[s]
    BY <1>0, <2>1, <2>3
  <2>5. PurposePriced'
    BY <1>0, <2>2, <2>4 DEF PurposePriced
  <2> QED
    BY <1>0, <2>1, <2>2, <2>4, <2>5, SameStores
<1>8. ASSUME NEW i \in InstIds, NEW r \in RequestIds, CreateRequest(i, r) PROVE StoresInv'
  BY <1>8, CreateKeepsStores
<1>9. ASSUME Restart PROVE StoresInv'
  BY <1>9, RestartKeepsStores
<1>10. ASSUME UNCHANGED <<stores, purpose, grants, forfeited, issued, pc, call>> PROVE StoresInv'
  <2>1. PurposePriced'
    BY <1>0, <1>10 DEF PurposePriced
  <2> QED
    BY <1>0, <1>10, <2>1, SameStores
<1>11. ASSUME Environment PROVE StoresInv'
  BY <1>10, <1>11 DEF Environment, Clock, Confirm, taskVars
<1>12. ASSUME UNCHANGED instVars PROVE StoresInv'
  BY <1>10, <1>12 DEF instVars, verifierVars, taskVars
<1> QED
  BY <1>1, <1>2, <1>3, <1>4, <1>5, <1>6, <1>7, <1>8, <1>9, <1>11, <1>12 DEF InstNext, IInv

LEMMA InstInvariant == InstSpec => []IInv
  BY InstStart, StepKeeps, PTL DEF InstSpec
-----------------------------------------------------------------------------
(* Every behaviour of the institution side is one of PaymentVerifier: what *)
(* is proved of verify_payment holds of it inside main.py.                 *)
THEOREM ImplementsVerifier == InstSpec => VerifierSpec
<1>1. InstInit => VerifierInit
  BY DEF InstInit
<1>2. [InstNext]_instVars => [VerifierNext]_verifierVars
  BY StepIsVerifierStep DEF instVars
<1> QED
  BY <1>1, <1>2, PTL DEF InstSpec, VerifierSpec

(* A payment registers or subscribes at most as many times as handlers can *)
(* be between the is_used check and mark_used, also through both endpoints.*)
THEOREM InstitutionCreditsBounded == InstSpec => []CreditBound
  BY ImplementsVerifier, CreditsBounded, PTL

(* The stores of main.py keep their types. *)
THEOREM InstitutionTypes == InstSpec => []InstTypeOK
<1>1. IInv => InstTypeOK
  BY DEF IInv, VInv, VTypeInv, StoresInv, StoresTyped, InstTypeOK
<1> QED
  BY <1>1, InstInvariant, PTL

(* No institution creates, or may still create, more requests than the     *)
(* quotas it has paid for allow.                                           *)
THEOREM QuotaIsBacked == InstSpec => []QuotaBacked
<1>1. IInv => QuotaBacked
  BY DEF IInv, StoresInv
<1> QED
  BY <1>1, InstInvariant, PTL

(* institution_store, the quotas, the requests and the payments in flight  *)
(* speak of the same institutions, over restarts too.                      *)
THEOREM StoresStayInAgreement == InstSpec => []StoresAgree
<1>1. IInv => StoresAgree
  BY DEF IInv, StoresInv
<1> QED
  BY <1>1, InstInvariant, PTL

(* The subscription tier is held exactly by those who paid again after     *)
(* their registration, and each of those payments covered its price.       *)
THEOREM TierIsPaid == InstSpec => []SubscriptionTierPaid
<1>1. IInv => SubscriptionTierPaid
  BY DEF IInv, StoresInv
<1> QED
  BY <1>1, InstInvariant, PTL
-----------------------------------------------------------------------------
(* Sums of counters.  The library sums a function by recursion over the    *)
(* subsets of its domain; its equation is derived here, and what a changed *)
(* counter does to the sum.                                                *)

(* Among the subsets of a finite set that are in Bad one is minimal. *)
LEMMA SmallestSubset ==
  ASSUME NEW S, IsFiniteSet(S), NEW Bad, Bad \subseteq SUBSET S, Bad # {}
  PROVE  \E s \in Bad : \A x \in s : s \ {x} \notin Bad
<1>1. IsWellFoundedOn(StrictSubsetOrdering(S), SUBSET S)
  BY FS_StrictSubsetOrderingWellFounded, FS_FiniteSubsetsOfFinite
<1>2. PICK s \in Bad : \A r \in Bad : ~ (<<r, s>> \in StrictSubsetOrdering(S))
  BY <1>1, WFMin
<1>3. ASSUME NEW x \in s, s \ {x} \in Bad PROVE FALSE
  <2>1. <<s \ {x}, s>> \in (SUBSET S) \X (SUBSET S)
    OBVIOUS
  <2>2. <<s \ {x}, s>> \in StrictSubsetOrdering(S)
    BY <2>1 DEF StrictSubsetOrdering
  <2> QED
    BY <1>2, <1>3, <2>2
<1> QED
  BY <1>3

(* What holds of 0 and passes from each number to the next holds of n: the *)
(* least number outside Good has no predecessor there.                     *)
LEMMA CountUp ==
  ASSUME NEW Good, 0 \in Good, NEW n \in Nat, \A m \in 0 .. n - 1 : m \in Good => m + 1 \in Good
  PROVE  n \in Good
<1>1. SUFFICES ASSUME n \notin Good PROVE FALSE
  OBVIOUS
<1> DEFINE Bad == {s \in SUBSET (1 .. n) : \E m \in 0 .. n : s = 1 .. m /\ m \notin Good}
<1>2. IsFiniteSet(1 .. n) /\ Bad \subseteq SUBSET (1 .. n) /\ 1 .. n \in Bad
  BY <1>1, FS_Interval
<1>3. PICK s \in Bad : \A x \in s : s \ {x} \notin Bad
  <2> HIDE DEF Bad
  <2> QED
    BY <1>2, SmallestSubset
<1>4. PICK m \in 0 .. n : s = 1 .. m /\ m \notin Good
  OBVIOUS
<1>5. m \in s /\ m - 1 \in 0 .. n - 1 /\ m - 1 \notin Good
  BY <1>4
<1>6. s \ {m} = 1 .. (m - 1)
  BY <1>4, <1>5
<1>7. s \ {m} \in Bad
  BY <1>5, <1>6
<1> QED
  BY <1>3, <1>5, <1>7

First(s) == CHOOSE x \in s : TRUE

(* The recursive equation of SumFunctionOnSet, over the subsets of S. *)
SumsUp(f, S, sum) ==
  sum = [s \in SUBSET S |-> IF s = {} THEN 0 ELSE f[First(s)] + sum[s \ {First(s)}]]

LEMMA SumIsChosen ==
  ASSUME NEW f, NEW S
  PROVE  SumFunctionOnSet(f, S) = (CHOOSE sum : SumsUp(f, S, sum))[S]
  BY Zenon DEF SumFunctionOnSet, FoldFunctionOnSet, MapThenFoldSet, SumsUp, First

(* The equation has a solution with integer values: by the size of the set.*)
LEMMA SumExists ==
  ASSUME NEW S, IsFiniteSet(S), NEW f \in [S -> Int]
  PROVE  \E sum \in [SUBSET S -> Int] : SumsUp(f, S, sum)
<1> DEFINE Step(sum, s) == IF s = {} THEN 0 ELSE f[First(s)] + sum[s \ {First(s)}]
           UpTo(n, sum) == \A s \in SUBSET S : Cardinality(s) <= n => sum[s] = Step(sum, s)
           Good == {n \in Nat : \E sum \in [SUBSET S -> Int] : UpTo(n, sum)}
<1>1. \A s \in SUBSET S : /\ IsFiniteSet(s) /\ Cardinality(s) \in Nat
                          /\ Cardinality(s) <= Cardinality(S) /\ Cardinality(S) \in Nat
  BY FS_Subset, FS_CardinalityType
<1>2. \A s \in SUBSET S : s # {} =>
        /\ First(s) \in s /\ f[First(s)] \in Int /\ s \ {First(s)} \in SUBSET S
        /\ Cardinality(s \ {First(s)}) = Cardinality(s) - 1 /\ Cardinality(s) > 0
  <2> SUFFICES ASSUME NEW s \in SUBSET S, s # {}
               PROVE  /\ First(s) \in s /\ f[First(s)] \in Int /\ s \ {First(s)} \in SUBSET S
                      /\ Cardinality(s \ {First(s)}) = Cardinality(s) - 1 /\ Cardinality(s) > 0
    OBVIOUS
  <2>1. First(s) \in s
    BY DEF First
  <2>2. Cardinality(s \ {First(s)}) = Cardinality(s) - 1
    BY <1>1, <2>1, FS_RemoveElement
  <2>3. Cardinality(s) > 0
    BY <1>1, FS_EmptySet
  <2> QED
    BY <2>1, <2>2, <2>3
<1>3. 0 \in Good
  <2>1. [s \in SUBSET S |-> 0] \in [SUBSET S -> Int]
    OBVIOUS
  <2>2. ASSUME NEW s \in SUBSET S, Cardinality(s) <= 0
        PROVE  [r \in SUBSET S |-> 0][s] = Step([r \in SUBSET S |-> 0], s)
    <3>1. s = {}
      <4> HIDE DEF Good
      <4>1. Cardinality(s) \in Nat /\ ~ (Cardinality(s) > 0)
        BY <1>1, <2>2
      <4> QED
        BY <1>2, <4>1
    <3> QED
      BY <3>1
  <2> QED
    BY <2>1, <2>2
<1>4. ASSUME NEW n \in Nat, n \in Good PROVE n + 1 \in Good
  <2>1. PICK sum \in [SUBSET S -> Int] : UpTo(n, sum)
    BY <1>4
  <2> DEFINE next == [s \in SUBSET S |-> IF s = {} THEN 0
                        ELSE IF Cardinality(s) = n + 1 THEN f[First(s)] + sum[s \ {First(s)}] ELSE sum[s]]
  <2>2. next \in [SUBSET S -> Int]
    BY <1>2
  <2>3. ASSUME NEW s \in SUBSET S, Cardinality(s) <= n + 1 PROVE next[s] = Step(next, s)
    <3>1. CASE s = {}
      BY <3>1
    <3>2. CASE s # {}
      <4> DEFINE r == s \ {First(s)}
      <4>1. r \in SUBSET S /\ Cardinality(r) = Cardinality(s) - 1 /\ Cardinality(s) \in Nat
        BY <1>1, <1>2, <3>2
      <4>2. next[r] = sum[r]
        <5>1. CASE r = {}
          <6>1. {} \in SUBSET S /\ Cardinality({}) <= n
            BY FS_EmptySet
          <6>2. sum[{}] = 0
            BY <2>1, <6>1
          <6> QED
            BY <5>1, <6>1, <6>2
        <5>2. CASE r # {}
          BY <5>2, <4>1, <2>3
        <5> QED
          BY <5>1, <5>2
      <4>3. sum[s] = f[First(s)] + sum[r] \/ Cardinality(s) = n + 1
        BY <2>1, <2>3, <3>2, <4>1
      <4> QED
        BY <4>1, <4>2, <4>3, <3>2
    <3> QED
      BY <3>1, <3>2
  <2> HIDE DEF next
  <2>4. UpTo(n + 1, next)
    BY <2>3
  <2> HIDE DEF UpTo
  <2> QED
    BY <2>2, <2>4
<1>5. Cardinality(S) \in Good
  <2> HIDE DEF Good
  <2> QED
    BY <1>1, <1>3, <1>4, CountUp
<1>6. PICK sum \in [SUBSET S -> Int] : UpTo(Cardinality(S), sum)
  BY <1>5
<1>7. \A s \in SUBSET S : sum[s] = Step(sum, s)
  BY <1>1, <1>6
<1> QED
  BY <1>7 DEF SumsUp

(* The sum is that of every subset, and an integer. *)
LEMMA SumEquation ==
  ASSUME NEW S, IsFiniteSet(S), NEW f \in [S -> Int]
  PROVE  \E sum : SumsUp(f, S, sum) /\ SumFunction(f) = sum[S]
<1> DEFINE chosen == CHOOSE sum : SumsUp(f, S, sum)
<1>1. SumsUp(f, S, chosen)
  BY SumExists
<1>2. SumFunction(f) = chosen[S]
  BY SumIsChosen DEF SumFunction
<1> QED
  BY <1>1, <1>2

(* Two functions that agree on all but i differ in their sums as they do   *)
(* at i: over every subset, by the least one where they would not.         *)
LEMMA SumOfChange ==
  ASSUME NEW S, IsFiniteSet(S), NEW f \in [S -> Int], NEW g \in [S -> Int],
         NEW i \in S, NEW d \in Int, g[i] = f[i] + d, \A x \in S : x # i => g[x] = f[x]
  PROVE  SumFunction(g) = SumFunction(f) + d
<1>2. PICK sf : SumsUp(f, S, sf) /\ SumFunction(f) = sf[S]
  BY SumEquation
<1>3. PICK sg : SumsUp(g, S, sg) /\ SumFunction(g) = sg[S]
  BY SumEquation
<1> DEFINE Same(s) == sf[s] \in Int /\ sg[s] = sf[s] + (IF i \in s THEN d ELSE 0)
           Bad == {s \in SUBSET S : ~ Same(s)}
<1>4. Bad = {}
  <2> SUFFICES ASSUME Bad # {} PROVE FALSE
    OBVIOUS
  <2>1. PICK s \in Bad : \A x \in s : s \ {x} \notin Bad
    <3> HIDE DEF Same
    <3>1. Bad \subseteq SUBSET S
      OBVIOUS
    <3> HIDE DEF Bad
    <3> QED
      BY <3>1, SmallestSubset
  <2> DEFINE x == First(s)
             r == s \ {x}
  <2>2. sf[{}] = 0 /\ sg[{}] = 0
    BY <1>2, <1>3 DEF SumsUp
  <2>3. s # {} /\ x \in s /\ x \in S /\ r \in SUBSET S
    <3>1. s # {} /\ s \in SUBSET S
      <4>1. Same({})
        BY <2>2
      <4> HIDE DEF Same
      <4> QED
        BY <2>1, <4>1
    <3>2. x \in s
      BY <3>1 DEF First
    <3> QED
      BY <3>1, <3>2
  <2>4. Same(r)
    BY <2>1, <2>3
  <2>5. sf[s] = f[x] + sf[r] /\ sg[s] = g[x] + sg[r]
    BY <1>2, <1>3, <2>1, <2>3 DEF SumsUp
  <2>6. i \in r <=> (i \in s /\ i # x)
    OBVIOUS
  <2>7. g[x] = f[x] + (IF i = x THEN d ELSE 0) /\ f[x] \in Int
    BY <2>3
  <2> HIDE DEF x, r
  <2>8. Same(s)
    BY <2>3, <2>4, <2>5, <2>6, <2>7
  <2> QED
    BY <2>1, <2>8
<1>5. Same(S)
  BY <1>4
<1> QED
  BY <1>2, <1>3, <1>5

(* The sum of nothing but zeros. *)
LEMMA SumOfZeros ==
  ASSUME NEW S, IsFiniteSet(S)
  PROVE  SumFunction([x \in S |-> 0]) = 0
<1> DEFINE f == [x \in S |-> 0]
<1>1. f \in [S -> Int] /\ \A x \in S : f[x] = 0
  OBVIOUS
<1> HIDE DEF f
<1>2. PICK sum : SumsUp(f, S, sum) /\ SumFunction(f) = sum[S]
  BY <1>1, SumEquation
<1> DEFINE Bad == {s \in SUBSET S : sum[s] # 0}
<1>3. SUFFICES ASSUME Bad # {} PROVE FALSE
  BY <1>2 DEF f
<1>4. PICK s \in Bad : \A x \in s : s \ {x} \notin Bad
  <2>1. Bad \subseteq SUBSET S
    OBVIOUS
  <2> HIDE DEF Bad
  <2> QED
    BY <1>3, <2>1, SmallestSubset
<1>5. s # {} => First(s) \in s
  BY DEF First
<1>6. sum[s] = IF s = {} THEN 0 ELSE f[First(s)] + sum[s \ {First(s)}]
  BY <1>2 DEF SumsUp
<1> QED
  BY <1>1, <1>4, <1>5, <1>6

(* The sum of natural numbers is one. *)
LEMMA SumOfNats ==
  ASSUME NEW S, IsFiniteSet(S), NEW f \in [S -> Nat]
  PROVE  SumFunction(f) \in Nat
<1>1. f \in [S -> Int]
  OBVIOUS
<1>2. PICK sum : SumsUp(f, S, sum) /\ SumFunction(f) = sum[S]
  BY <1>1, SumEquation
<1> DEFINE Bad == {s \in SUBSET S : sum[s] \notin Nat}
<1>3. SUFFICES ASSUME Bad # {} PROVE FALSE
  BY <1>2
<1>4. PICK s \in Bad : \A x \in s : s \ {x} \notin Bad
  <2>1. Bad \subseteq SUBSET S
    OBVIOUS
  <2> HIDE DEF Bad
  <2> QED
    BY <1>3, <2>1, SmallestSubset
<1>5. s # {} => First(s) \in s
  BY DEF First
<1>6. sum[s] = IF s = {} THEN 0 ELSE f[First(s)] + sum[s \ {First(s)}]
  BY <1>2 DEF SumsUp
<1> QED
  BY <1>4, <1>5, <1>6
-----------------------------------------------------------------------------
(* What an institution may still create, and what it has forfeited. *)
Unused == [i \in InstIds |-> Remaining(i) + forfeited[i]]

LEMMA CountersAreNats ==
  IInv => /\ Unused \in [InstIds -> Nat] /\ credited \in [Txids -> Nat]
          /\ SumFunction(Unused) \in Nat /\ SumFunction(credited) \in Nat
          /\ IsFiniteSet(DOMAIN requests) /\ Cardinality(DOMAIN requests) \in Nat
<1> SUFFICES ASSUME IInv
             PROVE  /\ Unused \in [InstIds -> Nat] /\ credited \in [Txids -> Nat]
                    /\ SumFunction(Unused) \in Nat /\ SumFunction(credited) \in Nat
                    /\ IsFiniteSet(DOMAIN requests) /\ Cardinality(DOMAIN requests) \in Nat
  OBVIOUS
<1>1. Unused \in [InstIds -> Nat] /\ credited \in [Txids -> Nat]
  BY QuotaAssumption
     DEF Unused, Remaining, IInv, VInv, VTypeInv, VerifierTypeOK, StoresInv, StoresTyped
<1>2. IsFiniteSet(DOMAIN requests) /\ Cardinality(DOMAIN requests) \in Nat
  BY FS_CardinalityType DEF IInv, StoresInv, RequestsFinite
<1> QED
  BY <1>1, <1>2, SumOfNats, IdsAssumption

(* A grant adds one quota to what is unused, and one acceptance. *)
LEMMA GrantAccounted ==
  ASSUME IInv, EveryPaymentAccounted, NEW t \in Tasks, NEW i \in InstIds, NEW tier,
         Grant(t, i, tier)
  PROVE  EveryPaymentAccounted'
<1>1. /\ Unused \in [InstIds -> Int] /\ credited \in [Txids -> Int]
      /\ call \in [Tasks -> Calls \cup {None}] /\ forfeited \in [InstIds -> Nat]
      /\ quotas \in [DOMAIN quotas -> 0 .. Quota] /\ Quota \in Nat
  BY CountersAreNats, QuotaAssumption
     DEF IInv, VInv, VTypeInv, VerifierTypeOK, StoresInv, StoresTyped
<1>2. call[t].txid \in Txids
  BY CallsAssumption DEF Grant, VerifyAccept, Credit, Call, IInv, VInv, VTypeInv, BusyHasCall
<1>3. /\ quotas' = Put(quotas, i, Quota)
      /\ forfeited' = [forfeited EXCEPT ![i] = @ + Remaining(i)]
      /\ credited' = [credited EXCEPT ![call[t].txid] = @ + 1]
      /\ requests' = requests
  BY DEF Grant, SetQuota, VerifyAccept, Credit
<1>4. /\ Remaining(i)' = Quota
      /\ \A j \in InstIds : j # i => Remaining(j)' = Remaining(j)
      /\ \A j \in InstIds : Remaining(j) \in Nat
  BY <1>1, <1>3 DEF Remaining, Put
<1>5. SumFunction(Unused') = SumFunction(Unused) + Quota
  <2>1. /\ Unused' \in [InstIds -> Int] /\ Unused'[i] = Unused[i] + Quota
        /\ \A j \in InstIds : j # i => Unused'[j] = Unused[j]
    BY <1>1, <1>3, <1>4 DEF Unused
  <2> QED
    BY <1>1, <2>1, SumOfChange, IdsAssumption
<1>6. SumFunction(credited') = SumFunction(credited) + 1
  <2> DEFINE x == call[t].txid
  <2>1. /\ credited' \in [Txids -> Int] /\ credited'[x] = credited[x] + 1
        /\ \A y \in Txids : y # x => credited'[y] = credited[y]
    BY <1>1, <1>2, <1>3
  <2> HIDE DEF x
  <2> QED
    BY <1>1, <1>2, <2>1, SumOfChange, IdsAssumption DEF x
<1>7. Quota * (SumFunction(credited) + 1) = Quota * SumFunction(credited) + Quota
  BY CountersAreNats, Distribute
<1>8. /\ Cardinality(DOMAIN requests) \in Nat /\ SumFunction(Unused) \in Nat
      /\ Quota * SumFunction(credited) \in Nat /\ Quota \in Nat
  BY <1>1, CountersAreNats
<1>9. Cardinality(DOMAIN requests) + SumFunction(Unused) = Quota * SumFunction(credited)
  BY DEF EveryPaymentAccounted, Unused
<1>10. Cardinality(DOMAIN requests') + SumFunction(Unused') = Quota * SumFunction(credited')
  BY <1>3, <1>5, <1>6, <1>7, <1>8, <1>9
<1> QED
  BY <1>10 DEF EveryPaymentAccounted, Unused

(* A request takes one from what is unused. *)
LEMMA CreateAccounted ==
  ASSUME IInv, EveryPaymentAccounted, NEW i \in InstIds, NEW r \in RequestIds,
         CreateRequest(i, r)
  PROVE  EveryPaymentAccounted'
<1>1. /\ Unused \in [InstIds -> Int] /\ quotas \in [DOMAIN quotas -> 0 .. Quota]
      /\ forfeited \in [InstIds -> Nat] /\ Quota \in Nat
  BY CountersAreNats, QuotaAssumption DEF IInv, StoresInv, StoresTyped
<1>2. /\ r \notin DOMAIN requests /\ requests' = Put(requests, r, i)
      /\ Remaining(i) > 0 /\ quotas' = [quotas EXCEPT ![i] = @ - 1]
      /\ UNCHANGED <<credited, forfeited>>
  BY DEF CreateRequest, StoreRequest, Consume, verifierVars, historyVars
<1>3. /\ Remaining(i)' = Remaining(i) - 1
      /\ \A j \in InstIds : j # i => Remaining(j)' = Remaining(j)
      /\ \A j \in InstIds : Remaining(j) \in Nat
  BY <1>1, <1>2 DEF Remaining
<1>4. SumFunction(Unused') = SumFunction(Unused) - 1
  <2>1. /\ Unused' \in [InstIds -> Int] /\ Unused'[i] = Unused[i] + (-1)
        /\ \A j \in InstIds : j # i => Unused'[j] = Unused[j]
    BY <1>1, <1>2, <1>3 DEF Unused
  <2>2. SumFunction(Unused') = SumFunction(Unused) + (-1)
    BY <1>1, <2>1, SumOfChange, IdsAssumption
  <2> QED
    BY <2>2, CountersAreNats
<1>5. Cardinality(DOMAIN requests') = Cardinality(DOMAIN requests) + 1
  <2>1. DOMAIN requests' = DOMAIN requests \cup {r}
    BY <1>2 DEF Put
  <2> QED
    BY <1>2, <2>1, CountersAreNats, FS_AddElement
<1>6. Cardinality(DOMAIN requests) + SumFunction(Unused) = Quota * SumFunction(credited)
  BY DEF EveryPaymentAccounted, Unused
<1>7. Cardinality(DOMAIN requests') + SumFunction(Unused') = Quota * SumFunction(credited')
  BY <1>2, <1>4, <1>5, <1>6, CountersAreNats
<1> QED
  BY <1>7 DEF EveryPaymentAccounted, Unused

(* Nobody has paid, and nobody has a quota. *)
LEMMA NothingAccounted ==
  ASSUME DOMAIN requests = {}, DOMAIN quotas = {}, forfeited = [i \in InstIds |-> 0],
         credited = [x \in Txids |-> 0]
  PROVE  EveryPaymentAccounted
<1>1. Unused = [i \in InstIds |-> 0]
  BY DEF Unused, Remaining
<1>2. SumFunction(Unused) = 0 /\ SumFunction(credited) = 0
  BY <1>1, SumOfZeros, IdsAssumption
<1>3. Cardinality(DOMAIN requests) = 0 /\ Quota * 0 = 0
  BY FS_EmptySet, QuotaAssumption
<1> QED
  BY <1>2, <1>3 DEF EveryPaymentAccounted, Unused

LEMMA AccountsKept == IInv /\ EveryPaymentAccounted /\ [InstNext]_instVars => EveryPaymentAccounted'
<1> SUFFICES ASSUME IInv, EveryPaymentAccounted, [InstNext]_instVars PROVE EveryPaymentAccounted'
  OBVIOUS
<1>1. ASSUME NEW t \in Tasks, NEW i \in InstIds, RegisterDone(t, i) PROVE EveryPaymentAccounted'
  BY <1>1, GrantAccounted DEF RegisterDone
<1>2. ASSUME NEW t \in Tasks, SubscribeDone(t) PROVE EveryPaymentAccounted'
  BY <1>2, GrantAccounted DEF SubscribeDone
<1>3. CASE Restart
  <2>1. /\ DOMAIN requests' = {} /\ DOMAIN quotas' = {}
        /\ forfeited' = [i \in InstIds |-> 0] /\ credited' = [x \in Txids |-> 0]
    BY <1>3 DEF Restart, RestartStores, ProcessRestart, Nothing
  <2>2. Unused' = [i \in InstIds |-> 0]
    BY <2>1 DEF Unused, Remaining
  <2>3. SumFunction(Unused') = 0 /\ SumFunction(credited') = 0
    BY <2>1, <2>2, SumOfZeros, IdsAssumption
  <2>4. Cardinality(DOMAIN requests') = 0 /\ Quota * 0 = 0
    BY <2>1, FS_EmptySet, QuotaAssumption
  <2> QED
    BY <2>3, <2>4 DEF EveryPaymentAccounted, Unused
<1>4. ASSUME UNCHANGED <<stores, forfeited, credited>> PROVE EveryPaymentAccounted'
  BY <1>4 DEF EveryPaymentAccounted, Remaining, stores
<1>5. ASSUME NEW t \in Tasks, NEW x \in Txids, NEW fee, NEW goal, Begin(t, x, fee, goal)
      PROVE  UNCHANGED <<stores, forfeited, credited>>
  BY <1>5 DEF Begin, VerifyBegin, StartCall, historyVars
<1>6. ASSUME NEW t \in Tasks, PaymentPending(t) PROVE UNCHANGED <<stores, forfeited, credited>>
  BY <1>6 DEF PaymentPending, VerifyRetry, TryAgain, VerifyRefuse, historyVars
<1>7. ASSUME NEW t \in Tasks, Respond(t) PROVE UNCHANGED <<stores, forfeited, credited>>
  BY <1>7 DEF Respond, Return, historyVars
<1>8. ASSUME NEW i \in InstIds, NEW r \in RequestIds, CreateRequest(i, r)
      PROVE  EveryPaymentAccounted'
  BY <1>8, CreateAccounted
<1>9. CASE Environment
  BY <1>4, <1>9 DEF Environment, Clock, Confirm, historyVars
<1>10. CASE UNCHANGED instVars
  BY <1>4, <1>10 DEF instVars, verifierVars, historyVars
<1> QED
  BY <1>1, <1>2, <1>3, <1>4, <1>5, <1>6, <1>7, <1>8, <1>9, <1>10
     DEF InstNext, RegisterBegin, SubscribeBegin

(* Each accepted payment buys exactly one quota, and of the quotas bought  *)
(* nothing is lost but by set_quota: requests created, quota left and quota*)
(* replaced add up to what verify_payment accepted, over all institutions. *)
THEOREM EveryPaymentBuysOneQuota == InstSpec => []EveryPaymentAccounted
<1>1. InstInit => EveryPaymentAccounted
  BY NothingAccounted DEF InstInit, VerifierInit, Nothing
<1> QED
  BY <1>1, AccountsKept, InstInvariant, PTL DEF InstSpec
-----------------------------------------------------------------------------
LEMMA TimesSum ==
  ASSUME NEW q \in Nat, NEW a \in Nat, NEW b \in Nat
  PROVE  q * (a + b) = q * a + q * b /\ q * a \in Nat /\ q * b \in Nat
  OBVIOUS

(* A sum of no more than b for each element of L, and of nothing else. *)
LEMMA SumBounded ==
  ASSUME NEW S, IsFiniteSet(S), NEW f \in [S -> Nat], NEW b \in Nat, NEW L, L \subseteq S,
         \A x \in S : f[x] <= b /\ (f[x] > 0 => x \in L)
  PROVE  SumFunction(f) <= b * Cardinality(L) /\ SumFunction(f) \in Nat
<1>1. PICK sum : SumsUp(f, S, sum) /\ SumFunction(f) = sum[S]
  <2>1. f \in [S -> Int]
    OBVIOUS
  <2> QED
    BY <2>1, SumEquation
<1>2. \A s \in SUBSET S : IsFiniteSet(s \cap L) /\ Cardinality(s \cap L) \in Nat
  <2> SUFFICES ASSUME NEW s \in SUBSET S
               PROVE  IsFiniteSet(s \cap L) /\ Cardinality(s \cap L) \in Nat
    OBVIOUS
  <2> QED
    BY FS_Subset, FS_Intersection, FS_CardinalityType
<1> DEFINE Fine(s) == sum[s] \in Nat /\ sum[s] <= b * Cardinality(s \cap L)
           Bad == {s \in SUBSET S : ~ Fine(s)}
<1>3. Fine({})
  <2>1. sum[{}] = 0
    BY <1>1 DEF SumsUp
  <2>2. {} \cap L = {} /\ Cardinality({}) = 0
    BY FS_EmptySet
  <2> QED
    BY <2>1, <2>2
<1>4. Bad = {}
  <2> SUFFICES ASSUME Bad # {} PROVE FALSE
    OBVIOUS
  <2>1. PICK s \in Bad : \A x \in s : s \ {x} \notin Bad
    <3> HIDE DEF Fine
    <3>1. Bad \subseteq SUBSET S
      OBVIOUS
    <3> HIDE DEF Bad
    <3> QED
      BY <3>1, SmallestSubset
  <2> DEFINE x == First(s)
             rest == s \ {x}
  <2> HIDE DEF Fine
  <2>2. s # {} /\ s \in SUBSET S
    BY <1>3, <2>1
  <2>3. x \in s
    BY <2>2 DEF First
  <2>4. x \in S /\ rest \in SUBSET S
    BY <2>2, <2>3
  <2>5. Fine(rest)
    BY <2>1, <2>3, <2>4
  <2>6. sum[s] = f[x] + sum[rest] /\ f[x] \in Nat
    BY <1>1, <2>2, <2>4 DEF SumsUp
  <2>7. Fine(s)
    <3>1. CASE x \in L
      <4>1. s \cap L = (rest \cap L) \cup {x} /\ x \notin rest \cap L
        BY <2>3, <3>1
      <4> HIDE DEF x, rest
      <4>2. Cardinality(s \cap L) = Cardinality(rest \cap L) + 1
        BY <1>2, <2>4, <4>1, FS_AddElement
      <4> DEFINE n == Cardinality(rest \cap L)
      <4>3. n \in Nat
        BY <1>2, <2>4
      <4> HIDE DEF n
      <4>4. b * (n + 1) = b * n + b /\ b * n \in Nat /\ f[x] <= b
        BY <2>4, <4>3, TimesSum
      <4>5. sum[rest] \in Nat /\ sum[rest] <= b * n
        BY <2>5 DEF Fine, n
      <4>6. Cardinality(s \cap L) = n + 1
        BY <4>2 DEF n
      <4> QED
        BY <2>6, <4>3, <4>4, <4>5, <4>6 DEF Fine
    <3>2. CASE x \notin L
      <4>1. f[x] = 0 /\ s \cap L = rest \cap L
        BY <2>4, <3>2
      <4> HIDE DEF x, rest
      <4>2. sum[rest] \in Nat /\ sum[rest] <= b * Cardinality(rest \cap L)
        BY <2>5 DEF Fine
      <4>3. sum[s] = sum[rest]
        BY <2>6, <4>1, <4>2
      <4> QED
        BY <4>1, <4>2, <4>3 DEF Fine
    <3> QED
      BY <3>1, <3>2
  <2> QED
    BY <2>1, <2>7
<1>5. Fine(S)
  <2> HIDE DEF Fine
  <2> QED
    BY <1>4
<1>6. S \cap L = L
  OBVIOUS
<1> QED
  BY <1>1, <1>5, <1>6

(* The verification requests created since the process started, by all     *)
(* institutions, number at most a quota for each accepted payment; and     *)
(* so at most a quota for each confirmed transfer of USDC to the backend   *)
(* and each handler that could accept it at the same time.                 *)
RequestsArePaidFor ==
  /\ Cardinality(DOMAIN requests) <= Quota * SumFunction(credited)
  /\ SumFunction(credited) <= Cardinality(Tasks) * Cardinality(Paid)

LEMMA RequestsCovered == ASSUME IInv, EveryPaymentAccounted, CreditedIsPaid PROVE RequestsArePaidFor
<1>1. credited \in [Txids -> Nat] /\ Cardinality(Tasks) \in Nat
  BY CountersAreNats, QueryingFinite
<1>2. Cardinality(DOMAIN requests) <= Quota * SumFunction(credited)
  <2>1. Cardinality(DOMAIN requests) + SumFunction(Unused) = Quota * SumFunction(credited)
    BY DEF EveryPaymentAccounted, Unused
  <2> QED
    BY <2>1, CountersAreNats
<1>3. \A x \in Txids : credited[x] <= Cardinality(Tasks)
  BY <1>1, QueryingFinite DEF IInv, VInv, OverlapBound
<1>4. Paid \subseteq Txids /\ \A x \in Txids : credited[x] > 0 => x \in Paid
  BY DEF IInv, VInv, VTypeInv, VerifierTypeOK, Paid, CreditedIsPaid
<1>5. SumFunction(credited) <= Cardinality(Tasks) * Cardinality(Paid)
  BY <1>1, <1>3, <1>4, SumBounded, IdsAssumption
<1> QED
  BY <1>2, <1>5 DEF RequestsArePaidFor

(* create_verification_request gives out no more than was paid for, over   *)
(* all institutions, however their calls overlap.                          *)
THEOREM RequestsNeverOutrunPayments == InstSpec => []RequestsArePaidFor
<1>1. InstSpec => []CreditedIsPaid
  BY ImplementsVerifier, CreditsArePaid, PTL
<1> QED
  BY <1>1, RequestsCovered, InstInvariant, EveryPaymentBuysOneQuota, PTL
=============================================================================
