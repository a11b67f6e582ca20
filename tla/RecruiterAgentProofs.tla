------------------------- MODULE RecruiterAgentProofs -------------------------
(***************************************************************************)
(* Proofs about RecruiterAgent, for any number of attempts and any         *)
(* lifetime of transactions: how much one call can pay, and what it shows  *)
(* the server as a proof.                                                  *)
(***************************************************************************)
EXTENDS RecruiterAgent, FiniteSetTheorems, TLAPS

(* The call is in step with its payment; the payload is empty between any  *)
(* two steps, because every request's header takes the id out of it.       *)
InStep ==
  /\ phase = "paying" => payment # None
  /\ phase \in {"asking", "proving"} => payment = None
  /\ payload = None

(* A call is asked to pay once in each of its attempts. *)
AskedOnce ==
  /\ asked <= attempt
  /\ phase = "asking" => asked < attempt
  /\ phase = "paying" => asked > 0

(* Transactions the payment under way has had the time to make: one for    *)
(* each attempt that failed, and one for the transaction it waits for.     *)
MadeSoFar ==
  IF phase # "paying" THEN SendAttempts
  ELSE IF payment.txid = None THEN payment.attempt - 1 ELSE payment.attempt

(* Each payment before it made SendAttempts at most. *)
BroadcastBounded ==
  /\ IsFiniteSet(broadcast)
  /\ phase # "paying" => Cardinality(broadcast) <= SendAttempts * asked
  /\ phase = "paying" => Cardinality(broadcast) <= SendAttempts * (asked - 1) + MadeSoFar

(* The transaction a call waits for is its own. *)
WaitsForOwn ==
  phase = "paying" /\ payment.txid # None => payment.txid \in broadcast

CallInv == InStep /\ AskedOnce /\ BroadcastBounded /\ WaitsForOwn /\ ProofsAreOwnPayments

IInv == TypeOK /\ CallInv

-----------------------------------------------------------------------------
LEMMA TxnFacts ==
  /\ None \notin Txn /\ None \notin Payment
  /\ SendAttempts \in Nat /\ SendAttempts >= 1
  /\ RequestAttempts \in Nat /\ RequestAttempts >= 1
  /\ UsdcTerms \cap AlgoTerms = {}
  BY SignerAssumption, PaymentAssumption, AgentAssumption DEF Txn, Terms

LEMMA Distribute ==
  ASSUME NEW n \in Nat PROVE SendAttempts * (n + 1) = SendAttempts * n + SendAttempts
  BY TxnFacts

LEMMA MadeIsTxn == ASSUME TypeOK, payment # None PROVE Made \in Txn
  BY DEF TypeOK, SignerTypeOK, Payment, Made, Txn

LEMMA InitEstablishes == Init => IInv
  <1> SUFFICES ASSUME Init PROVE IInv OBVIOUS
  <1> USE DEF Init, SignerInit
  <1>1. TypeOK BY SignerAssumption, TxnFacts DEF TypeOK, SignerTypeOK, Phases, Outcomes
  <1>2. InStep /\ AskedOnce /\ WaitsForOwn /\ ProofsAreOwnPayments
    BY DEF InStep, AskedOnce, WaitsForOwn, ProofsAreOwnPayments
  <1>3. BroadcastBounded
    <2>1. Cardinality({}) = 0 /\ IsFiniteSet({}) BY FS_EmptySet
    <2>2. SendAttempts * 0 = 0 BY TxnFacts
    <2> QED BY <2>1, <2>2 DEF BroadcastBounded
  <1> QED BY <1>1, <1>2, <1>3 DEF IInv, CallInv

(* The agent outside a payment: the signer's state stays as it is. *)
LEMMA VerifyIncomePreserves == ASSUME IInv, VerifyIncome PROVE IInv'
  <1>1. /\ payment = None /\ UNCHANGED <<round, pool, ledger, payment>>
        /\ calls' = calls + 1 /\ attempt' = 1 /\ outcome' = "none" /\ asked' = 0
        /\ broadcast' = {} /\ headers' = <<None>> /\ payload' = None /\ phase' = "asking"
    BY DEF VerifyIncome, signerVars
  <1>2. TypeOK'
    BY <1>1, TxnFacts DEF IInv, TypeOK, SignerTypeOK, Phases, Outcomes
  <1>3. InStep' /\ AskedOnce' /\ WaitsForOwn' /\ ProofsAreOwnPayments'
    BY <1>1 DEF InStep, AskedOnce, WaitsForOwn, ProofsAreOwnPayments
  <1>4. BroadcastBounded'
    <2>1. Cardinality({}) = 0 /\ IsFiniteSet({}) BY FS_EmptySet
    <2>2. SendAttempts * 0 = 0 BY TxnFacts
    <2> QED BY <1>1, <2>1, <2>2 DEF BroadcastBounded
  <1> QED BY <1>2, <1>3, <1>4 DEF IInv, CallInv

LEMMA ReturnPreserves ==
  ASSUME IInv, phase # "paying", NEW result \in {"success", "failure", "raised"},
         Return(result), UNCHANGED <<signerVars, asked, broadcast>>
  PROVE  IInv'
  <1>1. /\ phase' = "idle" /\ outcome' = result
        /\ UNCHANGED <<attempt, payload, calls, headers, asked, broadcast>>
        /\ UNCHANGED <<round, pool, ledger, payment>>
    BY DEF Return, signerVars
  <1>2. TypeOK' BY <1>1 DEF IInv, TypeOK, SignerTypeOK, Phases, Outcomes
  <1>3. InStep' /\ AskedOnce' /\ WaitsForOwn' /\ ProofsAreOwnPayments' /\ BroadcastBounded'
    BY <1>1 DEF IInv, CallInv, InStep, AskedOnce, WaitsForOwn, ProofsAreOwnPayments,
                BroadcastBounded
  <1> QED BY <1>2, <1>3 DEF IInv, CallInv

LEMMA PaymentRequiredPreserves == ASSUME IInv, PaymentRequired PROVE IInv'
  <1>1. /\ phase = "asking" /\ payment = None
        /\ \E terms \in UsdcTerms :
             payment' = [terms |-> terms, attempt |-> 1, txid |-> None]
        /\ phase' = "paying" /\ asked' = asked + 1
        /\ UNCHANGED <<round, pool, ledger, attempt, payload, outcome, calls, headers, broadcast>>
    BY DEF PaymentRequired, StartPaying, StartPayment
  <1>2. payment' \in Payment /\ payment'.txid = None /\ payment'.attempt = 1 /\ payment' # None
    BY <1>1, TxnFacts DEF Payment, Terms
  <1>3. TypeOK' BY <1>1, <1>2 DEF IInv, TypeOK, SignerTypeOK, Phases
  <1>4. asked \in Nat /\ attempt \in Nat BY DEF IInv, TypeOK
  <1>5. InStep' /\ WaitsForOwn' /\ ProofsAreOwnPayments'
    BY <1>1, <1>2 DEF IInv, CallInv, InStep, WaitsForOwn, ProofsAreOwnPayments
  <1>6. AskedOnce' BY <1>1, <1>4 DEF IInv, CallInv, AskedOnce
  <1>7. BroadcastBounded'
    <2>1. MadeSoFar' = 0 BY <1>1, <1>2 DEF MadeSoFar
    <2>2. asked' - 1 = asked BY <1>1, <1>4
    <2>3. SendAttempts * asked + 0 = SendAttempts * asked BY <1>4, TxnFacts
    <2> QED BY <1>1, <2>1, <2>2, <2>3 DEF IInv, CallInv, BroadcastBounded
  <1> QED BY <1>3, <1>5, <1>6, <1>7 DEF IInv, CallInv

LEMMA RetryRequestPreserves == ASSUME IInv, RetryRequest PROVE IInv'
  <1>1. /\ phase \in {"asking", "proving"} /\ attempt < RequestAttempts
        /\ attempt' = attempt + 1 /\ headers' = Append(headers, payload)
        /\ payload' = None /\ phase' = "asking"
        /\ UNCHANGED <<outcome, calls, asked, broadcast>>
        /\ UNCHANGED <<round, pool, ledger, payment>>
    BY DEF RetryRequest, Waiting, Post, signerVars
  <1>2. payload = None /\ payment = None BY <1>1 DEF IInv, CallInv, InStep
  <1>3. attempt \in 1 .. RequestAttempts /\ asked \in Nat /\ headers \in Seq(Txn \cup {None})
    BY DEF IInv, TypeOK
  <1>4. TypeOK' BY <1>1, <1>2, <1>3, TxnFacts DEF IInv, TypeOK, SignerTypeOK, Phases
  <1>5. InStep' /\ AskedOnce' /\ WaitsForOwn' /\ BroadcastBounded'
    BY <1>1, <1>2, <1>3 DEF IInv, CallInv, InStep, AskedOnce, WaitsForOwn, BroadcastBounded
  <1>6. ProofsAreOwnPayments'
    BY <1>1, <1>2, <1>3 DEF IInv, CallInv, ProofsAreOwnPayments
  <1> QED BY <1>4, <1>5, <1>6 DEF IInv, CallInv

-----------------------------------------------------------------------------
(* The payment of this call.  Whatever an attempt leaves behind, it is one *)
(* transaction at most, and that only if it had not made one before.       *)
PaidAtMost(n) == Cardinality(broadcast') <= SendAttempts * (asked' - 1) + n

LEMMA AttemptLeavesOne ==
  ASSUME IInv, payment # None, pool' \in FailureLeaves, asked' = asked,
         broadcast' = IF phase = "paying" THEN broadcast \cup (pool' \ pool) ELSE broadcast
  PROVE  /\ pool' \subseteq Txn /\ broadcast' \subseteq Txn
         /\ IsFiniteSet(broadcast') /\ broadcast \subseteq broadcast'
         /\ phase = "paying" => PaidAtMost(payment.attempt)
  <1>1. Made \in Txn /\ pool \subseteq Txn /\ broadcast \subseteq Txn
    BY MadeIsTxn DEF IInv, TypeOK, SignerTypeOK
  <1>2. IsFiniteSet(broadcast) /\ Cardinality(broadcast) \in Nat
    BY FS_CardinalityType DEF IInv, CallInv, BroadcastBounded
  <1>3. pool' = pool \/ (payment.txid = None /\ pool' = pool \cup {Made})
    BY DEF FailureLeaves, Payable
  <1>4. broadcast' = broadcast
          \/ (phase = "paying" /\ payment.txid = None /\ broadcast' = broadcast \cup {Made})
    BY <1>3
  <1>5. /\ IsFiniteSet(broadcast \cup {Made})
        /\ Cardinality(broadcast \cup {Made}) \in Nat
        /\ Cardinality(broadcast \cup {Made}) <= Cardinality(broadcast) + 1
    <2>1. IsFiniteSet(broadcast \cup {Made}) BY <1>2, FS_AddElement
    <2>2. \/ Cardinality(broadcast \cup {Made}) = Cardinality(broadcast)
          \/ Cardinality(broadcast \cup {Made}) = Cardinality(broadcast) + 1
      BY <1>2, FS_AddElement
    <2> QED BY <1>2, <2>1, <2>2
  <1>6. ASSUME phase = "paying"
        PROVE  Cardinality(broadcast') <= SendAttempts * (asked - 1) + payment.attempt
    <2> DEFINE before == SendAttempts * (asked - 1)
    <2>1. /\ payment.attempt \in Nat /\ before \in Int
          /\ Cardinality(broadcast) <= before + MadeSoFar
      BY <1>6, TxnFacts DEF IInv, TypeOK, SignerTypeOK, Payment, CallInv, BroadcastBounded
    <2>2. MadeSoFar = IF payment.txid = None THEN payment.attempt - 1 ELSE payment.attempt
      BY <1>6 DEF MadeSoFar
    <2> HIDE DEF before
    <2>3. Cardinality(broadcast') <= before + payment.attempt
      <3>1. CASE payment.txid = None
        <4>1. MadeSoFar = payment.attempt - 1 BY <2>2, <3>1
        <4>2. \/ Cardinality(broadcast') = Cardinality(broadcast)
              \/ Cardinality(broadcast') = Cardinality(broadcast \cup {Made})
          BY <1>4, Zenon
        <4> QED BY <1>2, <1>5, <2>1, <4>1, <4>2
      <3>2. CASE payment.txid # None
        <4>1. broadcast' = broadcast BY <1>4, <3>2
        <4> QED BY <1>2, <2>1, <2>2, <3>2, <4>1
      <3> QED BY <3>1, <3>2
    <2> QED BY <2>3 DEF before
  <1> QED BY <1>1, <1>2, <1>3, <1>4, <1>5, <1>6 DEF PaidAtMost

LEMMA BroadcastPreserves ==
  ASSUME IInv, Broadcast,
         broadcast' = IF phase = "paying" THEN broadcast \cup (pool' \ pool) ELSE broadcast,
         UNCHANGED <<phase, attempt, payload, outcome, calls, headers, asked>>
  PROVE  IInv'
  <1>1. /\ payment # None /\ payment.txid = None /\ Made \notin pool \cup ledger
        /\ pool' = pool \cup {Made} /\ payment' = [payment EXCEPT !.txid = Made]
        /\ UNCHANGED <<round, ledger>>
    BY DEF Broadcast, Payable
  <1>2. pool' \in FailureLeaves BY <1>1 DEF FailureLeaves, Payable
  <1>3. Made \in Txn /\ payment \in Payment
    BY <1>1, MadeIsTxn DEF IInv, TypeOK, SignerTypeOK
  <1>4. /\ payment' \in Payment /\ payment' # None /\ payment'.txid = Made
        /\ payment'.attempt = payment.attempt
    BY <1>1, <1>3, TxnFacts DEF Payment
  <1>5. /\ pool' \subseteq Txn /\ broadcast' \subseteq Txn
        /\ IsFiniteSet(broadcast') /\ broadcast \subseteq broadcast'
        /\ phase = "paying" => PaidAtMost(payment.attempt)
    BY <1>1, <1>2, AttemptLeavesOne
  <1>6. TypeOK' BY <1>1, <1>4, <1>5 DEF IInv, TypeOK, SignerTypeOK
  <1>7. InStep' /\ AskedOnce' BY <1>1, <1>4 DEF IInv, CallInv, InStep, AskedOnce
  <1>8. BroadcastBounded'
    <2>1. CASE phase = "paying"
      <3>1. MadeSoFar' = payment'.attempt BY <2>1, <1>3, <1>4, TxnFacts DEF MadeSoFar
      <3> QED BY <2>1, <3>1, <1>4, <1>5 DEF BroadcastBounded, PaidAtMost
    <2>2. CASE phase # "paying" BY <2>2 DEF IInv, CallInv, BroadcastBounded
    <2> QED BY <2>1, <2>2
  <1>9. WaitsForOwn' BY <1>1, <1>4 DEF WaitsForOwn
  <1>10. ProofsAreOwnPayments' BY <1>1, <1>5 DEF IInv, CallInv, ProofsAreOwnPayments
  <1> QED BY <1>6, <1>7, <1>8, <1>9, <1>10 DEF IInv, CallInv

LEMMA RetryPaymentPreserves ==
  ASSUME IInv, RetryPayment,
         broadcast' = IF phase = "paying" THEN broadcast \cup (pool' \ pool) ELSE broadcast,
         UNCHANGED <<phase, attempt, payload, outcome, calls, headers, asked>>
  PROVE  IInv'
  <1>1. /\ payment # None /\ payment.attempt # SendAttempts /\ pool' \in FailureLeaves
        /\ payment' = [payment EXCEPT !.attempt = @ + 1, !.txid = None]
        /\ UNCHANGED <<round, ledger>>
    BY DEF RetryPayment, LastSend
  <1>2. payment \in Payment BY <1>1 DEF IInv, TypeOK, SignerTypeOK
  <1>3. /\ payment' \in Payment /\ payment' # None /\ payment'.txid = None
        /\ payment'.attempt = payment.attempt + 1 /\ payment.attempt \in Nat
    <2>1. payment.attempt \in 1 .. SendAttempts BY <1>2 DEF Payment
    <2>2. payment.attempt + 1 \in 1 .. SendAttempts BY <1>1, <2>1, TxnFacts
    <2>3. payment' = [terms |-> payment.terms,
                      attempt |-> payment.attempt + 1, txid |-> None]
      BY <1>1, <1>2 DEF Payment
    <2> QED BY <1>2, <2>1, <2>2, <2>3, TxnFacts DEF Payment
  <1>4. /\ pool' \subseteq Txn /\ broadcast' \subseteq Txn
        /\ IsFiniteSet(broadcast') /\ broadcast \subseteq broadcast'
        /\ phase = "paying" => PaidAtMost(payment.attempt)
    BY <1>1, AttemptLeavesOne
  <1>5. TypeOK' BY <1>1, <1>3, <1>4 DEF IInv, TypeOK, SignerTypeOK
  <1>6. InStep' /\ AskedOnce' /\ WaitsForOwn'
    BY <1>1, <1>3 DEF IInv, CallInv, InStep, AskedOnce, WaitsForOwn
  <1>7. BroadcastBounded'
    <2>1. CASE phase = "paying"
      <3>1. MadeSoFar' = payment.attempt BY <2>1, <1>3 DEF MadeSoFar
      <3> QED BY <2>1, <3>1, <1>4 DEF BroadcastBounded, PaidAtMost
    <2>2. CASE phase # "paying" BY <2>2 DEF IInv, CallInv, BroadcastBounded
    <2> QED BY <2>1, <2>2
  <1>8. ProofsAreOwnPayments' BY <1>1, <1>4 DEF IInv, CallInv, ProofsAreOwnPayments
  <1> QED BY <1>5, <1>6, <1>7, <1>8 DEF IInv, CallInv

(* The end of a payment: it made no more than SendAttempts transactions. *)
LEMMA PaymentWithinAttempts ==
  ASSUME IInv, phase = "paying", asked' = asked, IsFiniteSet(broadcast'),
         PaidAtMost(payment.attempt)
  PROVE  Cardinality(broadcast') <= SendAttempts * asked'
  <1> DEFINE n == asked' - 1
  <1>1. asked' \in Nat /\ n \in Nat /\ payment.attempt \in 1 .. SendAttempts
    BY DEF IInv, TypeOK, SignerTypeOK, Payment, CallInv, InStep, AskedOnce
  <1>2. Cardinality(broadcast') <= SendAttempts * n + payment.attempt BY DEF PaidAtMost
  <1>3. asked' = n + 1 BY <1>1
  <1> HIDE DEF n
  <1>4. SendAttempts * asked' = SendAttempts * n + SendAttempts BY <1>1, <1>3, Distribute
  <1>5. SendAttempts * n \in Nat BY <1>1, TxnFacts
  <1>6. Cardinality(broadcast') \in Nat BY FS_CardinalityType
  <1> QED BY <1>1, <1>2, <1>4, <1>5, <1>6, TxnFacts

LEMMA PaidPreserves == ASSUME IInv, Paid PROVE IInv'
  <1>1. /\ phase = "paying" /\ payment # None /\ payment.txid \in ledger
        /\ headers' = Append(headers, payment.txid) /\ payload' = None /\ phase' = "proving"
        /\ payment' = None
        /\ UNCHANGED <<round, pool, ledger, attempt, outcome, calls, asked, broadcast>>
    BY DEF Paid, Post, PaymentConfirmed
  <1>2. /\ payment.txid \in Txn /\ payment.txid # None
        /\ headers \in Seq(Txn \cup {None})
    BY <1>1, TxnFacts DEF IInv, TypeOK, SignerTypeOK
  <1>3. payment.txid \in broadcast BY <1>1, <1>2 DEF IInv, CallInv, WaitsForOwn
  <1>4. TypeOK' BY <1>1, <1>2 DEF IInv, TypeOK, SignerTypeOK, Phases
  <1>5. InStep' /\ AskedOnce' /\ WaitsForOwn'
    BY <1>1 DEF IInv, CallInv, InStep, AskedOnce, WaitsForOwn
  <1>6. BroadcastBounded'
    <2>1. PaidAtMost(payment.attempt)
      <3>1. MadeSoFar = payment.attempt BY <1>1, <1>2 DEF MadeSoFar
      <3> QED BY <1>1, <3>1 DEF IInv, CallInv, BroadcastBounded, PaidAtMost
    <2>2. asked' = asked /\ broadcast' = broadcast BY <1>1
    <2>3. Cardinality(broadcast') <= SendAttempts * asked'
      BY <1>1, <2>1, <2>2, PaymentWithinAttempts DEF IInv, CallInv, BroadcastBounded
    <2> QED BY <1>1, <2>3 DEF IInv, CallInv, BroadcastBounded
  <1>7. ProofsAreOwnPayments'
    <2> DEFINE n == Len(headers)
    <2>1. /\ n \in Nat /\ DOMAIN headers = 1 .. n
          /\ DOMAIN headers' = 1 .. (n + 1)
          /\ \A i \in 1 .. n : headers'[i] = headers[i]
          /\ headers'[n + 1] = payment.txid
      BY <1>1, <1>2
    <2> HIDE DEF n
    <2>2. \A i \in 1 .. n : headers[i] # None => headers[i] \in ledger \cap broadcast
      BY <2>1 DEF IInv, CallInv, ProofsAreOwnPayments
    <2>3. \A i \in 1 .. (n + 1) : i \in 1 .. n \/ i = n + 1 BY <2>1
    <2>4. \A i \in 1 .. (n + 1) : headers'[i] # None => headers'[i] \in ledger \cap broadcast
      BY <1>1, <1>3, <2>1, <2>2, <2>3
    <2> QED BY <1>1, <2>1, <2>4 DEF ProofsAreOwnPayments
  <1> QED BY <1>4, <1>5, <1>6, <1>7 DEF IInv, CallInv

LEMMA PaymentFailedPreserves == ASSUME IInv, PaymentFailed PROVE IInv'
  <1>1. /\ phase = "paying" /\ payment # None /\ pool' \in FailureLeaves /\ payment' = None
        /\ phase' = "idle" /\ outcome' = "raised"
        /\ broadcast' = broadcast \cup (pool' \ pool)
        /\ UNCHANGED <<round, ledger, attempt, payload, calls, headers, asked>>
    BY DEF PaymentFailed, PaymentRaises, Return
  <1>2. /\ pool' \subseteq Txn /\ broadcast' \subseteq Txn
        /\ IsFiniteSet(broadcast') /\ broadcast \subseteq broadcast'
        /\ PaidAtMost(payment.attempt)
    BY <1>1, AttemptLeavesOne
  <1>3. TypeOK' BY <1>1, <1>2 DEF IInv, TypeOK, SignerTypeOK, Phases, Outcomes
  <1>4. InStep' /\ AskedOnce' /\ WaitsForOwn'
    BY <1>1 DEF IInv, CallInv, InStep, AskedOnce, WaitsForOwn
  <1>5. BroadcastBounded'
    <2>1. Cardinality(broadcast') <= SendAttempts * asked'
      BY <1>1, <1>2, PaymentWithinAttempts
    <2> QED BY <1>1, <1>2, <2>1 DEF BroadcastBounded
  <1>6. ProofsAreOwnPayments' BY <1>1, <1>2 DEF IInv, CallInv, ProofsAreOwnPayments
  <1> QED BY <1>3, <1>4, <1>5, <1>6 DEF IInv, CallInv

-----------------------------------------------------------------------------
(* Steps that leave the call alone: the other payment method, outside a    *)
(* call, and the chain.                                                    *)
LEMMA OutsidePreserves ==
  ASSUME IInv, UNCHANGED agentVars, SignerTypeOK', ledger \subseteq ledger',
         phase # "idle" => payment' = payment
  PROVE  IInv'
  <1>1. UNCHANGED <<phase, attempt, payload, outcome, calls, headers, asked, broadcast>>
    BY DEF agentVars
  <1>2. TypeOK' BY <1>1 DEF IInv, TypeOK
  <1>3. phase \in Phases BY DEF IInv, TypeOK
  <1>4. InStep' /\ AskedOnce' /\ WaitsForOwn'
    BY <1>1, <1>3 DEF IInv, CallInv, InStep, AskedOnce, WaitsForOwn, Phases
  <1>5. BroadcastBounded'
    <2>1. CASE phase = "paying"
      <3>1. MadeSoFar' = MadeSoFar BY <1>1, <2>1 DEF MadeSoFar
      <3> QED BY <1>1, <2>1, <3>1 DEF IInv, CallInv, BroadcastBounded
    <2>2. CASE phase # "paying" BY <1>1, <2>2 DEF IInv, CallInv, BroadcastBounded
    <2> QED BY <2>1, <2>2
  <1>6. ProofsAreOwnPayments' BY <1>1 DEF IInv, CallInv, ProofsAreOwnPayments
  <1> QED BY <1>2, <1>4, <1>5, <1>6 DEF IInv, CallInv

LEMMA StepPreserves == IInv /\ [Next]_vars => IInv'
  <1> SUFFICES ASSUME IInv, [Next]_vars PROVE IInv' OBVIOUS
  <1>0. /\ round \in 1 .. MaxRound /\ pool \subseteq Txn /\ ledger \subseteq Txn
        /\ payment \in Payment \cup {None} /\ phase \in Phases
    BY DEF IInv, TypeOK, SignerTypeOK
  <1>1. CASE VerifyIncome BY <1>1, VerifyIncomePreserves
  <1>2. CASE PaymentRequired BY <1>2, PaymentRequiredPreserves
  <1>3. CASE Answered BY <1>3, ReturnPreserves DEF Answered, Waiting
  <1>4. CASE RetryRequest BY <1>4, RetryRequestPreserves
  <1>5. CASE GiveUp BY <1>5, ReturnPreserves DEF GiveUp, Waiting
  <1>6. CASE Paying BY <1>6, BroadcastPreserves, RetryPaymentPreserves DEF Paying
  <1>7. CASE Paid BY <1>7, PaidPreserves
  <1>8. CASE PaymentFailed BY <1>8, PaymentFailedPreserves
  <1>9. CASE SignAndSendPayment
    <2>1. /\ phase = "idle" /\ UNCHANGED agentVars /\ UNCHANGED <<round, pool, ledger>>
          /\ \E terms \in AlgoTerms :
               payment' = [terms |-> terms, attempt |-> 1, txid |-> None]
      BY <1>9 DEF SignAndSendPayment, StartPayment
    <2>2. SignerTypeOK' BY <1>0, <2>1, TxnFacts DEF SignerTypeOK, Payment, Terms
    <2> QED BY <2>1, <2>2, OutsidePreserves
  <1>10. CASE SignAndSendEnds
    <2>1. /\ phase = "idle" /\ UNCHANGED agentVars /\ UNCHANGED <<round, ledger>>
          /\ payment' = None /\ payment # None /\ pool' \in FailureLeaves
      BY <1>10 DEF SignAndSendEnds, PaymentConfirmed, PaymentRaises, FailureLeaves
    <2>2. pool' \subseteq Txn
      BY <1>0, <2>1, MadeIsTxn DEF IInv, FailureLeaves
    <2>3. SignerTypeOK' BY <1>0, <2>1, <2>2 DEF SignerTypeOK
    <2> QED BY <2>1, <2>3, OutsidePreserves
  <1>11. CASE Chain
    <2>1. UNCHANGED agentVars /\ payment' = payment /\ ledger \subseteq ledger'
      BY <1>11 DEF Chain, NextRound, Execute, Drop
    <2>2. SignerTypeOK'
      BY <1>0, <1>11, SignerAssumption DEF Chain, NextRound, Execute, Drop, SignerTypeOK
    <2> QED BY <2>1, <2>2, OutsidePreserves
  <1>12. CASE UNCHANGED vars
    <2>1. UNCHANGED agentVars /\ UNCHANGED <<round, pool, ledger, payment>>
      BY <1>12 DEF vars, signerVars
    <2>2. SignerTypeOK' BY <1>0, <2>1 DEF SignerTypeOK
    <2> QED BY <2>1, <2>2, OutsidePreserves
  <1> QED BY <1>1, <1>2, <1>3, <1>4, <1>5, <1>6, <1>7, <1>8, <1>9, <1>10, <1>11, <1>12
          DEF Next, AgentStep

LEMMA Invariance == Spec => []IInv
  BY InitEstablishes, StepPreserves, PTL DEF Spec

-----------------------------------------------------------------------------
(* The locals of verify_income and of the payment methods keep their types.*)
THEOREM AgentTypeCorrect == Spec => []TypeOK
  <1>1. IInv => TypeOK BY DEF IInv
  <1> QED BY <1>1, Invariance, PTL

(* What the invariant says of one call, in the terms of the property. *)
LEMMA OneCallBounded == ASSUME IInv PROVE ChargesBounded
  <1>1. asked \in Nat /\ attempt \in 1 .. RequestAttempts BY DEF IInv, TypeOK
  <1>2. asked <= RequestAttempts
    BY <1>1, TxnFacts DEF IInv, CallInv, AskedOnce
  <1>3. Cardinality(broadcast) <= SendAttempts * asked
    <2>1. CASE phase # "paying" BY <2>1 DEF IInv, CallInv, BroadcastBounded
    <2>2. CASE phase = "paying"
      <3> DEFINE n == asked - 1
      <3>1. n \in Nat /\ asked = n + 1 BY <1>1, <2>2 DEF IInv, CallInv, AskedOnce
      <3>2. MadeSoFar \in 0 .. SendAttempts
        BY <2>2, TxnFacts DEF MadeSoFar, IInv, TypeOK, SignerTypeOK, Payment, CallInv, InStep
      <3>3. Cardinality(broadcast) <= SendAttempts * n + MadeSoFar
        BY <2>2 DEF IInv, CallInv, BroadcastBounded
      <3>4. Cardinality(broadcast) \in Nat
        BY FS_CardinalityType DEF IInv, CallInv, BroadcastBounded
      <3> HIDE DEF n
      <3>5. SendAttempts * asked = SendAttempts * n + SendAttempts BY <3>1, Distribute
      <3>6. SendAttempts * n \in Nat BY <3>1, TxnFacts
      <3> QED BY <3>2, <3>3, <3>4, <3>5, <3>6, TxnFacts
    <2> QED BY <2>1, <2>2
  <1> QED BY <1>2, <1>3 DEF ChargesBounded

(* One call of verify_income is asked to pay at most RequestAttempts times *)
(* and makes at most SendAttempts transactions each time, whatever         *)
(* requests, answers and confirmations are lost.                           *)
THEOREM CallsChargeBounded == Spec => []ChargesBounded
  BY Invariance, OneCallBounded, PTL

(* X402-Payment-Proof names a payment of this very call that the chain has *)
(* executed.                                                               *)
THEOREM ProofsAreOwn == Spec => []ProofsAreOwnPayments
  <1>1. IInv => ProofsAreOwnPayments BY DEF IInv, CallInv
  <1> QED BY <1>1, Invariance, PTL

-----------------------------------------------------------------------------
(* All the payments the agent makes to the server.  Those of earlier calls *)
(* may still be in the pool, and be executed now; each call adds what one  *)
(* call can make, and only a call makes them.                              *)
ToServer == {t \in pool \cup ledger : t.terms \in UsdcTerms}

PerCall == SendAttempts * RequestAttempts

Earlier == IF calls = 0 THEN 0 ELSE calls - 1

EarlierCalls ==
  /\ phase # "paying" /\ payment # None => payment.terms \in AlgoTerms
  /\ calls = 0 => phase = "idle" /\ broadcast = {}
  /\ IsFiniteSet(ToServer)
  /\ Cardinality(ToServer \ broadcast) <= PerCall * Earlier

LEMMA PerCallFacts ==
  ASSUME NEW n \in Nat
  PROVE  PerCall \in Nat /\ PerCall * (n + 1) = PerCall * n + PerCall /\ PerCall * n \in Nat
  <1>1. PerCall \in Nat BY TxnFacts DEF PerCall
  <1> QED BY <1>1

LEMMA OneCallWithin ==
  ASSUME IInv
  PROVE  /\ IsFiniteSet(broadcast) /\ Cardinality(broadcast) \in Nat
         /\ Cardinality(broadcast) <= PerCall
  <1>1. ChargesBounded BY OneCallBounded
  <1>2. IsFiniteSet(broadcast) /\ Cardinality(broadcast) \in Nat /\ asked \in Nat
    BY FS_CardinalityType DEF IInv, TypeOK, CallInv, BroadcastBounded
  <1> DEFINE d == RequestAttempts - asked
  <1>3. d \in Nat /\ RequestAttempts = asked + d
    BY <1>1, <1>2, TxnFacts DEF ChargesBounded
  <1> HIDE DEF d
  <1>4. /\ SendAttempts * (asked + d) = SendAttempts * asked + SendAttempts * d
        /\ SendAttempts * d \in Nat /\ SendAttempts * asked \in Nat
    BY <1>2, <1>3, TxnFacts
  <1> QED BY <1>1, <1>2, <1>3, <1>4 DEF ChargesBounded, PerCall

(* A step of a payment, or of the chain: what is new is of this call. *)
LEMMA NothingEscapes ==
  ASSUME IInv, EarlierCalls, calls' = calls, IsFiniteSet(ToServer'),
         ToServer' \ broadcast' \subseteq ToServer \ broadcast,
         phase' # "paying" /\ payment' # None => payment'.terms \in AlgoTerms,
         calls = 0 => phase' = "idle" /\ broadcast' = {}
  PROVE  EarlierCalls'
  <1>1. /\ Earlier' = Earlier /\ Earlier \in Nat
        /\ Cardinality(ToServer \ broadcast) <= PerCall * Earlier
    BY DEF EarlierCalls, Earlier, IInv, TypeOK
  <1>2. PerCall * Earlier \in Nat BY <1>1, PerCallFacts
  <1>3. IsFiniteSet(ToServer \ broadcast) BY FS_Difference DEF EarlierCalls
  <1>4. /\ Cardinality(ToServer' \ broadcast') <= Cardinality(ToServer \ broadcast)
        /\ Cardinality(ToServer' \ broadcast') \in Nat
        /\ Cardinality(ToServer \ broadcast) \in Nat
    BY <1>3, FS_Subset, FS_CardinalityType
  <1>5. Cardinality(ToServer' \ broadcast') <= PerCall * Earlier'
    BY <1>1, <1>2, <1>4
  <1> QED BY <1>5 DEF EarlierCalls

(* What an attempt adds to the pool is this call's, or no USDC at all. *)
LEMMA AttemptStaysOwn ==
  ASSUME IInv, EarlierCalls, payment # None, pool' \in FailureLeaves, ledger' = ledger,
         broadcast' = IF phase = "paying" THEN broadcast \cup (pool' \ pool) ELSE broadcast
  PROVE  /\ IsFiniteSet(ToServer')
         /\ ToServer' \ broadcast' \subseteq ToServer \ broadcast
  <1>1. pool' \subseteq pool \cup {Made} BY DEF FailureLeaves
  <1>2. ToServer' \subseteq ToServer \cup {Made} BY <1>1 DEF ToServer
  <1>3. IsFiniteSet(ToServer')
    <2>1. IsFiniteSet(ToServer \cup {Made}) BY FS_AddElement DEF EarlierCalls
    <2> QED BY <1>2, <2>1, FS_Subset
  <1>4. ASSUME phase = "paying" PROVE ToServer' \ broadcast' \subseteq ToServer \ broadcast
    BY <1>4 DEF ToServer
  <1>5. ASSUME phase # "paying" PROVE ToServer' \ broadcast' \subseteq ToServer \ broadcast
    <2>1. Made.terms \in AlgoTerms BY <1>5 DEF Made, EarlierCalls
    <2> QED BY <1>1, <1>5, <2>1, TxnFacts DEF ToServer
  <1> QED BY <1>3, <1>4, <1>5

(* What the earlier calls made, and this one. *)
LEMMA SpentSoFar == ASSUME IInv, EarlierCalls PROVE Cardinality(ToServer) <= PerCall * calls
  <1>1. IsFiniteSet(ToServer) BY DEF EarlierCalls
  <1>2. /\ IsFiniteSet(broadcast) /\ Cardinality(broadcast) \in Nat
        /\ Cardinality(broadcast) <= PerCall
    BY OneCallWithin
  <1>3. /\ IsFiniteSet(ToServer \ broadcast) /\ Cardinality(ToServer \ broadcast) \in Nat
        /\ Cardinality(ToServer) \in Nat
    BY <1>1, FS_Difference, FS_CardinalityType
  <1>4. Cardinality(ToServer) <= Cardinality(ToServer \ broadcast) + Cardinality(broadcast)
    <2>1. /\ Cardinality(ToServer \ broadcast)
               = Cardinality(ToServer) - Cardinality(ToServer \cap broadcast)
          /\ Cardinality(ToServer \cap broadcast) <= Cardinality(broadcast)
          /\ Cardinality(ToServer \cap broadcast) \in Nat
      BY <1>1, <1>2, FS_Difference, FS_Intersection, FS_CardinalityType
    <2> QED BY <1>2, <1>3, <2>1
  <1>5. Cardinality(ToServer \ broadcast) <= PerCall * Earlier /\ calls \in Nat
    BY DEF EarlierCalls, IInv, TypeOK
  <1>6. CASE calls = 0
    <2>1. broadcast = {} /\ Earlier = calls BY <1>6 DEF EarlierCalls, Earlier
    <2>2. Cardinality(broadcast) = 0 /\ PerCall * calls \in Nat
      BY <1>5, <2>1, FS_EmptySet, PerCallFacts
    <2> QED BY <1>3, <1>4, <1>5, <2>1, <2>2
  <1>7. CASE calls # 0
    <2> DEFINE n == calls - 1
    <2>1. n \in Nat /\ calls = n + 1 /\ Earlier = n BY <1>5, <1>7 DEF Earlier
    <2> HIDE DEF n
    <2>2. PerCall \in Nat /\ PerCall * calls = PerCall * n + PerCall /\ PerCall * n \in Nat
      BY <2>1, PerCallFacts
    <2> QED BY <1>2, <1>3, <1>4, <1>5, <2>1, <2>2
  <1> QED BY <1>6, <1>7

(* A new call: the one before it is now among the earlier ones. *)
LEMMA NewCallAdds == ASSUME IInv, EarlierCalls, VerifyIncome PROVE EarlierCalls'
  <1>1. /\ UNCHANGED <<round, pool, ledger, payment>> /\ payment = None
        /\ broadcast' = {} /\ calls' = calls + 1 /\ phase' = "asking" /\ calls \in Nat
    BY DEF VerifyIncome, signerVars, IInv, TypeOK
  <1>2. ToServer' = ToServer /\ IsFiniteSet(ToServer) BY <1>1 DEF ToServer, EarlierCalls
  <1>3. Cardinality(ToServer) <= PerCall * calls BY SpentSoFar
  <1>4. Earlier' = calls /\ ToServer \ {} = ToServer BY <1>1 DEF Earlier
  <1> QED BY <1>1, <1>2, <1>3, <1>4 DEF EarlierCalls

LEMMA EarlierCallsKept == IInv /\ EarlierCalls /\ [Next]_vars => EarlierCalls'
  <1> SUFFICES ASSUME IInv, EarlierCalls, [Next]_vars PROVE EarlierCalls' OBVIOUS
  <1>0. IsFiniteSet(ToServer) BY DEF EarlierCalls
  <1>1. CASE VerifyIncome BY <1>1, NewCallAdds
  <1>2. ASSUME UNCHANGED <<calls, broadcast, payment>>, phase # "paying", phase' # "paying",
               calls = 0 => phase' = "idle", ToServer' \subseteq ToServer
        PROVE  EarlierCalls'
    <2>1. IsFiniteSet(ToServer') BY <1>0, <1>2, FS_Subset
    <2> QED BY <1>2, <2>1, NothingEscapes DEF EarlierCalls
  <1>3. CASE PaymentRequired
    <2>1. /\ UNCHANGED <<calls, broadcast, pool, ledger>> /\ phase = "asking" /\ phase' = "paying"
      BY <1>3 DEF PaymentRequired, StartPaying
    <2>2. ToServer' = ToServer BY <2>1 DEF ToServer
    <2> QED BY <1>0, <2>1, <2>2, NothingEscapes DEF EarlierCalls
  <1>4. CASE Answered \/ RetryRequest \/ GiveUp
    <2>1. /\ UNCHANGED <<calls, broadcast, payment, pool, ledger>>
          /\ phase \in {"asking", "proving"} /\ phase' \in {"idle", "asking"}
      BY <1>4 DEF Answered, RetryRequest, GiveUp, Waiting, Return, Post, signerVars
    <2>2. ToServer' = ToServer BY <2>1 DEF ToServer
    <2> QED BY <1>2, <2>1, <2>2 DEF EarlierCalls
  <1>5. CASE Paying
    <2>1. /\ payment # None /\ pool' \in FailureLeaves /\ UNCHANGED <<ledger, calls, phase>>
          /\ broadcast' = IF phase = "paying" THEN broadcast \cup (pool' \ pool) ELSE broadcast
      BY <1>5 DEF Paying, Broadcast, RetryPayment, Payable, FailureLeaves
    <2>2. payment \in Payment BY <2>1 DEF IInv, TypeOK, SignerTypeOK
    <2>3. payment'.terms = payment.terms
      BY <1>5, <2>2 DEF Paying, Broadcast, RetryPayment, Payment
    <2> QED BY <2>1, <2>3, AttemptStaysOwn, NothingEscapes DEF EarlierCalls
  <1>6. CASE Paid
    <2>1. /\ payment' = None /\ UNCHANGED <<pool, ledger, calls, broadcast>> /\ phase = "paying"
      BY <1>6 DEF Paid, PaymentConfirmed
    <2>2. ToServer' = ToServer BY <2>1 DEF ToServer
    <2> QED BY <1>0, <2>1, <2>2, NothingEscapes DEF EarlierCalls
  <1>7. CASE PaymentFailed
    <2>1. /\ payment # None /\ payment' = None /\ pool' \in FailureLeaves /\ phase = "paying"
          /\ UNCHANGED <<ledger, calls>> /\ broadcast' = broadcast \cup (pool' \ pool)
      BY <1>7 DEF PaymentFailed, PaymentRaises, Return
    <2> QED BY <2>1, AttemptStaysOwn, NothingEscapes DEF EarlierCalls
  <1>8. CASE SignAndSendPayment
    <2>1. /\ payment'.terms \in AlgoTerms /\ phase = "idle"
          /\ UNCHANGED <<pool, ledger, calls, broadcast, phase>>
      BY <1>8 DEF SignAndSendPayment, StartPayment, agentVars
    <2>2. ToServer' = ToServer BY <2>1 DEF ToServer
    <2> QED BY <1>0, <2>1, <2>2, NothingEscapes DEF EarlierCalls
  <1>9. CASE SignAndSendEnds
    <2>1. /\ payment # None /\ payment' = None /\ pool' \in FailureLeaves /\ phase = "idle"
          /\ UNCHANGED <<ledger, calls, broadcast, phase>>
      BY <1>9 DEF SignAndSendEnds, PaymentConfirmed, PaymentRaises, FailureLeaves, agentVars
    <2> QED BY <2>1, AttemptStaysOwn, NothingEscapes DEF EarlierCalls
  <1>10. CASE Chain \/ UNCHANGED vars
    <2>1. /\ UNCHANGED <<phase, calls, broadcast, payment>>
          /\ pool' \cup ledger' \subseteq pool \cup ledger
      BY <1>10 DEF Chain, NextRound, Execute, Drop, agentVars, vars, signerVars
    <2>2. ToServer' \subseteq ToServer BY <2>1 DEF ToServer
    <2>3. IsFiniteSet(ToServer') BY <1>0, <2>2, FS_Subset
    <2> QED BY <2>1, <2>2, <2>3, NothingEscapes DEF EarlierCalls
  <1> QED BY <1>1, <1>3, <1>4, <1>5, <1>6, <1>7, <1>8, <1>9, <1>10 DEF Next, AgentStep

(* The agent spends no more than its calls allow: every USDC transaction   *)
(* it ever gave to algod, executed or not, with late executions of earlier *)
(* calls among them, is one of SendAttempts for each of the                *)
(* RequestAttempts of some call of verify_income.                          *)
SpendingBounded == Cardinality(ToServer) <= PerCall * calls

(* verify_income cannot be made to spend without limit. *)
THEOREM SpendingIsBounded == Spec => []SpendingBounded
  <1>1. Init => EarlierCalls
    <2> SUFFICES ASSUME Init PROVE EarlierCalls OBVIOUS
    <2>1. /\ ToServer = {} /\ broadcast = {} /\ calls = 0 /\ phase = "idle" /\ payment = None
          /\ Earlier = 0
      BY DEF Init, SignerInit, ToServer, Earlier
    <2>2. IsFiniteSet({}) /\ Cardinality({}) = 0 /\ PerCall * 0 \in Nat /\ {} \ {} = {}
      BY FS_EmptySet, PerCallFacts
    <2> QED BY <2>1, <2>2 DEF EarlierCalls
  <1>2. IInv /\ EarlierCalls => SpendingBounded
    <2> SUFFICES ASSUME IInv, EarlierCalls PROVE SpendingBounded OBVIOUS
    <2> QED BY SpentSoFar DEF SpendingBounded
  <1> QED BY <1>1, <1>2, EarlierCallsKept, Invariance, PTL DEF Spec
-----------------------------------------------------------------------------
(* Steps a call has left at most.  A lap is a first request, the attempts  *)
(* of a payment (a broadcast and a failure each) and the second request.   *)
Lap == 2 * SendAttempts + 2

LapsLeft == RequestAttempts - attempt

PaymentLeft == 2 * (SendAttempts - payment.attempt) + IF payment.txid = None THEN 1 ELSE 0

StepsLeft ==
  CASE phase = "idle" -> 0
    [] phase = "asking" -> LapsLeft * Lap + Lap
    [] phase = "paying" -> LapsLeft * Lap + 2 + PaymentLeft
    [] phase = "proving" -> LapsLeft * Lap + 1

CallBounded == StepsLeft \in 0 .. RequestAttempts * Lap

(* Every step of a call, whoever answers what, and in whatever order the   *)
(* chain takes the payments, uses up one of the steps it has left.         *)
CallShortens == phase # "idle" /\ ~UNCHANGED <<agentVars, payment>> => StepsLeft' < StepsLeft

LEMMA LapFacts ==
  ASSUME NEW n \in Nat
  PROVE  /\ Lap \in Nat /\ Lap = 2 * SendAttempts + 2 /\ n * Lap \in Nat
         /\ (n + 1) * Lap = n * Lap + Lap
  <1>1. Lap \in Nat BY TxnFacts DEF Lap
  <1> QED BY <1>1 DEF Lap

LEMMA MoreLaps ==
  ASSUME NEW m \in Nat, NEW n \in Nat, m <= n
  PROVE  m * Lap <= n * Lap
  <1>1. Lap \in Nat BY TxnFacts DEF Lap
  <1> DEFINE d == n - m
  <1>2. d \in Nat /\ n = m + d OBVIOUS
  <1> HIDE DEF d
  <1>3. (m + d) * Lap = m * Lap + d * Lap /\ d * Lap \in Nat /\ m * Lap \in Nat BY <1>1, <1>2
  <1> QED BY <1>2, <1>3

LEMMA PaymentLeftFacts ==
  ASSUME TypeOK, payment # None
  PROVE  PaymentLeft \in 0 .. 2 * SendAttempts - 1
  BY TxnFacts DEF TypeOK, SignerTypeOK, Payment, PaymentLeft

LEMMA StepsWithinLaps ==
  ASSUME IInv
  PROVE  /\ CallBounded
         /\ LapsLeft \in Nat /\ LapsLeft * Lap \in Nat
  <1>1. LapsLeft \in Nat /\ LapsLeft + 1 <= RequestAttempts /\ RequestAttempts \in Nat
    BY TxnFacts DEF LapsLeft, IInv, TypeOK
  <1>2. /\ LapsLeft * Lap \in Nat /\ Lap \in Nat /\ Lap = 2 * SendAttempts + 2
        /\ (LapsLeft + 1) * Lap = LapsLeft * Lap + Lap
    BY <1>1, LapFacts
  <1>3. (LapsLeft + 1) * Lap <= RequestAttempts * Lap BY <1>1, MoreLaps
  <1>4. RequestAttempts * Lap \in Nat BY <1>1, LapFacts
  <1>5. StepsLeft \in 0 .. LapsLeft * Lap + Lap
    <2>1. phase \in Phases BY DEF IInv, TypeOK
    <2>2. CASE phase = "paying"
      <3>1. PaymentLeft \in 0 .. 2 * SendAttempts - 1
        BY <2>2, PaymentLeftFacts DEF IInv, CallInv, InStep
      <3>2. StepsLeft = LapsLeft * Lap + 2 + PaymentLeft BY <2>2 DEF StepsLeft
      <3> HIDE DEF LapsLeft, PaymentLeft
      <3> QED BY <1>2, <3>1, <3>2, TxnFacts
    <2>3. CASE phase # "paying"
      <3>1. StepsLeft \in {0, LapsLeft * Lap + Lap, LapsLeft * Lap + 1}
        BY <2>1, <2>3 DEF StepsLeft, Phases
      <3> QED BY <1>2, <3>1, TxnFacts
    <2> QED BY <2>2, <2>3
  <1> QED BY <1>1, <1>2, <1>3, <1>4, <1>5 DEF CallBounded

LEMMA StepShortens == IInv /\ IInv' /\ [Next]_vars => CallShortens
  <1> SUFFICES ASSUME IInv, IInv', [Next]_vars, phase # "idle",
                      ~UNCHANGED <<agentVars, payment>>
               PROVE  StepsLeft' < StepsLeft
    BY DEF CallShortens
  <1> DEFINE base == LapsLeft * Lap
  <1>0. /\ base \in Nat /\ LapsLeft \in Nat /\ Lap \in Nat /\ Lap = 2 * SendAttempts + 2
        /\ SendAttempts \in Nat /\ SendAttempts >= 1
    BY StepsWithinLaps, LapFacts, TxnFacts
  <1>a. /\ phase = "asking" => StepsLeft = base + Lap
        /\ phase = "paying" => StepsLeft = base + 2 + PaymentLeft
        /\ phase = "proving" => StepsLeft = base + 1
    BY DEF StepsLeft
  <1>b. phase = "paying" => payment # None /\ payment \in Payment /\ PaymentLeft \in Nat
    <2>1. ASSUME phase = "paying" PROVE payment # None /\ payment \in Payment
      BY <2>1 DEF IInv, CallInv, InStep, TypeOK, SignerTypeOK
    <2> QED BY <2>1, PaymentLeftFacts, TxnFacts DEF IInv
  <1>c. phase \in {"asking", "paying", "proving"} BY DEF IInv, TypeOK, Phases
  <1>d. StepsLeft > 0
    <2> HIDE DEF base
    <2> QED BY <1>0, <1>a, <1>b, <1>c
  <1>e. attempt' = attempt => LapsLeft' * Lap = base BY DEF LapsLeft
  <1>1. CASE PaymentRequired
    <2>1. /\ phase = "asking" /\ phase' = "paying" /\ attempt' = attempt
          /\ payment'.txid = None /\ payment'.attempt = 1
      BY <1>1 DEF PaymentRequired, StartPaying, StartPayment
    <2>2. PaymentLeft' = 2 * (SendAttempts - 1) + 1 BY <2>1 DEF PaymentLeft
    <2>3. StepsLeft' = base + 2 + PaymentLeft' BY <1>e, <2>1 DEF StepsLeft, Lap
    <2> HIDE DEF base
    <2> QED BY <1>0, <1>a, <2>1, <2>2, <2>3
  <1>2. CASE Answered \/ GiveUp \/ PaymentFailed
    <2>1. phase' = "idle" BY <1>2 DEF Answered, GiveUp, PaymentFailed, Return
    <2>2. StepsLeft' = 0 BY <2>1 DEF StepsLeft
    <2> QED BY <1>d, <2>2
  <1>3. CASE RetryRequest
    <2>1. /\ phase \in {"asking", "proving"} /\ phase' = "asking" /\ attempt < RequestAttempts
          /\ attempt' = attempt + 1
      BY <1>3 DEF RetryRequest, Waiting, Post
    <2> DEFINE n == LapsLeft - 1
    <2>2. n \in Nat /\ LapsLeft = n + 1 /\ LapsLeft' = n
      BY <2>1, TxnFacts DEF LapsLeft, IInv, TypeOK
    <2>3. StepsLeft' = n * Lap + Lap BY <2>1, <2>2 DEF StepsLeft, Lap
    <2> HIDE DEF n
    <2>4. base = n * Lap + Lap BY <2>2, LapFacts
    <2> HIDE DEF base
    <2> QED BY <1>0, <1>a, <2>1, <2>3, <2>4
  <1>4. CASE Paying
    <2>1. UNCHANGED <<phase, attempt>> /\ (Broadcast \/ RetryPayment) BY <1>4 DEF Paying
    <2>2. phase = "paying"
      <3>1. payment # None BY <2>1 DEF Broadcast, RetryPayment, Payable
      <3>2. phase \in {"asking", "proving"} => payment = None BY DEF IInv, CallInv, InStep
      <3> QED BY <3>1, <3>2, <1>c
    <2>3. PaymentLeft' < PaymentLeft /\ PaymentLeft' \in Nat
      <3>1. payment' # None /\ PaymentLeft' \in Nat
        <4>1. phase' = "paying" BY <2>1, <2>2
        <4>2. payment' # None BY <4>1 DEF IInv, CallInv, InStep
        <4>3. payment' \in Payment BY <4>2 DEF IInv, TypeOK, SignerTypeOK
        <4> QED BY <4>2, <4>3, TxnFacts DEF PaymentLeft, Payment
      <3>2. CASE Broadcast
        <4>1. /\ payment.txid = None /\ payment'.txid = Made /\ Made # None
              /\ payment'.attempt = payment.attempt
          BY <1>b, <2>2, <3>2, MadeIsTxn, TxnFacts DEF Broadcast, Payable, Payment, IInv
        <4> QED BY <1>b, <2>2, <3>1, <4>1, TxnFacts DEF PaymentLeft, Payment
      <3>3. CASE RetryPayment
        <4>1. payment'.txid = None /\ payment'.attempt = payment.attempt + 1
          BY <1>b, <2>2, <3>3 DEF RetryPayment, Payment
        <4> QED BY <1>b, <2>2, <3>1, <4>1, TxnFacts DEF PaymentLeft, Payment
      <3> QED BY <2>1, <3>1, <3>2, <3>3
    <2>4. StepsLeft' = base + 2 + PaymentLeft' BY <1>e, <2>1, <2>2 DEF StepsLeft, Lap
    <2> HIDE DEF base
    <2> QED BY <1>0, <1>a, <1>b, <2>2, <2>3, <2>4
  <1>5. CASE Paid
    <2>1. phase = "paying" /\ phase' = "proving" /\ attempt' = attempt BY <1>5 DEF Paid, Post
    <2>2. StepsLeft' = base + 1 BY <1>e, <2>1 DEF StepsLeft, Lap
    <2> HIDE DEF base
    <2> QED BY <1>0, <1>a, <1>b, <2>1, <2>2
  <1>6. CASE VerifyIncome \/ SignAndSendPayment \/ SignAndSendEnds
    BY <1>6 DEF VerifyIncome, SignAndSendPayment, SignAndSendEnds
  <1>7. CASE Chain \/ UNCHANGED vars
    BY <1>7 DEF Chain, NextRound, Execute, Drop, vars, signerVars
  <1> QED BY <1>1, <1>2, <1>3, <1>4, <1>5, <1>6, <1>7 DEF Next, AgentStep

(* The safety half of CallReturns: a call has at most RequestAttempts laps *)
(* to take, and each of its steps shortens what is left, so that only an   *)
(* agent that stops keeps it from coming to an answer.                     *)
THEOREM CallsRunOut == Spec => []CallBounded /\ [][CallShortens]_vars
  <1>1. IInv => CallBounded BY StepsWithinLaps
  <1> QED BY <1>1, StepShortens, Invariance, PTL DEF Spec
=============================================================================
