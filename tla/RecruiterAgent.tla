---------------------------- MODULE RecruiterAgent ----------------------------
(***************************************************************************)
(* RecruiterAgent.verify_income of recruiter_agent.py: ask, pay when told  *)
(* to (402), ask again with the payment's id in a header, and start over   *)
(* when a request is lost.  The server is external and may answer a        *)
(* request with anything, or not at all.                                   *)
(*                                                                         *)
(* The id of the payment travels in the payload, from which the request's  *)
(* header is built; building the header removes it, so that a request that *)
(* is sent again carries none.                                             *)
(***************************************************************************)
EXTENDS AlgorandSigner, Sequences

CONSTANTS
  RequestAttempts,   \* max_retries of verify_income (3)
  MaxCalls           \* bound on calls, for model checking only

ASSUME AgentAssumption == RequestAttempts \in Nat \ {0} /\ MaxCalls \in Nat

VARIABLES
  phase,     \* where the call to verify_income is suspended
  attempt,   \* its loop counter
  payload,   \* payload["txid"]
  outcome,   \* how the last call ended
  calls,     \* history: calls made
  headers,   \* history: X402-Payment-Proof of each request of this call
  asked,     \* history: times this call was asked to pay
  broadcast  \* history: transactions algod has taken from this call

agentVars == <<phase, attempt, payload, outcome, calls, headers, asked, broadcast>>
vars == <<signerVars, agentVars>>

Phases == {"idle", "asking", "paying", "proving"}
Outcomes == {"none", "success", "failure", "raised"}

TypeOK ==
  /\ SignerTypeOK
  /\ phase \in Phases /\ attempt \in 1 .. RequestAttempts
  /\ payload \in Txn \cup {None} /\ outcome \in Outcomes
  /\ calls \in Nat /\ asked \in Nat
  /\ headers \in Seq(Txn \cup {None})
  /\ broadcast \subseteq Txn

Init ==
  /\ SignerInit
  /\ phase = "idle" /\ attempt = 1 /\ payload = None /\ outcome = "none"
  /\ calls = 0 /\ headers = <<>> /\ asked = 0 /\ broadcast = {}
-----------------------------------------------------------------------------
(* _send_verification_request: the header is built, then the POST awaited. *)
Post(proof, next) ==
  /\ headers' = Append(headers, proof)
  /\ payload' = None
  /\ phase' = next

VerifyIncome ==
  /\ phase = "idle" /\ payment = None /\ calls < MaxCalls
  /\ calls' = calls + 1 /\ attempt' = 1 /\ outcome' = "none"
  /\ asked' = 0 /\ broadcast' = {}
  /\ headers' = <<None>> /\ payload' = None /\ phase' = "asking"
  /\ UNCHANGED signerVars

Return(result) ==
  /\ phase' = "idle" /\ outcome' = result
  /\ UNCHANGED <<attempt, payload, calls, headers>>

Waiting == phase \in {"asking", "proving"}

StartPaying ==
  /\ \E terms \in UsdcTerms : StartPayment(terms)
  /\ phase' = "paying" /\ asked' = asked + 1
  /\ UNCHANGED <<round, pool, ledger, attempt, payload, outcome, calls, headers, broadcast>>

(* Fault: a 402 to the paid request is answered by another payment. *)
PaymentRequiredAgain == Waiting /\ StartPaying

(* 402 to the first request: the amount and the receiver it requires are   *)
(* read, and a payment on these terms starts.                              *)
PaymentRequired == phase = "asking" /\ StartPaying

(* 200, any other status (also a second 402), or an exception that is not  *)
(* httpx.RequestError: no JSON, no requirements, a proof without .get.     *)
Answered ==
  /\ Waiting
  /\ \E result \in {"success", "failure", "raised"} : Return(result)
  /\ UNCHANGED <<signerVars, asked, broadcast>>

(* Fault: the loop goes on after its last attempt. *)
RetryPastLast ==
  /\ Waiting
  /\ attempt' = attempt + 1
  /\ Post(payload, "asking")
  /\ UNCHANGED <<signerVars, outcome, calls, asked, broadcast>>

(* httpx.RequestError: the request or its answer is lost. *)
RetryRequest ==
  /\ Waiting /\ attempt < RequestAttempts
  /\ attempt' = attempt + 1
  /\ Post(payload, "asking")
  /\ UNCHANGED <<signerVars, outcome, calls, asked, broadcast>>

GiveUp ==
  /\ Waiting /\ attempt = RequestAttempts
  /\ Return("failure")
  /\ UNCHANGED <<signerVars, asked, broadcast>>

(* The payment of this call goes on, *)
Paying ==
  /\ Broadcast \/ RetryPayment
  /\ broadcast' = IF phase = "paying" THEN broadcast \cup (pool' \ pool) ELSE broadcast
  /\ UNCHANGED <<phase, attempt, payload, outcome, calls, headers, asked>>

(* is confirmed, and its id goes into the payload of the second request,   *)
Paid ==
  /\ phase = "paying"
  /\ Post(payment.txid, "proving")
  /\ PaymentConfirmed
  /\ UNCHANGED <<attempt, outcome, calls, asked, broadcast>>

(* or raises, and no handler of verify_income catches that.                *)
PaymentFailed ==
  /\ phase = "paying"
  /\ PaymentRaises
  /\ Return("raised")
  /\ broadcast' = broadcast \cup (pool' \ pool)
  /\ UNCHANGED asked

(* sign_and_send_payment, the signer's other method, called by itself. *)
SignAndSendPayment ==
  /\ phase = "idle"
  /\ \E terms \in AlgoTerms : StartPayment(terms)
  /\ UNCHANGED <<round, pool, ledger>>
  /\ UNCHANGED agentVars

SignAndSendEnds ==
  /\ phase = "idle"
  /\ PaymentConfirmed \/ PaymentRaises
  /\ UNCHANGED agentVars

Chain ==
  /\ NextRound \/ \E t \in pool : Execute(t) \/ Drop(t)
  /\ UNCHANGED agentVars

AgentStep ==
  \/ PaymentRequired \/ Answered \/ RetryRequest \/ GiveUp
  \/ Paying \/ Paid \/ PaymentFailed \/ SignAndSendEnds

Next == VerifyIncome \/ SignAndSendPayment \/ AgentStep \/ Chain

Spec == Init /\ [][Next]_vars

(* The HTTP client gives up after 60 seconds, the calls to algod return or *)
(* raise, and the wait for a confirmation ends after ten seconds.          *)
FairSpec == Spec /\ WF_vars(AgentStep)
-----------------------------------------------------------------------------
(* However often it starts over, one call makes no more payments than it   *)
(* has attempts for each time it was asked to pay; and it is asked no more *)
(* often than it sends first requests.                                     *)
ChargesBounded ==
  /\ asked <= RequestAttempts
  /\ Cardinality(broadcast) <= SendAttempts * asked

(* What the agent shows the server was executed by the chain, and is a     *)
(* payment of this very call.                                              *)
ProofsAreOwnPayments ==
  \A i \in DOMAIN headers : headers[i] # None => headers[i] \in ledger \cap broadcast

(* A call to verify_income comes to an answer. *)
CallReturns == phase # "idle" ~> phase = "idle"
=============================================================================
