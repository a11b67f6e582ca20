---------------------------- MODULE AlgorandSigner ----------------------------
(***************************************************************************)
(* AlgorandSigner of recruiter_agent.py: sends a payment and waits for it, *)
(* a few times over.  Its calls block, so one payment is under way at most.*)
(* The chain is external: rounds pass, and what was submitted is executed  *)
(* while its validity lasts, whether or not anybody still waits for it.    *)
(*                                                                         *)
(* A transaction is named by what it is made from: its terms (kind, amount,*)
(* receiver and note) and the first round of its parameters.  Two made on  *)
(* the same terms in one round are the same transaction.                   *)
(***************************************************************************)
EXTENDS Integers, FiniteSets

CONSTANTS
  UsdcTerms,     \* terms of payments: amount, receiver and note, in USDC
  AlgoTerms,     \*   and in Algo
  SendAttempts,  \* max_retries of the payment methods (3)
  Lifetime,      \* rounds for which a transaction is valid
  MaxRound,      \* bound on rounds, for model checking only
  None

ASSUME SignerAssumption ==
  /\ SendAttempts \in Nat \ {0} /\ Lifetime \in Nat /\ MaxRound \in Nat \ {0}
  /\ UsdcTerms \cap AlgoTerms = {}
  /\ None \notin [terms : UsdcTerms \cup AlgoTerms, first : 1 .. MaxRound]

VARIABLES
  round,    \* the last round of the chain
  pool,     \* transactions submitted and not yet executed
  ledger,   \* transactions executed
  payment   \* the payment under way: its attempt, and what it waits for

signerVars == <<round, pool, ledger, payment>>

Terms == UsdcTerms \cup AlgoTerms
Txn == [terms : Terms, first : 1 .. MaxRound]
Payment == [terms : Terms, attempt : 1 .. SendAttempts, txid : Txn \cup {None}]

ASSUME PaymentAssumption == None \notin Payment

SignerTypeOK ==
  /\ round \in 1 .. MaxRound
  /\ pool \subseteq Txn /\ ledger \subseteq Txn
  /\ payment \in Payment \cup {None}

SignerInit ==
  /\ round = 1
  /\ pool = {}
  /\ ledger = {}
  /\ payment = None
-----------------------------------------------------------------------------
(* send_usdc_payment and sign_and_send_payment have the same loop.  (The   *)
(* parameters asked for before the loop are not used, but if algod does    *)
(* not give them the method raises at once, and no payment starts.)        *)
StartPayment(terms) ==
  /\ payment = None
  /\ payment' = [terms |-> terms, attempt |-> 1, txid |-> None]

(* The transaction made with the parameters of this round.                 *)
Made == [terms |-> payment.terms, first |-> round]

LastSend == payment.attempt = SendAttempts

Payable == payment # None /\ payment.txid = None /\ Made \notin pool \cup ledger

(* algod takes the transaction, unless it has it already; the wait for its *)
(* confirmation starts.                                                    *)
Broadcast ==
  /\ Payable
  /\ pool' = pool \cup {Made}
  /\ payment' = [payment EXCEPT !.txid = Made]
  /\ UNCHANGED <<round, ledger>>

(* What an attempt that raised may leave behind: algod may have taken the  *)
(* transaction although its answer was lost.                               *)
FailureLeaves == {pool} \cup (IF Payable THEN {pool \cup {Made}} ELSE {})

(* Fault: a failed attempt is not counted. *)
RetryUncounted ==
  /\ payment # None /\ ~LastSend
  /\ pool' \in FailureLeaves
  /\ payment' = [payment EXCEPT !.txid = None]
  /\ UNCHANGED <<round, ledger>>

(* An exception: no parameters, a rejected transaction, a lost answer, or  *)
(* no confirmation within ten seconds.  The loop sleeps and goes on.       *)
RetryPayment ==
  /\ payment # None /\ ~LastSend
  /\ pool' \in FailureLeaves
  /\ payment' = [payment EXCEPT !.attempt = @ + 1, !.txid = None]
  /\ UNCHANGED <<round, ledger>>

(* The last attempt's exception leaves the method. *)
PaymentRaises ==
  /\ payment # None /\ LastSend
  /\ pool' \in FailureLeaves
  /\ payment' = None
  /\ UNCHANGED <<round, ledger>>

(* Fault: an id is returned as soon as algod has taken the transaction. *)
PaymentSent ==
  /\ payment # None /\ payment.txid # None
  /\ payment' = None
  /\ UNCHANGED <<round, pool, ledger>>

(* The node reports the round that has the transaction: its id is returned.*)
PaymentConfirmed ==
  /\ payment # None /\ payment.txid \in ledger
  /\ payment' = None
  /\ UNCHANGED <<round, pool, ledger>>

NextRound ==
  /\ round < MaxRound
  /\ round' = round + 1
  /\ UNCHANGED <<pool, ledger, payment>>

Execute(t) ==
  /\ t \in pool /\ round <= t.first + Lifetime
  /\ pool' = pool \ {t}
  /\ ledger' = ledger \cup {t}
  /\ UNCHANGED <<round, payment>>

Drop(t) ==
  /\ t \in pool /\ round > t.first + Lifetime
  /\ pool' = pool \ {t}
  /\ UNCHANGED <<round, ledger, payment>>
=============================================================================
