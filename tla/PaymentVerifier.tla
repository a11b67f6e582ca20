--------------------------- MODULE PaymentVerifier ---------------------------
(***************************************************************************)
(* PaymentVerifier.verify_payment (payment_verifier.py), run by any number *)
(* of concurrent request handlers of the backend's single event loop.      *)
(*                                                                         *)
(* A handler runs without interruption between two awaits, so a step of    *)
(* the model is what a coroutine does from one await to the next:          *)
(*   - VerifyBegin: the is_used check, up to the first GET of the indexer; *)
(*   - one of the steps that resume it with the indexer's answer.          *)
(* The two-second sleep before a retry is part of the same suspension as   *)
(* the GET that follows it: no state of the coroutine changes in between.  *)
(*                                                                         *)
(* A transaction id is the hash of the transaction, so what a transaction  *)
(* says is a constant (Tx); what changes is whether it is confirmed        *)
(* (ledger), and the indexer may lag behind the ledger.                    *)
(***************************************************************************)
EXTENDS ReplayPreventionStore

CONSTANTS
  Tasks,        \* request handlers that may be running at the same time
  Tx,           \* what each transaction says
  Retries,      \* attempts of verify_payment (10 in the code)
  UsdcAsset,    \* usdc_asset_id
  Receiver,     \* receiver_address
  Accounts, Assets, Notes,   \* the values the fields of a transaction may have
  None,         \* Python's None: an absent argument
  Calls,        \* the arguments verify_payment is called with
  MaxRestarts   \* bound on restarts of the process, for model checking

TxRecord == [axfer : BOOLEAN, asset : Assets, receiver : Accounts, amount : Nat,
             sender : Accounts, note : Notes]

ASSUME TxAssumption == Tx \in [Txids -> TxRecord]
ASSUME RetriesAssumption == Retries \in Nat \ {0}
ASSUME TasksAssumption == IsFiniteSet(Tasks)
ASSUME RestartsAssumption == MaxRestarts \in Nat

Call == [txid : Txids, amount : Nat, sender : Accounts \cup {None},
         note : Notes \cup {None}]

ASSUME CallsAssumption == Calls \subseteq Call

VARIABLES
  ledger,       \* transactions confirmed on the chain
  pc,           \* where each handler is
  call,         \* the arguments of its verify_payment (None before the first)
  attempt,      \* the loop variable of verify_payment
  credited,     \* history: acceptances of each id since the process started
  everCredited, \* history: acceptances of each id over all restarts
  restarts

taskVars == <<pc, call, attempt>>
historyVars == <<credited, everCredited, restarts>>
verifierVars == <<storeVars, ledger, taskVars, historyVars>>

VerifierTypeOK ==
  /\ StoreTypeOK
  /\ ledger \subseteq Txids
  /\ pc \in [Tasks -> {"idle", "query", "valid", "refused"}]
  /\ call \in [Tasks -> Calls \cup {None}]
  /\ attempt \in [Tasks -> 0 .. Retries - 1]
  /\ credited \in [Txids -> Nat]
  /\ everCredited \in [Txids -> Nat]
  /\ restarts \in Nat

NoCall == [t \in Tasks |-> None]

VerifierInit ==
  /\ StoreInit
  /\ ledger = {}
  /\ pc = [t \in Tasks |-> "idle"]
  /\ call = NoCall
  /\ attempt = [t \in Tasks |-> 0]
  /\ credited = [x \in Txids |-> 0]
  /\ everCredited = [x \in Txids |-> 0]
  /\ restarts = 0
-----------------------------------------------------------------------------
(* The environment: the payer's transaction is confirmed. *)
Confirm(x) ==
  /\ x \notin ledger
  /\ ledger' = ledger \cup {x}
  /\ UNCHANGED <<storeVars, taskVars, historyVars>>

(* The checks made on the transaction the indexer returned. *)
Matches(tx, c) ==
  /\ tx.axfer
  /\ tx.receiver = Receiver
  /\ tx.amount >= c.amount
  /\ c.sender # None => tx.sender = c.sender
  /\ c.note # None => tx.note = c.note

(* Fault: the asset is not compared. *)
AcceptableInAnyAsset(c) == Matches(Tx[c.txid], c)

Acceptable(c) == Tx[c.txid].asset = UsdcAsset /\ Matches(Tx[c.txid], c)

Goto(t, label) == pc' = [pc EXCEPT ![t] = label]

(* verify_payment is called: refused at once if the id has been used. *)
StartCall(t, c) ==
  /\ pc[t] = "idle"
  /\ Goto(t, IF IsUsed(c.txid) THEN "refused" ELSE "query")
  /\ call' = [call EXCEPT ![t] = c]
  /\ attempt' = [attempt EXCEPT ![t] = 0]
  /\ UNCHANGED <<ledger, historyVars>>

(* Fault: the id is marked when it is checked, before anything is verified.*)
VerifyBeginMarking(t, c) == StartCall(t, c) /\ MarkUsed(c.txid)

VerifyBegin(t, c) == StartCall(t, c) /\ CheckUsed(c.txid)

LastAttempt(t) == attempt[t] = Retries - 1

(* How the awaited GET ends.  The indexer may answer 404 for a transaction *)
(* that is confirmed (it lags), but returns only what is on the ledger.    *)
Answers == {"exception", "not_found", "other_status", "found"}
Transient == {"exception", "not_found"}

(* A 404 or an exception: tried again after two seconds. *)
TryAgain(t, answer, n) ==
  /\ pc[t] = "query"
  /\ answer \in Transient
  /\ attempt' = [attempt EXCEPT ![t] = n]
  /\ UNCHANGED <<storeVars, ledger, pc, call, historyVars>>

(* Faults: a retry after the last attempt; a count that starts over.   *)
VerifyRetryForever(t, answer) == TryAgain(t, answer, attempt[t] + 1)
VerifyRetryRecounted(t, answer) == TryAgain(t, answer, (attempt[t] + 1) % Retries)

VerifyRetry(t, answer) == ~LastAttempt(t) /\ TryAgain(t, answer, attempt[t] + 1)

(* The last 404 or exception, any other status on any attempt, or a        *)
(* transaction that fails a check.                                         *)
VerifyRefuse(t, answer) ==
  /\ pc[t] = "query"
  /\ \/ answer \in Transient /\ LastAttempt(t)
     \/ answer = "other_status"
     \/ answer = "found" /\ call[t].txid \in ledger /\ ~Acceptable(call[t])
  /\ Goto(t, "refused")
  /\ UNCHANGED <<storeVars, ledger, call, attempt, historyVars>>

(* The indexer found the transaction and every check passed: mark_used and *)
(* return valid, with no await in between.                                 *)
Credit(t) ==
  LET x == call[t].txid IN
  /\ pc[t] = "query"
  /\ x \in ledger
  /\ Acceptable(call[t])
  /\ Goto(t, "valid")
  /\ credited' = [credited EXCEPT ![x] = @ + 1]
  /\ everCredited' = [everCredited EXCEPT ![x] = @ + 1]
  /\ UNCHANGED <<ledger, call, attempt, restarts>>

(* Fault: the id is not marked when the payment is accepted. *)
VerifyAcceptUnmarked(t) == Credit(t) /\ UNCHANGED storeVars

VerifyAccept(t) == Credit(t) /\ MarkUsed(call[t].txid)

(* The handler has answered; its slot takes a new request. *)
Return(t) ==
  /\ pc[t] \in {"valid", "refused"}
  /\ Goto(t, "idle")
  /\ call' = [call EXCEPT ![t] = None]
  /\ attempt' = [attempt EXCEPT ![t] = 0]
  /\ UNCHANGED <<storeVars, ledger, historyVars>>

(* The process restarts: lifespan builds a new verifier with an empty      *)
(* store, and the handlers that were running are gone.                     *)
ProcessRestart ==
  /\ restarts < MaxRestarts
  /\ restarts' = restarts + 1
  /\ usedTxids' = {}
  /\ txidTimestamps' = [x \in {} |-> 0]
  /\ pc' = [t \in Tasks |-> "idle"]
  /\ call' = NoCall
  /\ attempt' = [t \in Tasks |-> 0]
  /\ credited' = [x \in Txids |-> 0]
  /\ UNCHANGED <<now, ledger, everCredited>>

Clock == Tick /\ UNCHANGED <<ledger, taskVars, historyVars>>

VerifierStep(t) ==
  \/ \E answer \in Answers : VerifyRetry(t, answer) \/ VerifyRefuse(t, answer)
  \/ VerifyAccept(t)
  \/ Return(t)

VerifierNext ==
  \/ \E t \in Tasks : VerifierStep(t) \/ \E c \in Calls : VerifyBegin(t, c)
  \/ \E x \in Txids : Confirm(x)
  \/ Clock
  \/ ProcessRestart

VerifierSpec == VerifierInit /\ [][VerifierNext]_verifierVars

(* Every await of verify_payment ends: httpx gives up after 30 seconds and *)
(* asyncio.sleep returns, so a handler that can take a step takes one.     *)
VerifierFairness == \A t \in Tasks : WF_verifierVars(VerifierStep(t))

VerifierFairSpec == VerifierSpec /\ VerifierFairness
-----------------------------------------------------------------------------
(* What verify_payment accepted is a confirmed transfer of USDC to the     *)
(* backend of at least the amount asked for, and its id is spent from that *)
(* moment on: the answer is never given before the id is marked.           *)
AcceptedIsPaidAndSpent ==
  \A t \in Tasks : pc[t] = "valid" =>
    LET x == call[t].txid IN
    /\ x \in ledger /\ IsUsed(x)
    /\ Tx[x].axfer /\ Tx[x].asset = UsdcAsset /\ Tx[x].receiver = Receiver
    /\ Tx[x].amount >= call[t].amount

(* An id is spent only by an acceptance: a verification that is refused,   *)
(* on whatever path, leaves the payer free to present the payment again.   *)
NoPaymentBurnt == \A x \in usedTxids : credited[x] > 0

(* However many requests the slots serve over time, a transaction is       *)
(* accepted at most as many times as handlers can be between the is_used   *)
(* check and mark_used at once; with one handler at a time, at most once.  *)
CreditBound == \A x \in Txids : credited[x] <= Cardinality(Tasks)

(* README.md, "Anti-replay txid tracking prevents payment reuse": no       *)
(* transaction is accepted more than once.                                 *)
AcceptedOnce == \A x \in Txids : everCredited[x] <= 1

(* Every verify_payment that waits for the indexer comes to an answer.     *)
EveryCallReturns == \A t \in Tasks : pc[t] = "query" ~> pc[t] # "query"
=============================================================================
