------------------------- MODULE PaymentVerifierProofs -------------------------
(***************************************************************************)
(* Proofs about the replay store, for any ids, any TTL and any length of   *)
(* time, one lemma for each method; and with them about PaymentVerifier,   *)
(* for any finite set of handlers, any transactions, and any number of     *)
(* retries and restarts.                                                   *)
(*                                                                         *)
(* CreditBound is not inductive.  What is: an acceptance leaves its id     *)
(* spent, so a handler that passes the is_used check does so while its id  *)
(* has no acceptance at all; and every acceptance takes one handler out of *)
(* those that are still between the check and mark_used (OverlapBound).    *)
(***************************************************************************)
EXTENDS PaymentVerifier, FiniteSetTheorems, TLAPS

StoreInv == StoreTypeOK /\ StoreAgrees

(* The empty store of a new ReplayPreventionStore satisfies the invariant. *)
LEMMA StoreStart == StoreInit => StoreInv
  BY DEF StoreInit, StoreInv, StoreTypeOK, StoreAgrees

(* Removing any ids from both containers, as is_used and cleanup_expired   *)
(* do, keeps the invariant.                                                *)
LEMMA ForgetKeeps ==
  ASSUME StoreInv, NEW S, ForgetAll(S)
  PROVE  StoreInv'
  BY DEF ForgetAll, StoreInv, StoreTypeOK, StoreAgrees

(* mark_used keeps the invariant, and the id it was given is then used.    *)
LEMMA MarkUsedKeeps ==
  ASSUME StoreInv, NEW x \in Txids, MarkUsed(x)
  PROVE  StoreInv' /\ usedTxids' = usedTxids \cup {x} /\ IsUsed(x)'
  BY DEF MarkUsed, StoreInv, StoreTypeOK, StoreAgrees, IsUsed

(* As long as set and dict agree is_used removes nothing.                  *)
LEMMA CheckUsedKeeps ==
  ASSUME StoreInv, NEW x \in Txids, CheckUsed(x)
  PROVE  /\ StoreInv'
         /\ UNCHANGED <<usedTxids, txidTimestamps, now>>
  BY DEF CheckUsed, ForgetAll, Lapsed, StoreInv, StoreTypeOK, StoreAgrees

(* The clock moves forward and touches nothing else.                       *)
LEMMA TickKeeps ==
  ASSUME StoreInv, Tick
  PROVE  StoreInv' /\ UNCHANGED usedTxids
  BY DEF Tick, StoreInv, StoreTypeOK, StoreAgrees

LEMMA StoreStutterKeeps ==
  ASSUME StoreInv, UNCHANGED storeVars
  PROVE  StoreInv'
  BY DEF StoreInv, StoreTypeOK, StoreAgrees, storeVars

LEMMA StoreStepKeeps == StoreInv /\ [StoreNext]_storeVars => StoreInv'
<1> SUFFICES ASSUME StoreInv, [StoreNext]_storeVars PROVE StoreInv'
  OBVIOUS
<1>1. ASSUME NEW x \in Txids, CheckUsed(x) PROVE StoreInv'
  BY <1>1, CheckUsedKeeps
<1>2. ASSUME NEW x \in Txids, MarkUsed(x) PROVE StoreInv'
  BY <1>2, MarkUsedKeeps
<1>3. CASE CleanupExpired
  BY <1>3, ForgetKeeps DEF CleanupExpired
<1>4. CASE Tick
  BY <1>4, TickKeeps
<1>5. CASE UNCHANGED storeVars
  BY <1>5, StoreStutterKeeps
<1> QED
  BY <1>1, <1>2, <1>3, <1>4, <1>5 DEF StoreNext

LEMMA StoreInvariant == StoreSpec => []StoreInv
  BY StoreStart, StoreStepKeeps, PTL DEF StoreSpec

(* The set and the dict of the store always hold the same ids, whatever    *)
(* sequence of methods is called and however much time passes.             *)
THEOREM StoreAgreement == StoreSpec => []StoreAgrees
<1>1. StoreInv => StoreAgrees
  BY DEF StoreInv
<1> QED
  BY <1>1, StoreInvariant, PTL

(* No method makes a used id unused before its TTL, and the passing of     *)
(* time alone never does.                                                  *)
THEOREM SpentUntilAged == StoreSpec => DroppedOnlyWhenAged
<1> DEFINE Kept == \A x \in Txids : IsUsed(x) /\ ~IsUsed(x)' => Aged(x) /\ UNCHANGED now
<1>1. ASSUME StoreInv, [StoreNext]_storeVars PROVE [Kept]_storeVars
  <2> SUFFICES ASSUME StoreNext, NEW x \in Txids, IsUsed(x), ~IsUsed(x)'
               PROVE  Aged(x) /\ UNCHANGED now
    BY <1>1
  <2> USE <1>1 DEF StoreInv, StoreTypeOK, StoreAgrees
  <2>1. x \in usedTxids /\ x \notin usedTxids'
    BY DEF IsUsed
  <2>2. ASSUME NEW y \in Txids, CheckUsed(y) PROVE FALSE
    BY <2>1, <2>2, CheckUsedKeeps
  <2>3. ASSUME NEW y \in Txids, MarkUsed(y) PROVE FALSE
    BY <2>1, <2>3, MarkUsedKeeps
  <2>4. CASE CleanupExpired
    BY <2>1, <2>4 DEF CleanupExpired, ForgetAll
  <2>5. CASE Tick
    BY <2>1, <2>5 DEF Tick
  <2> QED
    BY <2>2, <2>3, <2>4, <2>5 DEF StoreNext
<1> QED
  BY <1>1, StoreInvariant, PTL DEF StoreSpec, DroppedOnlyWhenAged
-----------------------------------------------------------------------------

(* The handlers between the is_used check of x and their answer. *)
Querying(x) == {t \in Tasks : pc[t] = "query" /\ call[t].txid = x}

BusyHasCall == \A t \in Tasks : pc[t] # "idle" => call[t] \in Calls

CreditedIsSpent == \A x \in Txids : credited[x] > 0 => x \in usedTxids

OverlapBound ==
  \A x \in Txids : credited[x] + Cardinality(Querying(x)) <= Cardinality(Tasks)

ValidIsPaid ==
  \A t \in Tasks : pc[t] = "valid" =>
    call[t].txid \in ledger \cap usedTxids /\ Acceptable(call[t])

RestartsCounted ==
  restarts <= MaxRestarts /\ (restarts = 0 => everCredited = credited)

VTypeInv == VerifierTypeOK /\ StoreAgrees /\ BusyHasCall

VInv ==
  /\ VTypeInv
  /\ NoPaymentBurnt
  /\ CreditedIsSpent
  /\ OverlapBound
  /\ ValidIsPaid
  /\ RestartsCounted
-----------------------------------------------------------------------------
LEMMA QueryingFinite ==
  ASSUME NEW x
  PROVE  /\ IsFiniteSet(Querying(x)) /\ Cardinality(Querying(x)) \in Nat
         /\ Cardinality(Querying(x)) <= Cardinality(Tasks)
         /\ Cardinality(Tasks) \in Nat
<1>1. Querying(x) \subseteq Tasks
  BY DEF Querying
<1> QED
  BY <1>1, TasksAssumption, FS_Subset, FS_CardinalityType

LEMMA VerifierStart == VerifierInit => VInv
<1> SUFFICES ASSUME VerifierInit PROVE VInv
  OBVIOUS
<1> USE DEF VerifierInit
<1>1. StoreInv
  BY StoreStart
<1>2. VTypeInv
  BY <1>1, RetriesAssumption
     DEF VTypeInv, VerifierTypeOK, StoreInv, BusyHasCall, NoCall
<1>3. \A x \in Txids : Cardinality(Querying(x)) <= Cardinality(Tasks)
  BY QueryingFinite
<1>4. OverlapBound
  BY <1>3, QueryingFinite DEF OverlapBound
<1>5. NoPaymentBurnt /\ CreditedIsSpent /\ ValidIsPaid
  BY DEF NoPaymentBurnt, CreditedIsSpent, ValidIsPaid, StoreInit
<1>6. RestartsCounted
  BY RestartsAssumption DEF RestartsCounted
<1> QED
  BY <1>2, <1>4, <1>5, <1>6 DEF VInv
-----------------------------------------------------------------------------
(* Type correctness: one step per action. *)
LEMMA VTypeStep == VTypeInv /\ [VerifierNext]_verifierVars => VTypeInv'
<1> SUFFICES ASSUME VTypeInv, [VerifierNext]_verifierVars PROVE VTypeInv'
  OBVIOUS
<1>0. StoreInv
  BY DEF VTypeInv, VerifierTypeOK, StoreInv
<1> DEFINE Rest ==
      /\ ledger \subseteq Txids
      /\ pc \in [Tasks -> {"idle", "query", "valid", "refused"}]
      /\ call \in [Tasks -> Calls \cup {None}]
      /\ attempt \in [Tasks -> 0 .. Retries - 1]
      /\ credited \in [Txids -> Nat]
      /\ everCredited \in [Txids -> Nat]
      /\ restarts \in Nat
      /\ BusyHasCall
<1>a. Rest
  BY DEF VTypeInv, VerifierTypeOK
<1>b. ASSUME StoreInv', Rest' PROVE VTypeInv'
  BY <1>b DEF StoreInv, VTypeInv, VerifierTypeOK
<1>1. ASSUME NEW t \in Tasks, NEW c \in Calls, VerifyBegin(t, c) PROVE VTypeInv'
  <2>1. StoreInv'
    BY <1>0, <1>1, CheckUsedKeeps, CallsAssumption DEF VerifyBegin, Call
  <2>2. Rest'
    BY <1>a, <1>1, RetriesAssumption DEF VerifyBegin, StartCall, Goto, BusyHasCall, historyVars
  <2> QED
    BY <2>1, <2>2, <1>b
<1>2. ASSUME NEW t \in Tasks, NEW a \in Answers, VerifyRetry(t, a) PROVE VTypeInv'
  <2>1. StoreInv'
    BY <1>0, <1>2, StoreStutterKeeps DEF VerifyRetry, TryAgain
  <2>2. attempt' \in [Tasks -> 0 .. Retries - 1]
    BY <1>a, <1>2, RetriesAssumption DEF VerifyRetry, TryAgain, LastAttempt
  <2>3. Rest'
    BY <1>a, <1>2, <2>2 DEF VerifyRetry, TryAgain, BusyHasCall, historyVars
  <2> QED
    BY <2>1, <2>3, <1>b
<1>3. ASSUME NEW t \in Tasks, NEW a \in Answers, VerifyRefuse(t, a) PROVE VTypeInv'
  <2>1. StoreInv'
    BY <1>0, <1>3, StoreStutterKeeps DEF VerifyRefuse
  <2>2. Rest'
    BY <1>a, <1>3 DEF VerifyRefuse, Goto, BusyHasCall, historyVars
  <2> QED
    BY <2>1, <2>2, <1>b
<1>4. ASSUME NEW t \in Tasks, VerifyAccept(t) PROVE VTypeInv'
  <2>1. call[t].txid \in Txids
    BY <1>a, <1>4, CallsAssumption DEF VerifyAccept, Credit, BusyHasCall, Call
  <2>2. StoreInv'
    BY <1>0, <1>4, <2>1, MarkUsedKeeps DEF VerifyAccept
  <2>3. Rest'
    BY <1>a, <1>4, <2>1 DEF VerifyAccept, Credit, Goto, BusyHasCall
  <2> QED
    BY <2>2, <2>3, <1>b
<1>5. ASSUME NEW t \in Tasks, Return(t) PROVE VTypeInv'
  <2>1. StoreInv'
    BY <1>0, <1>5, StoreStutterKeeps DEF Return
  <2>2. Rest'
    BY <1>a, <1>5, RetriesAssumption DEF Return, Goto, BusyHasCall, historyVars
  <2> QED
    BY <2>1, <2>2, <1>b
<1>6. ASSUME NEW x \in Txids, Confirm(x) PROVE VTypeInv'
  <2>1. StoreInv'
    BY <1>0, <1>6, StoreStutterKeeps DEF Confirm
  <2>2. Rest'
    BY <1>a, <1>6 DEF Confirm, taskVars, historyVars, BusyHasCall
  <2> QED
    BY <2>1, <2>2, <1>b
<1>7. CASE Clock
  <2>1. StoreInv'
    BY <1>0, <1>7, TickKeeps DEF Clock
  <2>2. Rest'
    BY <1>a, <1>7 DEF Clock, taskVars, historyVars, BusyHasCall
  <2> QED
    BY <2>1, <2>2, <1>b
<1>8. CASE ProcessRestart
  <2>1. StoreInv'
    BY <1>0, <1>8 DEF ProcessRestart, StoreInv, StoreTypeOK, StoreAgrees
  <2>2. Rest'
    BY <1>a, <1>8, RetriesAssumption DEF ProcessRestart, NoCall, BusyHasCall
  <2> QED
    BY <2>1, <2>2, <1>b
<1>9. CASE UNCHANGED verifierVars
  <2>1. StoreInv'
    BY <1>0, <1>9, StoreStutterKeeps DEF verifierVars
  <2>2. Rest'
    BY <1>a, <1>9 DEF verifierVars, taskVars, historyVars, BusyHasCall
  <2> QED
    BY <2>1, <2>2, <1>b
<1> QED
  BY <1>1, <1>2, <1>3, <1>4, <1>5, <1>6, <1>7, <1>8, <1>9
     DEF VerifierNext, VerifierStep

(* pc, call and attempt keep their types, and so do the store and the      *)
(* history, under any interleaving of handlers and restarts.               *)
THEOREM VerifierTypes == VerifierSpec => []VerifierTypeOK
<1>1. VerifierInit => VTypeInv
  BY VerifierStart DEF VInv
<1>2. VTypeInv => VerifierTypeOK
  BY DEF VTypeInv
<1> QED
  BY <1>1, <1>2, VTypeStep, PTL DEF VerifierSpec
-----------------------------------------------------------------------------
(* Handlers that are querying before and after a step. *)
LEMMA OverlapShrinks ==
  ASSUME OverlapBound, VTypeInv, UNCHANGED credited,
         \A x \in Txids : Querying(x)' \subseteq Querying(x)
  PROVE  OverlapBound'
<1> SUFFICES ASSUME NEW x \in Txids
             PROVE  credited'[x] + Cardinality(Querying(x)') <= Cardinality(Tasks)
  BY DEF OverlapBound
<1>1. Cardinality(Querying(x)') <= Cardinality(Querying(x))
  BY QueryingFinite, FS_Subset
<1>2. Cardinality(Querying(x)') \in Nat
  BY QueryingFinite, FS_Subset, FS_CardinalityType
<1>3. credited[x] + Cardinality(Querying(x)) <= Cardinality(Tasks)
  BY DEF OverlapBound
<1> QED
  BY <1>1, <1>2, <1>3, QueryingFinite DEF VTypeInv, VerifierTypeOK

(* The step that checks an id: it is either refused, or has no acceptance. *)
LEMMA BeginKeeps ==
  ASSUME VInv, NEW t \in Tasks, NEW c \in Calls, VerifyBegin(t, c)
  PROVE  NoPaymentBurnt' /\ CreditedIsSpent' /\ OverlapBound' /\ ValidIsPaid'
           /\ RestartsCounted'
<1> USE DEF VInv
<1>0. c.txid \in Txids
  BY CallsAssumption DEF Call
<1>1. UNCHANGED <<usedTxids, credited, everCredited, restarts, ledger>>
  BY CheckUsedKeeps, <1>0
     DEF VerifyBegin, StartCall, historyVars, VTypeInv, VerifierTypeOK, StoreInv
<1>2. NoPaymentBurnt' /\ CreditedIsSpent' /\ RestartsCounted'
  BY <1>1 DEF NoPaymentBurnt, CreditedIsSpent, RestartsCounted
<1>3. ValidIsPaid'
  BY <1>1 DEF ValidIsPaid, VerifyBegin, StartCall, Goto, VTypeInv, VerifierTypeOK, Acceptable, Matches
<1>4. ASSUME NEW x \in Txids
      PROVE  credited'[x] + Cardinality(Querying(x)') <= Cardinality(Tasks)
  <2>1. CASE x = c.txid /\ x \notin usedTxids
    <3>1. credited[x] = 0
      BY <2>1 DEF CreditedIsSpent, VTypeInv, VerifierTypeOK
    <3>2. Querying(x)' \subseteq Tasks
      BY DEF Querying
    <3>3. Cardinality(Querying(x)') <= Cardinality(Tasks)
      BY <3>2, TasksAssumption, FS_Subset
    <3>4. Cardinality(Querying(x)') \in Nat
      BY <3>2, TasksAssumption, FS_Subset, FS_CardinalityType
    <3> QED
      BY <3>1, <3>3, <3>4, <1>1
  <2>2. CASE x # c.txid \/ x \in usedTxids
    <3>1. Querying(x)' = Querying(x)
      BY <2>2 DEF Querying, VerifyBegin, StartCall, Goto, IsUsed, VTypeInv, VerifierTypeOK
    <3> QED
      BY <3>1, <1>1 DEF OverlapBound
  <2> QED
    BY <2>1, <2>2
<1> QED
  BY <1>2, <1>3, <1>4 DEF OverlapBound

(* The acceptance: one handler fewer is querying, one acceptance is added. *)
LEMMA AcceptKeeps ==
  ASSUME VInv, NEW t \in Tasks, VerifyAccept(t)
  PROVE  NoPaymentBurnt' /\ CreditedIsSpent' /\ OverlapBound' /\ ValidIsPaid'
           /\ RestartsCounted'
<1> USE DEF VInv
<1> DEFINE y == call[t].txid
<1> USE DEF VerifyAccept, Credit, Goto
<1>0. VTypeInv /\ VerifierTypeOK
  BY DEF VTypeInv
<1>1. y \in Txids
  BY CallsAssumption DEF VTypeInv, BusyHasCall, Call
<1>2. usedTxids' = usedTxids \cup {y}
  BY DEF MarkUsed
<1>3. credited' = [credited EXCEPT ![y] = @ + 1] /\ y \in ledger /\ Acceptable(call[t])
  OBVIOUS
<1>4. NoPaymentBurnt' /\ CreditedIsSpent'
  BY <1>0, <1>1, <1>2, <1>3 DEF NoPaymentBurnt, CreditedIsSpent, VerifierTypeOK
<1>5. ValidIsPaid'
  BY <1>0, <1>2, <1>3 DEF ValidIsPaid, VerifierTypeOK, Acceptable, Matches
<1>6. RestartsCounted'
  BY <1>0 DEF RestartsCounted
<1>7. ASSUME NEW x \in Txids
      PROVE  credited'[x] + Cardinality(Querying(x)') <= Cardinality(Tasks)
  <2>1. CASE x = y
    <3>1. t \in Querying(x) /\ Querying(x)' = Querying(x) \ {t}
      BY <2>1, <1>0 DEF Querying, VerifierTypeOK
    <3>2. Cardinality(Querying(x)') = Cardinality(Querying(x)) - 1
      BY <3>1, QueryingFinite, FS_RemoveElement
    <3>3. credited'[x] = credited[x] + 1
      BY <2>1, <1>0, <1>1, <1>3 DEF VerifierTypeOK
    <3> QED
      BY <3>2, <3>3, <1>0, QueryingFinite DEF OverlapBound, VerifierTypeOK
  <2>2. CASE x # y
    <3>1. Querying(x)' = Querying(x)
      BY <2>2, <1>0 DEF Querying, VerifierTypeOK
    <3>2. credited'[x] = credited[x]
      BY <2>2, <1>0, <1>1, <1>3 DEF VerifierTypeOK
    <3> QED
      BY <3>1, <3>2 DEF OverlapBound
  <2> QED
    BY <2>1, <2>2
<1> QED
  BY <1>4, <1>5, <1>6, <1>7 DEF OverlapBound

(* The steps that neither spend an id nor count an acceptance. *)
LEMMA QuietStepKeeps ==
  ASSUME VInv,
         UNCHANGED <<usedTxids, credited, everCredited, restarts>>,
         ledger \subseteq ledger',
         \A t \in Tasks : pc'[t] \in {"query", "valid"} =>
           pc'[t] = pc[t] /\ call'[t] = call[t]
  PROVE  NoPaymentBurnt' /\ CreditedIsSpent' /\ OverlapBound' /\ ValidIsPaid'
           /\ RestartsCounted'
<1> USE DEF VInv
<1>1. NoPaymentBurnt' /\ CreditedIsSpent' /\ RestartsCounted'
  BY DEF NoPaymentBurnt, CreditedIsSpent, RestartsCounted
<1>2. ValidIsPaid'
  BY DEF ValidIsPaid, Acceptable, Matches
<1>3. \A x \in Txids : Querying(x)' \subseteq Querying(x)
  BY DEF Querying
<1>4. OverlapBound'
  BY <1>3, OverlapShrinks
<1> QED
  BY <1>1, <1>2, <1>4

(* A restart forgets what was spent and what was accepted together. *)
LEMMA RestartKeeps ==
  ASSUME VInv, ProcessRestart
  PROVE  NoPaymentBurnt' /\ CreditedIsSpent' /\ OverlapBound' /\ ValidIsPaid'
           /\ RestartsCounted'
<1> USE DEF VInv, ProcessRestart
<1>1. NoPaymentBurnt' /\ CreditedIsSpent' /\ ValidIsPaid'
  BY DEF NoPaymentBurnt, CreditedIsSpent, ValidIsPaid
<1>2. RestartsCounted'
  BY RestartsAssumption DEF RestartsCounted, VTypeInv, VerifierTypeOK
<1>3. \A x \in Txids : Querying(x)' = {} /\ credited'[x] = 0
  BY DEF Querying
<1>4. ASSUME NEW x \in Txids
      PROVE  credited'[x] + Cardinality(Querying(x)') <= Cardinality(Tasks)
  <2>1. Cardinality(Querying(x)') = 0
    BY <1>3, FS_EmptySet
  <2>2. Cardinality(Tasks) \in Nat
    BY QueryingFinite
  <2> HIDE DEF VInv, ProcessRestart
  <2> QED
    BY <2>1, <2>2, <1>3
<1>5. OverlapBound'
  BY <1>4 DEF OverlapBound
<1> QED
  BY <1>1, <1>2, <1>5

LEMMA VInvStep == VInv /\ [VerifierNext]_verifierVars => VInv'
<1> SUFFICES ASSUME VInv, [VerifierNext]_verifierVars PROVE VInv'
  OBVIOUS
<1> DEFINE Quiet ==
      /\ UNCHANGED <<usedTxids, credited, everCredited, restarts>>
      /\ ledger \subseteq ledger'
      /\ \A t \in Tasks : pc'[t] \in {"query", "valid"} =>
           pc'[t] = pc[t] /\ call'[t] = call[t]
<1>0. VTypeInv' /\ VTypeInv /\ VerifierTypeOK
  BY VTypeStep DEF VInv, VTypeInv
<1>q. ASSUME Quiet PROVE VInv'
  BY <1>0, <1>q, QuietStepKeeps DEF VInv
<1>1. ASSUME NEW t \in Tasks, NEW c \in Calls, VerifyBegin(t, c) PROVE VInv'
  BY <1>0, <1>1, BeginKeeps DEF VInv
<1>2. ASSUME NEW t \in Tasks, NEW a \in Answers, VerifyRetry(t, a) PROVE Quiet
  BY <1>2 DEF VerifyRetry, TryAgain, storeVars, historyVars
<1>3. ASSUME NEW t \in Tasks, NEW a \in Answers, VerifyRefuse(t, a) PROVE Quiet
  BY <1>0, <1>3 DEF VerifyRefuse, Goto, storeVars, historyVars, VerifierTypeOK
<1>4. ASSUME NEW t \in Tasks, VerifyAccept(t) PROVE VInv'
  BY <1>0, <1>4, AcceptKeeps DEF VInv
<1>5. ASSUME NEW t \in Tasks, Return(t) PROVE Quiet
  BY <1>0, <1>5 DEF Return, Goto, storeVars, historyVars, VerifierTypeOK
<1>6. ASSUME NEW x \in Txids, Confirm(x) PROVE Quiet
  BY <1>6 DEF Confirm, storeVars, taskVars, historyVars
<1>7. CASE Clock
  <2>1. Quiet
    BY <1>7 DEF Clock, Tick, taskVars, historyVars
  <2> QED
    BY <2>1, <1>q
<1>8. CASE ProcessRestart
  BY <1>0, <1>8, RestartKeeps DEF VInv
<1>9. CASE UNCHANGED verifierVars
  <2>1. Quiet
    BY <1>9 DEF verifierVars, storeVars, taskVars, historyVars
  <2> QED
    BY <2>1, <1>q
<1> HIDE DEF Quiet
<1> QED
  BY <1>q, <1>1, <1>2, <1>3, <1>4, <1>5, <1>6, <1>7, <1>8, <1>9
     DEF VerifierNext, VerifierStep

LEMMA VerifierInvariant == VerifierSpec => []VInv
  BY VerifierStart, VInvStep, PTL DEF VerifierSpec
-----------------------------------------------------------------------------
(* A verification that is refused never spends the payment, whatever the   *)
(* indexer answered and however handlers and restarts are interleaved.     *)
THEOREM RefusalSpendsNothing == VerifierSpec => []NoPaymentBurnt
<1>1. VInv => NoPaymentBurnt
  BY DEF VInv
<1> QED
  BY <1>1, VerifierInvariant, PTL

(* Between two restarts a transaction is accepted at most once for each    *)
(* handler that can be between the is_used check and mark_used.            *)
THEOREM CreditsBounded == VerifierSpec => []CreditBound
<1>1. VInv => CreditBound
  BY QueryingFinite DEF VInv, VTypeInv, VerifierTypeOK, OverlapBound, CreditBound
<1> QED
  BY <1>1, VerifierInvariant, PTL

(* What verify_payment accepts is a confirmed transfer of USDC to the      *)
(* backend of at least the amount asked for, and is spent.                 *)
THEOREM AcceptancesArePaid == VerifierSpec => []AcceptedIsPaidAndSpent
<1>1. VInv => AcceptedIsPaidAndSpent
  BY DEF VInv, ValidIsPaid, AcceptedIsPaidAndSpent, Acceptable, Matches, IsUsed
<1> QED
  BY <1>1, VerifierInvariant, PTL

(* With one handler at a time, and as long as the process is not restarted,*)
(* no transaction is ever accepted twice.                                  *)
THEOREM SerialAcceptedOnce ==
  ASSUME Cardinality(Tasks) = 1, MaxRestarts = 0
  PROVE  VerifierSpec => []AcceptedOnce
<1>1. VInv => AcceptedOnce
  <2> SUFFICES ASSUME VInv, NEW x \in Txids PROVE everCredited[x] <= 1
    BY DEF AcceptedOnce
  <2>1. everCredited = credited
    BY DEF VInv, RestartsCounted, VTypeInv, VerifierTypeOK
  <2>2. credited[x] + Cardinality(Querying(x)) <= 1
    BY DEF VInv, OverlapBound
  <2> QED
    BY <2>1, <2>2, QueryingFinite DEF VInv, VTypeInv, VerifierTypeOK
<1> QED
  BY <1>1, VerifierInvariant, PTL
-----------------------------------------------------------------------------
(* A restart empties the store, so what was accepted before it may be      *)
(* accepted again: each life of the process adds a bound of its own.       *)
EarlierLives ==
  \A x \in Txids : everCredited[x] - credited[x] <= Cardinality(Tasks) * restarts

LEMMA OneLifeMore ==
  ASSUME NEW n \in Nat
  PROVE  Cardinality(Tasks) * (n + 1) = Cardinality(Tasks) * n + Cardinality(Tasks)
  BY QueryingFinite

LEMMA EarlierLivesStep == VInv /\ EarlierLives /\ [VerifierNext]_verifierVars => EarlierLives'
<1> SUFFICES ASSUME VInv, EarlierLives, [VerifierNext]_verifierVars PROVE EarlierLives'
  OBVIOUS
<1>0. /\ VTypeInv /\ Cardinality(Tasks) \in Nat /\ restarts \in Nat
      /\ credited \in [Txids -> Nat] /\ everCredited \in [Txids -> Nat]
      /\ \A x \in Txids : credited[x] <= Cardinality(Tasks)
  BY QueryingFinite DEF VInv, VTypeInv, VerifierTypeOK, OverlapBound
<1>1. CASE UNCHANGED <<credited, everCredited, restarts>>
  BY <1>1 DEF EarlierLives
<1>2. ASSUME NEW t \in Tasks, VerifyAccept(t) PROVE EarlierLives'
  <2> DEFINE y == call[t].txid
  <2>1. /\ credited' = [credited EXCEPT ![y] = @ + 1] /\ restarts' = restarts
        /\ everCredited' = [everCredited EXCEPT ![y] = @ + 1]
    BY <1>2 DEF VerifyAccept, Credit
  <2> HIDE DEF y
  <2>2. \A x \in Txids : everCredited'[x] - credited'[x] = everCredited[x] - credited[x]
    BY <1>0, <2>1
  <2> QED
    BY <2>1, <2>2 DEF EarlierLives
<1>3. CASE ProcessRestart
  <2> SUFFICES ASSUME NEW x \in Txids
               PROVE  everCredited'[x] - credited'[x] <= Cardinality(Tasks) * restarts'
    BY DEF EarlierLives
  <2>1. everCredited' = everCredited /\ credited'[x] = 0 /\ restarts' = restarts + 1
    BY <1>3 DEF ProcessRestart
  <2>2. everCredited[x] - credited[x] <= Cardinality(Tasks) * restarts
    BY DEF EarlierLives
  <2>3. Cardinality(Tasks) * restarts' = Cardinality(Tasks) * restarts + Cardinality(Tasks)
    BY <1>0, <2>1, OneLifeMore
  <2>4. Cardinality(Tasks) * restarts \in Nat
    BY <1>0
  <2> QED
    BY <1>0, <2>1, <2>2, <2>3, <2>4
<1>4. ASSUME NEW t \in Tasks, NEW c \in Calls, VerifyBegin(t, c) PROVE EarlierLives'
  BY <1>1, <1>4 DEF VerifyBegin, StartCall, historyVars
<1>5. ASSUME NEW t \in Tasks, NEW a \in Answers, VerifyRetry(t, a) \/ VerifyRefuse(t, a)
      PROVE  EarlierLives'
  BY <1>1, <1>5 DEF VerifyRetry, TryAgain, VerifyRefuse, historyVars
<1>6. ASSUME NEW t \in Tasks, Return(t) PROVE EarlierLives'
  BY <1>1, <1>6 DEF Return, historyVars
<1>7. CASE (\E x \in Txids : Confirm(x)) \/ Clock \/ UNCHANGED verifierVars
  BY <1>1, <1>7 DEF Confirm, Clock, historyVars, verifierVars
<1> QED
  BY <1>2, <1>3, <1>4, <1>5, <1>6, <1>7 DEF VerifierNext, VerifierStep

(* Over all its restarts the backend accepts a transaction at most once    *)
(* for each handler that can overlap, in each life of the process: what    *)
(* the in-memory replay store still guarantees of a payment.               *)
AcceptedOncePerLife ==
  \A x \in Txids : everCredited[x] <= Cardinality(Tasks) * (restarts + 1)

(* A restart empties the replay store; each life of the process can accept *)
(* a transaction again, within the bound of one life.                      *)
THEOREM LifetimeCreditsBounded == VerifierSpec => []AcceptedOncePerLife
<1>1. VerifierInit => EarlierLives
  <2> SUFFICES ASSUME VerifierInit, NEW x \in Txids
               PROVE  everCredited[x] - credited[x] <= Cardinality(Tasks) * restarts
    BY DEF EarlierLives
  <2>1. everCredited[x] = 0 /\ credited[x] = 0 /\ restarts = 0
    BY DEF VerifierInit
  <2> QED
    BY <2>1, QueryingFinite
<1>2. VInv /\ EarlierLives => AcceptedOncePerLife
  <2> SUFFICES ASSUME VInv, EarlierLives, NEW x \in Txids
               PROVE  everCredited[x] <= Cardinality(Tasks) * (restarts + 1)
    BY DEF AcceptedOncePerLife
  <2>1. /\ restarts \in Nat /\ Cardinality(Tasks) \in Nat
        /\ credited[x] \in Nat /\ everCredited[x] \in Nat /\ credited[x] <= Cardinality(Tasks)
    BY QueryingFinite DEF VInv, VTypeInv, VerifierTypeOK, OverlapBound
  <2>2. everCredited[x] - credited[x] <= Cardinality(Tasks) * restarts
    BY DEF EarlierLives
  <2>3. /\ Cardinality(Tasks) * (restarts + 1) = Cardinality(Tasks) * restarts + Cardinality(Tasks)
        /\ Cardinality(Tasks) * restarts \in Nat
    BY <2>1, OneLifeMore
  <2> QED
    BY <2>1, <2>2, <2>3
<1> QED
  BY <1>1, <1>2, EarlierLivesStep, VerifierInvariant, PTL DEF VerifierSpec
-----------------------------------------------------------------------------
(* Steps a handler may still take before it is free for another request.   *)
StepsLeft(t) ==
  CASE pc[t] = "query" -> Retries - attempt[t] + 1
    [] pc[t] \in {"valid", "refused"} -> 1
    [] OTHER -> 0

StepsBounded ==
  \A t \in Tasks : /\ StepsLeft(t) \in 0 .. Retries + 1
                   /\ StepsLeft(t) = 0 <=> pc[t] = "idle"

Shortens(t) ==
  pc[t] # "idle" =>
    \/ UNCHANGED <<pc[t], call[t], attempt[t]>>
    \/ StepsLeft(t)' < StepsLeft(t)

LEMMA StepShortens ==
  ASSUME VInv, VInv', [VerifierNext]_verifierVars, NEW t \in Tasks
  PROVE  Shortens(t)
<1>0. /\ pc \in [Tasks -> {"idle", "query", "valid", "refused"}]
      /\ attempt \in [Tasks -> 0 .. Retries - 1] /\ Retries \in Nat \ {0}
      /\ call \in [Tasks -> Calls \cup {None}]
  BY RetriesAssumption DEF VInv, VTypeInv, VerifierTypeOK
<1>1. ASSUME NEW s \in Tasks, NEW c \in Calls, VerifyBegin(s, c) PROVE Shortens(t)
  BY <1>0, <1>1 DEF Shortens, VerifyBegin, StartCall, Goto
<1>2. ASSUME NEW s \in Tasks, NEW a \in Answers, VerifyRetry(s, a) PROVE Shortens(t)
  <2>1. pc' = pc /\ call' = call /\ attempt' = [attempt EXCEPT ![s] = attempt[s] + 1]
    BY <1>2 DEF VerifyRetry, TryAgain
  <2>2. CASE s = t
    <3>1. pc[t] = "query" /\ attempt'[t] = attempt[t] + 1
      BY <1>0, <1>2, <2>1, <2>2 DEF VerifyRetry, TryAgain
    <3> QED
      BY <1>0, <2>1, <3>1 DEF Shortens, StepsLeft
  <2>3. CASE s # t
    BY <1>0, <2>1, <2>3 DEF Shortens
  <2> QED
    BY <2>2, <2>3
<1>3. ASSUME NEW s \in Tasks, NEW label \in {"refused", "valid"}, pc[s] = "query",
             pc' = [pc EXCEPT ![s] = label], UNCHANGED <<call, attempt>>
      PROVE  Shortens(t)
  BY <1>0, <1>3 DEF Shortens, StepsLeft
<1>4. ASSUME NEW s \in Tasks, NEW a \in Answers, VerifyRefuse(s, a) PROVE Shortens(t)
  BY <1>3, <1>4 DEF VerifyRefuse, Goto
<1>5. ASSUME NEW s \in Tasks, VerifyAccept(s) PROVE Shortens(t)
  BY <1>3, <1>5 DEF VerifyAccept, Credit, Goto
<1>6. ASSUME NEW s \in Tasks, Return(s) PROVE Shortens(t)
  BY <1>0, <1>6 DEF Return, Goto, Shortens, StepsLeft
<1>7. CASE ProcessRestart
  BY <1>0, <1>7 DEF ProcessRestart, Shortens, StepsLeft
<1>8. CASE (\E x \in Txids : Confirm(x)) \/ Clock \/ UNCHANGED verifierVars
  BY <1>8 DEF Confirm, Clock, taskVars, verifierVars, Shortens
<1> QED
  BY <1>1, <1>2, <1>4, <1>5, <1>6, <1>7, <1>8 DEF VerifierNext, VerifierStep

(* A verification under way gets shorter with each step that touches it,   *)
(* whatever the indexer answers and whatever other handlers do, and it is  *)
(* Retries + 1 steps long at most: verify_payment's loop has no way to go  *)
(* on for ever.  (That the steps are taken is what EveryCallReturns adds.) *)
THEOREM VerificationShortens ==
  VerifierSpec => []StepsBounded /\ [][\A t \in Tasks : Shortens(t)]_verifierVars
<1>1. VInv => StepsBounded
  BY RetriesAssumption DEF VInv, VTypeInv, VerifierTypeOK, StepsBounded, StepsLeft
<1>2. VInv /\ VInv' /\ [VerifierNext]_verifierVars => [\A t \in Tasks : Shortens(t)]_verifierVars
  BY StepShortens
<1> QED
  BY <1>1, <1>2, VerifierInvariant, PTL DEF VerifierSpec
-----------------------------------------------------------------------------
(* The transfers of USDC to the backend that the chain has confirmed. *)
Paid == {x \in ledger : Tx[x].axfer /\ Tx[x].asset = UsdcAsset /\ Tx[x].receiver = Receiver}

(* What was ever accepted since the process started is one of them, also   *)
(* long after the handler that accepted it has answered.                   *)
CreditedIsPaid == \A x \in Txids : credited[x] > 0 => x \in Paid

LEMMA CreditedIsPaidStep == VInv /\ CreditedIsPaid /\ [VerifierNext]_verifierVars => CreditedIsPaid'
<1> SUFFICES ASSUME VInv, CreditedIsPaid, [VerifierNext]_verifierVars PROVE CreditedIsPaid'
  OBVIOUS
<1>0. credited \in [Txids -> Nat]
  BY DEF VInv, VTypeInv, VerifierTypeOK
<1>1. CASE UNCHANGED credited /\ ledger \subseteq ledger'
  BY <1>1 DEF CreditedIsPaid, Paid
<1>2. ASSUME NEW t \in Tasks, VerifyAccept(t) PROVE CreditedIsPaid'
  <2> DEFINE y == call[t].txid
  <2>1. /\ credited' = [credited EXCEPT ![y] = @ + 1] /\ ledger' = ledger /\ y \in Paid
    BY <1>2 DEF VerifyAccept, Credit, Paid, Acceptable, Matches
  <2> HIDE DEF y
  <2>2. \A x \in Txids : x # y => credited'[x] = credited[x]
    BY <1>0, <2>1
  <2> QED
    BY <2>1, <2>2 DEF CreditedIsPaid, Paid
<1>3. CASE ProcessRestart
  BY <1>3 DEF ProcessRestart, CreditedIsPaid
<1>4. ASSUME NEW t \in Tasks, NEW c \in Calls, VerifyBegin(t, c) PROVE CreditedIsPaid'
  BY <1>1, <1>4 DEF VerifyBegin, StartCall, historyVars
<1>5. ASSUME NEW t \in Tasks, NEW a \in Answers, VerifyRetry(t, a) \/ VerifyRefuse(t, a)
      PROVE  CreditedIsPaid'
  BY <1>1, <1>5 DEF VerifyRetry, TryAgain, VerifyRefuse, historyVars
<1>6. ASSUME NEW t \in Tasks, Return(t) PROVE CreditedIsPaid'
  BY <1>1, <1>6 DEF Return, historyVars
<1>7. CASE (\E x \in Txids : Confirm(x)) \/ Clock \/ UNCHANGED verifierVars
  BY <1>1, <1>7 DEF Confirm, Clock, historyVars, verifierVars
<1> QED
  BY <1>2, <1>3, <1>4, <1>5, <1>6, <1>7 DEF VerifierNext, VerifierStep

(* Everything verify_payment accepted since the process started was a      *)
(* transfer of USDC to the backend, and is on the chain still.             *)
THEOREM CreditsArePaid == VerifierSpec => []CreditedIsPaid
<1>1. VerifierInit => CreditedIsPaid
  BY DEF VerifierInit, CreditedIsPaid
<1> QED
  BY <1>1, CreditedIsPaidStep, VerifierInvariant, PTL DEF VerifierSpec
=============================================================================
