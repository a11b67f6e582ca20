---------------------- MODULE VerificationRequestsProofs ----------------------
(***************************************************************************)
(* Proofs about VerificationRequests, for any users, requests, handlers,   *)
(* numbers and provers: its invariants, that it implements the abstract    *)
(* RequestLifecycle, and that the circuit decides "greater than".          *)
(***************************************************************************)
EXTENDS VerificationRequests, FiniteSetTheorems, TLAPS

SuspendedHandlers == {h \in Handlers : Suspended(h)}

(* The HTTP client is open for one handler, and otherwise for none. *)
ClientHeld ==
  /\ IsFiniteSet(SuspendedHandlers)
  /\ prover = "http" =>
       /\ client = "opened" => \E h \in Handlers : SuspendedHandlers = {h}
       /\ client # "opened" => SuspendedHandlers = {}

(* Also of requests that do not exist yet no result was ever read. *)
ReportedFulfilled == \A r \in RequestIds : reported[r] # {} => Fulfilled(r)

(* A request has no proof before it is fulfilled. *)
PendingUnproved == \A r \in DOMAIN requests : ~Fulfilled(r) => requests[r].proof = None

(* The part of the invariant that is about the stored requests, *)
RequestsInv == ResultBacked /\ AnswersTheQuestion /\ ReportedFulfilled /\ PendingUnproved

(* and all of it. *)
IInv == TypeOK /\ RequestsInv /\ ApprovalStillGrounded /\ ClientHeld

-----------------------------------------------------------------------------
(* Cutting two numbers to ints never turns a smaller into a greater one.   *)
LEMMA ToIntType == ASSUME NEW v \in Int PROVE ToInt(v) \in Int
  BY DEF ToInt

LEMMA ToIntMonotone ==
  ASSUME NEW v \in Int, NEW t \in Int, ToInt(v) > ToInt(t)
  PROVE  v > t
  BY DEF ToInt

(* In boolean mode the income has no fraction: all that is lost by cutting *)
(* the threshold is less than one, and only below zero.                    *)
LEMMA IncomeJudged ==
  ASSUME NEW income \in Int, NEW t \in Int
  PROVE  /\ income > ToInt(t) => 2 * income > t
         /\ ~(income > ToInt(t)) => 2 * income < (IF t >= 0 THEN t + 1 ELSE t + 2)
  BY DEF ToInt

(* prove.go: for numbers that fit into Width bits the subtraction in the   *)
(* field, the range check and the check for zero decide "greater than".    *)
THEOREM CircuitDecides ==
  ASSUME NEW s \in 0 .. (2^Width - 1), NEW t \in 0 .. (2^Width - 1)
  PROVE  GreaterThanCircuit(s, t) <=> s > t
  <1> DEFINE bound == 2^Width
  <1>1. bound \in Nat /\ Prime \in Nat /\ Prime >= 2 * bound
    BY ProverAssumption
  <1>2. s \in 0 .. (bound - 1) /\ t \in 0 .. (bound - 1) OBVIOUS
  <1>3. GreaterThanCircuit(s, t) <=> FieldSub(s, t) < bound /\ FieldSub(s, t) # 0
    BY DEF GreaterThanCircuit
  <1> HIDE DEF bound
  <1>4. CASE s >= t BY <1>1, <1>2, <1>3, <1>4 DEF FieldSub
  <1>5. CASE s < t
    <2>1. FieldSub(s, t) = s - t + Prime BY <1>2, <1>5 DEF FieldSub
    <2>2. FieldSub(s, t) >= bound BY <2>1, <1>1, <1>2, <1>5
    <2> QED BY <2>1, <2>2, <1>1, <1>2, <1>3, <1>5
  <1> QED BY <1>1, <1>2, <1>4, <1>5

(* What the flags of the prover hold is told apart by its unsigned form.   *)
LEMMA UnsignedFits ==
  ASSUME NEW n \in Int, FitsFlag(n)
  PROVE  /\ Unsigned(n) \in 0 .. (2^Width - 1)
         /\ Unsigned(n) = IF n >= 0 THEN n ELSE n + 2^Width
         /\ Unsigned(n) < 2^(Width - 1) <=> n >= 0
  <1> DEFINE bound == 2^Width  half == 2^(Width - 1)
  <1>1. bound \in Nat /\ half \in Nat \ {0} /\ bound = 2 * half BY ProverAssumption
  <1>2. /\ n >= -half /\ n < half
        /\ Unsigned(n) = IF n >= 0 THEN n ELSE n + bound
    BY DEF FitsFlag, Unsigned
  <1>3. /\ Unsigned(n) \in 0 .. (bound - 1)
        /\ Unsigned(n) < half <=> n >= 0
    <2> HIDE DEF bound, half
    <2> QED BY <1>1, <1>2
  <1> QED BY <1>2, <1>3

(* zkp_service.py with the local prover, for any two numbers: it makes a   *)
(* proof when both fit into its signed flags, neither is zero, and their   *)
(* unsigned forms are in order.                                            *)
THEOREM ProverComparesUnsigned ==
  ASSUME NEW s \in Int, NEW t \in Int
  PROVE  ProverAccepts(s, t) <=>
           FitsFlag(s) /\ FitsFlag(t) /\ s # 0 /\ t # 0 /\ Unsigned(s) > Unsigned(t)
  BY UnsignedFits, CircuitDecides DEF ProverAccepts

(* For a positive secret and a positive threshold it makes a proof exactly *)
(* of the statements that Above calls true, unless the secret is too large *)
(* for its flags: the proof of a true statement is refused then, and never *)
(* is a false one proved.                                                  *)
THEOREM ProverIsExact ==
  ASSUME NEW s \in Nat \ {0}, NEW t \in Nat \ {0}
  PROVE  ProverAccepts(s, t) <=> Above(s, t) /\ s < 2^(Width - 1)
  <1> DEFINE half == 2^(Width - 1)
  <1>1. half \in Nat \ {0} BY ProverAssumption
  <1>2. /\ FitsFlag(s) <=> s >= -half /\ s < half
        /\ FitsFlag(t) <=> t >= -half /\ t < half
        /\ Unsigned(s) = s /\ Unsigned(t) = t
    BY DEF FitsFlag, Unsigned
  <1>3. ProverAccepts(s, t) <=> FitsFlag(s) /\ FitsFlag(t) /\ s > t
    BY <1>2, ProverComparesUnsigned
  <1> HIDE DEF half
  <1>4. ProverAccepts(s, t) <=> s > t /\ s < half BY <1>1, <1>2, <1>3
  <1> QED BY <1>4 DEF Above, half

(* Among numbers that fit, a negative one wraps around and counts as larger*)
(* than every other: a negative threshold, which every positive value is   *)
(* above, is proved of no positive value, a negative value is proved to be *)
(* above every positive threshold, and two negative numbers are compared as*)
(* they should be.  (A result needs the comparison of approve_verification *)
(* besides the proof.)                                                     *)
THEOREM ProverWrapsNegatives ==
  ASSUME NEW s \in Int, NEW t \in Int, FitsFlag(s), FitsFlag(t)
  PROVE  /\ s > 0 /\ t < 0 => ~ProverAccepts(s, t)
         /\ s < 0 /\ t > 0 => ProverAccepts(s, t)
         /\ s < 0 /\ t < 0 => (ProverAccepts(s, t) <=> Above(s, t))
  <1> DEFINE half == 2^(Width - 1)  bound == 2^Width
  <1>1. half \in Nat \ {0} /\ bound \in Nat BY ProverAssumption
  <1>2. /\ Unsigned(s) < half <=> s >= 0
        /\ Unsigned(t) < half <=> t >= 0
        /\ Unsigned(s) = IF s >= 0 THEN s ELSE s + bound
        /\ Unsigned(t) = IF t >= 0 THEN t ELSE t + bound
    BY UnsignedFits
  <1>3. ProverAccepts(s, t) <=> s # 0 /\ t # 0 /\ Unsigned(s) > Unsigned(t)
    BY ProverComparesUnsigned
  <1> HIDE DEF half, bound
  <1> QED BY <1>1, <1>2, <1>3 DEF Above

-----------------------------------------------------------------------------
(* What a request asks never changes. *)
KeepsQuestions ==
  \A q \in DOMAIN requests : /\ requests'[q].user = requests[q].user
                             /\ requests'[q].mode = requests[q].mode
                             /\ requests'[q].threshold = requests[q].threshold

LEMMA InitEstablishes == Init => IInv
  <1> SUFFICES ASSUME Init PROVE IInv OBVIOUS
  <1> USE DEF Init, Empty
  <1>1. DOMAIN requests = {} /\ DOMAIN records = {} OBVIOUS
  <1>2. TypeOK BY <1>1 DEF TypeOK
  <1>3. RequestsInv
    BY <1>1 DEF RequestsInv, ResultBacked, AnswersTheQuestion, ReportedFulfilled,
                 PendingUnproved, Fulfilled
  <1>4. SuspendedHandlers = {} BY DEF SuspendedHandlers, Suspended
  <1>5. ApprovalStillGrounded BY DEF ApprovalStillGrounded, Suspended
  <1>6. ClientHeld BY <1>4, FS_EmptySet, NoneAssumption DEF ClientHeld
  <1> QED BY <1>2, <1>3, <1>5, <1>6 DEF IInv

(* What a step that fulfils a request owes the invariant. *)
LEMMA FulfilPreserves ==
  ASSUME IInv, NEW r \in DOMAIN requests, NEW value \in Int,
         NEW result \in BOOLEAN, NEW proof \in Int \cup {None},
         Fulfil(r, value, result, proof),
         result => value > requests[r].threshold,
         requests[r].mode = "boolean" /\ ~result =>
           value < (IF requests[r].threshold >= 0 THEN requests[r].threshold + 1
                    ELSE requests[r].threshold + 2),
         requests[r].mode = "zkp" /\ result => proof # None,
         proof # None => proof = ToInt(requests[r].threshold)
  PROVE  /\ requests' \in [DOMAIN requests -> Request]
         /\ reported' \in [RequestIds -> SUBSET BOOLEAN]
         /\ judged' \in [RequestIds -> Int]
         /\ KeepsQuestions
         /\ RequestsInv'
  <1> DEFINE old == requests[r]
             new == [old EXCEPT !.status = "fulfilled", !.result = result, !.proof = proof]
  <1>1. /\ requests' = [requests EXCEPT ![r] = new]
        /\ reported' = [reported EXCEPT ![r] = @ \cup {result}]
        /\ judged' = [judged EXCEPT ![r] = value]
    BY DEF Fulfil
  <1>2. r \in RequestIds /\ old \in Request BY DEF IInv, TypeOK
  <1>3. /\ new \in Request /\ new.status = "fulfilled" /\ new.result = result
        /\ new.proof = proof /\ new.user = old.user /\ new.mode = old.mode
        /\ new.threshold = old.threshold
    BY <1>2 DEF Request
  <1> HIDE DEF old, new
  <1>4. /\ requests \in [DOMAIN requests -> Request]
        /\ reported \in [RequestIds -> SUBSET BOOLEAN]
        /\ judged \in [RequestIds -> Int]
        /\ DOMAIN requests \subseteq RequestIds
    BY DEF IInv, TypeOK
  <1>5. /\ requests'[r] = new
        /\ DOMAIN requests' = DOMAIN requests
        /\ \A q \in DOMAIN requests : q # r => requests'[q] = requests[q]
        /\ judged'[r] = value
        /\ \A q \in RequestIds : q # r => judged'[q] = judged[q] /\ reported'[q] = reported[q]
    BY <1>1, <1>2, <1>4
  <1>6. requests' \in [DOMAIN requests -> Request] BY <1>1, <1>3, <1>4
  <1>7. reported' \in [RequestIds -> SUBSET BOOLEAN] BY <1>1, <1>4
  <1>8. judged' \in [RequestIds -> Int] BY <1>1, <1>4
  <1>9. KeepsQuestions
    BY <1>3, <1>5 DEF old, KeepsQuestions
  <1>10. ResultBacked'
    <2>1. ASSUME NEW q \in DOMAIN requests'
          PROVE  /\ Fulfilled(q)' <=> requests'[q].result # None
                 /\ reported'[q] # {} => Fulfilled(q)'
                 /\ requests'[q].mode = "zkp" /\ requests'[q].result = TRUE =>
                      requests'[q].proof # None
      <3>1. CASE q = r BY <3>1, <1>3, <1>5, NoneAssumption DEF Fulfilled, old
      <3>2. CASE q # r BY <3>2, <1>4, <1>5 DEF IInv, RequestsInv, ResultBacked, Fulfilled
      <3> QED BY <3>1, <3>2
    <2> QED BY <2>1 DEF ResultBacked
  <1>11. AnswersTheQuestion'
    <2>1. ASSUME NEW q \in DOMAIN requests', Fulfilled(q)'
          PROVE  /\ requests'[q].result => judged'[q] > requests'[q].threshold
                 /\ requests'[q].mode = "boolean" /\ ~requests'[q].result =>
                      judged'[q] < (IF requests'[q].threshold >= 0 THEN requests'[q].threshold + 1
                                    ELSE requests'[q].threshold + 2)
                 /\ requests'[q].proof # None =>
                      ThresholdMatches(requests'[q].proof, ToInt(requests'[q].threshold))
      <3>1. CASE q = r BY <3>1, <1>3, <1>5 DEF old, ThresholdMatches
      <3>2. CASE q # r
        BY <3>2, <2>1, <1>4, <1>5 DEF IInv, RequestsInv, AnswersTheQuestion, Fulfilled
      <3> QED BY <3>1, <3>2
    <2> QED BY <2>1 DEF AnswersTheQuestion, ThresholdMatches, ToInt
  <1>12. ReportedFulfilled'
    BY <1>3, <1>5, <1>4 DEF IInv, RequestsInv, ReportedFulfilled, Fulfilled
  <1>13. PendingUnproved'
    BY <1>3, <1>5, <1>4 DEF IInv, RequestsInv, PendingUnproved, Fulfilled
  <1> QED BY <1>6, <1>7, <1>8, <1>9, <1>10, <1>11, <1>12, <1>13 DEF RequestsInv

(* A step that leaves requests, results and approvals alone. *)
LEMMA SameRequests ==
  ASSUME IInv, UNCHANGED <<requests, reported, judged>>
  PROVE  RequestsInv'
  BY DEF IInv, RequestsInv, ResultBacked, AnswersTheQuestion, ReportedFulfilled,
         PendingUnproved, Fulfilled, ThresholdMatches, ToInt

(* Approvals stay grounded when requests keep their question and no record *)
(* is lost.                                                                *)
LEMMA SameGround ==
  ASSUME IInv,
         \A h \in Handlers : approval'[h] # None => approval'[h] = approval[h],
         DOMAIN requests \subseteq DOMAIN requests', DOMAIN records \subseteq DOMAIN records',
         KeepsQuestions
  PROVE  ApprovalStillGrounded'
  BY DEF IInv, KeepsQuestions, ApprovalStillGrounded, Suspended, Above, ToInt

LEMMA SameClient ==
  ASSUME IInv, UNCHANGED <<approval, prover, client>>
  PROVE  ClientHeld'
  BY DEF IInv, ClientHeld, SuspendedHandlers, Suspended

LEMMA AnchorPreserves ==
  ASSUME IInv, NEW u \in Users, NEW income \in Incomes, Anchor(u, income)
  PROVE  IInv'
  <1> USE DEF Anchor
  <1>1. PICK verified \in Int \ {0} : records' = Put(records, u, verified)
    BY DomainAssumption
  <1>2. TypeOK' BY <1>1 DEF IInv, TypeOK, Put
  <1>3. ApprovalStillGrounded' BY <1>1, SameGround DEF Put, KeepsQuestions
  <1> QED BY <1>2, <1>3, SameRequests, SameClient DEF IInv

LEMMA CreatePreserves ==
  ASSUME IInv, NEW r \in RequestIds, NEW u \in Users, NEW mode \in {"boolean", "zkp"},
         NEW threshold \in Thresholds, CreateRequest(r, u, mode, threshold)
  PROVE  IInv'
  <1> USE DEF CreateRequest, StoreRequest
  <1> DEFINE new == [user |-> u, mode |-> mode, threshold |-> threshold,
                     status |-> "pending", result |-> None, proof |-> None]
  <1>1. new \in Request /\ new.status = "pending" /\ new.result = None /\ new.proof = None
    BY DEF Request
  <1>2. /\ r \notin DOMAIN requests
        /\ requests' = Put(requests, r, new)
        /\ UNCHANGED <<records, approval, prover, client, reported, judged>>
    OBVIOUS
  <1> HIDE DEF new, CreateRequest, StoreRequest
  <1>3. /\ requests'[r] = new
        /\ DOMAIN requests' = DOMAIN requests \cup {r}
        /\ \A q \in DOMAIN requests : requests'[q] = requests[q]
    BY <1>2 DEF Put
  <1>4. TypeOK'
    <2>1. requests' \in [DOMAIN requests' -> Request]
      BY <1>1, <1>2, <1>3 DEF IInv, TypeOK, Put
    <2> QED BY <1>2, <1>3, <2>1 DEF IInv, TypeOK
  <1>5. reported[r] = {}
    BY <1>2 DEF IInv, RequestsInv, ReportedFulfilled, Fulfilled
  <1>6. ResultBacked'
    <2>1. ASSUME NEW q \in DOMAIN requests'
          PROVE  /\ Fulfilled(q)' <=> requests'[q].result # None
                 /\ reported'[q] # {} => Fulfilled(q)'
                 /\ requests'[q].mode = "zkp" /\ requests'[q].result = TRUE =>
                      requests'[q].proof # None
      <3>1. CASE q = r BY <3>1, <1>1, <1>2, <1>3, <1>5, NoneAssumption DEF Fulfilled
      <3>2. CASE q # r BY <3>2, <1>2, <1>3 DEF IInv, RequestsInv, ResultBacked, Fulfilled
      <3> QED BY <3>1, <3>2
    <2> QED BY <2>1 DEF ResultBacked
  <1>7. AnswersTheQuestion'
    BY <1>1, <1>2, <1>3
       DEF IInv, RequestsInv, AnswersTheQuestion, Fulfilled, ThresholdMatches, ToInt
  <1>8. ReportedFulfilled'
    BY <1>2, <1>3, <1>5 DEF IInv, RequestsInv, ReportedFulfilled, Fulfilled
  <1>9. PendingUnproved'
    BY <1>1, <1>2, <1>3 DEF IInv, RequestsInv, PendingUnproved, Fulfilled
  <1>10. ApprovalStillGrounded' BY <1>2, <1>3, SameGround DEF KeepsQuestions
  <1>11. ClientHeld' BY <1>2, SameClient
  <1> QED BY <1>4, <1>6, <1>7, <1>8, <1>9, <1>10, <1>11 DEF IInv, RequestsInv

LEMMA ApproveBooleanPreserves ==
  ASSUME IInv, NEW r \in RequestIds, ApproveBoolean(r)
  PROVE  IInv'
  <1> DEFINE income == records[requests[r].user]
             threshold == requests[r].threshold
             above == Above(income, ToInt(threshold))
  <1>1. /\ r \in DOMAIN requests /\ requests[r].user \in DOMAIN records
        /\ requests[r].mode = "boolean" /\ requests[r].status = "pending"
        /\ Fulfil(r, 2 * income, above, requests[r].proof)
        /\ UNCHANGED <<records, approval, prover, client>>
    BY DEF ApproveBoolean, Approvable, Known
  <1>2. income \in Int /\ threshold \in Int /\ requests[r].proof \in Int \cup {None}
    BY <1>1, DomainAssumption DEF IInv, TypeOK, Request
  <1>3. requests[r].proof = None
    BY <1>1 DEF IInv, RequestsInv, PendingUnproved, Fulfilled
  <1>4. /\ above \in BOOLEAN
        /\ above => 2 * income > threshold
        /\ ~above => 2 * income < (IF threshold >= 0 THEN threshold + 1 ELSE threshold + 2)
    BY <1>2, IncomeJudged DEF Above
  <1>5. 2 * income \in Int BY <1>2
  <1> HIDE DEF income, threshold, above
  <1>6. /\ requests' \in [DOMAIN requests -> Request]
        /\ reported' \in [RequestIds -> SUBSET BOOLEAN]
        /\ judged' \in [RequestIds -> Int]
        /\ KeepsQuestions
        /\ RequestsInv'
    BY <1>1, <1>3, <1>4, <1>5, FulfilPreserves DEF threshold
  <1>7. TypeOK' BY <1>1, <1>6 DEF IInv, TypeOK
  <1>8. ApprovalStillGrounded' BY <1>1, <1>6, SameGround
  <1> QED BY <1>1, <1>6, <1>7, <1>8, SameClient DEF IInv

LEMMA ApproveUnreachedPreserves ==
  ASSUME IInv, NEW h \in Handlers, NEW r \in RequestIds, NEW secret \in Secrets,
         ApproveUnreached(h, r, secret)
  PROVE  IInv'
  <1>1. /\ r \in DOMAIN requests /\ requests[r].mode = "zkp"
        /\ Fulfil(r, secret, FALSE, None)
        /\ UNCHANGED <<records, approval, prover, client>>
    BY DEF ApproveUnreached, Approvable, Known
  <1>2. secret \in Int BY DomainAssumption
  <1>3. /\ requests' \in [DOMAIN requests -> Request]
        /\ reported' \in [RequestIds -> SUBSET BOOLEAN]
        /\ judged' \in [RequestIds -> Int]
        /\ KeepsQuestions
        /\ RequestsInv'
    BY <1>1, <1>2, FulfilPreserves
  <1>4. TypeOK' BY <1>1, <1>3 DEF IInv, TypeOK
  <1>5. ApprovalStillGrounded' BY <1>1, <1>3, SameGround
  <1> QED BY <1>1, <1>3, <1>4, <1>5, SameClient DEF IInv

(* A handler that suspends takes the client, if there is one to take. *)
LEMMA SuspendHoldsClient ==
  ASSUME IInv, NEW h \in Handlers, NEW a \in Approval,
         approval[h] = None, ProverReachable,
         approval' = [approval EXCEPT ![h] = a],
         client' = IF prover = "http" THEN "opened" ELSE client,
         prover' = prover
  PROVE  ClientHeld' /\ SuspendedHandlers' = SuspendedHandlers \cup {h} /\ h \notin SuspendedHandlers
  <1>1. approval \in [Handlers -> Approval \cup {None}] BY DEF IInv, TypeOK
  <1>2. SuspendedHandlers' = SuspendedHandlers \cup {h} /\ h \notin SuspendedHandlers
    BY <1>1, ApprovalAssumption DEF SuspendedHandlers, Suspended
  <1>3. IsFiniteSet(SuspendedHandlers')
    BY <1>2, FS_AddElement DEF IInv, ClientHeld
  <1>4. prover = "http" => SuspendedHandlers = {}
    BY NoneAssumption DEF ProverReachable, IInv, ClientHeld
  <1> QED BY <1>2, <1>3, <1>4 DEF ClientHeld

(* A handler that resumes gives it back for good. *)
LEMMA ResumeReleasesClient ==
  ASSUME IInv, NEW h \in Handlers, Suspended(h), Resume(h), prover' = prover
  PROVE  /\ ClientHeld' /\ SuspendedHandlers' = SuspendedHandlers \ {h}
         /\ h \in SuspendedHandlers
         /\ client' \in {None, "opened", "closed"}
         /\ approval' \in [Handlers -> Approval \cup {None}]
         /\ \A g \in Handlers : approval'[g] # None => approval'[g] = approval[g]
  <1>1. /\ approval \in [Handlers -> Approval \cup {None}]
        /\ client \in {None, "opened", "closed"}
    BY DEF IInv, TypeOK
  <1>2. /\ approval' = [approval EXCEPT ![h] = None]
        /\ client' = IF prover = "http" THEN "closed" ELSE client
    BY DEF Resume
  <1>3. SuspendedHandlers' = SuspendedHandlers \ {h} /\ h \in SuspendedHandlers
    BY <1>1, <1>2 DEF SuspendedHandlers, Suspended
  <1>4. IsFiniteSet(SuspendedHandlers')
    BY <1>3, FS_RemoveElement DEF IInv, ClientHeld
  <1>5. prover = "http" => SuspendedHandlers = {h}
    BY <1>3 DEF IInv, ClientHeld
  <1>6. ClientHeld' BY <1>2, <1>3, <1>4, <1>5 DEF ClientHeld
  <1> QED BY <1>1, <1>2, <1>3, <1>6

LEMMA ApproveBeginPreserves ==
  ASSUME IInv, NEW h \in Handlers, NEW r \in RequestIds, NEW secret \in Secrets,
         ApproveBegin(h, r, secret)
  PROVE  IInv'
  <1> DEFINE a == [request |-> r, secret |-> secret,
                   above |-> Above(ToInt(secret), ToInt(requests[r].threshold))]
  <1>1. /\ approval[h] = None /\ ProverReachable
        /\ r \in DOMAIN requests /\ requests[r].user \in DOMAIN records
        /\ requests[r].mode = "zkp"
        /\ approval' = [approval EXCEPT ![h] = a]
        /\ client' = IF prover = "http" THEN "opened" ELSE client
        /\ UNCHANGED <<requests, records, prover, reported, judged>>
    BY DEF ApproveBegin, Approvable, Known
  <1>2. a \in Approval BY DEF Approval, Above
  <1>3. /\ a.request = r /\ a.secret = secret
        /\ a.above = Above(ToInt(secret), ToInt(requests[r].threshold))
    OBVIOUS
  <1> HIDE DEF a
  <1>4. ClientHeld' BY <1>1, <1>2, SuspendHoldsClient
  <1>5. TypeOK' BY <1>1, <1>2 DEF IInv, TypeOK
  <1>6. ApprovalStillGrounded'
    <2>1. ASSUME NEW g \in Handlers, approval'[g] # None, approval'[g].request # None
          PROVE  LET q == approval'[g].request IN
                 /\ q \in DOMAIN requests /\ requests[q].mode = "zkp"
                 /\ requests[q].user \in DOMAIN records
                 /\ approval'[g].above =
                      Above(ToInt(approval'[g].secret), ToInt(requests[q].threshold))
      <3>1. approval \in [Handlers -> Approval \cup {None}] BY DEF IInv, TypeOK
      <3>2. CASE g = h BY <3>1, <3>2, <1>1, <1>3
      <3>3. CASE g # h
        BY <3>1, <3>3, <2>1, <1>1 DEF IInv, ApprovalStillGrounded, Suspended
      <3> QED BY <3>2, <3>3
    <2> QED BY <2>1, <1>1 DEF ApprovalStillGrounded, Suspended, Above, ToInt
  <1>7. RequestsInv' BY <1>1, SameRequests
  <1> QED BY <1>4, <1>5, <1>6, <1>7 DEF IInv

LEMMA AttestationBeginPreserves ==
  ASSUME IInv, NEW h \in Handlers, NEW secret \in Secrets, AttestationBegin(h, secret)
  PROVE  IInv'
  <1> DEFINE a == [request |-> None, secret |-> secret, above |-> FALSE]
  <1>1. /\ approval[h] = None /\ ProverReachable
        /\ approval' = [approval EXCEPT ![h] = a]
        /\ client' = IF prover = "http" THEN "opened" ELSE client
        /\ UNCHANGED <<requests, records, prover, reported, judged>>
    BY DEF AttestationBegin
  <1>2. a \in Approval /\ a.request = None BY DEF Approval
  <1> HIDE DEF a
  <1>3. ClientHeld' BY <1>1, <1>2, SuspendHoldsClient
  <1>4. TypeOK' BY <1>1, <1>2 DEF IInv, TypeOK
  <1>5. ApprovalStillGrounded'
    <2>1. approval \in [Handlers -> Approval \cup {None}] BY DEF IInv, TypeOK
    <2>2. \A g \in Handlers : approval'[g].request # None => approval'[g] = approval[g]
      BY <2>1, <1>1, <1>2
    <2> QED BY <2>2, <1>1
         DEF IInv, ApprovalStillGrounded, Suspended, Above, ToInt
  <1>6. RequestsInv' BY <1>1, SameRequests
  <1> QED BY <1>3, <1>4, <1>5, <1>6 DEF IInv

LEMMA ApproveEndPreserves ==
  ASSUME IInv, NEW h \in Handlers, ApproveEnd(h)
  PROVE  IInv'
  <1> DEFINE a == approval[h]
             r == a.request
             threshold == requests[r].threshold
  <1>1. /\ Suspended(h) /\ r # None /\ Resume(h) /\ UNCHANGED <<records, prover>>
        /\ \E proof \in ProofOutcomes(ToInt(a.secret), ToInt(threshold)) :
             Fulfil(r, a.secret, a.above /\ (proof # None \/ FALSE), proof)
    BY DEF ApproveEnd, Finish
  <1>2. /\ r \in DOMAIN requests /\ requests[r].mode = "zkp"
        /\ a.above = Above(ToInt(a.secret), ToInt(threshold))
    BY <1>1 DEF IInv, ApprovalStillGrounded
  <1>3. a \in Approval BY <1>1 DEF IInv, TypeOK, Suspended
  <1>4. /\ a.secret \in Int /\ a.above \in BOOLEAN /\ threshold \in Int
        /\ ToInt(a.secret) \in Int /\ ToInt(threshold) \in Int
    <2>1. a.secret \in Int /\ a.above \in BOOLEAN /\ threshold \in Int
      BY <1>2, <1>3, DomainAssumption DEF Approval, IInv, TypeOK, Request
    <2> QED BY <2>1, ToIntType
  <1>5. a.above => a.secret > threshold BY <1>2, <1>4, ToIntMonotone DEF Above
  <1> HIDE DEF a, r, threshold
  <1>6. PICK proof \in ProofOutcomes(ToInt(a.secret), ToInt(threshold)) :
          Fulfil(r, a.secret, a.above /\ (proof # None \/ FALSE), proof)
    BY <1>1
  <1>7. proof \in {ToInt(threshold), None} BY DEF ProofOutcomes
  <1> DEFINE result == a.above /\ (proof # None \/ FALSE)
  <1>8. /\ result \in BOOLEAN /\ (result => a.above /\ proof # None) OBVIOUS
  <1>9. Fulfil(r, a.secret, result, proof) BY <1>6
  <1> HIDE DEF result
  <1>10. /\ requests' \in [DOMAIN requests -> Request]
         /\ reported' \in [RequestIds -> SUBSET BOOLEAN]
         /\ judged' \in [RequestIds -> Int]
         /\ KeepsQuestions
         /\ RequestsInv'
    BY <1>2, <1>4, <1>5, <1>7, <1>8, <1>9, FulfilPreserves DEF threshold
  <1>11. /\ ClientHeld'
         /\ client' \in {None, "opened", "closed"}
         /\ approval' \in [Handlers -> Approval \cup {None}]
         /\ \A g \in Handlers : approval'[g] # None => approval'[g] = approval[g]
    BY <1>1, ResumeReleasesClient
  <1>12. TypeOK' BY <1>1, <1>10, <1>11 DEF IInv, TypeOK
  <1>13. ApprovalStillGrounded' BY <1>1, <1>10, <1>11, SameGround
  <1> QED BY <1>10, <1>11, <1>12, <1>13 DEF IInv

LEMMA AttestationEndPreserves ==
  ASSUME IInv, NEW h \in Handlers, AttestationEnd(h)
  PROVE  IInv'
  <1>1. /\ Suspended(h) /\ Resume(h)
        /\ UNCHANGED <<requests, records, prover, reported, judged>>
    BY DEF AttestationEnd
  <1>2. /\ ClientHeld'
        /\ client' \in {None, "opened", "closed"}
        /\ approval' \in [Handlers -> Approval \cup {None}]
        /\ \A g \in Handlers : approval'[g] # None => approval'[g] = approval[g]
    BY <1>1, ResumeReleasesClient
  <1>3. TypeOK' BY <1>1, <1>2 DEF IInv, TypeOK
  <1>4. ApprovalStillGrounded' BY <1>1, <1>2, SameGround DEF KeepsQuestions
  <1>5. RequestsInv' BY <1>1, SameRequests
  <1> QED BY <1>2, <1>3, <1>4, <1>5 DEF IInv

(* Results read again are results that are there. *)
LEMMA ReadPreserves ==
  ASSUME IInv, UNCHANGED <<requests, records, approval, prover, client, judged>>,
         reported' \in [RequestIds -> SUBSET BOOLEAN],
         \A r \in RequestIds : reported'[r] # {} => Fulfilled(r)
  PROVE  IInv'
  <1>1. TypeOK' BY DEF IInv, TypeOK
  <1>2. RequestsInv'
    <2> USE DEF IInv, TypeOK, RequestsInv
    <2>1. ResultBacked' BY DEF ResultBacked, Fulfilled
    <2>2. AnswersTheQuestion' BY DEF AnswersTheQuestion, Fulfilled, ThresholdMatches, ToInt
    <2>3. ReportedFulfilled' BY DEF ReportedFulfilled, Fulfilled
    <2>4. PendingUnproved' BY DEF PendingUnproved, Fulfilled
    <2> QED BY <2>1, <2>2, <2>3, <2>4
  <1>3. ApprovalStillGrounded' BY SameGround DEF KeepsQuestions
  <1> QED BY <1>1, <1>2, <1>3, SameClient DEF IInv

LEMMA ReadResultPreserves ==
  ASSUME IInv, NEW r \in RequestIds, ReadResult(r)
  PROVE  IInv'
  <1>1. /\ Fulfilled(r)
        /\ reported' = [reported EXCEPT ![r] = @ \cup {requests[r].result}]
        /\ UNCHANGED <<requests, records, approval, prover, client, judged>>
    BY DEF ReadResult, Fulfilled
  <1>2. requests[r].result \in BOOLEAN
    BY <1>1 DEF IInv, TypeOK, RequestsInv, ResultBacked, Fulfilled, Request
  <1>3. reported' \in [RequestIds -> SUBSET BOOLEAN] BY <1>1, <1>2 DEF IInv, TypeOK
  <1>4. \A q \in RequestIds : reported'[q] # {} => Fulfilled(q)
    BY <1>1 DEF IInv, TypeOK, RequestsInv, ReportedFulfilled
  <1> QED BY <1>1, <1>3, <1>4, ReadPreserves

LEMMA ListResultsPreserves == ASSUME IInv, ListResults PROVE IInv'
  <1>1. /\ reported' = [r \in RequestIds |->
             IF r \in DOMAIN requests /\ requests[r].result # None
             THEN reported[r] \cup {requests[r].result} ELSE reported[r]]
        /\ UNCHANGED <<requests, records, approval, prover, client, judged>>
    BY DEF ListResults
  <1>2. \A r \in DOMAIN requests : requests[r].result # None => requests[r].result \in BOOLEAN
    BY DEF IInv, TypeOK, Request
  <1>3. reported' \in [RequestIds -> SUBSET BOOLEAN] BY <1>1, <1>2 DEF IInv, TypeOK
  <1>4. \A r \in RequestIds : reported'[r] # {} => Fulfilled(r)
    BY <1>1 DEF IInv, RequestsInv, ReportedFulfilled, ResultBacked
  <1> QED BY <1>1, <1>3, <1>4, ReadPreserves

LEMMA RestartPreserves == ASSUME IInv, Restart PROVE IInv'
  <1> USE DEF Restart, Empty
  <1>1. DOMAIN requests' = {} /\ DOMAIN records' = {} OBVIOUS
  <1>2. TypeOK' BY <1>1 DEF TypeOK
  <1>3. RequestsInv'
    BY <1>1 DEF RequestsInv, ResultBacked, AnswersTheQuestion, ReportedFulfilled,
                 PendingUnproved, Fulfilled
  <1>4. SuspendedHandlers' = {} BY DEF SuspendedHandlers, Suspended
  <1>5. ApprovalStillGrounded' BY DEF ApprovalStillGrounded, Suspended
  <1>6. ClientHeld' BY <1>4, FS_EmptySet, NoneAssumption DEF ClientHeld
  <1> QED BY <1>2, <1>3, <1>5, <1>6 DEF IInv

LEMMA StepPreserves == IInv /\ [Next]_vars => IInv'
  <1> SUFFICES ASSUME IInv, [Next]_vars PROVE IInv' OBVIOUS
  <1>1. ASSUME NEW u \in Users, NEW income \in Incomes, Anchor(u, income) PROVE IInv'
    BY <1>1, AnchorPreserves
  <1>2. ASSUME NEW r \in RequestIds, NEW u \in Users, NEW mode \in {"boolean", "zkp"},
               NEW threshold \in Thresholds, CreateRequest(r, u, mode, threshold)
        PROVE  IInv'
    BY <1>2, CreatePreserves
  <1>3. ASSUME NEW r \in RequestIds, ApproveBoolean(r) PROVE IInv'
    BY <1>3, ApproveBooleanPreserves
  <1>4. ASSUME NEW h \in Handlers, NEW r \in RequestIds, NEW secret \in Secrets,
               ApproveBegin(h, r, secret)
        PROVE  IInv'
    BY <1>4, ApproveBeginPreserves
  <1>5. ASSUME NEW h \in Handlers, NEW r \in RequestIds, NEW secret \in Secrets,
               ApproveUnreached(h, r, secret)
        PROVE  IInv'
    BY <1>5, ApproveUnreachedPreserves
  <1>6. ASSUME NEW r \in RequestIds, ReadResult(r) PROVE IInv'
    BY <1>6, ReadResultPreserves
  <1>7. ASSUME NEW h \in Handlers, NEW secret \in Secrets, AttestationBegin(h, secret)
        PROVE  IInv'
    BY <1>7, AttestationBeginPreserves
  <1>8. ASSUME NEW h \in Handlers, ApproveEnd(h) PROVE IInv' BY <1>8, ApproveEndPreserves
  <1>9. ASSUME NEW h \in Handlers, AttestationEnd(h) PROVE IInv'
    BY <1>9, AttestationEndPreserves
  <1>10. CASE ListResults BY <1>10, ListResultsPreserves
  <1>11. CASE Restart BY <1>11, RestartPreserves
  <1>12. CASE UNCHANGED vars
    <2>1. UNCHANGED <<requests, records, approval, prover, client, judged>> /\ reported' = reported
      BY <1>12 DEF vars
    <2> QED BY <2>1, ReadPreserves DEF IInv, TypeOK, RequestsInv, ReportedFulfilled
  <1> QED BY <1>1, <1>2, <1>3, <1>4, <1>5, <1>6, <1>7, <1>8, <1>9, <1>10, <1>11, <1>12
          DEF Next

LEMMA Invariance == Spec => []IInv
  BY InitEstablishes, StepPreserves, PTL DEF Spec
-----------------------------------------------------------------------------
(* The stores of main.py and the locals of suspended approvals keep their  *)
(* types.                                                                  *)
THEOREM RequestsTypeCorrect == Spec => []TypeOK
  <1>1. IInv => TypeOK BY DEF IInv
  <1> QED BY <1>1, Invariance, PTL

(* A result is there exactly when the request is fulfilled, and a yes of   *)
(* zkp mode has its proof, however approvals overlap.                      *)
THEOREM ResultsBacked == Spec => []ResultBacked
  <1>1. IInv => ResultBacked BY DEF IInv, RequestsInv
  <1> QED BY <1>1, Invariance, PTL

(* What approve_verification checked before its await still holds when it  *)
(* writes the result, but for the status of the request.                   *)
THEOREM ApprovalsStayGrounded == Spec => []ApprovalStillGrounded
  <1>1. IInv => ApprovalStillGrounded BY DEF IInv
  <1> QED BY <1>1, Invariance, PTL

(* The result answers the question that was asked, for all numbers that    *)
(* the two int() of approve_verification may cut.                          *)
THEOREM ResultsAnswerTheQuestion == Spec => []AnswersTheQuestion
  <1>1. IInv => AnswersTheQuestion BY DEF IInv, RequestsInv
  <1> QED BY <1>1, Invariance, PTL

-----------------------------------------------------------------------------
(* The refinement: what RequestLifecycle sees of the state. *)
StatusOf(r) ==
  IF r \notin DOMAIN requests THEN "absent"
  ELSE IF requests[r].status = "pending" THEN "pending"
  ELSE IF requests[r].result THEN "granted" ELSE "denied"

status == [r \in RequestIds |-> StatusOf(r)]
begun == [r \in RequestIds |-> Cardinality(HandlersOf(r))]

LEMMA LifecycleIs ==
  /\ Lifecycle!Init <=> /\ status = [r \in RequestIds |-> "absent"]
                        /\ begun = [r \in RequestIds |-> 0]
  /\ \A r \in RequestIds :
       /\ status[r] = "absent" /\ status' = [status EXCEPT ![r] = "pending"]
            /\ begun' = begun => Lifecycle!Next
       /\ status[r] = "pending" /\ begun' = [begun EXCEPT ![r] = @ + 1]
            /\ status' = status => Lifecycle!Next
       /\ \A verdict \in {"granted", "denied"} :
            /\ status' = [status EXCEPT ![r] = verdict]
                 /\ begun[r] > 0 /\ begun' = [begun EXCEPT ![r] = @ - 1] => Lifecycle!Next
            /\ status' = [status EXCEPT ![r] = verdict]
                 /\ status[r] = "pending" /\ begun' = begun => Lifecycle!Next
  /\ status' = [r \in RequestIds |-> "absent"] /\ begun' = [r \in RequestIds |-> 0]
       => Lifecycle!Next
  /\ UNCHANGED <<status, begun>> => UNCHANGED Lifecycle!lifecycleVars
  BY DEF status, begun, StatusOf, HandlersOf, Lifecycle!Init, Lifecycle!Next,
         Lifecycle!Create, Lifecycle!Begin, Lifecycle!End, Lifecycle!DecideAtOnce,
         Lifecycle!Forget, Lifecycle!lifecycleVars

(* A step that keeps the requests keeps their status, *)
LEMMA SameStatus == ASSUME requests' = requests PROVE status' = status
  BY DEF status, StatusOf

(* and one that keeps the approvals keeps their number. *)
LEMMA SameBegun == ASSUME approval' = approval PROVE begun' = begun
  BY DEF begun, HandlersOf, Suspended

(* A request that is fulfilled is granted or denied. *)
LEMMA FulfilDecides ==
  ASSUME IInv, NEW r \in DOMAIN requests, NEW value, NEW result \in BOOLEAN, NEW proof,
         Fulfil(r, value, result, proof)
  PROVE  status' = [status EXCEPT ![r] = IF result THEN "granted" ELSE "denied"]
  <1>1. /\ requests \in [DOMAIN requests -> Request]
        /\ DOMAIN requests \subseteq RequestIds
    BY DEF IInv, TypeOK
  <1>2. /\ DOMAIN requests' = DOMAIN requests
        /\ requests'[r].status = "fulfilled" /\ requests'[r].result = result
        /\ \A q \in DOMAIN requests : q # r => requests'[q] = requests[q]
    BY <1>1 DEF Fulfil, Request
  <1>3. StatusOf(r)' = IF result THEN "granted" ELSE "denied" BY <1>2 DEF StatusOf
  <1>4. \A q \in RequestIds : q # r => StatusOf(q)' = StatusOf(q) BY <1>2 DEF StatusOf
  <1> QED BY <1>1, <1>3, <1>4 DEF status

(* The approvals of a request are finitely many, and are counted right.    *)
LEMMA HandlersFinite ==
  ASSUME IInv, NEW r
  PROVE  IsFiniteSet(HandlersOf(r)) /\ Cardinality(HandlersOf(r)) \in Nat
  <1>1. HandlersOf(r) \subseteq SuspendedHandlers BY DEF HandlersOf, SuspendedHandlers
  <1> QED BY <1>1, FS_Subset, FS_CardinalityType DEF IInv, ClientHeld

LEMMA SuspendCounts ==
  ASSUME IInv, NEW h \in Handlers, NEW a \in Approval, approval[h] = None,
         approval' = [approval EXCEPT ![h] = a]
  PROVE  begun' = [r \in RequestIds |-> IF r = a.request THEN begun[r] + 1 ELSE begun[r]]
  <1>1. approval \in [Handlers -> Approval \cup {None}] BY DEF IInv, TypeOK
  <1>2. ASSUME NEW r \in RequestIds
        PROVE  Cardinality(HandlersOf(r)') = IF r = a.request THEN begun[r] + 1 ELSE begun[r]
    <2>1. CASE r = a.request
      <3>1. HandlersOf(r)' = HandlersOf(r) \cup {h} /\ h \notin HandlersOf(r)
        BY <1>1, <2>1, ApprovalAssumption DEF HandlersOf, Suspended
      <3>2. Cardinality(HandlersOf(r) \cup {h}) = Cardinality(HandlersOf(r)) + 1
        BY <3>1, HandlersFinite, FS_AddElement
      <3> QED BY <2>1, <3>1, <3>2 DEF begun
    <2>2. CASE r # a.request
      <3>1. HandlersOf(r)' = HandlersOf(r) BY <1>1, <2>2 DEF HandlersOf, Suspended
      <3> QED BY <2>2, <3>1 DEF begun
    <2> QED BY <2>1, <2>2
  <1> QED BY <1>2 DEF begun

LEMMA ResumeCounts ==
  ASSUME IInv, NEW h \in Handlers, Suspended(h), Resume(h)
  PROVE  /\ begun' = [r \in RequestIds |-> IF r = approval[h].request
                                           THEN begun[r] - 1 ELSE begun[r]]
         /\ \A r \in RequestIds : r = approval[h].request => begun[r] > 0
  <1>1. approval \in [Handlers -> Approval \cup {None}] BY DEF IInv, TypeOK
  <1>2. approval' = [approval EXCEPT ![h] = None] BY DEF Resume
  <1>3. ASSUME NEW r \in RequestIds
        PROVE  /\ Cardinality(HandlersOf(r)') =
                    IF r = approval[h].request THEN begun[r] - 1 ELSE begun[r]
               /\ r = approval[h].request => begun[r] > 0
    <2>1. CASE r = approval[h].request
      <3>1. HandlersOf(r)' = HandlersOf(r) \ {h} /\ h \in HandlersOf(r)
        BY <1>1, <1>2, <2>1 DEF HandlersOf, Suspended
      <3>2. /\ Cardinality(HandlersOf(r) \ {h}) = Cardinality(HandlersOf(r)) - 1
            /\ Cardinality(HandlersOf(r) \ {h}) \in Nat
        BY <3>1, HandlersFinite, FS_RemoveElement, FS_CardinalityType
      <3> QED BY <2>1, <3>1, <3>2, HandlersFinite DEF begun
    <2>2. CASE r # approval[h].request
      <3>1. HandlersOf(r)' = HandlersOf(r) BY <1>1, <1>2, <2>2 DEF HandlersOf, Suspended
      <3> QED BY <2>2, <3>1 DEF begun
    <2> QED BY <2>1, <2>2
  <1> QED BY <1>3 DEF begun

LEMMA InitRefines == Init => Lifecycle!Init
  <1> SUFFICES ASSUME Init PROVE Lifecycle!Init OBVIOUS
  <1>1. \A r \in RequestIds : StatusOf(r) = "absent" BY DEF Init, Empty, StatusOf
  <1>2. \A r \in RequestIds : HandlersOf(r) = {} BY DEF Init, HandlersOf, Suspended
  <1> QED BY <1>1, <1>2, FS_EmptySet, LifecycleIs DEF status, begun

LEMMA StepRefines == IInv /\ [Next]_vars => [Lifecycle!Next]_(Lifecycle!lifecycleVars)
  <1> SUFFICES ASSUME IInv, [Next]_vars
               PROVE  Lifecycle!Next \/ UNCHANGED Lifecycle!lifecycleVars
    OBVIOUS
  <1> DEFINE Goal == Lifecycle!Next \/ UNCHANGED Lifecycle!lifecycleVars
  <1>0. ASSUME UNCHANGED <<requests, approval>> PROVE Goal
    BY <1>0, SameStatus, SameBegun, LifecycleIs
  <1>1. ASSUME NEW r \in RequestIds, NEW u \in Users, NEW mode \in {"boolean", "zkp"},
               NEW threshold \in Thresholds, CreateRequest(r, u, mode, threshold)
        PROVE  Goal
    <2>1. /\ StatusOf(r) = "absent" /\ StatusOf(r)' = "pending"
          /\ \A q \in RequestIds : q # r => StatusOf(q)' = StatusOf(q)
      BY <1>1 DEF CreateRequest, StoreRequest, Put, StatusOf
    <2>2. status[r] = "absent" /\ status' = [status EXCEPT ![r] = "pending"]
      BY <2>1 DEF status
    <2>3. begun' = begun BY <1>1, SameBegun DEF CreateRequest, StoreRequest
    <2> QED BY <2>2, <2>3, LifecycleIs
  <1>2. ASSUME NEW r \in RequestIds, NEW value, NEW result \in BOOLEAN, NEW proof,
               Approvable(r), Fulfil(r, value, result, proof), approval' = approval
        PROVE  Goal
    <2>1. status[r] = "pending" /\ r \in DOMAIN requests
      BY <1>2 DEF Approvable, Known, status, StatusOf
    <2>2. status' = [status EXCEPT ![r] = IF result THEN "granted" ELSE "denied"]
      BY <1>2, <2>1, FulfilDecides
    <2>3. begun' = begun BY <1>2, SameBegun
    <2> QED BY <2>1, <2>2, <2>3, LifecycleIs
  <1>3. ASSUME NEW r \in RequestIds, ApproveBoolean(r) PROVE Goal
    <2> DEFINE result == Above(records[requests[r].user], ToInt(requests[r].threshold))
    <2>1. result \in BOOLEAN BY DEF Above
    <2>2. /\ Approvable(r) /\ approval' = approval
          /\ Fulfil(r, 2 * records[requests[r].user], result, requests[r].proof)
      BY <1>3 DEF ApproveBoolean
    <2> HIDE DEF result
    <2> QED BY <1>2, <2>1, <2>2
  <1>4. ASSUME NEW h \in Handlers, NEW r \in RequestIds, NEW secret \in Secrets,
               ApproveUnreached(h, r, secret)
        PROVE  Goal
    BY <1>2, <1>4 DEF ApproveUnreached
  <1>5. ASSUME NEW h \in Handlers, NEW r \in RequestIds, NEW secret \in Secrets,
               ApproveBegin(h, r, secret)
        PROVE  Goal
    <2> DEFINE a == [request |-> r, secret |-> secret,
                     above |-> Above(ToInt(secret), ToInt(requests[r].threshold))]
    <2>1. a \in Approval /\ a.request = r BY DEF Approval, Above
    <2>2. /\ approval[h] = None /\ approval' = [approval EXCEPT ![h] = a]
          /\ Approvable(r) /\ requests' = requests
      BY <1>5 DEF ApproveBegin
    <2> HIDE DEF a
    <2>3. begun' = [begun EXCEPT ![r] = @ + 1] BY <2>1, <2>2, SuspendCounts DEF begun
    <2>4. status[r] = "pending" BY <2>2 DEF Approvable, Known, status, StatusOf
    <2> QED BY <2>2, <2>3, <2>4, SameStatus, LifecycleIs
  <1>6. ASSUME NEW h \in Handlers, NEW secret \in Secrets, AttestationBegin(h, secret)
        PROVE  Goal
    <2> DEFINE a == [request |-> None, secret |-> secret, above |-> FALSE]
    <2>1. a \in Approval /\ a.request \notin RequestIds BY NoneAssumption DEF Approval
    <2>2. /\ approval[h] = None /\ approval' = [approval EXCEPT ![h] = a]
          /\ requests' = requests
      BY <1>6 DEF AttestationBegin
    <2> HIDE DEF a
    <2>3. begun' = begun BY <2>1, <2>2, SuspendCounts DEF begun
    <2> QED BY <2>2, <2>3, SameStatus, LifecycleIs
  <1>7. ASSUME NEW h \in Handlers, ApproveEnd(h) PROVE Goal
    <2> DEFINE r == approval[h].request
    <2>1. /\ Suspended(h) /\ Resume(h) /\ r # None
          /\ \E proof : Fulfil(r, approval[h].secret,
                               approval[h].above /\ (proof # None \/ FALSE), proof)
      BY <1>7 DEF ApproveEnd, Finish
    <2>2. r \in DOMAIN requests /\ r \in RequestIds
      BY <2>1 DEF IInv, TypeOK, ApprovalStillGrounded
    <2>3. /\ begun' = [q \in RequestIds |-> IF q = r THEN begun[q] - 1 ELSE begun[q]]
          /\ begun[r] > 0
      BY <2>1, <2>2, ResumeCounts
    <2> HIDE DEF r
    <2>4. begun' = [begun EXCEPT ![r] = @ - 1] BY <2>2, <2>3 DEF begun
    <2>5. \E verdict \in {"granted", "denied"} : status' = [status EXCEPT ![r] = verdict]
      <3>1. PICK proof : Fulfil(r, approval[h].secret,
                                approval[h].above /\ (proof # None \/ FALSE), proof)
        BY <2>1
      <3> DEFINE result == approval[h].above /\ (proof # None \/ FALSE)
      <3>2. result \in BOOLEAN /\ Fulfil(r, approval[h].secret, result, proof) BY <3>1
      <3> HIDE DEF result
      <3> QED BY <2>2, <3>2, FulfilDecides
    <2> QED BY <2>2, <2>3, <2>4, <2>5, LifecycleIs
  <1>8. ASSUME NEW h \in Handlers, AttestationEnd(h) PROVE Goal
    <2>1. /\ Suspended(h) /\ Resume(h) /\ approval[h].request \notin RequestIds
          /\ requests' = requests
      BY <1>8, NoneAssumption DEF AttestationEnd
    <2>2. begun' = begun BY <2>1, ResumeCounts DEF begun
    <2> QED BY <2>1, <2>2, SameStatus, LifecycleIs
  <1>9. CASE Restart
    <2>1. \A r \in RequestIds : StatusOf(r)' = "absent" BY <1>9 DEF Restart, Empty, StatusOf
    <2>2. \A r \in RequestIds : HandlersOf(r)' = {} BY <1>9 DEF Restart, HandlersOf, Suspended
    <2>3. /\ status' = [r \in RequestIds |-> "absent"]
          /\ begun' = [r \in RequestIds |-> 0]
      BY <2>1, <2>2, FS_EmptySet DEF status, begun
    <2> QED BY <2>3, LifecycleIs
  <1>10. CASE Next
    BY <1>0, <1>1, <1>3, <1>4, <1>5, <1>6, <1>7, <1>8, <1>9, <1>10
       DEF Next, Anchor, ReadResult, ListResults
  <1>11. CASE UNCHANGED vars BY <1>0, <1>11 DEF vars
  <1> QED BY <1>10, <1>11

(* main.py, with any number of approvals and attestations suspended in a   *)
(* prover of any kind, implements the lifecycle of requests.               *)
THEOREM ImplementsLifecycle == Spec => LifecycleSpec
  <1>1. Spec => Lifecycle!Init /\ [][Lifecycle!Next]_(Lifecycle!lifecycleVars)
    BY InitRefines, StepRefines, Invariance, PTL DEF Spec
  <1> QED BY <1>1 DEF LifecycleSpec, Lifecycle!Spec

-----------------------------------------------------------------------------
(* An approval that stores its result leaves the other requests alone. *)
LEMMA FulfilOther ==
  ASSUME IInv, NEW r \in RequestIds, NEW q, q # r, NEW value, NEW result, NEW proof,
         Settled(r), Fulfil(q, value, result, proof), HandlersOf(r)' = {}
  PROVE  /\ Settled(r)' /\ requests'[r] = requests[r] /\ judged'[r] = judged[r]
         /\ reported'[r] = reported[r]
  <1>1. /\ DOMAIN requests' = DOMAIN requests /\ r \in DOMAIN requests
        /\ requests'[r] = requests[r]
    BY DEF Fulfil, Settled, Fulfilled, IInv, TypeOK
  <1>2. reported'[r] = reported[r] /\ judged'[r] = judged[r] BY DEF Fulfil, IInv, TypeOK
  <1> QED BY <1>1, <1>2 DEF Settled, Fulfilled

LEMMA StepSettled == IInv /\ [Next]_vars => SettledStays
  <1> SUFFICES ASSUME IInv, [Next]_vars, NEW r \in RequestIds, Settled(r)
               PROVE  \/ Restart
                      \/ /\ Settled(r)' /\ requests'[r] = requests[r] /\ judged'[r] = judged[r]
                         /\ reported'[r] \subseteq reported[r] \cup {requests[r].result}
    BY DEF SettledStays
  <1> DEFINE Kept == /\ Settled(r)' /\ requests'[r] = requests[r] /\ judged'[r] = judged[r]
                     /\ reported'[r] \subseteq reported[r] \cup {requests[r].result}
  <1>0. /\ r \in DOMAIN requests /\ requests[r].status = "fulfilled"
        /\ HandlersOf(r) = {} /\ ~Approvable(r)
    BY DEF Settled, Fulfilled, Approvable
  <1>a. ASSUME approval' = approval PROVE HandlersOf(r)' = {}
    BY <1>0, <1>a DEF HandlersOf, Suspended
  <1>b. ASSUME NEW h \in Handlers, Resume(h) PROVE HandlersOf(r)' = {}
    BY <1>0, <1>b DEF HandlersOf, Suspended, Resume, IInv, TypeOK
  <1>1. ASSUME UNCHANGED <<requests, reported, judged>>, HandlersOf(r)' = {} PROVE Kept
    BY <1>0, <1>1 DEF Settled, Fulfilled
  <1>2. ASSUME UNCHANGED <<requests, judged, approval>>,
               reported'[r] \subseteq reported[r] \cup {requests[r].result}
        PROVE  Kept
    BY <1>0, <1>a, <1>2 DEF Settled, Fulfilled
  <1>3. ASSUME \E u \in Users, income \in Incomes : Anchor(u, income) PROVE Kept
    BY <1>a, <1>1, <1>3 DEF Anchor
  <1>4. ASSUME NEW q \in RequestIds, NEW u \in Users, NEW mode \in {"boolean", "zkp"},
               NEW threshold \in Thresholds, CreateRequest(q, u, mode, threshold)
        PROVE  Kept
    <2>1. /\ r \in DOMAIN requests' /\ requests'[r] = requests[r]
          /\ UNCHANGED <<approval, reported, judged>>
      BY <1>0, <1>4 DEF CreateRequest, StoreRequest, Put
    <2> QED BY <1>0, <1>a, <2>1 DEF Settled, Fulfilled
  <1>5. ASSUME NEW q \in RequestIds, NEW value, NEW result, NEW proof,
               Approvable(q), Fulfil(q, value, result, proof), approval' = approval
        PROVE  Kept
    BY <1>0, <1>a, <1>5, FulfilOther
  <1>6. ASSUME NEW q \in RequestIds, ApproveBoolean(q) PROVE Kept
    BY <1>5, <1>6 DEF ApproveBoolean
  <1>7. ASSUME NEW h \in Handlers, NEW q \in RequestIds, NEW secret \in Secrets,
               ApproveUnreached(h, q, secret)
        PROVE  Kept
    BY <1>5, <1>7 DEF ApproveUnreached
  <1>8. ASSUME NEW h \in Handlers, NEW q \in RequestIds, NEW secret \in Secrets,
               ApproveBegin(h, q, secret)
        PROVE  Kept
    <2> DEFINE a == [request |-> q, secret |-> secret,
                     above |-> Above(ToInt(secret), ToInt(requests[q].threshold))]
    <2>1. /\ approval' = [approval EXCEPT ![h] = a] /\ Approvable(q) /\ a.request = q
          /\ UNCHANGED <<requests, reported, judged>>
      BY <1>8 DEF ApproveBegin
    <2>2. q # r BY <1>0, <2>1
    <2> HIDE DEF a
    <2>3. HandlersOf(r)' = {}
      BY <1>0, <2>1, <2>2 DEF HandlersOf, Suspended, IInv, TypeOK
    <2> QED BY <1>1, <2>1, <2>3
  <1>9. ASSUME NEW h \in Handlers, NEW secret \in Secrets, AttestationBegin(h, secret) PROVE Kept
    <2> DEFINE a == [request |-> None, secret |-> secret, above |-> FALSE]
    <2>1. /\ approval' = [approval EXCEPT ![h] = a] /\ a.request # r
          /\ UNCHANGED <<requests, reported, judged>>
      BY <1>9, NoneAssumption DEF AttestationBegin
    <2> HIDE DEF a
    <2>2. HandlersOf(r)' = {} BY <1>0, <2>1 DEF HandlersOf, Suspended, IInv, TypeOK
    <2> QED BY <1>1, <2>1, <2>2
  <1>10. ASSUME NEW h \in Handlers, ApproveEnd(h) PROVE Kept
    <2> DEFINE q == approval[h].request
    <2>1. /\ Suspended(h) /\ Resume(h)
          /\ \E proof : Fulfil(q, approval[h].secret,
                               approval[h].above /\ (proof # None \/ FALSE), proof)
      BY <1>10 DEF ApproveEnd, Finish
    <2>2. q # r BY <1>0, <2>1 DEF HandlersOf
    <2> HIDE DEF q
    <2> QED BY <1>b, <2>1, <2>2, FulfilOther
  <1>11. ASSUME NEW h \in Handlers, AttestationEnd(h) PROVE Kept
    BY <1>b, <1>1, <1>11 DEF AttestationEnd
  <1>12. ASSUME NEW q \in RequestIds, ReadResult(q) PROVE Kept
    <2>1. /\ UNCHANGED <<requests, judged, approval>>
          /\ reported' = [reported EXCEPT ![q] = @ \cup {requests[q].result}]
      BY <1>12 DEF ReadResult
    <2>2. reported \in [RequestIds -> SUBSET BOOLEAN] BY DEF IInv, TypeOK
    <2>3. reported'[r] \subseteq reported[r] \cup {requests[r].result} BY <2>1, <2>2
    <2> QED BY <1>2, <2>1, <2>3
  <1>13. ASSUME ListResults PROVE Kept BY <1>0, <1>2, <1>13 DEF ListResults
  <1>14. ASSUME UNCHANGED vars PROVE Kept BY <1>a, <1>1, <1>14 DEF vars
  <1> HIDE DEF Kept
  <1>15. ASSUME \E q \in RequestIds :
                  \/ \E u \in Users, mode \in {"boolean", "zkp"}, threshold \in Thresholds :
                       CreateRequest(q, u, mode, threshold)
                  \/ ApproveBoolean(q)
                  \/ \E h \in Handlers, secret \in Secrets :
                       ApproveBegin(h, q, secret) \/ ApproveUnreached(h, q, secret)
                  \/ ReadResult(q)
         PROVE  Kept
    BY <1>4, <1>6, <1>7, <1>8, <1>12, <1>15
  <1>16. ASSUME \E h \in Handlers :
                  \/ \E secret \in Secrets : AttestationBegin(h, secret)
                  \/ ApproveEnd(h)
                  \/ AttestationEnd(h)
         PROVE  Kept
    BY <1>9, <1>10, <1>11, <1>16
  <1>17. Restart \/ Kept BY <1>3, <1>13, <1>14, <1>15, <1>16 DEF Next
  <1> QED BY <1>17 DEF Kept

(* The result of a settled request is final, for any number of approvals   *)
(* and with any prover.                                                    *)
THEOREM ResultsSettle == Spec => ResultsFinal
  BY StepSettled, Invariance, PTL DEF Spec, ResultsFinal

-----------------------------------------------------------------------------
(* What the finding about the HTTP client amounts to, in every instance:   *)
(* once the first proof was asked for and the client is closed, it stays   *)
(* closed, nothing is waited for any more, and every approval of zkp mode  *)
(* denies its request without a proof, until the process restarts.         *)
ClosedForGood ==
  prover = "http" /\ client = "closed" =>
    \/ Restart
    \/ /\ prover' = "http" /\ client' = "closed"
       /\ \A r \in RequestIds : ~Fulfilled(r) /\ Fulfilled(r)' /\ requests'[r].mode = "zkp" =>
            requests'[r].result = FALSE /\ requests'[r].proof = None

LEMMA StepClosed == IInv /\ [Next]_vars => ClosedForGood
  <1> DEFINE Denied(r) == ~Fulfilled(r) /\ Fulfilled(r)' /\ requests'[r].mode = "zkp" =>
                            requests'[r].result = FALSE /\ requests'[r].proof = None
  <1> DEFINE Shut == /\ prover' = "http" /\ client' = "closed"
                     /\ \A r \in RequestIds : Denied(r)
  <1> SUFFICES ASSUME IInv, [Next]_vars, prover = "http", client = "closed"
               PROVE  Restart \/ Shut
    BY DEF ClosedForGood
  <1>0. ~ProverReachable /\ \A h \in Handlers : ~Suspended(h)
    BY NoneAssumption DEF ProverReachable, IInv, ClientHeld, SuspendedHandlers
  <1>1. ASSUME UNCHANGED <<requests, prover, client>> PROVE Shut
    BY <1>1 DEF Fulfilled
  <1>2. ASSUME NEW q \in RequestIds, NEW u \in Users, NEW mode \in {"boolean", "zkp"},
               NEW threshold \in Thresholds, CreateRequest(q, u, mode, threshold)
        PROVE  Shut
    <2>1. /\ requests'[q].status = "pending"
          /\ \A r \in DOMAIN requests' : r # q => r \in DOMAIN requests /\ requests'[r] = requests[r]
          /\ UNCHANGED <<prover, client>>
      BY <1>2 DEF CreateRequest, StoreRequest, Put
    <2> QED BY <2>1 DEF Fulfilled
  <1>3. ASSUME NEW q \in RequestIds, NEW value, NEW result, NEW proof,
               Approvable(q), Fulfil(q, value, result, proof), UNCHANGED <<prover, client>>,
               requests[q].mode = "zkp" => result = FALSE /\ proof = None
        PROVE  Shut
    <2>1. q \in DOMAIN requests /\ requests \in [DOMAIN requests -> Request]
      BY <1>3 DEF Approvable, Known, IInv, TypeOK
    <2>2. /\ requests'[q].mode = requests[q].mode /\ requests'[q].result = result
          /\ requests'[q].proof = proof /\ DOMAIN requests' = DOMAIN requests
          /\ \A r \in DOMAIN requests : r # q => requests'[r] = requests[r]
      BY <1>3, <2>1 DEF Fulfil, Request
    <2>3. ASSUME NEW r \in RequestIds, ~Fulfilled(r), Fulfilled(r)', requests'[r].mode = "zkp"
          PROVE  requests'[r].result = FALSE /\ requests'[r].proof = None
      <3>1. r = q BY <2>2, <2>3 DEF Fulfilled
      <3> QED BY <1>3, <2>2, <2>3, <3>1
    <2> QED BY <1>3, <2>3
  <1>4. ASSUME NEW q \in RequestIds, ApproveBoolean(q) PROVE Shut
    BY <1>3, <1>4 DEF ApproveBoolean
  <1>5. ASSUME NEW h \in Handlers, NEW q \in RequestIds, NEW secret \in Secrets,
               ApproveUnreached(h, q, secret)
        PROVE  Shut
    BY <1>3, <1>5 DEF ApproveUnreached
  <1>6. ASSUME \E u \in Users, income \in Incomes : Anchor(u, income) PROVE Shut
    BY <1>1, <1>6 DEF Anchor
  <1>7. ASSUME ListResults \/ (\E r \in RequestIds : ReadResult(r)) \/ UNCHANGED vars PROVE Shut
    BY <1>1, <1>7 DEF ListResults, ReadResult, vars
  <1> HIDE DEF Shut
  <1>8. ASSUME \E q \in RequestIds :
                 \/ \E u \in Users, mode \in {"boolean", "zkp"}, threshold \in Thresholds :
                      CreateRequest(q, u, mode, threshold)
                 \/ ApproveBoolean(q)
                 \/ \E h \in Handlers, secret \in Secrets :
                      ApproveBegin(h, q, secret) \/ ApproveUnreached(h, q, secret)
                 \/ ReadResult(q)
        PROVE  Shut
    BY <1>0, <1>2, <1>4, <1>5, <1>7, <1>8 DEF ApproveBegin
  <1>9. ~(\E h \in Handlers :
            \/ \E secret \in Secrets : AttestationBegin(h, secret)
            \/ ApproveEnd(h)
            \/ AttestationEnd(h))
    BY <1>0 DEF AttestationBegin, ApproveEnd, Finish, AttestationEnd
  <1> QED BY <1>6, <1>7, <1>8, <1>9 DEF Next

(* An HTTP prover whose client was closed gives no proof any more, whatever*)
(* is approved, by however many handlers.                                  *)
THEOREM HttpProverDeniesForGood == Spec => [][ClosedForGood]_vars
  BY StepClosed, Invariance, PTL DEF Spec
=============================================================================
