------------------------- MODULE VerificationRequests -------------------------
(***************************************************************************)
(* The user side of main.py: a pending verification request is approved,   *)
(* its result decided from the KYC record (boolean mode) or by a ZK proof  *)
(* of a value the user supplies (zkp mode), and read by the institution.   *)
(*                                                                         *)
(* approve_verification suspends only in generate_proof, and only where    *)
(* the prover is really consulted: an approval in boolean mode, or one     *)
(* whose prover fails before its first await, is a single step.  The other *)
(* approvals of zkp mode are two steps, ApproveBegin and ApproveEnd, and   *)
(* any number of handlers may be in between.                               *)
(*                                                                         *)
(* zkp_service.py: the prover is a local binary, or an HTTP service behind *)
(* one cached httpx.AsyncClient.  A client of httpx can be entered once:   *)
(* entering it again, while open or after it is closed, raises, and        *)
(* generate_proof turns that into an invalid result.                       *)
(*                                                                         *)
(* Thresholds and secret values are JSON floats, which the handlers cut to *)
(* an int: they are counted in halves here, so that the cut can matter.    *)
(***************************************************************************)
EXTENDS Integers, FiniteSets

CONSTANTS
  Users, RequestIds,
  Handlers,          \* approve handlers that may be suspended at once
  Incomes,           \* what KYC may be given, of either sign; 0 counts as "nothing found"
  SimulatedIncomes,  \* random.randint(30000, 250000) of the KYC agent
  Thresholds,        \* threshold of a request, in halves
  Secrets,           \* secret_value of an approval, in halves
  Width,             \* bits of the prover's integers (64)
  Prime,             \* order of the field of the prover's circuit (BN254)
  Provers,           \* how the prover may be set up
  ProverFails,       \* may a prover that was reached fail all the same?
  None

ASSUME DomainAssumption ==
  /\ Incomes \subseteq Int
  /\ SimulatedIncomes \subseteq Nat \ {0} /\ SimulatedIncomes # {}
  /\ Thresholds \subseteq Int /\ Secrets \subseteq Int
ASSUME ProverAssumption ==
  /\ Width \in Nat \ {0} /\ 2^(Width - 1) \in Nat \ {0} /\ 2^Width = 2 * 2^(Width - 1)
  /\ 2^Width \in Nat \ {0} /\ Prime \in Nat /\ Prime >= 2 * 2^Width
  /\ Provers \subseteq {"binary", "http", "missing"} /\ ProverFails \in BOOLEAN
ASSUME NoneAssumption ==
  /\ None \notin BOOLEAN /\ None \notin RequestIds /\ None \notin Int
  /\ None \notin {"opened", "closed"}

VARIABLES
  requests,   \* verification_requests
  records,    \* kyc_issuer_agent.truth_registry: income_annual of each record
  approval,   \* what each suspended approve handler holds in its locals
  prover,     \* "http" (http_prover_url is set), "binary", or "missing" (no binary)
  client,     \* ZKPService._client: None, or its httpx state
  reported,   \* history: the results given out for each request
  judged      \* history: the value, in halves, its present result is about

vars == <<requests, records, approval, prover, client, reported, judged>>

Request == [user : Users, mode : {"boolean", "zkp"}, threshold : Thresholds,
            status : {"pending", "fulfilled"}, result : BOOLEAN \cup {None},
            proof : Int \cup {None}]

(* request is None for a handler of /attestation/generate. *)
Approval == [request : RequestIds \cup {None}, secret : Secrets, above : BOOLEAN]

ASSUME ApprovalAssumption == None \notin Approval

TypeOK ==
  /\ requests \in [DOMAIN requests -> Request]
  /\ DOMAIN requests \subseteq RequestIds
  /\ records \in [DOMAIN records -> Int \ {0}]
  /\ DOMAIN records \subseteq Users
  /\ approval \in [Handlers -> Approval \cup {None}]
  /\ prover \in Provers
  /\ client \in {None, "opened", "closed"}
  /\ reported \in [RequestIds -> SUBSET BOOLEAN]
  /\ judged \in [RequestIds -> Int]

Empty == [x \in {} |-> None]

Init ==
  /\ requests = Empty
  /\ records = Empty
  /\ approval = [h \in Handlers |-> None]
  /\ prover \in Provers
  /\ client = None
  /\ reported = [r \in RequestIds |-> {}]
  /\ judged = [r \in RequestIds |-> 0]
-----------------------------------------------------------------------------
Put(d, k, v) == [j \in DOMAIN d \cup {k} |-> IF j = k THEN v ELSE d[j]]

(* Fault: an income nobody extracted is stored as missing. *)
AnchorAsIs(u, income) ==
  /\ records' = Put(records, u, IF income = 0 THEN None ELSE income)
  /\ UNCHANGED <<requests, approval, prover, client, reported, judged>>

(* POST /kyc/anchor and /kyc/upload, as far as approvals see it: the       *)
(* record is replaced; an income of zero is replaced by a random one.      *)
Anchor(u, income) ==
  /\ \E verified \in IF income = 0 THEN SimulatedIncomes ELSE {income} :
       records' = Put(records, u, verified)
  /\ UNCHANGED <<requests, approval, prover, client, reported, judged>>

(* POST /verify/request, the part that stores the request (the quota is    *)
(* the subject of Institutions).                                           *)
StoreRequest(r, u, mode, threshold) ==
  /\ requests' = Put(requests, r,
       [user |-> u, mode |-> mode, threshold |-> threshold,
        status |-> "pending", result |-> None, proof |-> None])
  /\ UNCHANGED <<records, approval, prover, client, reported, judged>>

(* Fault: a new request may take the id of an old one. *)
CreateRequestOver(r, u, mode, threshold) == StoreRequest(r, u, mode, threshold)

CreateRequest(r, u, mode, threshold) ==
  r \notin DOMAIN requests /\ StoreRequest(r, u, mode, threshold)

(* What approve_verification asks before it does anything. *)
Known(r) == r \in DOMAIN requests /\ requests[r].user \in DOMAIN records

(* Fault: the status of the request is not looked at. *)
ApprovableTwice(r) == Known(r)

Approvable(r) == Known(r) /\ requests[r].status = "pending"

(* int() of a float: cut towards zero. *)
ToInt(halves) == IF halves >= 0 THEN halves \div 2 ELSE -((-halves) \div 2)

(* Fault: the threshold itself counts as above it. *)
AtLeast(value, threshold) == value >= threshold

Above(value, threshold) == value > threshold

Fulfil(r, value, result, proof) ==
  /\ requests' = [requests EXCEPT ![r].status = "fulfilled",
                                  ![r].result = result, ![r].proof = proof]
  /\ reported' = [reported EXCEPT ![r] = @ \cup {result}]
  /\ judged' = [judged EXCEPT ![r] = value]

(* Boolean mode: the record at the moment of the approval decides. *)
ApproveBoolean(r) ==
  /\ Approvable(r)
  /\ requests[r].mode = "boolean"
  /\ LET income == records[requests[r].user] IN
       Fulfil(r, 2 * income, Above(income, ToInt(requests[r].threshold)), requests[r].proof)
  /\ UNCHANGED <<records, approval, prover, client>>

(* generate_proof comes to an await: with the binary, if it is installed,  *)
(* always; with the HTTP service only if its client was never entered.     *)
ProverReachable == prover = "binary" \/ (prover = "http" /\ client = None)

(* zkp mode, up to the await; a secret value of zero counts as missing. *)
ApproveBegin(h, r, secret) ==
  /\ approval[h] = None
  /\ secret # 0
  /\ Approvable(r)
  /\ requests[r].mode = "zkp"
  /\ ProverReachable
  /\ approval' = [approval EXCEPT
       ![h] = [request |-> r, secret |-> secret,
               above |-> Above(ToInt(secret), ToInt(requests[r].threshold))]]
  /\ client' = IF prover = "http" THEN "opened" ELSE client
  /\ UNCHANGED <<requests, records, prover, reported, judged>>

(* zkp mode, no binary or no way into the client: generate_proof returns   *)
(* invalid without suspending, the request is fulfilled with no proof.     *)
ApproveUnreached(h, r, secret) ==
  /\ approval[h] = None
  /\ Approvable(r)
  /\ secret # 0
  /\ requests[r].mode = "zkp"
  /\ ~ProverReachable
  /\ Fulfil(r, secret, FALSE, None)
  /\ UNCHANGED <<records, approval, prover, client>>

(* circuits/prove.go: the difference of the two field elements must fit    *)
(* into Width bits, of which at least one is set.                          *)
FieldSub(s, t) == IF s >= t THEN s - t ELSE s - t + Prime

GreaterThanCircuit(s, t) ==
  LET diff == FieldSub(s, t) IN diff < 2^Width /\ diff # 0

(* circuits/cmd/prover: the flags are signed integers, and one outside     *)
(* their range ends the program; zero is taken for a missing flag; what is *)
(* left is converted to unsigned numbers for the circuit.                  *)
FitsFlag(n) == n >= -(2^(Width - 1)) /\ n < 2^(Width - 1)

Unsigned(n) == IF n >= 0 THEN n ELSE n + 2^Width

ProverAccepts(secret, threshold) ==
  /\ FitsFlag(secret) /\ FitsFlag(threshold)
  /\ secret # 0 /\ threshold # 0
  /\ GreaterThanCircuit(Unsigned(secret), Unsigned(threshold))

(* POST /attestation/generate in zkp mode asks the same service for a proof*)
(* of no request: all it shares with the approvals is the client.          *)
AttestationBegin(h, secret) ==
  /\ approval[h] = None
  /\ secret # 0
  /\ ProverReachable
  /\ approval' = [approval EXCEPT ![h] = [request |-> None, secret |-> secret, above |-> FALSE]]
  /\ client' = IF prover = "http" THEN "opened" ELSE client
  /\ UNCHANGED <<requests, records, prover, reported, judged>>

(* How the await of generate_proof may end: with a proof, whose public     *)
(* input is the threshold it was asked for, or without one.                *)
ProofOutcomes(secret, threshold) ==
  (IF prover = "http" \/ ProverAccepts(secret, threshold) THEN {threshold} ELSE {None})
    \cup (IF ProverFails THEN {None} ELSE {})

Suspended(h) == approval[h] # None

(* Leaving the async with closes the client. *)
Resume(h) ==
  /\ approval' = [approval EXCEPT ![h] = None]
  /\ client' = IF prover = "http" THEN "closed" ELSE client

(* The await of an approval returns: proof, result and status are written  *)
(* without looking at the request again.                                   *)
Finish(h, trusted) ==
  /\ Suspended(h)
  /\ approval[h].request # None
  /\ LET a == approval[h] IN
       \E proof \in ProofOutcomes(ToInt(a.secret), ToInt(requests[a.request].threshold)) :
         Fulfil(a.request, a.secret, a.above /\ (proof # None \/ trusted), proof)
  /\ Resume(h)
  /\ UNCHANGED <<records, prover>>

(* Faults: the result ignores whether there is a proof; the handler waits  *)
(* for a request that another one has fulfilled.                           *)
ApproveEndUnproved(h) == Finish(h, TRUE)
ApproveEndIfPending(h) == Finish(h, FALSE) /\ requests[approval[h].request].status = "pending"

ApproveEnd(h) == Finish(h, FALSE)

AttestationEnd(h) ==
  /\ Suspended(h)
  /\ approval[h].request = None
  /\ Resume(h)
  /\ UNCHANGED <<requests, records, prover, reported, judged>>

(* POST /verify/income of a fulfilled request. *)
ReadResult(r) ==
  /\ r \in DOMAIN requests
  /\ requests[r].status = "fulfilled"
  /\ reported' = [reported EXCEPT ![r] = @ \cup {requests[r].result}]
  /\ UNCHANGED <<requests, records, approval, prover, client, judged>>

(* GET /verify/requests: the results of all requests so far. *)
ListResults ==
  /\ reported' = [r \in RequestIds |->
       IF r \in DOMAIN requests /\ requests[r].result # None
       THEN reported[r] \cup {requests[r].result} ELSE reported[r]]
  /\ UNCHANGED <<requests, records, approval, prover, client, judged>>

(* The process restarts: everything was in memory, the settings of the     *)
(* prover are read again.                                                  *)
Restart ==
  /\ requests' = Empty
  /\ records' = Empty
  /\ approval' = [h \in Handlers |-> None]
  /\ prover' \in Provers
  /\ client' = None
  /\ reported' = [r \in RequestIds |-> {}]
  /\ judged' = [r \in RequestIds |-> 0]

Next ==
  \/ \E u \in Users, income \in Incomes : Anchor(u, income)
  \/ \E r \in RequestIds :
       \/ \E u \in Users, mode \in {"boolean", "zkp"}, threshold \in Thresholds :
            CreateRequest(r, u, mode, threshold)
       \/ ApproveBoolean(r)
       \/ \E h \in Handlers, secret \in Secrets :
            ApproveBegin(h, r, secret) \/ ApproveUnreached(h, r, secret)
       \/ ReadResult(r)
  \/ \E h \in Handlers :
       \/ \E secret \in Secrets : AttestationBegin(h, secret)
       \/ ApproveEnd(h)
       \/ AttestationEnd(h)
  \/ ListResults
  \/ Restart

Spec == Init /\ [][Next]_vars

(* The HTTP client gives up after 60 seconds, so an approval that waits    *)
(* for the HTTP prover ends.  The binary is awaited without a timeout:     *)
(* nothing is assumed of it.                                               *)
FairSpec ==
  Spec /\ \A h \in Handlers : WF_vars(prover = "http" /\ (ApproveEnd(h) \/ AttestationEnd(h)))
-----------------------------------------------------------------------------
Fulfilled(r) == r \in DOMAIN requests /\ requests[r].status = "fulfilled"

(* A result is there, and can be read, exactly when the request is         *)
(* fulfilled; a positive result of zkp mode has its proof beside it, also  *)
(* when several approvals of the request have written it in turn.          *)
ResultBacked ==
  \A r \in DOMAIN requests :
    /\ Fulfilled(r) <=> requests[r].result # None
    /\ reported[r] # {} => Fulfilled(r)
    /\ requests[r].mode = "zkp" /\ requests[r].result = TRUE => requests[r].proof # None

(* zkp_service.verify_proof begins with this: the threshold among the      *)
(* public inputs of a proof must be the one expected.  (What follows there,*)
(* the call of a verifier, is not modelled: no handler calls it.)          *)
ThresholdMatches(proof, threshold) == proof = threshold

(* The answer is an answer to the question asked, although both numbers    *)
(* were cut to ints.  A yes means that the value which was judged, uncut,  *)
(* is above the stated threshold.  In boolean mode a no means that it is   *)
(* not, except below zero, where the cut raises the threshold: there a     *)
(* record may be refused that is above it by less than one.  The proof that*)
(* is kept is of the threshold stated.                                     *)
AnswersTheQuestion ==
  \A r \in DOMAIN requests : Fulfilled(r) =>
    LET asked == requests[r].threshold IN
    /\ requests[r].result => judged[r] > asked
    /\ requests[r].mode = "boolean" /\ ~requests[r].result =>
         judged[r] < (IF asked >= 0 THEN asked + 1 ELSE asked + 2)
    /\ requests[r].proof # None => ThresholdMatches(requests[r].proof, ToInt(asked))

(* An approval in flight belongs to a request that still exists, of a user *)
(* with a KYC record, in zkp mode: what was checked before the await can   *)
(* have changed only in the status of the request.                         *)
ApprovalStillGrounded ==
  \A h \in Handlers : Suspended(h) /\ approval[h].request # None =>
    LET r == approval[h].request IN
    /\ r \in DOMAIN requests /\ requests[r].mode = "zkp"
    /\ requests[r].user \in DOMAIN records
    /\ approval[h].above = Above(ToInt(approval[h].secret), ToInt(requests[r].threshold))

(* The approvals of a request that are suspended. *)
HandlersOf(r) == {h \in Handlers : Suspended(h) /\ approval[h].request = r}

(* The promise of RequestLifecycle. *)
Lifecycle == INSTANCE RequestLifecycle WITH
  status <- [r \in RequestIds |->
    IF r \notin DOMAIN requests THEN "absent"
    ELSE IF requests[r].status = "pending" THEN "pending"
    ELSE IF requests[r].result THEN "granted" ELSE "denied"],
  begun <- [r \in RequestIds |-> Cardinality(HandlersOf(r))]

(* A request is decided only by approvals begun while it was pending, and  *)
(* is never pending again: however approvals of both modes, attestations,  *)
(* failures of the prover and restarts interleave, main.py implements the  *)
(* abstract lifecycle.                                                     *)
LifecycleSpec == Lifecycle!Spec

(* A request is settled when it is fulfilled and no approval of it is      *)
(* suspended.                                                              *)
Settled(r) == Fulfilled(r) /\ HandlersOf(r) = {}

(* A result that no suspended approval can still reach is final, and is    *)
(* the one everybody who asks is given: whatever approvals, attestations,  *)
(* uploads and new requests there are, a settled request stays settled and *)
(* as it is, up to a restart of the process.  (A result that is not settled*)
(* can change, which is what overlapping approvals do to it.)              *)
SettledStays ==
  \A r \in RequestIds : Settled(r) =>
    \/ Restart
    \/ /\ Settled(r)' /\ requests'[r] = requests[r] /\ judged'[r] = judged[r]
       /\ reported'[r] \subseteq reported[r] \cup {requests[r].result}

ResultsFinal == [][SettledStays]_vars

(* main.py:576, "Once approved, the ZKP is generated": a request of zkp    *)
(* mode is fulfilled with a proof.                                         *)
ZkpGenerated ==
  \A r \in DOMAIN requests : Fulfilled(r) /\ requests[r].mode = "zkp" => requests[r].proof # None

(* With the HTTP prover no approval waits forever. *)
ApprovalEnds == \A h \in Handlers : prover = "http" /\ Suspended(h) ~> ~Suspended(h)
=============================================================================
