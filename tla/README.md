# TLA+ models of TrustAnchor

TrustAnchor lets an institution ask whether a user's income exceeds a threshold.
The user's data is extracted by a KYC agent, which commits to it on the Algorand
ledger; the user approves a request, and the institution reads a yes or a no,
computed from the record ("boolean" mode) or backed by a zero-knowledge proof
("zkp" mode). Institutions pay for onboarding and for a quota of requests in USDC.

These modules model the parts of the program that keep state and decide
something: the payment verifier, the institution and request handlers of the
backend, the KYC agent with the contract it writes to, and the two registry
contracts. TLC checks them on small instances; TLAPS proves the most important
invariants for every instance. Paths below are relative to `src/`; backend is
`projects/TrustAnchor-backend/`, contracts is
`projects/TrustAnchor-contracts/smart_contracts/`.

## 1. Inventory

| component | state | operations | talks to |
|---|---|---|---|
| replay store, backend `payment_verifier.py:44-78` | `_used_txids`, `_txid_timestamps` | `is_used`, `mark_used`, `cleanup_expired` | the verifier |
| payment verifier, `payment_verifier.py:81-271` | the replay store, one HTTP client | `verify_payment` | Algorand indexer (HTTP, awaited, 10 attempts) |
| institutions and quota, `main.py:82, 335-521`, `pricing.py:71-89` | `institution_store`, `_quotas` | register, subscribe, create request | payment verifier (awaited) |
| verification requests, `main.py:206, 524-626, 834-899` | `verification_requests` | create, list, approve, read result, attestation | KYC agent, ZKP service (awaited) |
| ZKP service, `zkp_service.py` | one cached HTTP client | `generate_proof` (HTTP or subprocess) | the prover |
| prover, `circuits/cmd/prover`, `circuits/prove.go` | key files | prove, verify, setup | - |
| KYC agent, `kyc_agent.py` | `truth_registry` | `extract_and_anchor` | algod (blocking), TrustAnchor contract |
| TrustAnchor contract | box map `anchors` | `register_anchor`, ... | - |
| IdentityRegistry contract | admin, box map, count | create, register, deactivate | - |
| TruthRegistry contract | anchors, count, proofs, verifier id | create, set_verifier, register_anchor, verify_zk_claim | IdentityRegistry (inner call) |
| recruiter agent, `recruiter_agent.py` | a wallet, one HTTP client | `verify_income`, `sign_and_send_payment`, `send_usdc_payment` | backend (awaited), algod (blocking) |
| verifier contract, `circuits/verifier_contract.py` (backend holds an identical copy) | two box maps, a counter, the trusted verifier | create, submit, confirm, queries; a pairing helper | - |
| generated clients, `smart_contracts/artifacts/*/*_client.py` | none of their own | `send.*`, `state.*`, `factory.deploy` | algod |
| deployment scripts, `smart_contracts/__main__.py`, `*/deploy_config.py` | artifacts on disk, applications on chain | build, deploy, all | compiler, client generator, algod |
| frontend, `TrustAnchorApp.tsx` | React state | register, request, approve, lists | backend, wallet, algod |
| demonstration script, `demo.py` | - | a walk through the API | backend |

What makes it hard:

* **One event loop, many handlers.** A handler of the backend runs without
  interruption up to an `await`. Everything tested before an await may be false
  after it: the replay check (`payment_verifier.py:124` against `:221`) and the
  status of a request (`main.py:583` against `:617`).
* **Everything is in memory.** A restart forgets spent transactions,
  institutions, quotas, requests and KYC records; the ledger and the disk forget
  nothing.
* **An unreliable outside.** The indexer lags behind the ledger and may answer
  404, an error, or nothing; a submitted transaction may be executed long after
  the program stopped waiting, or beside the one that was sent again; the prover
  may fail; a request or its answer may be lost; a deployment may stop anywhere.
* **Shared resources.** One HTTP client for all proofs; one box for the
  commitments of all users; counts kept beside the boxes they count; a quota that
  several payments and requests write.
* **Conversions at the boundary.** Floats cut to ints, zero taken for a missing
  value (three times, in three places), negative numbers as unsigned ones, ids cut
  to 32 bytes, and boxes looked for under another key than they are kept under.

What makes each component correct is stated by the properties of section 4.

## 2. Modules

| module | models | role |
|---|---|---|
| `ReplayPreventionStore` | the class of that name | a component; extended by the next |
| `PaymentVerifier` | `verify_payment` of concurrent handlers, the ledger, restarts | extends the store |
| `Institutions` | registration, subscription, quota, creation of requests | extends the verifier: its handlers are verifications with a continuation |
| `RequestLifecycle` | what the API promises about a request when approvals may overlap | abstract specification |
| `VerificationRequests` | approval in both modes, attestation, prover and circuit, HTTP client, reading and listing | refines the abstract one |
| `KYCAgent` | both KYC endpoints, `extract_and_anchor`, the chain, the shared box, temporary files | a component |
| `AlgorandSigner` | sending a payment and waiting for it, several times over; the chain | extended by the next |
| `RecruiterAgent` | `verify_income`: ask, pay, ask again, start over | extends the signer |
| `IdentityRegistry` | the contract | extended by the next |
| `TruthRegistry` | the contract, with its inner call to the other one | composition of both contracts |
| `RegistryClients` | programs that use the registries through the typed clients | extends the contracts by algod's pool, lost answers and reads in several requests |
| `VerifierContract` | both contracts of `circuits/verifier_contract.py` | a component |
| `Deployment` | `__main__.py` and the three `deploy_config.py` | a component |
| `MC*` | instances for TLC | |
| `*Proofs` | theorems (section 6) | |

How state and actions correspond to the code:

* **Steps.** A coroutine's step is what it does from one await to the next.
  `verify_payment` is `VerifyBegin` (the `is_used` check up to the first GET)
  and then one of `VerifyRetry`, `VerifyRefuse`, `VerifyAccept` for each answer;
  the two-second sleep belongs to the suspension of the GET that follows it.
  `approve_verification` is one step in boolean mode, and in zkp mode when the
  prover cannot be reached; otherwise `ApproveBegin` and `ApproveEnd`.
  `create_verification_request` never awaits: one step. `extract_and_anchor` has
  no await, so it blocks the other handlers, but the chain goes on while it waits:
  it is split where it talks to algod. `/kyc/upload` is split at `file.read()`.
  `verify_income` is split at each POST and at each call to algod. A contract call
  is one step: a failed assert undoes it. `build` is split
  where each file of the old output is removed (`rmtree` promises no order), where
  the compiler has written and where the generator has written; `deploy` where the
  clients are imported, and where a creation or a payment is submitted and where it
  is seen confirmed. What algod was given it executes at any later time, also after
  the run stopped.
* **Dicts and box maps** are functions with a changing domain.
* **Transactions.** For the verifier a transaction id is a hash, so what a
  transaction says is a constant (`Tx`); what changes is whether it is confirmed.
  The indexer returns only confirmed transactions, but may answer 404 for one. For
  the recruiter a transaction is named by its terms (asset, amount, receiver, note)
  and its first round, because the payments of one agent differ in nothing else: two
  on the same terms in one round are the same transaction, and the chain executes it
  once. The terms come from each 402, so any two payments may differ in them.
* **uuid4** is a draw of an id that was never drawn before.
* **Numbers.** Thresholds and secrets are counted in halves, so that `int()` has
  something to cut; incomes, thresholds and secrets have either sign, as the request
  bodies do (`main.py:187`). The prover's flags are signed numbers of `Width` bits
  (`flag.Int`, 64 in the program), which the circuit gets as unsigned ones; its field
  has the order `Prime`. A counter of a contract fails the call beyond `MaxUint64`.
* **Box keys.** The verifier contract writes and reads its boxes under the encoding
  of an id (`arc4.DynamicBytes`: two bytes of length, then the bytes) and tests
  membership under its bare bytes (`proof_id.native`, `verifier_contract.py:94`,
  `:121`, `:136`, `:156`). The model keeps the two apart (`Stored`).
* **Indexer.** `Deployment` looks applications up among those the indexer lists
  (`indexed`), which may be fewer than the chain has.
* **Settings** that are read when the process starts (the kind of prover, the
  oracle key), and whether the installed SDK has `wait_for_confirmation`
  (`kyc_agent.py:177`), are variables chosen in the initial state.
* **History variables** (`credited`, `everCredited`, `grants`, `forfeited`,
  `issued`, `reported`, `judged`, `confirmed`, `givenUp`, `aborted`, `anchoredBy`,
  `claims`, `answers`, `headers`, `asked`, `broadcast`, the field `seen` of a
  creation) are read by no guard, except that `issued` makes drawn ids fresh. They
  say what the program's own state forgets.
* **Bounds** (`MaxTime`, `MaxRestarts`, `MaxAnchors`, `MaxRound`, `MaxCalls`,
  `MaxPending`, `MaxApps`) appear in guards only to keep TLC's state space finite.
* **Faults.** Operators marked `Fault:` are not part of any specification. Each is
  a plausible mistake in the definition beside it, kept to show that a property
  notices it.

What is abstracted: money is small integers, names, notes and addresses are
values of small sets, a commitment is the number of the call that made it, a zk
proof is its public threshold, API keys are the institution's id, a contract's
source and its compiled program are a version. HTTP errors that change no state
(401, 402, 404) are actions that are not enabled.

## 3. Fairness

* `VerifierFairSpec`: weak fairness of each handler's steps after the first. The
  HTTP client has a timeout of 30 seconds and `asyncio.sleep` returns, so a
  suspended verification is resumed. Nothing is assumed of callers or the ledger.
* `VerificationRequests!FairSpec`: weak fairness of a resumed approval only with
  the HTTP prover, whose client gives up after 60 seconds (`zkp_service.py:73`).
  The local binary is awaited without a timeout (`zkp_service.py:204`): nothing is
  assumed, and `ApprovalEnds` claims nothing for it.
* `KYCAgent!FairSpec`: weak fairness of the agent's steps: algod calls return or
  raise, and the wait for a confirmation ends after ten rounds. Nothing is assumed
  of the chain.
* `RecruiterAgent!FairSpec`: weak fairness of the agent's steps: its HTTP client
  gives up after 60 seconds (`recruiter_agent.py:219`), algod calls return or
  raise, and the wait for a confirmation ends after ten seconds (`:180`). Nothing
  is assumed of the server or of the chain.

## 4. Runs

| run | instance | properties |
|---|---|---|
| `replay_store` | 3 ids, TTL 1, clock to 4 | `StoreAgrees`, `DroppedOnlyWhenAged` |
| `pv_serial` | 1 handler, 7 transactions (a good one, and one failing each check), calls with and without sender and note, 1 restart | `VerifierTypeOK`, `AcceptedIsPaidAndSpent`, `NoPaymentBurnt`, `EveryCallReturns` |
| `pv_double_credit` | 2 handlers, no restart | violates `AcceptedOnce` |
| `inst_quota` | 2 handlers, 2 institutions, 2 payments, quota 2, 3 requests, 1 restart | `InstTypeOK`, `QuotaBacked`, `EveryPaymentAccounted`, `StoresAgree`, `CreditBound` |
| `vr_overlap` | 2 handlers, 2 requests, incomes -2, 0 (taken for missing) and 1, thresholds -2.5, 0.5 and 1.5, secrets -1.5, 2.5 and 4.5 (too large for the flags), all three kinds of prover | `TypeOK`, `ResultBacked`, `AnswersTheQuestion`, `ApprovalStillGrounded`, `ResultsFinal`, `LifecycleSpec`, `ApprovalEnds` |
| `vr_client_reuse` | 1 handler, HTTP prover that never fails, 2 requests | violates `ZkpGenerated` |
| `kyc_anchor` | 2 users, 3 calls, an upload, a document for each way an income is found, an income below zero, with and without key, both kinds of SDK, restarts | `TypeOK`, `RealIsConfirmed`, `OnlyGivenUpComeLate`, `TempFilesAccounted`, `CallEnds` |
| `registries` | 2 accounts (one is admin and creator or not), 2 traits, 2 proofs, 2 rounds | `TypeOK`, `AnchorCountExact`, `VerifiedHasAnchor`, `AnchorsImmutable`, `OnlyActiveWrite` |
| `registry_clients` | 2 programs, 2 calls in the pool, one read, 1 round | `AnswersStayTrue`, `ReadsFitTogether` |
| `recruiter` | 2 calls, 2 requests each, 2 attempts to pay each, 2 terms in USDC and one in Algos, 3 rounds | `ChargesBounded`, `ProofsAreOwnPayments`, `CallReturns` |
| `verifier_contract` | 2 accounts, 3 proofs, 2 inputs, ids of 3 bytes, counter to 3 | `BoxesAgree`, `CountCoversVerified`, `AnswersStand` |
| `deployment` | 2 versions of IdentityRegistry, all contracts with TruthRegistry first, or one registry alone, 3 creations | `ArtifactsPaired`, `LinkedToNewest`, `NoRedundantApp`, `FundedOnce` |

Why the bounds are enough. Two handlers are the least that overlap, and what a
third could add is the subject of theorems (`CreditBound`, `ApprovalStillGrounded`
and the refinement are proved for any number). Two attempts give a first and a last
one, the two cases each loop distinguishes. A quota of two can be partly spent,
spent and overdrawn. Two ids of each kind let one operation meet the traces of
another. `MaxTime` passes the TTL, `MaxRestarts` is one because a restart resets
all but the ledger and the history. `Width` is 3 bits where the prover has 64:
larger than every value of the run, with room for negative numbers to wrap, and
`Prime` is the least prime above twice its bound (the circuit is proved right for
every width, section 6). `MaxUint64` is 2 or 3 in the runs of the contracts, so
that the overflow of a counter, which fails the call, is reached. Ids of three bytes
with proofs shorter than an id, as long as one, and longer make submissions collide
in each way they can, and make the id of one the encoding of another's, so that some
can be confirmed and some not. Three calls of two users let an old transaction meet a
newer one of the same and of another user. Terms, of which there are two, and rounds,
of which there are three, give one call of the recruiter the four USDC transactions
that its bound allows in this instance. Three creations allow IdentityRegistry to be
replaced or created twice with a TruthRegistry linked to either; the one listing
order is the one in which TruthRegistry comes first and imports the other's client
before it is rebuilt, and calls for single contracts give the other orders. Symmetry
is used only where a run checks no liveness.

Deadlock is checked in every run but `recruiter`, whose chain and calls are used
up (the last round has passed, every transaction is executed or dropped, the agent
is idle); that it never stops in the middle of a call is `CallReturns`. In the
others restarts, returns, clocks, or calls that can always be made keep the model
going, and a state in which nothing is possible would show.

## 5. What the checks show

The passing runs establish, among others:

* a refused verification never spends a payment, on any path through the retry
  loop; what is accepted was paid, to the right account, in the right asset;
* a payment is accepted at most as many times as handlers can overlap, hence once
  if they do not;
* requests created plus quota left never exceed what was granted, and the quota of
  each accepted payment is consumed, left, or was thrown away when `set_quota`
  replaced it, nothing else (`EveryPaymentAccounted`, an equation), through
  interleaved registrations, subscriptions and restarts; `subscribe_monthly` never
  writes to an institution that is gone;
* approvals of both modes, attestations, failures of the prover and restarts
  together implement a simple lifecycle: a request is decided only by approvals
  that began while it was pending, and a result that no suspended approval can reach
  is final; a yes is about a value above the threshold asked although the numbers
  were cut, and a boolean no about one that is not, but for the exception below; a
  positive zkp result has a proof beside it;
* a KYC entry with a real transaction id and a round was executed by the chain; a
  commitment is displaced from the shared box by an older one only if the agent had
  given that one up; a document that was anchored leaves no file behind;
* one call of the recruiter agent pays at most `RequestAttempts * SendAttempts`
  times (nine in the code), however late its transactions are executed, and the
  proofs it shows are executed payments of its own;
* an anchored trait is never changed and always counted, only active institutions
  write, and what a program was told by a typed client stays true although its
  calls may be executed late or twice and its reads are spread over requests;
* the verifier contract's boxes agree although ids collide and resubmissions
  replace what was filed, and no call withdraws a positive answer or carries it over
  to another proof, threshold or account;
* a client on disk belongs to the spec beside it, if there is one, also after
  removals and builds that failed halfway; TruthRegistry is linked to the
  IdentityRegistry that was the newest one listed when its creation was decided; a
  repeated deployment creates no second application of a program that the indexer
  listed, and pays nothing twice.

The violated runs are disagreements between the code and what the repository says:

* `pv_double_credit`: "Anti-replay txid tracking prevents payment reuse"
  (README.md:82). Two verifications of one transaction that are both between check
  and mark are both accepted.
* `vr_client_reuse`: "Once approved, the ZKP is generated" (main.py:576). `async
  with self.client` closes the cached client; httpx refuses to enter it again, and
  every later zkp request is fulfilled with result false and no proof. Nothing need
  overlap: in the trace an attestation is generated, and an approval that begins
  after it ended finds the client closed.

Further behaviour the models contain, for which there is no run of its own:

* The status of a request is not tested again after the prover's await
  (main.py:617 against :584): of overlapping approvals the last one to end decides,
  also after an earlier result was read. `RequestLifecycle` says so, and says that
  nothing worse can happen.
* A negative threshold with a fraction is cut upwards (main.py:600): a record of -2
  is answered no for a threshold of -2.5, although it is above. `AnswersTheQuestion`
  allows this for thresholds below zero, by less than one, and nothing else.
* A KYC transaction given up after ten rounds and executed after its successor puts
  the old commitment back in the box (kyc_agent.py:189), although README.md:79 reads
  "KYC data committed to Algorand ledger". The trait id of all anchors is the constant
  `income_annual` (:149), so all users share that box. With an SDK that has no
  `wait_for_confirmation` the id of a transaction nobody saw confirmed is kept as a
  real one (:180).
* Building the header takes the payment's id out of the payload: when the paid
  request is lost the next one carries no proof (recruiter_agent.py:322, although :8
  reads "Retry with payment proof"), and the server may ask for another payment. No
  property demands either behaviour; `ChargesBounded` bounds what it costs.
* The process keeps nothing across a restart, so an institution that paid its
  "one-time" onboarding fee has to pay again (main.py:82; README.md:117).
* `set_quota` replaces what is left (pricing.py:77): paying early loses quota.
* The prover's command line takes a zero threshold for a missing one
  (`cmd/prover/main.go:37`), refuses numbers beyond signed 64 bits (`:18`), and hands
  negative ones to the circuit as huge ones: such requests are answered false without
  a proof, also when the statement is true.
* In zkp mode the value proved comes from the approval's body, not from the record
  (main.py:595).
* An upload that fails while it is read or parsed leaves its document on disk
  (main.py:683).
* A claim of `verify_zk_claim` replaces an earlier one with the same proof id
  (`truth_registry/contract.py:95`).
* The verifier contract looks for a proof under the bare bytes of its id and files
  it under their encoding (`verifier_contract.py:94` and `:97`). A resubmission is not
  recognised and replaces what was filed, and a proof can be confirmed only if its id
  happens to be the encoding of another one's (`OthersNeverConfirmed`). The two ids of
  a query differ in the same way. (Should the compiler reject the test as one of the
  wrong type, the contract cannot be built at all.)
* The id of a submission is cut from proof and inputs ("Compute a unique ID", `:172`):
  submissions that begin alike share one, and the last is kept. The threshold filed
  with a proof is an argument that nothing compares with the public inputs.
  Confirming again counts again.
* In a directory order that lists TruthRegistry first, `all` fails on an empty
  chain each time, before IdentityRegistry is deployed; on another chain it imports
  IdentityRegistry's client before that one is rebuilt, and deploys the old program
  (truth_registry/deploy_config.py:8). While the indexer does not list an application
  yet, a deployment creates it again, or links to an older one. A replaced
  IdentityRegistry leaves the existing TruthRegistry linked to the old one. A run that
  ends between the creation of TrustAnchor's application and its payment leaves it
  without money, and the next run finds nothing to do.

## 6. Proofs

Every theorem is proved for all values of the constants. The assumptions are those of
the modules: finitely many handlers, institution ids and transaction ids (there are
finitely many strings of the ids' length), at least one attempt, values of their
types, `None` outside of the types it is added to, a field at least twice as large as
the prover's numbers. None is about the instance's size.

`PaymentVerifierProofs` begins with the replay store: the invariant is types together
with `StoreAgrees`, inductive as it stands; one lemma per method; from it,
`SpentUntilAged`. Of the verifier itself, `CreditBound` is not inductive. The
strengthening `VInv` says that a credited id is spent (`CreditedIsSpent`) and that for
each id the acceptances plus the handlers querying it are at most the number of
handlers (`OverlapBound`). A handler starts querying an id only if the id is not
spent, so only if it has no acceptance, and then the bound is that of a subset of the
handlers; an acceptance moves one unit from one summand to the other.
`NoPaymentBurnt`, `AcceptedIsPaidAndSpent` and `CreditBound` follow, and, for one
handler and no restart, `AcceptedOnce`. Three results go beyond the runs' properties.
A restart starts the count of acceptances anew, so the bound over the whole life of
the backend is `CreditBound` times the number of lives (`LifetimeCreditsBounded`: the
earlier lives keep what they had, `EarlierLives`). Every id accepted in this life is
one of a confirmed and sufficient transfer (`CreditsArePaid`). And a verification has
at most `Retries + 1` steps left, fewer with each step that touches it
(`VerificationShortens`).

`InstitutionsProofs`: every step of the handlers is a step of the verifier or none
(`StepIsVerifierStep`), hence `InstSpec => VerifierSpec` and all that is proved of the
verifier. `QuotaBacked` needs that who has an entry was granted one under an id that
was given out (`GrantsKnown`, so that a registration meets no old grants), and that a
handler of a subscription asked for its price (`PurposePriced`, for
`SubscriptionTierPaid`).

`EveryPaymentAccounted` is an equation between the requests, a sum over institutions
(what each has left and what it forfeited) and a sum over transactions. The provers do
not unfold the fold that sums are defined with, and have no induction schema for it.
The proof makes the fold's choice explicit (`SumIsChosen`: a sum is the last partial
sum along some enumeration of the domain) and gets its two laws (the sum of zeros, and
a sum after one value was changed) by an induction over sets of naturals: if partial
sums were wrong anywhere there would be a first place where they are
(`SmallestSubset`, `CountUp`). With `SumOfChange`, an acceptance adds a quota to both
sides (`GrantAccounted`), a request moves one unit from the quota to the requests
(`CreateAccounted`), and every other step moves nothing. From it follows the promise
of the whole backend, `RequestsNeverOutrunPayments`: requests are at most `Quota` for
each acceptance, and acceptances at most one for each handler that can overlap and
each confirmed transfer. (In the instance of `inst_quota` the bound is reached.)

`VerificationRequestsProofs`: the results about data are that cutting never turns a
smaller number into a greater one (`ToIntMonotone`), what a cut threshold may lose
(`IncomeJudged`), and that the circuit (subtraction in the field, range check, check
for zero) decides "greater than" of unsigned numbers (`CircuitDecides`). Of positive
numbers the prover accepts those in order, unless the value is too large for its flags
(`ProverIsExact`). The invariant adds that a request has no proof before it is
fulfilled, that nothing was read of requests that do not exist, and that the HTTP
client is open for exactly one handler (`ClientHeld`). `ImplementsLifecycle` maps
every step to a step of `RequestLifecycle` or to none; that an approval in flight
belongs to an existing request of zkp mode (`ApprovalStillGrounded`) is what makes its
end an `End`, and the number of approvals begun is a cardinality that changes by one.
`ProverComparesUnsigned` and `ProverWrapsNegatives` say what the prover does with all
other numbers, among them the negative thresholds that `/verify/request` accepts.
While approvals overlap, a result may change; one that no suspended approval can reach
any more is final (`ResultsSettle`). And what `vr_client_reuse` finds in one instance
holds in all: once the HTTP client was closed, nothing but denials comes until a
restart (`HttpProverDeniesForGood`).

`KYCAgentProofs`: the invariant adds that the call under way holds the newest
commitment, which the chain does not know before it is sent (`CallFresh`), that the
registry holds only commitments that were issued, and that nothing is executed twice
(`ExecutedOnce`). `OnlyGivenUpComeLate` has a second half for the induction: what is
in the pool was given up or belongs to the call under way, whose commitment is the
newest; so what the chain executes late was given up. `RealIsConfirmed` is not
disturbed by the chain, which only moves what was issued from `pool` to `confirmed`.
`OverwrittenForGood` is the other side of it: since nothing executed is in the pool, a
commitment that another has replaced in the box never returns. `CallsRunOut` bounds
the two steps for which a call blocks the event loop.

`RecruiterAgentProofs`: `ChargesBounded` is proved by counting what the payment under
way can have made so far (`MadeSoFar`), each earlier one having made `SendAttempts` at
most (`BroadcastBounded`), and one request for payment per attempt (`AskedOnce`).
`ProofsAreOwnPayments` needs that the transaction waited for is one of this call's own
(`WaitsForOwn`). `SpendingIsBounded` extends the bound of one call to all of them:
what was made outside of the present call is at most what the calls before it could
make (`EarlierCalls`), although the chain may execute it only now. `CallsRunOut` gives
a call a number of steps left (`StepsLeft`: laps, and within a lap the attempts of the
payment), which each of its steps makes smaller.

`TruthRegistryProofs`: the invariant adds that both box maps are finite (needed to
count), and that every claimed trait is anchored, which is kept because
`register_anchor` never touches an existing box. The two action properties are proved
from it step by step. Together the registries implement the identity registry alone
(`IdentityUndisturbed`), whose boxes are never removed; so whoever anchored or claimed
anything can be looked up for ever (`WritersAreTraced`). The second part is about
`RegistryClients`: a step of the programs and of algod's pool is a step of the
registries or none, so `ClientSpec => Spec`; and the registries only grow
(`RegistriesGrow`), so what was answered stays true, and a read under way fits
together.

`VerifierContractProofs`: the invariant adds that the contract holds nothing before it
is created (so that `create` may set the counter to zero) and finitely much after,
under byte strings; a confirmation adds one id to the verified ones at most, and one
to the count. It also says which boxes can say verified (`OnlyShadowed`): those whose
id, bare, is the key of another box. For these the test of a resubmission does find
them, so that no confirmation is lost by one; this is what `AnswersNeverChange` rests
on. The encoding of an id can be read back (`StoredBytes`), the id of a proof of 32
bytes or more does not depend on the public inputs (`LongProofId`), so of all proofs
with the same beginning one submission alone is kept at a time (`PrefixesFiledOnce`).

`DeploymentProofs`: the invariant adds that between the removal of the old output and
the compiler's there is no client (`CompilesAfterClear`), what a run may have imported
and when (`OneRun`), that the application about to be paid is the run's own and unpaid
(`PaysItsOwn`), and that the applications of one name have a newest one (`HasNewest`,
without which "the newest" would be an arbitrary value). What a creation was decided
from (`Considered`: its link, and what was listed of its own name) is a statement
about applications below a fixed position; those never change, so it stays true
however late the creation is executed. No run takes back what another deployed, no
creation is executed twice, and what is submitted runs the spec on disk, except that
`all` may use a client it imported before (`ApplicationsStay`).

What is only model-checked: liveness (`EveryCallReturns`, `ApprovalEnds`, `CallEnds`,
`CallReturns`), which is outside of what the prover handles. Of three of them the
safety half is proved: a verification, a call of the KYC agent and a call of the
recruiter's agent have a bounded number of steps left, and no step of anybody gives
them more, so that they end unless they stop moving. (Nothing of this kind holds of an
approval: one that waits for the local binary may wait for ever.)

## 7. Not modelled, and the plan

Not modelled: the arithmetic of Groth16 and the key files (external library and
I/O); the methods of the TrustAnchor contract that are not in its compiled artifact
(they use `arc4`, which the module does not import), and its `verify`, which is
constantly true; in the generated clients the composers, `create_transaction`,
`clone` and `from_network`, which nothing in the repository uses, and the client of
TrustAnchor, which is the same code again; the call to `verify` with which a
deployment ends, since it changes nothing; frontend, demonstration script and
workflows.

What the models take from the code's intent, because the code as it stands would
stop earlier: `verifier_contract.py` uses `BoxMap` without importing it and is
modelled as if it did; `AlgorandSigner` calls `.get` on the library's parameters,
which have none, so that each send raises (`RecruiterAgent` contains that behaviour,
as attempts that fail); the backend's own `/verify/income` never answers 402, and
its requirements name the amount differently from what the agent reads: the server
of `RecruiterAgent` is any x402 server.

Next, in this order:

1. `Frontend`: registration as the browser does it, composed with `Institutions`:
   is a payment always turned into a registration?
2. `RecruiterAgent` composed with `PaymentVerifier`: a server that checks what the
   agent shows it, so that charges can be compared with what was granted.
