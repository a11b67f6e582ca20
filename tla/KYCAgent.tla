------------------------------- MODULE KYCAgent -------------------------------
(***************************************************************************)
(* kyc_agent.py, the endpoints of main.py that call it, and the TrustAnchor*)
(* contract it writes to.                                                  *)
(*                                                                         *)
(* POST /kyc/upload writes the document to a temporary file, suspends while*)
(* it reads the upload, and removes the file once it is parsed.            *)
(* extract_and_anchor has no await: while it talks to algod the event loop *)
(* of the backend is blocked, so at most one call is under way (busy), but *)
(* the chain goes on: a transaction that was submitted may be confirmed at *)
(* any time, also after the agent stopped waiting for it, or expire.       *)
(*                                                                         *)
(* A commitment is the hash of the user, the income, a fresh kyc_id and    *)
(* the salt: here, the number of the call that made it.  The contract      *)
(* files it under trait_id, which the agent sets to the same constant for  *)
(* every user: there is one box.                                           *)
(***************************************************************************)
EXTENDS Integers, FiniteSets

CONSTANTS
  Users,
  Incomes,           \* income_annual in a call of /kyc/anchor, of either sign; 0 if absent
  Documents,         \* what the text of an uploaded PDF may hold
  SimulatedIncomes,  \* random.randint(30000, 250000)
  AadhaarIncome,     \* the income every Aadhaar card is good for (1000000)
  UploadIds,         \* uploads, each with a temporary file of its own name
  MaxAnchors,        \* bound on calls, for model checking only
  None

Document == [aadhaar : BOOLEAN, labelled : Nat \cup {None}, number : Nat]

ASSUME AnchorsAssumption == MaxAnchors \in Nat /\ None \notin Nat /\ None \notin Users
ASSUME IncomesAssumption ==
  /\ Incomes \subseteq Int /\ Documents \subseteq Document
  /\ SimulatedIncomes \subseteq Nat \ {0} /\ AadhaarIncome \in Nat \ {0}

VARIABLES
  oracleKey,      \* is KYC_ORACLE_MNEMONIC set?  Read when the process starts
  sdkWaits,       \* does the installed algosdk have wait_for_confirmation?
  truthRegistry,  \* truth_registry of the agent: record and anchor of each user
  busy,           \* the call under way: user, commitment, and if it was sent
  issued,         \* commitments generated so far
  pool,           \* commitments submitted and not yet confirmed
  box,            \* the contract's box anchors["income_annual"], None if absent
  confirmed,      \* history: commitments whose transaction was executed
  givenUp,        \* history: commitments sent by calls that did not see them confirmed
  uploads,        \* the user of each upload that is being read
  tempFiles,      \* temporary files on disk
  aborted         \* history: uploads that ended by an exception or a crash

agentVars == <<oracleKey, sdkWaits, truthRegistry, busy, issued, givenUp>>
chainVars == <<pool, box, confirmed>>
uploadVars == <<uploads, tempFiles, aborted>>
vars == <<agentVars, chainVars, uploadVars>>

(* block: is a round stored with the txid?  With a txid the agent made up  *)
(* it stores a round it made up.                                           *)
Entry == [owner : Users, kyc : Nat, income : Int \ {0},
          txid : {"real", "fallback", "simulated"}, block : BOOLEAN]

Call == [user : Users, kyc : Nat, income : Int \ {0}, sent : BOOLEAN]

ASSUME CallAssumption == None \notin Call

TypeOK ==
  /\ oracleKey \in BOOLEAN /\ sdkWaits \in BOOLEAN
  /\ truthRegistry \in [DOMAIN truthRegistry -> Entry] /\ DOMAIN truthRegistry \subseteq Users
  /\ busy \in {None} \cup Call
  /\ issued \in Nat /\ givenUp \subseteq 1 .. issued
  /\ pool \subseteq 1 .. issued /\ confirmed \subseteq 1 .. issued
  /\ box \in {None} \cup 1 .. issued
  /\ uploads \in [UploadIds -> Users \cup {None}]
  /\ tempFiles \subseteq UploadIds /\ aborted \subseteq UploadIds

Init ==
  /\ oracleKey \in BOOLEAN /\ sdkWaits \in BOOLEAN
  /\ truthRegistry = [u \in {} |-> None]
  /\ busy = None
  /\ issued = 0
  /\ pool = {}
  /\ box = None
  /\ confirmed = {}
  /\ givenUp = {}
  /\ uploads = [i \in UploadIds |-> None] /\ tempFiles = {} /\ aborted = {}
-----------------------------------------------------------------------------
(* The call starts: the record and a commitment are made.  An income of    *)
(* zero is taken for none, and a random one is recorded.                   *)
Recorded(income) == IF income = 0 THEN SimulatedIncomes ELSE {income}

ExtractBegin(u, income) ==
  /\ busy = None
  /\ issued < MaxAnchors
  /\ issued' = issued + 1
  /\ \E verified \in Recorded(income) :
       busy' = [user |-> u, kyc |-> issued + 1, income |-> verified, sent |-> FALSE]
  /\ UNCHANGED <<oracleKey, sdkWaits, truthRegistry, givenUp, chainVars>>

(* POST /kyc/anchor. *)
AnchorIdentity(u, income) ==
  /\ ExtractBegin(u, income)
  /\ UNCHANGED uploadVars

(* POST /kyc/upload, up to the await of file.read(). *)
UploadBegin(i, u) ==
  /\ busy = None
  /\ uploads[i] = None /\ i \notin tempFiles
  /\ uploads' = [uploads EXCEPT ![i] = u]
  /\ tempFiles' = tempFiles \cup {i}
  /\ aborted' = aborted \ {i}
  /\ UNCHANGED <<agentVars, chainVars>>

(* What the regular expressions make of the text: a fixed income for an    *)
(* Aadhaar card; else the number after "balance" or "income", even if it   *)
(* is zero; else the first long number; else zero.                         *)
IncomeOf(doc) ==
  IF doc.aadhaar THEN AadhaarIncome
  ELSE IF doc.labelled # None THEN doc.labelled ELSE doc.number

Uploaded(i, doc) ==
  /\ uploads[i] # None
  /\ ExtractBegin(uploads[i], IncomeOf(doc))
  /\ uploads' = [uploads EXCEPT ![i] = None]
  /\ UNCHANGED aborted

(* Fault: the file is left to the operating system. *)
UploadKeepingFile(i, doc) == Uploaded(i, doc) /\ UNCHANGED tempFiles

(* The document is parsed, its file removed, and the call starts. *)
UploadParsed(i, doc) == Uploaded(i, doc) /\ tempFiles' = tempFiles \ {i}

(* Reading or parsing raises: status 500, and nobody removes the file; or  *)
(* the number found is no number, after the file is gone.                  *)
UploadFails(i) ==
  /\ busy = None
  /\ uploads[i] # None
  /\ uploads' = [uploads EXCEPT ![i] = None]
  /\ aborted' = aborted \cup {i}
  /\ tempFiles' \in {tempFiles, tempFiles \ {i}}
  /\ UNCHANGED <<agentVars, chainVars>>

(* send_transaction. *)
Send ==
  /\ busy # None /\ ~busy.sent
  /\ busy' = [busy EXCEPT !.sent = TRUE]
  /\ pool' = pool \cup {busy.kyc}
  /\ UNCHANGED <<oracleKey, sdkWaits, truthRegistry, issued, givenUp, box, confirmed, uploadVars>>

(* Fault: the missing key is not noticed. *)
SubmitUnsigned == Send

Submit == oracleKey /\ Send

(* A call that was sent ends without having seen its transaction confirmed.*)
GiveUp == givenUp' = IF busy # None /\ busy.sent THEN givenUp \cup {busy.kyc} ELSE givenUp

(* The call ends: record and anchor are stored together.                   *)
Store(txid, block) ==
  /\ truthRegistry' = [v \in DOMAIN truthRegistry \cup {busy.user} |->
       IF v = busy.user
       THEN [owner |-> busy.user, kyc |-> busy.kyc, income |-> busy.income,
             txid |-> txid, block |-> block]
       ELSE truthRegistry[v]]
  /\ busy' = None
  /\ IF txid = "real" /\ block THEN UNCHANGED givenUp ELSE GiveUp
  /\ UNCHANGED <<oracleKey, sdkWaits, issued, chainVars, uploadVars>>

(* Fault: the transaction counts as confirmed as soon as it is sent. *)
StoreUnconfirmed == sdkWaits /\ busy # None /\ busy.sent /\ Store("real", TRUE)

(* wait_for_confirmation saw the transaction. *)
StoreConfirmed ==
  /\ sdkWaits
  /\ busy # None /\ busy.sent
  /\ busy.kyc \in confirmed
  /\ Store("real", TRUE)

(* An SDK without wait_for_confirmation: pending_transaction_info tells of *)
(* the transaction as it is at once, and its id is kept either way; only a *)
(* confirmed one has a round.                                              *)
StorePending ==
  /\ ~sdkWaits
  /\ busy # None /\ busy.sent
  /\ busy.kyc \in pool \cup confirmed
  /\ Store("real", busy.kyc \in confirmed)

(* Faults: no fallback id is made up; an exception while waiting is lost. *)
StoreNoTxid == oracleKey /\ busy # None /\ Store(None, FALSE)
StoreFallbackIfUnsent ==
  oracleKey /\ busy # None /\ ~busy.sent /\ Store("fallback", TRUE)

(* Any exception: algod cannot be reached before or after the submission,  *)
(* it rejects the transaction or has forgotten it, or ten rounds pass      *)
(* without it.                                                             *)
StoreFallback ==
  /\ oracleKey
  /\ busy # None
  /\ Store("fallback", TRUE)

StoreSimulated ==
  /\ ~oracleKey
  /\ busy # None
  /\ Store("simulated", TRUE)

(* The chain executes register_anchor of the TrustAnchor contract, which   *)
(* overwrites the box; or the transaction's validity ends.                 *)
Confirm(k) ==
  /\ k \in pool
  /\ pool' = pool \ {k}
  /\ box' = k
  /\ confirmed' = confirmed \cup {k}
  /\ UNCHANGED <<agentVars, uploadVars>>

Expire(k) ==
  /\ k \in pool
  /\ pool' = pool \ {k}
  /\ UNCHANGED <<agentVars, box, confirmed, uploadVars>>

Uploading(i) == uploads[i] # None

(* The process restarts; the chain and the disk do not. *)
Restart ==
  /\ truthRegistry' = [u \in {} |-> None]
  /\ busy' = None
  /\ GiveUp
  /\ aborted' = aborted \cup {i \in UploadIds : Uploading(i)}
  /\ uploads' = [i \in UploadIds |-> None]
  /\ UNCHANGED <<oracleKey, sdkWaits, issued, chainVars, tempFiles>>

AgentStep ==
  Submit \/ StoreConfirmed \/ StorePending \/ StoreFallback \/ StoreSimulated

Next ==
  \/ \E u \in Users, income \in Incomes : AnchorIdentity(u, income)
  \/ \E i \in UploadIds :
       \/ \E u \in Users : UploadBegin(i, u)
       \/ \E doc \in Documents : UploadParsed(i, doc)
       \/ UploadFails(i)
  \/ AgentStep
  \/ \E k \in pool : Confirm(k) \/ Expire(k)
  \/ Restart

Spec == Init /\ [][Next]_vars

(* The agent's calls to algod return or raise, and it waits ten rounds at  *)
(* most for a confirmation: a call under way goes on.                      *)
FairSpec == Spec /\ WF_vars(AgentStep)
-----------------------------------------------------------------------------
(* An entry that names a real transaction and a round names one the chain  *)
(* executed, for this very record, whatever happened to the box since; and *)
(* with an SDK that waits every real transaction has its round.            *)
RealIsConfirmed ==
  \A u \in DOMAIN truthRegistry : LET entry == truthRegistry[u] IN
    /\ entry.owner = u
    /\ entry.txid = "real" /\ entry.block => entry.kyc \in confirmed
    /\ entry.txid = "real" /\ sdkWaits => entry.block

(* All users share one box.  A commitment that was executed is displaced   *)
(* from it by that of a later call; by an older one only if the agent had  *)
(* given that one up: what a call waited for is never executed after what  *)
(* a later call made.                                                      *)
OnlyGivenUpComeLate ==
  /\ \A k \in confirmed : k <= box \/ box \in givenUp
  /\ \A k \in pool : k \in givenUp \/ (busy # None /\ busy.sent /\ busy.kyc = k)

(* Without an oracle key the users count as anchored all the same, and     *)
(* nothing the agent does reaches the chain.                               *)
NoKeyNoChain ==
  ~oracleKey =>
    /\ pool = {} /\ box = None
    /\ \A u \in DOMAIN truthRegistry : truthRegistry[u].txid = "simulated"

(* The files on disk are those of uploads being read and of uploads that   *)
(* did not come to an end: a document that was anchored leaves no file.    *)
TempFilesAccounted ==
  /\ \A i \in UploadIds : Uploading(i) => i \in tempFiles
  /\ \A i \in tempFiles : Uploading(i) \/ i \in aborted

(* A call to extract_and_anchor, and with it the blocked event loop, ends. *)
CallEnds == busy # None ~> busy = None
=============================================================================
