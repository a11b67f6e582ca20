---------------------------- MODULE KYCAgentProofs ----------------------------
(***************************************************************************)
(* Proofs about KYCAgent, for any users, incomes, documents and uploads:   *)
(* what its truth registry says of the chain is true, only what was given  *)
(* up is executed late, and no document that was anchored leaves its file behind. *)
(***************************************************************************)
EXTENDS KYCAgent, TLAPS

(* The call under way holds the newest commitment; before it is sent the   *)
(* chain does not know it, and it is sent only by an agent with a key.     *)
CallFresh ==
  busy # None =>
    /\ busy.kyc = issued /\ issued > 0
    /\ ~busy.sent => busy.kyc \notin pool \cup confirmed
    /\ busy.sent => oracleKey

(* The registry holds commitments that were issued. *)
RecordsIssued == \A u \in DOMAIN truthRegistry : truthRegistry[u].kyc \in 1 .. issued

(* Every commitment is executed once at most, and the box holds one that   *)
(* was.                                                                    *)
ExecutedOnce == pool \cap confirmed = {} /\ (box # None => box \in confirmed)
                  /\ (confirmed # {} => box # None)

(* What the agent knows and what the chain knows, *)
ChainInv ==
  /\ CallFresh /\ RecordsIssued /\ RealIsConfirmed /\ OnlyGivenUpComeLate
  /\ ExecutedOnce /\ NoKeyNoChain

(* and all of it. *)
IInv == TypeOK /\ ChainInv /\ TempFilesAccounted

-----------------------------------------------------------------------------
LEMMA InitEstablishes == Init => IInv
  <1> SUFFICES ASSUME Init PROVE IInv OBVIOUS
  <1> USE DEF Init
  <1>1. DOMAIN truthRegistry = {} OBVIOUS
  <1>2. TypeOK BY <1>1 DEF TypeOK
  <1>3. ChainInv
    BY <1>1 DEF ChainInv, CallFresh, RecordsIssued, RealIsConfirmed, OnlyGivenUpComeLate,
                 ExecutedOnce, NoKeyNoChain
  <1>4. TempFilesAccounted BY DEF TempFilesAccounted, Uploading
  <1> QED BY <1>2, <1>3, <1>4 DEF IInv

(* A step that leaves the agent and the chain alone. *)
LEMMA SameChain ==
  ASSUME IInv, UNCHANGED <<agentVars, chainVars>>
  PROVE  ChainInv'
  BY DEF IInv, ChainInv, agentVars, chainVars, CallFresh, RecordsIssued, RealIsConfirmed,
         OnlyGivenUpComeLate, ExecutedOnce, NoKeyNoChain

LEMMA SameUploads ==
  ASSUME IInv, UNCHANGED uploadVars
  PROVE  TempFilesAccounted'
  BY DEF IInv, TempFilesAccounted, Uploading, uploadVars

LEMMA NoCall == \A c \in Call : c # None
  BY CallAssumption

LEMMA IncomesRecorded ==
  ASSUME NEW income \in Int, NEW verified \in Recorded(income)
  PROVE  verified \in Int \ {0}
  BY IncomesAssumption DEF Recorded

(* A new call takes a commitment nobody has. *)
LEMMA ExtractPreserves ==
  ASSUME IInv, NEW u \in Users, NEW income \in Int, ExtractBegin(u, income)
  PROVE  /\ ChainInv'
         /\ busy' \in Call
         /\ issued' = issued + 1 /\ issued \in Nat
         /\ UNCHANGED <<oracleKey, sdkWaits, truthRegistry, givenUp, chainVars>>
  <1>0. busy = None BY DEF ExtractBegin
  <1>1. PICK verified \in Recorded(income) :
          busy' = [user |-> u, kyc |-> issued + 1, income |-> verified, sent |-> FALSE]
    BY DEF ExtractBegin
  <1>2. issued' = issued + 1 /\ UNCHANGED <<oracleKey, sdkWaits, truthRegistry, givenUp, pool, box, confirmed>>
    BY DEF ExtractBegin, chainVars
  <1>3. /\ issued \in Nat /\ pool \subseteq 1 .. issued /\ confirmed \subseteq 1 .. issued
    BY DEF IInv, TypeOK
  <1>4. busy' \in Call
    BY <1>1, <1>3, IncomesRecorded DEF Call
  <1>5. busy'.kyc = issued + 1 /\ ~busy'.sent BY <1>1
  <1>6. CallFresh' BY <1>2, <1>3, <1>5 DEF CallFresh
  <1>7. RecordsIssued' BY <1>2, <1>3 DEF IInv, ChainInv, RecordsIssued
  <1>8. RealIsConfirmed' BY <1>2 DEF IInv, ChainInv, RealIsConfirmed
  <1>9. OnlyGivenUpComeLate'
    BY <1>0, <1>2 DEF IInv, ChainInv, OnlyGivenUpComeLate
  <1>10. ExecutedOnce' /\ NoKeyNoChain'
    BY <1>2 DEF IInv, ChainInv, ExecutedOnce, NoKeyNoChain
  <1> QED BY <1>2, <1>3, <1>4, <1>6, <1>7, <1>8, <1>9, <1>10 DEF ChainInv, chainVars

LEMMA AnchorPreserves ==
  ASSUME IInv, NEW u \in Users, NEW income \in Incomes, AnchorIdentity(u, income)
  PROVE  IInv'
  <1>1. ExtractBegin(u, income) /\ UNCHANGED uploadVars /\ income \in Int
    BY IncomesAssumption DEF AnchorIdentity
  <1>2. TypeOK' BY <1>1, ExtractPreserves DEF IInv, TypeOK, chainVars, uploadVars
  <1> QED BY <1>1, <1>2, ExtractPreserves, SameUploads DEF IInv

LEMMA UploadBeginPreserves ==
  ASSUME IInv, NEW i \in UploadIds, NEW u \in Users, UploadBegin(i, u)
  PROVE  IInv'
  <1>1. /\ uploads' = [uploads EXCEPT ![i] = u]
        /\ tempFiles' = tempFiles \cup {i} /\ aborted' = aborted \ {i}
        /\ UNCHANGED <<agentVars, chainVars>>
    BY DEF UploadBegin
  <1>2. uploads \in [UploadIds -> Users \cup {None}] BY DEF IInv, TypeOK
  <1>3. TypeOK' BY <1>1, <1>2 DEF IInv, TypeOK, agentVars, chainVars
  <1>4. TempFilesAccounted'
    BY <1>1, <1>2, AnchorsAssumption DEF IInv, TypeOK, TempFilesAccounted, Uploading
  <1> QED BY <1>1, <1>3, <1>4, SameChain DEF IInv

LEMMA UploadParsedPreserves ==
  ASSUME IInv, NEW i \in UploadIds, NEW doc \in Documents, UploadParsed(i, doc)
  PROVE  IInv'
  <1> DEFINE u == uploads[i]
             income == IncomeOf(doc)
  <1>1. /\ u # None /\ ExtractBegin(u, income)
        /\ uploads' = [uploads EXCEPT ![i] = None]
        /\ tempFiles' = tempFiles \ {i} /\ aborted' = aborted
    BY DEF UploadParsed, Uploaded
  <1>2. uploads \in [UploadIds -> Users \cup {None}] BY DEF IInv, TypeOK
  <1>3. u \in Users BY <1>1, <1>2
  <1>4. income \in Int
    BY IncomesAssumption DEF IncomeOf, Document
  <1> HIDE DEF u, income
  <1>5. /\ ChainInv' /\ issued' = issued + 1 /\ issued \in Nat
        /\ busy' \in Call
        /\ UNCHANGED <<oracleKey, sdkWaits, truthRegistry, givenUp, pool, box, confirmed>>
    BY <1>1, <1>3, <1>4, ExtractPreserves DEF chainVars
  <1>6. TypeOK' BY <1>1, <1>2, <1>5 DEF IInv, TypeOK
  <1>7. TempFilesAccounted' BY <1>1, <1>2 DEF IInv, TypeOK, TempFilesAccounted, Uploading
  <1> QED BY <1>5, <1>6, <1>7 DEF IInv

LEMMA UploadFailsPreserves ==
  ASSUME IInv, NEW i \in UploadIds, UploadFails(i)
  PROVE  IInv'
  <1>1. /\ uploads' = [uploads EXCEPT ![i] = None]
        /\ tempFiles' \in {tempFiles, tempFiles \ {i}} /\ aborted' = aborted \cup {i}
        /\ UNCHANGED <<agentVars, chainVars>>
    BY DEF UploadFails
  <1>2. uploads \in [UploadIds -> Users \cup {None}] BY DEF IInv, TypeOK
  <1>3. TypeOK' BY <1>1, <1>2 DEF IInv, TypeOK, agentVars, chainVars
  <1>4. TempFilesAccounted'
    BY <1>1, <1>2 DEF IInv, TypeOK, TempFilesAccounted, Uploading
  <1> QED BY <1>1, <1>3, <1>4, SameChain DEF IInv

LEMMA SubmitPreserves == ASSUME IInv, Submit PROVE IInv'
  <1>1. /\ oracleKey /\ busy # None /\ ~busy.sent
        /\ busy' = [busy EXCEPT !.sent = TRUE]
        /\ pool' = pool \cup {busy.kyc}
        /\ UNCHANGED <<oracleKey, sdkWaits, truthRegistry, issued, givenUp, box, confirmed, uploadVars>>
    BY DEF Submit, Send
  <1>2. /\ busy \in Call
        /\ issued \in Nat
    BY <1>1 DEF IInv, TypeOK
  <1>3. busy' \in Call
    BY <1>1, <1>2 DEF Call
  <1>4. busy'.kyc = busy.kyc /\ busy'.sent /\ busy' # None
    BY <1>1, <1>2, <1>3, NoCall DEF Call
  <1>5. busy.kyc = issued /\ busy.kyc \notin pool \cup confirmed
    BY <1>1 DEF IInv, ChainInv, CallFresh
  <1>6. issued \in 1 .. issued BY <1>1, <1>2 DEF IInv, ChainInv, CallFresh
  <1>7. TypeOK' BY <1>1, <1>3, <1>5, <1>6 DEF IInv, TypeOK, uploadVars
  <1>8. CallFresh' BY <1>1, <1>4, <1>5, <1>6 DEF IInv, ChainInv, CallFresh
  <1>9. RecordsIssued' BY <1>1 DEF IInv, ChainInv, RecordsIssued
  <1>10. RealIsConfirmed' BY <1>1 DEF IInv, ChainInv, RealIsConfirmed
  <1>11. OnlyGivenUpComeLate'
    BY <1>1, <1>4, <1>5 DEF IInv, ChainInv, OnlyGivenUpComeLate
  <1>12. ExecutedOnce' /\ NoKeyNoChain'
    BY <1>1, <1>5 DEF IInv, ChainInv, ExecutedOnce, NoKeyNoChain
  <1>13. TempFilesAccounted' BY <1>1, SameUploads
  <1> QED BY <1>7, <1>8, <1>9, <1>10, <1>11, <1>12, <1>13 DEF IInv, ChainInv

(* The end of a call: what the txid and the round claim must be so. *)
LEMMA StorePreserves ==
  ASSUME IInv, NEW txid \in {"real", "fallback", "simulated"}, NEW block \in BOOLEAN,
         busy # None, Store(txid, block),
         txid = "real" /\ block => busy.kyc \in confirmed,
         txid = "real" /\ sdkWaits => block,
         ~oracleKey => txid = "simulated"
  PROVE  IInv'
  <1> DEFINE entry == [owner |-> busy.user, kyc |-> busy.kyc, income |-> busy.income,
                       txid |-> txid, block |-> block]
             u == busy.user
  <1>1. busy \in Call
    BY DEF IInv, TypeOK
  <1>2. /\ entry \in Entry /\ entry.owner = u /\ entry.kyc = busy.kyc /\ entry.txid = txid
        /\ entry.block = block /\ u \in Users
    BY <1>1 DEF Entry, Call
  <1>3. /\ truthRegistry' = [v \in DOMAIN truthRegistry \cup {u} |->
                               IF v = u THEN entry ELSE truthRegistry[v]]
        /\ busy' = None
        /\ UNCHANGED <<oracleKey, sdkWaits, issued, pool, box, confirmed, uploadVars>>
    BY DEF Store, chainVars
  <1> HIDE DEF entry, u
  <1>4. /\ DOMAIN truthRegistry' = DOMAIN truthRegistry \cup {u}
        /\ truthRegistry'[u] = entry
        /\ \A v \in DOMAIN truthRegistry : v # u => truthRegistry'[v] = truthRegistry[v]
    BY <1>3
  <1>5. busy.kyc = issued /\ issued \in 1 .. issued
    BY DEF IInv, TypeOK, ChainInv, CallFresh
  <1>6. givenUp' \in {givenUp, givenUp \cup {busy.kyc}}
    BY DEF Store, GiveUp
  <1>7. busy.sent => busy.kyc \in givenUp' \cup confirmed
    BY DEF Store, GiveUp
  <1>8. TypeOK'
    <2>1. truthRegistry' \in [DOMAIN truthRegistry' -> Entry] /\ DOMAIN truthRegistry' \subseteq Users
      BY <1>2, <1>3, <1>4 DEF IInv, TypeOK
    <2>2. givenUp' \subseteq 1 .. issued' BY <1>3, <1>5, <1>6 DEF IInv, TypeOK
    <2> QED BY <1>3, <2>1, <2>2 DEF IInv, TypeOK, uploadVars
  <1>9. CallFresh' BY <1>3 DEF CallFresh
  <1>10. RecordsIssued'
    BY <1>2, <1>3, <1>4, <1>5 DEF IInv, ChainInv, RecordsIssued
  <1>11. RealIsConfirmed'
    BY <1>2, <1>3, <1>4 DEF IInv, ChainInv, RealIsConfirmed
  <1>12. OnlyGivenUpComeLate'
    BY <1>3, <1>6, <1>7 DEF IInv, ChainInv, OnlyGivenUpComeLate, ExecutedOnce
  <1>13. ExecutedOnce' /\ NoKeyNoChain'
    BY <1>2, <1>3, <1>4 DEF IInv, ChainInv, ExecutedOnce, NoKeyNoChain
  <1>14. TempFilesAccounted' BY <1>3, SameUploads
  <1> QED BY <1>8, <1>9, <1>10, <1>11, <1>12, <1>13, <1>14 DEF IInv, ChainInv

LEMMA ConfirmPreserves == ASSUME IInv, NEW k \in pool, Confirm(k) PROVE IInv'
  <1>1. /\ pool' = pool \ {k} /\ box' = k /\ confirmed' = confirmed \cup {k}
        /\ UNCHANGED <<oracleKey, sdkWaits, truthRegistry, busy, issued, givenUp, uploadVars>>
    BY DEF Confirm, agentVars
  <1>2. TypeOK' BY <1>1 DEF IInv, TypeOK, uploadVars
  <1>3. CallFresh' BY <1>1 DEF IInv, ChainInv, CallFresh
  <1>4. RecordsIssued' BY <1>1 DEF IInv, ChainInv, RecordsIssued
  <1>5. RealIsConfirmed' BY <1>1 DEF IInv, ChainInv, RealIsConfirmed
  <1>6. OnlyGivenUpComeLate'
    <2>1. k \in givenUp \/ (busy # None /\ k = issued)
      BY DEF IInv, ChainInv, CallFresh, OnlyGivenUpComeLate
    <2>2. \A j \in confirmed' : j \in 1 .. issued BY <1>1 DEF IInv, TypeOK
    <2>3. \A j \in confirmed' : j <= box' \/ box' \in givenUp' BY <1>1, <2>1, <2>2
    <2> QED BY <1>1, <2>3 DEF IInv, ChainInv, OnlyGivenUpComeLate
  <1>7. ExecutedOnce' /\ NoKeyNoChain'
    <2>1. k # None BY AnchorsAssumption DEF IInv, TypeOK
    <2> QED BY <1>1, <2>1 DEF IInv, ChainInv, ExecutedOnce, NoKeyNoChain
  <1>8. TempFilesAccounted' BY <1>1, SameUploads
  <1> QED BY <1>2, <1>3, <1>4, <1>5, <1>6, <1>7, <1>8 DEF IInv, ChainInv

LEMMA ExpirePreserves == ASSUME IInv, NEW k \in pool, Expire(k) PROVE IInv'
  <1>1. /\ pool' = pool \ {k}
        /\ UNCHANGED <<oracleKey, sdkWaits, truthRegistry, busy, issued, givenUp, box, confirmed,
                       uploadVars>>
    BY DEF Expire, agentVars
  <1>2. TypeOK' BY <1>1 DEF IInv, TypeOK, uploadVars
  <1>3. ChainInv'
    BY <1>1 DEF IInv, ChainInv, CallFresh, RecordsIssued, RealIsConfirmed,
                 OnlyGivenUpComeLate, ExecutedOnce, NoKeyNoChain
  <1>4. TempFilesAccounted' BY <1>1, SameUploads
  <1> QED BY <1>2, <1>3, <1>4 DEF IInv

LEMMA RestartPreserves == ASSUME IInv, Restart PROVE IInv'
  <1> USE DEF Restart, chainVars
  <1>1. DOMAIN truthRegistry' = {} OBVIOUS
  <1>2. /\ givenUp' = IF busy # None /\ busy.sent THEN givenUp \cup {busy.kyc} ELSE givenUp
        /\ busy # None => busy.kyc = issued /\ issued \in 1 .. issued
    BY DEF GiveUp, IInv, TypeOK, ChainInv, CallFresh
  <1>3. TypeOK' BY <1>1, <1>2 DEF IInv, TypeOK
  <1>4. /\ CallFresh' /\ RecordsIssued' /\ RealIsConfirmed' /\ ExecutedOnce'
        /\ NoKeyNoChain'
    BY <1>1 DEF IInv, ChainInv, CallFresh, RecordsIssued, RealIsConfirmed, ExecutedOnce,
                 NoKeyNoChain
  <1>5. OnlyGivenUpComeLate' BY <1>2 DEF IInv, ChainInv, OnlyGivenUpComeLate
  <1>6. TempFilesAccounted' BY DEF IInv, TypeOK, TempFilesAccounted, Uploading
  <1> QED BY <1>3, <1>4, <1>5, <1>6 DEF IInv, ChainInv

LEMMA StepPreserves == IInv /\ [Next]_vars => IInv'
  <1> SUFFICES ASSUME IInv, [Next]_vars PROVE IInv' OBVIOUS
  <1>1. ASSUME NEW u \in Users, NEW income \in Incomes, AnchorIdentity(u, income) PROVE IInv'
    BY <1>1, AnchorPreserves
  <1>2. ASSUME NEW i \in UploadIds, NEW u \in Users, UploadBegin(i, u) PROVE IInv'
    BY <1>2, UploadBeginPreserves
  <1>3. ASSUME NEW i \in UploadIds, NEW doc \in Documents, UploadParsed(i, doc) PROVE IInv'
    BY <1>3, UploadParsedPreserves
  <1>4. ASSUME NEW i \in UploadIds, UploadFails(i) PROVE IInv'
    BY <1>4, UploadFailsPreserves
  <1>5. CASE Submit BY <1>5, SubmitPreserves
  <1>6. CASE StoreConfirmed
    <2>1. sdkWaits /\ busy # None /\ busy.sent /\ busy.kyc \in confirmed /\ Store("real", TRUE)
      BY <1>6 DEF StoreConfirmed
    <2>2. oracleKey BY <2>1 DEF IInv, ChainInv, CallFresh
    <2> QED BY <2>1, <2>2, StorePreserves
  <1>13. CASE StorePending
    <2> DEFINE block == busy.kyc \in confirmed
    <2>1. ~sdkWaits /\ busy # None /\ busy.sent /\ block \in BOOLEAN /\ Store("real", block)
      BY <1>13 DEF StorePending
    <2>2. oracleKey BY <2>1 DEF IInv, ChainInv, CallFresh
    <2>3. block => busy.kyc \in confirmed OBVIOUS
    <2> HIDE DEF block
    <2> QED BY <2>1, <2>2, <2>3, StorePreserves
  <1>7. CASE StoreFallback BY <1>7, StorePreserves DEF StoreFallback
  <1>8. CASE StoreSimulated BY <1>8, StorePreserves DEF StoreSimulated
  <1>9. ASSUME NEW k \in pool, Confirm(k) PROVE IInv' BY <1>9, ConfirmPreserves
  <1>10. ASSUME NEW k \in pool, Expire(k) PROVE IInv' BY <1>10, ExpirePreserves
  <1>11. CASE Restart BY <1>11, RestartPreserves
  <1>12. CASE UNCHANGED vars
    <2>1. UNCHANGED <<agentVars, chainVars>> /\ UNCHANGED uploadVars BY <1>12 DEF vars
    <2>2. TypeOK' BY <2>1 DEF IInv, TypeOK, agentVars, chainVars, uploadVars
    <2> QED BY <2>1, <2>2, SameChain, SameUploads DEF IInv
  <1> QED BY <1>1, <1>2, <1>3, <1>4, <1>5, <1>6, <1>7, <1>8, <1>9, <1>10, <1>11, <1>12,
          <1>13 DEF Next, AgentStep

LEMMA Invariance == Spec => []IInv
  BY InitEstablishes, StepPreserves, PTL DEF Spec

-----------------------------------------------------------------------------
(* The agent, the contract's box, the pool and the uploads keep their      *)
(* types.                                                                  *)
THEOREM AgentTypeCorrect == Spec => []TypeOK
  <1>1. IInv => TypeOK BY DEF IInv
  <1> QED BY <1>1, Invariance, PTL

(* extract_and_anchor reports a real transaction only of a commitment the  *)
(* chain has executed, however late or early that was.                     *)
THEOREM RealMeansConfirmed == Spec => []RealIsConfirmed
  <1>1. IInv => RealIsConfirmed BY DEF IInv, ChainInv
  <1> QED BY <1>1, Invariance, PTL

(* The one box of TrustAnchor keeps the newest commitment that was executed*)
(* or one the agent had given up, and nothing else is ever still to come.  *)
THEOREM OnlyGivenUpIsLate == Spec => []OnlyGivenUpComeLate
  <1>1. IInv => OnlyGivenUpComeLate BY DEF IInv, ChainInv
  <1> QED BY <1>1, Invariance, PTL

(* An agent without a key never reaches the chain. *)
THEOREM NoKeyReachesNoChain == Spec => []NoKeyNoChain
  <1>1. IInv => NoKeyNoChain BY DEF IInv, ChainInv
  <1> QED BY <1>1, Invariance, PTL

(* Every temporary file is that of an upload being read or broken off. *)
THEOREM FilesAccountedFor == Spec => []TempFilesAccounted
  <1>1. IInv => TempFilesAccounted BY DEF IInv
  <1> QED BY <1>1, Invariance, PTL

-----------------------------------------------------------------------------
(* What the finding about the shared box amounts to: a commitment that was *)
(* executed and is not in the box (any more) never returns to it, and only *)
(* another call to extract_and_anchor puts its user on chain again.        *)
GoneForGood == \A k \in confirmed : k \in confirmed' /\ (k # box => k # box')

LEMMA StepGone == IInv /\ [Next]_vars => GoneForGood
  <1> SUFFICES ASSUME IInv, [Next]_vars PROVE GoneForGood OBVIOUS
  <1>1. ASSUME NEW k \in pool, Confirm(k) PROVE GoneForGood
    BY <1>1 DEF Confirm, GoneForGood, IInv, ChainInv, ExecutedOnce
  <1>2. CASE UNCHANGED <<box, confirmed>> BY <1>2 DEF GoneForGood
  <1>3. (\E k \in pool : Confirm(k)) \/ UNCHANGED <<box, confirmed>>
    BY DEF Next, AnchorIdentity, ExtractBegin, UploadBegin, UploadParsed, Uploaded,
           UploadFails, AgentStep, Submit, Send, StoreConfirmed, StorePending, StoreFallback,
           StoreSimulated,
           Store, Expire, Restart, vars, agentVars, chainVars, uploadVars
  <1> QED BY <1>1, <1>2, <1>3

(* TrustAnchor's register_anchor overwrites the one box for good. *)
THEOREM OverwrittenForGood == Spec => [][GoneForGood]_vars
  BY StepGone, Invariance, PTL DEF Spec

(* Steps a call to extract_and_anchor has left at most. *)
CallLeft == IF busy = None THEN 0 ELSE IF busy.sent THEN 1 ELSE 2

(* Nothing but its own next step, or the end of the process, touches a call*)
(* under way: not the requests that wait for the event loop, nor the chain.*)
CallShortens == busy # None /\ busy' # busy => CallLeft' < CallLeft

LEMMA StepShortens == IInv /\ [Next]_vars => CallShortens
  <1> SUFFICES ASSUME IInv, [Next]_vars, busy # None, busy' # busy
               PROVE  CallLeft' < CallLeft
    BY DEF CallShortens
  <1>1. CASE Send
    <2>1. /\ busy \in Call
          /\ ~busy.sent /\ busy' = [busy EXCEPT !.sent = TRUE]
      BY <1>1 DEF Send, IInv, TypeOK
    <2>2. busy'.sent /\ busy' # None BY <2>1, NoCall DEF Call
    <2> QED BY <2>1, <2>2 DEF CallLeft
  <1>2. CASE busy' = None BY <1>2 DEF CallLeft
  <1>3. Send \/ busy' = None
    BY DEF Next, AnchorIdentity, ExtractBegin, UploadBegin, UploadParsed, Uploaded,
           UploadFails, AgentStep, Submit, StoreConfirmed, StorePending, StoreFallback,
           StoreSimulated,
           Store, Confirm, Expire, Restart, vars, agentVars, chainVars, uploadVars
  <1> QED BY <1>1, <1>2, <1>3

(* The safety half of CallEnds: the event loop is blocked for two steps of *)
(* a call at most.                                                         *)
THEOREM CallsRunOut == Spec => [][CallShortens]_vars
  BY StepShortens, Invariance, PTL DEF Spec
=============================================================================
