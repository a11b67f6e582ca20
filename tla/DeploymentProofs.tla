--------------------------- MODULE DeploymentProofs ---------------------------
(***************************************************************************)
(* Proofs about Deployment, for any versions of the contracts, any listing *)
(* orders and any number of applications: what failed builds leave behind, *)
(* which application a link points to, and what is deployed or paid again, *)
(* however far the indexer lags and however late algod executes.           *)
(***************************************************************************)
EXTENDS Deployment, TLAPS

BuildStages == {"clear", "compile", "generate"}

(* Between the removal of the old output and the compiler's there is no    *)
(* client of the contract at hand.                                         *)
CompilesAfterClear == At("compile") => clients[Current] = None

OnDisk == ArtifactsPaired /\ CompilesAfterClear

(* Each run of the script: `deploy` never builds and `build` never         *)
(* deploys; each contract comes up once; apart from identity_registry's    *)
(* client, which truth_registry's deployment imports too, a client is only *)
(* imported when its contract is deployed, from beside its spec.           *)
Distinct(todo) == \A i, j \in DOMAIN todo : todo[i] = todo[j] => i = j
OneRun ==
  script # None =>
    /\ Distinct(script.todo)
    /\ script.action = "build" => script.stage \in BuildStages
    /\ script.action = "deploy" =>
         /\ script.stage \notin BuildStages
         /\ \A c \in Contracts : script.imported[c] \in {None, clients[c]}
    /\ \A i \in DOMAIN script.todo :
         script.todo[i] = "identity_registry" \/ script.imported[script.todo[i]] = None
           \/ (i = 1 /\ script.stage \notin BuildStages \cup {"import"})
    /\ script.stage = "generate" => specs[Current] # None
    /\ script.stage = "import" /\ script.action = "all" => specs[Current] # None
    /\ script.stage = "deploy" =>
         /\ script.imported[Current] # None
         /\ \/ script.imported[Current] = specs[Current]
            \/ Current = "identity_registry" /\ script.action = "all"

(* Of the first n applications, those of one name have a newest one.  (That*)
(* a finite set of numbers has a greatest element needs an induction, which*)
(* is here the one over the creations.)                                    *)
FirstApps(c, n) == {id \in AppsOf(c) : id <= n}
HasNewest ==
  \A c \in Contracts : \A n \in 0 .. Len(apps) :
    FirstApps(c, n) # {} => \E i \in FirstApps(c, n) : \A j \in FirstApps(c, n) : j <= i

(* What a creation was decided from, executed or not: it is linked to the  *)
(* newest application that was listed, and the newest one listed of its    *)
(* own name runs something else.                                           *)
Submitted == \A id \in DOMAIN apps : apps[id].creation \in DOMAIN sent
Considered(k) ==
  /\ sent[k].seen <= Len(apps)
  /\ \A id \in DOMAIN apps : apps[id].creation = k => sent[k].seen < id
  /\ sent[k].contract = "truth_registry" =>
       /\ sent[k].link \in AppsOf("identity_registry")
       /\ \A j \in AppsOf("identity_registry") : j <= sent[k].seen => j <= sent[k].link
  /\ \A i \in AppsOf(sent[k].contract) :
       i <= sent[k].seen /\ CreationOf(i).version = sent[k].version =>
         \E m \in AppsOf(sent[k].contract) :
           i < m /\ m <= sent[k].seen /\ CreationOf(m).version # sent[k].version

(* The application about to be paid is the one just created, and nobody    *)
(* else pays it.                                                           *)
Unpaid(id) == apps[id].due = 0 /\ apps[id].algos = 0
PaysItsOwn ==
  /\ At("create") =>
       /\ Len(sent) \in DOMAIN sent /\ sent[Len(sent)].contract = Current
       /\ \A id \in DOMAIN apps : apps[id].creation = Len(sent) => Unpaid(id)
  /\ At("fund") => script.created \in AppsOf("trust_anchor") /\ Unpaid(script.created)
PaidOnce ==
  \A id \in DOMAIN apps :
    apps[id].due + apps[id].algos <= IF CreationOf(id).contract = "trust_anchor" THEN 1 ELSE 0

OnChain ==
  /\ Submitted /\ HasNewest
  /\ \A k \in DOMAIN sent : Considered(k)
  /\ PaysItsOwn /\ PaidOnce

IInv == TypeOK /\ OnDisk /\ OneRun /\ OnChain
-----------------------------------------------------------------------------
LEMMA InitEstablishes == Init => IInv
<1> SUFFICES ASSUME Init PROVE IInv
  OBVIOUS
<1> USE DEF Init
<1>1. DOMAIN apps = {} /\ apps \in Seq(App) /\ Len(apps) = 0
      /\ DOMAIN sent = {} /\ sent \in Seq(Creation)
  OBVIOUS
<1>2. TypeOK
  BY <1>1 DEF TypeOK, Modules
<1>3. OnDisk /\ OneRun
  BY DEF OnDisk, ArtifactsPaired, CompilesAfterClear, OneRun, At
<1>4. \A c : AppsOf(c) = {}
  BY <1>1 DEF AppsOf
<1>5. OnChain
  BY <1>1, <1>4 DEF OnChain, Submitted, HasNewest, FirstApps, PaysItsOwn, PaidOnce, At
<1> QED
  BY <1>2, <1>3, <1>5 DEF IInv

(* Facts about the applications that every step needs.                     *)
LEMMA ChainFacts ==
  ASSUME TypeOK, Submitted
  PROVE  /\ Len(apps) \in Nat /\ DOMAIN apps = 1 .. Len(apps)
         /\ Len(sent) \in Nat /\ DOMAIN sent = 1 .. Len(sent)
         /\ indexed \in Nat /\ indexed <= Len(apps)
         /\ \A id \in DOMAIN apps : apps[id] \in App /\ CreationOf(id) \in Creation
         /\ \A k \in DOMAIN sent : sent[k] \in Creation
         /\ \A c : AppsOf(c) \subseteq DOMAIN apps
<1>1. /\ Len(apps) \in Nat /\ DOMAIN apps = 1 .. Len(apps)
      /\ Len(sent) \in Nat /\ DOMAIN sent = 1 .. Len(sent)
      /\ indexed \in Nat /\ indexed <= Len(apps)
      /\ \A id \in DOMAIN apps : apps[id] \in App
      /\ \A k \in DOMAIN sent : sent[k] \in Creation
  BY DEF TypeOK
<1>2. \A c : AppsOf(c) \subseteq DOMAIN apps
  BY DEF AppsOf
<1> QED
  BY <1>1, <1>2 DEF Submitted, CreationOf

(* An application that is found is listed, and no newer one of its name is.*)
LEMMA FoundIsNewest ==
  ASSUME TypeOK, Submitted, HasNewest, NEW c \in Contracts
  PROVE  /\ ByCreatorAndName(c) = 0 <=> Listed(c) = {}
         /\ Listed(c) # {} => /\ ByCreatorAndName(c) \in Listed(c)
                              /\ \A j \in Listed(c) : j <= ByCreatorAndName(c)
<1>1. CASE Listed(c) = {}
  BY <1>1 DEF ByCreatorAndName
<1>2. CASE Listed(c) # {}
  <2>1. Listed(c) = FirstApps(c, indexed) /\ indexed \in 0 .. Len(apps)
    BY DEF Listed, FirstApps, TypeOK
  <2>2. \E i \in Listed(c) : \A j \in Listed(c) : j <= i
    BY <1>2, <2>1 DEF HasNewest
  <2>3. Newest(Listed(c)) \in Listed(c) /\ \A j \in Listed(c) : j <= Newest(Listed(c))
    BY <2>2 DEF Newest
  <2>4. 0 \notin Listed(c)
    BY ChainFacts DEF Listed
  <2> QED
    BY <1>2, <2>3, <2>4 DEF ByCreatorAndName
<1> QED
  BY <1>1, <1>2
-----------------------------------------------------------------------------
(* Moving on keeps a script a script.                                      *)
LEMMA ScriptMoves ==
  ASSUME TypeOK, script # None
  PROVE  /\ script \in Script /\ Current \in Contracts /\ Current = script.todo[1]
         /\ 1 \in DOMAIN script.todo
         /\ \A stage \in Stages : GoTo(stage) =>
              /\ script' \in Script /\ script' # None /\ script'.stage = stage
              /\ script'.todo = script.todo /\ script'.action = script.action
              /\ script'.imported = script.imported /\ script'.created = script.created
              /\ Current' = Current
         /\ NextContract /\ script' # None =>
              /\ script' \in Script /\ script'.todo = Tail(script.todo) /\ script'.todo # <<>>
              /\ script'.action = script.action /\ script'.imported = script.imported
              /\ script'.stage = FirstStage(script.action)
<1>1. script \in Script /\ script.todo \in Seq(Contracts) /\ script.todo # <<>>
  BY DEF TypeOK, Script
<1>2. Current \in Contracts /\ Current = script.todo[1] /\ 1 \in DOMAIN script.todo
  BY <1>1 DEF Current
<1>3. ASSUME NEW stage \in Stages, GoTo(stage)
      PROVE  /\ script' \in Script /\ script' # None /\ script'.stage = stage
             /\ script'.todo = script.todo /\ script'.action = script.action
             /\ script'.imported = script.imported /\ script'.created = script.created
             /\ Current' = Current
  <2>1. /\ script' \in Script /\ script'.todo = script.todo /\ script'.stage = stage
        /\ script'.action = script.action /\ script'.imported = script.imported
        /\ script'.created = script.created
    BY <1>1, <1>3 DEF GoTo, Script
  <2> QED
    BY <2>1, DeploymentAssumption DEF Current
<1>4. ASSUME NextContract, script' # None
      PROVE  /\ script' \in Script /\ script'.todo = Tail(script.todo) /\ script'.todo # <<>>
             /\ script'.action = script.action /\ script'.imported = script.imported
             /\ script'.stage = FirstStage(script.action)
  <2>1. Tail(script.todo) # <<>> /\ Tail(script.todo) \in Seq(Contracts)
    BY <1>1, <1>4 DEF NextContract
  <2>2. FirstStage(script.action) \in Stages
    BY DEF FirstStage, Stages
  <2>3. script' = [script EXCEPT !.todo = Tail(@), !.stage = FirstStage(script.action)]
    BY <1>4, <2>1 DEF NextContract
  <2> QED
    BY <1>1, <2>1, <2>2, <2>3 DEF Script
<1> QED
  BY <1>1, <1>2, <1>3, <1>4

(* Going to the next contract, from a deployment or from a build, needs    *)
(* nothing but the facts about the contracts still to do.                  *)
LEMMA NextContractRuns ==
  ASSUME TypeOK, OneRun, script # None, NextContract, UNCHANGED clients \/ script.action = "build"
  PROVE  OneRun' /\ ~At("compile")' /\ ~At("create")' /\ ~At("fund")'
<1>1. CASE script' = None
  BY <1>1 DEF OneRun, At
<1>2. CASE script' # None
  <2>1. /\ script \in Script /\ script' \in Script /\ script'.todo = Tail(script.todo)
        /\ script'.todo # <<>> /\ script.todo \in Seq(Contracts) /\ script.todo # <<>>
        /\ script'.action = script.action /\ script'.imported = script.imported
        /\ script'.stage = FirstStage(script.action)
    BY <1>2, ScriptMoves DEF TypeOK, Script
  <2>2. \A i \in DOMAIN script'.todo :
          i + 1 \in DOMAIN script.todo /\ i + 1 # 1 /\ script'.todo[i] = script.todo[i + 1]
    BY <2>1
  <2>3. Distinct(script'.todo)
    <3> SUFFICES ASSUME NEW i \in DOMAIN script'.todo, NEW j \in DOMAIN script'.todo,
                        script'.todo[i] = script'.todo[j]
                 PROVE  i = j
      BY DEF Distinct
    <3>1. i + 1 = j + 1 /\ i \in Nat /\ j \in Nat
      BY <2>1, <2>2 DEF OneRun, Distinct
    <3> QED
      BY <3>1
  <2>4. \A i \in DOMAIN script'.todo :
          script'.todo[i] = "identity_registry" \/ script'.imported[script'.todo[i]] = None
    BY <2>1, <2>2 DEF OneRun
  <2>5. /\ script'.action = "build" => script'.stage = "clear"
        /\ script'.action = "deploy" => script'.stage = "import"
        /\ script'.action = "all" => script'.stage = "clear"
        /\ script'.action \in {"build", "deploy", "all"}
    BY <2>1 DEF FirstStage, Script
  <2>6. script'.action = "deploy" =>
          \A c \in Contracts : script'.imported[c] \in {None, clients'[c]}
    BY <2>1 DEF OneRun
  <2> QED
    BY <2>3, <2>4, <2>5, <2>6 DEF OneRun, At, BuildStages
<1> QED
  BY <1>1, <1>2

(* A step that leaves the chain alone, and neither submits nor pays.       *)
LEMMA SameChain ==
  ASSUME OnChain, UNCHANGED <<sent, apps>>, At("create")' => UNCHANGED script,
         At("fund")' => UNCHANGED script
  PROVE  OnChain'
<1>1. \A c : AppsOf(c)' = AppsOf(c)
  BY DEF AppsOf, CreationOf
<1>2. PaysItsOwn'
  BY <1>1 DEF OnChain, PaysItsOwn, At, Current, Unpaid
<1> QED
  BY <1>1, <1>2
     DEF OnChain, Submitted, HasNewest, FirstApps, Considered, PaidOnce, CreationOf

(* A step that leaves the artifacts alone, and does not go to "compile".   *)
LEMMA SameDisk ==
  ASSUME OnDisk, UNCHANGED <<specs, clients>>, At("compile")' => UNCHANGED script
  PROVE  OnDisk'
  BY DEF OnDisk, ArtifactsPaired, CompilesAfterClear, At, Current

LEMMA SameRun ==
  ASSUME OneRun, UNCHANGED <<specs, clients, script>>
  PROVE  OneRun'
  BY DEF OneRun, Current
-----------------------------------------------------------------------------
LEMMA RemoveFilePreserves == ASSUME IInv, RemoveFile PROVE IInv'
<1>1. TypeOK /\ OnDisk /\ OneRun /\ OnChain /\ script # None /\ script.stage = "clear"
      /\ UNCHANGED <<sources, chain, script>>
  BY DEF IInv, RemoveFile, At
<1>2. Current \in Contracts
  BY <1>1, ScriptMoves
<1>3. /\ specs' \in {specs, [specs EXCEPT ![Current] = None]}
      /\ clients' \in {clients, [clients EXCEPT ![Current] = None]}
  BY DEF RemoveFile
<1>4. TypeOK'
  BY <1>1, <1>2, <1>3 DEF TypeOK, Modules, chain
<1>5. OnDisk'
  BY <1>1, <1>2, <1>3 DEF OnDisk, ArtifactsPaired, CompilesAfterClear, At, TypeOK, Modules
<1>6. OneRun'
  BY <1>1 DEF OneRun, BuildStages
<1>7. OnChain'
  BY <1>1, SameChain DEF chain
<1> QED
  BY <1>4, <1>5, <1>6, <1>7 DEF IInv

LEMMA BuildPreserves == ASSUME IInv, OutputCleared \/ Compile PROVE IInv'
<1>1. TypeOK /\ OnDisk /\ OneRun /\ OnChain /\ script # None
      /\ script.stage \in {"clear", "compile"} /\ UNCHANGED <<sources, clients, chain>>
  BY DEF IInv, OutputCleared, Compile, At, disk
<1>2. Current \in Contracts /\ script \in Script
  BY <1>1, ScriptMoves
<1>3. /\ script' \in Script /\ script' # None /\ script'.stage \in {"compile", "generate"}
      /\ script'.todo = script.todo /\ script'.action = script.action
      /\ script'.imported = script.imported /\ Current' = Current
  BY <1>1, ScriptMoves DEF OutputCleared, Compile, Stages
<1>4. OnChain'
  BY <1>1, <1>3, SameChain DEF chain, At
<1>5. CASE OutputCleared
  <2>1. script'.stage = "compile" /\ UNCHANGED specs /\ clients[Current] = None
    BY <1>1, <1>5, ScriptMoves DEF OutputCleared, Stages, disk
  <2>2. TypeOK'
    BY <1>1, <1>3, <2>1 DEF TypeOK, chain
  <2>3. OnDisk'
    BY <1>1, <1>3, <2>1 DEF OnDisk, ArtifactsPaired, CompilesAfterClear
  <2>4. OneRun'
    BY <1>1, <1>3, <2>1 DEF OneRun, BuildStages
  <2> QED
    BY <1>4, <2>2, <2>3, <2>4 DEF IInv
<1>6. CASE Compile
  <2>1. /\ specs' = [specs EXCEPT ![Current] = sources[Current]] /\ clients[Current] = None
        /\ script'.stage = "generate"
    BY <1>1, <1>6, ScriptMoves DEF Compile, OnDisk, CompilesAfterClear, Stages
  <2>2. sources[Current] \in Versions /\ specs'[Current] = sources[Current]
        /\ specs' \in Modules /\ \A c \in Contracts : c # Current => specs'[c] = specs[c]
    BY <1>1, <1>2, <2>1 DEF TypeOK, Modules
  <2>3. TypeOK'
    BY <1>1, <1>3, <2>2 DEF TypeOK, chain
  <2>4. OnDisk'
    BY <1>1, <1>2, <1>3, <2>1, <2>2 DEF OnDisk, ArtifactsPaired, CompilesAfterClear, At
  <2>5. OneRun'
    BY <1>1, <1>3, <2>1, <2>2, DeploymentAssumption DEF OneRun, BuildStages
  <2> QED
    BY <1>4, <2>3, <2>4, <2>5 DEF IInv
<1> QED
  BY <1>5, <1>6

LEMMA GeneratePreserves == ASSUME IInv, GenerateClient PROVE IInv'
<1>1. TypeOK /\ OnDisk /\ OneRun /\ OnChain /\ script # None /\ script.stage = "generate"
      /\ UNCHANGED <<sources, specs, chain>>
      /\ clients' = [clients EXCEPT ![Current] = specs[Current]]
  BY DEF IInv, GenerateClient, At
<1>2. Current \in Contracts /\ script \in Script
  BY <1>1, ScriptMoves
<1>3. clients' \in Modules /\ ArtifactsPaired'
  BY <1>1, <1>2 DEF TypeOK, Modules, OnDisk, ArtifactsPaired
<1>4. CASE script.action = "all"
  <2>1. /\ script' \in Script /\ script' # None /\ script'.stage = "import"
        /\ script'.todo = script.todo /\ script'.action = script.action
        /\ script'.imported = script.imported /\ Current' = Current
    BY <1>1, <1>4, ScriptMoves DEF GenerateClient, Stages
  <2>2. TypeOK'
    BY <1>1, <1>3, <2>1 DEF TypeOK, chain
  <2>3. OnDisk'
    BY <1>3, <2>1 DEF OnDisk, CompilesAfterClear, At
  <2>4. OneRun'
    BY <1>1, <1>4, <2>1 DEF OneRun, BuildStages
  <2>5. OnChain'
    BY <1>1, <2>1, SameChain DEF At, chain
  <2> QED
    BY <2>2, <2>3, <2>4, <2>5 DEF IInv
<1>5. CASE script.action # "all"
  <2>1. NextContract /\ script.action = "build"
    BY <1>1, <1>2, <1>5 DEF GenerateClient, OneRun, BuildStages, Script
  <2>2. OneRun' /\ ~At("compile")' /\ ~At("create")' /\ ~At("fund")'
    BY <1>1, <2>1, NextContractRuns
  <2>3. script' # None => script' \in Script /\ script'.todo # <<>>
    BY <1>1, <2>1, ScriptMoves
  <2>4. TypeOK'
    BY <1>1, <1>3, <2>3 DEF TypeOK, chain
  <2>5. OnDisk'
    BY <1>3, <2>2 DEF OnDisk, CompilesAfterClear
  <2>6. OnChain'
    BY <1>1, <2>2, SameChain DEF chain
  <2> QED
    BY <2>2, <2>4, <2>5, <2>6 DEF IInv
<1> QED
  BY <1>4, <1>5

(* A client that this deployment imports lies beside its spec, unless it   *)
(* is identity_registry's and an earlier deployment of the run had it.     *)
LEMMA ImportPreserves == ASSUME IInv, ImportClients PROVE IInv'
<1> DEFINE modules == [c \in Contracts |-> IF c \in Imports(Current) /\ script.imported[c] = None
                                           THEN clients[c] ELSE script.imported[c]]
<1>1. TypeOK /\ OnDisk /\ OneRun /\ OnChain /\ script # None /\ script.stage = "import"
      /\ UNCHANGED <<disk, chain>>
  BY DEF IInv, ImportClients, At
<1>2. /\ script \in Script /\ Current \in Contracts /\ Current = script.todo[1]
      /\ 1 \in DOMAIN script.todo /\ script.imported \in Modules
  BY <1>1, ScriptMoves DEF Script
<1>3. modules \in Modules
  BY <1>1, <1>2 DEF TypeOK, Modules
<1>4. script' = [script EXCEPT !.stage = "deploy", !.imported = modules]
  BY DEF ImportClients
<1> HIDE DEF modules
<1>5. /\ script' \in Script /\ script'.stage = "deploy" /\ script'.imported = modules
      /\ script'.todo = script.todo /\ script'.action = script.action
  BY <1>2, <1>3, <1>4 DEF Script, Stages
<1>6. script' # None /\ Current' = Current
  BY <1>5, DeploymentAssumption DEF Current
<1>7. TypeOK'
  BY <1>1, <1>5, <1>6 DEF TypeOK, disk, chain
<1>8. OnDisk'
  BY <1>1, <1>5, SameDisk DEF At, disk
<1>9. OneRun'
  <2>1. \A c \in Contracts : modules[c] = IF c \in Imports(Current) /\ script.imported[c] = None
                                          THEN clients[c] ELSE script.imported[c]
    BY DEF modules
  <2>2. script'.action # "build" /\ script'.action \in {"deploy", "all"}
    BY <1>1, <1>2, <1>5 DEF OneRun, BuildStages, Script
  <2>3. script'.action = "deploy" => \A c \in Contracts : script'.imported[c] \in {None, clients'[c]}
    BY <1>1, <1>5, <2>1 DEF OneRun, disk
  <2>4. \A i \in DOMAIN script'.todo :
          script'.todo[i] = "identity_registry" \/ script'.imported[script'.todo[i]] = None \/ i = 1
    <3> SUFFICES ASSUME NEW i \in DOMAIN script.todo, script.todo[i] # "identity_registry", i # 1
                 PROVE  modules[script.todo[i]] = None
      BY <1>5
    <3>1. script.todo[i] \in Contracts
      BY <1>2 DEF Script
    <3>2. script.todo[i] # Current
      BY <1>1, <1>2 DEF OneRun, Distinct
    <3>3. script.todo[i] \notin Imports(Current)
      BY <3>2 DEF Imports
    <3>4. script.imported[script.todo[i]] = None
      BY <1>1 DEF OneRun
    <3> QED
      BY <2>1, <3>1, <3>3, <3>4
  <2>5. modules[Current] # None
    BY <1>2, <2>1 DEF ImportClients, Imports
  <2>6. specs[Current] # None
    BY <1>1, <1>5, <2>2 DEF ImportClients, OneRun
  <2>7. CASE script.imported[Current] = None
    <3>1. modules[Current] = clients[Current]
      BY <1>2, <2>1, <2>7 DEF Imports
    <3> QED
      BY <1>1, <1>2, <1>5, <1>6, <2>2, <2>3, <2>4, <2>5, <2>6, <3>1
         DEF OneRun, OnDisk, ArtifactsPaired, BuildStages, disk
  <2>8. CASE script.imported[Current] # None
    <3>1. Current = "identity_registry" /\ modules[Current] = script.imported[Current]
      BY <1>1, <1>2, <2>1, <2>8 DEF OneRun
    <3>2. script.action = "deploy" => modules[Current] = clients[Current]
      BY <1>1, <1>2, <2>8, <3>1 DEF OneRun
    <3> QED
      BY <1>1, <1>2, <1>5, <1>6, <2>2, <2>3, <2>4, <2>5, <2>6, <3>1, <3>2
         DEF OneRun, OnDisk, ArtifactsPaired, BuildStages, disk
  <2> QED
    BY <2>7, <2>8
<1>10. OnChain'
  BY <1>1, <1>5, SameChain DEF At, chain
<1> QED
  BY <1>7, <1>8, <1>9, <1>10 DEF IInv
-----------------------------------------------------------------------------
(* Steps that only move the run on to its next contract.                   *)
LEMMA MovingOnPreserves ==
  ASSUME IInv, script # None, NextContract, UNCHANGED <<disk, chain>>
  PROVE  IInv'
<1>1. TypeOK /\ OnDisk /\ OneRun /\ OnChain
  BY DEF IInv
<1>2. OneRun' /\ ~At("compile")' /\ ~At("create")' /\ ~At("fund")'
  BY <1>1, NextContractRuns DEF disk
<1>3. script' # None => script' \in Script /\ script'.todo # <<>>
  BY <1>1, ScriptMoves
<1>4. TypeOK'
  BY <1>1, <1>3 DEF TypeOK, disk, chain
<1> QED
  BY <1>1, <1>2, <1>4, SameDisk, SameChain DEF IInv, disk, chain

(* A new creation joins those submitted; the applications stay.            *)
LEMMA SubmitCreationPreserves == ASSUME IInv, SubmitCreation PROVE IInv'
<1> DEFINE new == [contract |-> Current, version |-> script.imported[Current],
                   link |-> LinkOf(Current), seen |-> indexed]
           last == Len(sent) + 1
<1>1. /\ TypeOK /\ OnDisk /\ OneRun /\ OnChain /\ Submitted /\ HasNewest /\ PaidOnce
      /\ script # None /\ script.stage = "deploy" /\ UNCHANGED <<disk, apps, indexed>>
  BY DEF IInv, OnChain, SubmitCreation, At
<1>2. Current \in Contracts /\ script \in Script
  BY <1>1, ScriptMoves
<1>3. sent' = Append(sent, new)
  BY DEF SubmitCreation
<1>4. new \in Creation
  <2>1. script.imported[Current] \in Versions
    BY <1>1, <1>2 DEF OneRun, Script, Modules
  <2>2. LinkOf(Current) \in Nat
    BY <1>1, FoundIsNewest, ChainFacts DEF LinkOf, Contracts, Listed
  <2> QED
    BY <1>1, <1>2, <2>1, <2>2, ChainFacts DEF Creation
<1>5. /\ new.contract = Current /\ new.version = script.imported[Current]
      /\ new.link = LinkOf(Current) /\ new.seen = indexed
  OBVIOUS
<1> HIDE DEF new
<1>6. /\ Len(sent) \in Nat /\ Len(sent') = last /\ DOMAIN sent = 1 .. Len(sent)
      /\ DOMAIN sent' = DOMAIN sent \cup {last} /\ last \notin DOMAIN sent
      /\ sent' \in Seq(Creation) /\ sent'[last] = new
      /\ \A k \in DOMAIN sent : sent'[k] = sent[k]
  BY <1>1, <1>3, <1>4 DEF TypeOK
<1>7. /\ \A id \in DOMAIN apps : apps[id].creation \in DOMAIN sent /\ apps[id].creation # last
                                  /\ CreationOf(id)' = CreationOf(id)
      /\ \A c : AppsOf(c)' = AppsOf(c)
  BY <1>1, <1>6 DEF Submitted, CreationOf, AppsOf
<1>8. /\ script' \in Script /\ script' # None /\ script'.stage = "create"
      /\ script'.todo = script.todo /\ script'.action = script.action
      /\ script'.imported = script.imported /\ Current' = Current
  BY <1>1, ScriptMoves DEF SubmitCreation, Stages
<1>9. TypeOK'
  BY <1>1, <1>6, <1>8 DEF TypeOK, disk
<1>10. OnDisk'
  BY <1>1, <1>8, SameDisk DEF At, disk
<1>11. OneRun'
  BY <1>1, <1>8 DEF OneRun, BuildStages, disk
<1>12. Submitted' /\ HasNewest'
  BY <1>1, <1>6, <1>7 DEF Submitted, HasNewest, FirstApps
<1>13. ASSUME NEW k \in DOMAIN sent' PROVE Considered(k)'
  <2>1. CASE k \in DOMAIN sent
    <3>1. Considered(k) /\ sent'[k] = sent[k]
      BY <1>1, <1>6, <2>1 DEF OnChain
    <3>2. \A c : \A i \in AppsOf(c) : CreationOf(i)' = CreationOf(i)
      BY <1>7 DEF AppsOf
    <3> QED
      BY <1>1, <1>7, <3>1, <3>2 DEF Considered
  <2>2. CASE k = last
    <3>1. sent'[k] = new /\ indexed <= Len(apps) /\ indexed \in Nat
      BY <1>1, <1>6, <2>2, ChainFacts
    <3>2. \A id \in DOMAIN apps : apps[id].creation # k
      BY <1>7, <2>2
    <3>3. ASSUME Current = "truth_registry"
          PROVE  /\ new.link \in AppsOf("identity_registry")
                 /\ \A j \in AppsOf("identity_registry") : j <= indexed => j <= new.link
      <4>1. new.link = ByCreatorAndName("identity_registry") /\ new.link # 0
        BY <1>5, <3>3 DEF LinkOf, SubmitCreation, Deployable
      <4>2. new.link \in Listed("identity_registry")
            /\ \A j \in Listed("identity_registry") : j <= new.link
        BY <1>1, <4>1, FoundIsNewest DEF Contracts
      <4> QED
        BY <4>2 DEF Listed
    <3>4. ASSUME NEW i \in AppsOf(Current), i <= indexed, CreationOf(i).version = new.version
          PROVE  \E m \in AppsOf(Current) :
                   i < m /\ m <= indexed /\ CreationOf(m).version # new.version
      <4> DEFINE m == ByCreatorAndName(Current)
      <4>1. i \in Listed(Current)
        BY <3>4 DEF Listed
      <4>2. m \in Listed(Current) /\ i <= m /\ m # 0
        BY <1>1, <1>2, <4>1, FoundIsNewest
      <4>3. CreationOf(m).version # new.version
        BY <1>5, <4>2 DEF SubmitCreation, UpToDate
      <4>4. m \in AppsOf(Current) /\ m <= indexed
        BY <4>2 DEF Listed
      <4> HIDE DEF m
      <4>5. i # m
        BY <3>4, <4>3
      <4>6. i \in Nat /\ m \in Nat
        BY <1>1, <4>4, ChainFacts
      <4> QED
        BY <4>2, <4>3, <4>4, <4>5, <4>6
    <3>5. \A c : \A i \in AppsOf(c) : CreationOf(i)' = CreationOf(i)
      BY <1>7 DEF AppsOf
    <3> QED
      BY <1>1, <1>5, <1>7, <3>1, <3>2, <3>3, <3>4, <3>5 DEF Considered
  <2> QED
    BY <1>6, <2>1, <2>2
<1>14. PaysItsOwn'
  BY <1>1, <1>5, <1>6, <1>7, <1>8 DEF PaysItsOwn, At, Unpaid
<1>15. PaidOnce'
  BY <1>1, <1>7 DEF PaidOnce
<1> QED
  BY <1>9, <1>10, <1>11, <1>12, <1>13, <1>14, <1>15 DEF IInv, OnChain

LEMMA CreationConfirmedPreserves == ASSUME IInv, CreationConfirmed PROVE IInv'
<1>1. TypeOK /\ OnDisk /\ OneRun /\ OnChain /\ script # None /\ script.stage = "create"
      /\ UNCHANGED <<disk, chain>>
  BY DEF IInv, CreationConfirmed, At
<1>2. PICK id \in DOMAIN apps :
        /\ apps[id].creation = Len(sent)
        /\ IF Current = "trust_anchor"
           THEN script' = [script EXCEPT !.stage = "fund", !.created = id]
           ELSE NextContract
  BY DEF CreationConfirmed
<1>3. CASE Current # "trust_anchor"
  BY <1>1, <1>2, <1>3, MovingOnPreserves
<1>4. CASE Current = "trust_anchor"
  <2>1. script \in Script /\ id \in Nat
    BY <1>1, <1>2, ScriptMoves, ChainFacts DEF OnChain
  <2>2. /\ script' \in Script /\ script'.stage = "fund" /\ script'.created = id
        /\ script'.todo = script.todo /\ script'.action = script.action
        /\ script'.imported = script.imported
    BY <1>2, <1>4, <2>1 DEF Script, Stages
  <2>3. script' # None /\ Current' = Current
    BY <2>2, DeploymentAssumption DEF Current
  <2>4. TypeOK'
    BY <1>1, <2>2, <2>3 DEF TypeOK, disk, chain
  <2>5. OnDisk'
    BY <1>1, <2>2, SameDisk DEF At, disk
  <2>6. OneRun'
    BY <1>1, <2>2, <2>3 DEF OneRun, BuildStages, disk
  <2>7. sent[Len(sent)].contract = "trust_anchor" /\ Unpaid(id)
    BY <1>1, <1>2, <1>4 DEF OnChain, PaysItsOwn, At
  <2>8. id \in AppsOf("trust_anchor")
    BY <1>2, <2>7 DEF AppsOf, CreationOf
  <2>9. /\ UNCHANGED <<sent, apps>> /\ \A c : AppsOf(c)' = AppsOf(c)
        /\ \A i \in DOMAIN apps : CreationOf(i)' = CreationOf(i)
    BY <1>1 DEF chain, AppsOf, CreationOf
  <2>10. PaysItsOwn'
    BY <2>2, <2>7, <2>8, <2>9 DEF PaysItsOwn, At, Unpaid
  <2>11. OnChain'
    BY <1>1, <2>9, <2>10
       DEF OnChain, Submitted, HasNewest, FirstApps, Considered, PaidOnce, CreationOf
  <2> QED
    BY <2>4, <2>5, <2>6, <2>11 DEF IInv
<1> QED
  BY <1>3, <1>4
-----------------------------------------------------------------------------
(* A payment submitted or executed changes nothing but what one            *)
(* application is due and has.                                             *)
Paying(id, app) ==
  /\ id \in DOMAIN apps /\ app \in App /\ app.creation = apps[id].creation
  /\ apps' = [apps EXCEPT ![id] = app]
  /\ UNCHANGED <<disk, sent, indexed>>

LEMMA PayingFacts ==
  ASSUME TypeOK, OnChain, NEW id, NEW app, Paying(id, app)
  PROVE  /\ apps' \in Seq(App) /\ Len(apps') = Len(apps) /\ DOMAIN apps' = DOMAIN apps
         /\ apps'[id] = app /\ \A i \in DOMAIN apps : i # id => apps'[i] = apps[i]
         /\ \A i \in DOMAIN apps : apps'[i].creation = apps[i].creation
                                   /\ CreationOf(i)' = CreationOf(i)
         /\ \A c : AppsOf(c)' = AppsOf(c)
         /\ Submitted' /\ HasNewest' /\ \A k \in DOMAIN sent' : Considered(k)'
<1>1. /\ apps' \in Seq(App) /\ Len(apps') = Len(apps) /\ DOMAIN apps' = DOMAIN apps
      /\ apps'[id] = app /\ \A i \in DOMAIN apps : i # id => apps'[i] = apps[i]
  BY DEF Paying, TypeOK
<1>2. \A i \in DOMAIN apps : apps'[i].creation = apps[i].creation /\ CreationOf(i)' = CreationOf(i)
  BY <1>1 DEF Paying, CreationOf
<1>3. ASSUME NEW c PROVE AppsOf(c)' = AppsOf(c) /\ AppsOf(c) \subseteq DOMAIN apps
  BY <1>1, <1>2, Zenon DEF AppsOf
<1>4. Submitted' /\ HasNewest'
  BY <1>1, <1>2, <1>3 DEF OnChain, Submitted, HasNewest, FirstApps, Paying
<1>5. ASSUME NEW k \in DOMAIN sent' PROVE Considered(k)'
  <2>1. Considered(k) /\ UNCHANGED sent
    BY <1>5 DEF OnChain, Paying
  <2>2. \A c : \A i \in AppsOf(c) : CreationOf(i)' = CreationOf(i)
    BY <1>2, <1>3
  <2> QED
    BY <1>1, <1>2, <1>3, <2>1, <2>2 DEF Considered
<1> QED
  BY <1>1, <1>2, <1>3, <1>4, <1>5

LEMMA FundPreserves == ASSUME IInv, Fund PROVE IInv'
<1> DEFINE id == script.created
           app == [apps[id] EXCEPT !.due = @ + 1]
<1>1. /\ TypeOK /\ OnDisk /\ OneRun /\ OnChain /\ PaidOnce /\ script # None
      /\ script.stage = "fund" /\ id \in AppsOf("trust_anchor") /\ Unpaid(id)
  BY DEF IInv, OnChain, PaysItsOwn, Fund, At
<1>2. id \in DOMAIN apps /\ CreationOf(id).contract = "trust_anchor" /\ apps[id] \in App
  BY <1>1, ChainFacts DEF AppsOf, OnChain
<1>3. app \in App /\ app.creation = apps[id].creation /\ app.due = 1 /\ app.algos = 0
  BY <1>1, <1>2 DEF App, Unpaid
<1>4. apps' = [apps EXCEPT ![id] = app] /\ UNCHANGED <<disk, sent, indexed>>
  BY DEF Fund, Pay
<1>5. Paying(id, app)
  BY <1>2, <1>3, <1>4 DEF Paying
<1> HIDE DEF id, app
<1>6. /\ script' \in Script /\ script' # None /\ script'.stage = "pay"
      /\ script'.todo = script.todo /\ script'.action = script.action
      /\ script'.imported = script.imported /\ Current' = Current
  BY <1>1, ScriptMoves DEF Fund, Pay, Stages
<1>7. TypeOK'
  BY <1>1, <1>4, <1>5, <1>6, PayingFacts DEF TypeOK, disk
<1>8. OnDisk'
  BY <1>1, <1>4, <1>6, SameDisk DEF At, disk
<1>9. OneRun'
  BY <1>1, <1>4, <1>6 DEF OneRun, BuildStages, disk
<1>10. PaysItsOwn'
  BY <1>6 DEF PaysItsOwn, At
<1>11. PaidOnce'
  BY <1>1, <1>2, <1>3, <1>5, PayingFacts DEF PaidOnce
<1> QED
  BY <1>1, <1>5, <1>7, <1>8, <1>9, <1>10, <1>11, PayingFacts DEF IInv, OnChain

LEMMA ExecutePaymentPreserves ==
  ASSUME IInv, NEW id \in DOMAIN apps, ExecutePayment(id)
  PROVE  IInv'
<1> DEFINE app == [creation |-> apps[id].creation, due |-> apps[id].due - 1,
                   algos |-> apps[id].algos + 1]
<1>1. TypeOK /\ OnDisk /\ OneRun /\ OnChain /\ PaidOnce /\ PaysItsOwn /\ UNCHANGED script
  BY DEF IInv, OnChain, ExecutePayment
<1>2. apps[id] \in App /\ apps[id].due > 0
  BY <1>1, ChainFacts DEF OnChain, ExecutePayment
<1>3. apps[id].due \in Nat /\ apps[id].algos \in Nat /\ apps[id].creation \in Nat
  BY <1>2 DEF App
<1>4. /\ app \in App /\ app.creation = apps[id].creation
      /\ app.due + app.algos = apps[id].due + apps[id].algos
  BY <1>2, <1>3 DEF App
<1>5. Paying(id, app)
  <2>1. apps' = [apps EXCEPT ![id] = app]
    BY DEF ExecutePayment
  <2> QED
    BY <1>4, <2>1 DEF Paying, ExecutePayment
<1> HIDE DEF app
<1>6. TypeOK'
  BY <1>1, <1>5, PayingFacts DEF TypeOK, Paying, disk
<1>7. OnDisk'
  BY <1>1, <1>5, SameDisk DEF Paying, disk
<1>8. OneRun'
  BY <1>1, <1>5, SameRun DEF Paying, disk
<1>9. PaysItsOwn'
  <2>1. \A i \in DOMAIN apps : Unpaid(i) => Unpaid(i)'
    BY <1>1, <1>2, <1>5, PayingFacts DEF Unpaid
  <2>2. AppsOf("trust_anchor") \subseteq DOMAIN apps
    BY DEF AppsOf
  <2> QED
    BY <1>1, <1>5, <2>1, <2>2, PayingFacts DEF PaysItsOwn, At, Current, Paying
<1>10. PaidOnce'
  BY <1>1, <1>4, <1>5, PayingFacts DEF PaidOnce
<1> QED
  BY <1>1, <1>5, <1>6, <1>7, <1>8, <1>9, <1>10, PayingFacts DEF IInv, OnChain

(* A new application is the newest of all, newer than what its creation    *)
(* was decided from.                                                       *)
LEMMA ExecuteCreationPreserves ==
  ASSUME IInv, NEW k \in DOMAIN sent, ExecuteCreation(k)
  PROVE  IInv'
<1> DEFINE new == [creation |-> k, due |-> 0, algos |-> 0]
<1>0. PICK last : last = Len(apps) + 1
  OBVIOUS
<1>1. /\ TypeOK /\ OnDisk /\ OneRun /\ OnChain /\ Submitted /\ HasNewest /\ PaidOnce
      /\ PaysItsOwn /\ UNCHANGED <<disk, sent, indexed, script>>
  BY DEF IInv, OnChain, ExecuteCreation
<1>2. new \in App /\ new.creation = k /\ new.due = 0 /\ new.algos = 0
  BY <1>1, ChainFacts DEF App
<1>3. apps' = Append(apps, new)
  BY DEF ExecuteCreation
<1> HIDE DEF new
<1>4. /\ Len(apps) \in Nat /\ Len(apps') = last /\ DOMAIN apps = 1 .. Len(apps)
      /\ DOMAIN apps' = DOMAIN apps \cup {last} /\ last \notin DOMAIN apps
      /\ apps' \in Seq(App) /\ apps'[last] = new
      /\ \A id \in DOMAIN apps : apps'[id] = apps[id] /\ id < last
  BY <1>0, <1>1, <1>2, <1>3 DEF TypeOK
<1>5. CreationOf(last)' = sent[k] /\ \A id \in DOMAIN apps : CreationOf(id)' = CreationOf(id)
  BY <1>1, <1>2, <1>4 DEF CreationOf
<1>6. ASSUME NEW c
      PROVE  /\ AppsOf(c)' = AppsOf(c) \cup (IF sent[k].contract = c THEN {last} ELSE {})
             /\ AppsOf(c) \subseteq DOMAIN apps
  BY <1>4, <1>5 DEF AppsOf
<1>7. TypeOK'
  BY <1>1, <1>4 DEF TypeOK, disk
<1>8. OnDisk'
  BY <1>1, SameDisk DEF disk
<1>9. OneRun'
  BY <1>1, SameRun DEF disk
<1>10. Submitted'
  BY <1>1, <1>2, <1>4 DEF Submitted
<1>11. HasNewest'
  <2> SUFFICES ASSUME NEW c \in Contracts, NEW n \in 0 .. last, FirstApps(c, n)' # {}
               PROVE  \E i \in FirstApps(c, n)' : \A j \in FirstApps(c, n)' : j <= i
    BY <1>4 DEF HasNewest
  <2>1. CASE n = last /\ sent[k].contract = c
    <3>1. last \in FirstApps(c, n)' /\ \A j \in FirstApps(c, n)' : j <= last
      BY <1>4, <2>1, <1>6 DEF FirstApps
    <3> QED
      BY <3>1
  <2>2. CASE ~(n = last /\ sent[k].contract = c)
    <3>1. PICK m \in 0 .. Len(apps) : FirstApps(c, n)' = FirstApps(c, m)
      <4>1. CASE n = last
        <5>1. FirstApps(c, n)' = FirstApps(c, Len(apps))
          BY <1>4, <1>6, <2>2, <4>1 DEF FirstApps
        <5> QED
          BY <1>4, <5>1
      <4>2. CASE n # last
        <5>1. FirstApps(c, n)' = FirstApps(c, n) /\ n \in 0 .. Len(apps)
          BY <1>4, <1>6, <4>2 DEF FirstApps
        <5> QED
          BY <5>1
      <4> QED
        BY <4>1, <4>2
    <3> QED
      BY <1>1, <3>1 DEF HasNewest
  <2> QED
    BY <2>1, <2>2
<1>12. ASSUME NEW q \in DOMAIN sent' PROVE Considered(q)'
  <2>0. PICK s : s = sent[q]
    OBVIOUS
  <2>1. Considered(q) /\ UNCHANGED sent /\ s \in Creation /\ s = sent'[q]
    BY <1>1, <1>12, <2>0, ChainFacts DEF OnChain
  <2>2. s.seen \in Nat /\ s.seen < last /\ s.seen <= last
    BY <1>0, <1>4, <2>0, <2>1 DEF Considered, Creation
  <2>3. \A c : AppsOf(c) \subseteq AppsOf(c)' /\ \A j \in AppsOf(c)' : j <= s.seen =>
                                                   j \in AppsOf(c) /\ CreationOf(j)' = CreationOf(j)
    BY <1>4, <1>5, <1>6, <2>2
  <2>4. \A id \in DOMAIN apps' : apps'[id].creation = q => s.seen < id
    BY <1>4, <2>0, <2>1, <2>2 DEF Considered
  <2>5. s.contract = "truth_registry" =>
          /\ s.link \in AppsOf("identity_registry")'
          /\ \A j \in AppsOf("identity_registry")' : j <= s.seen => j <= s.link
    BY <2>0, <2>1, <2>3 DEF Considered
  <2>6. ASSUME NEW i \in AppsOf(s.contract)', i <= s.seen,
               CreationOf(i)'.version = s.version
        PROVE  \E m \in AppsOf(s.contract)' :
                 i < m /\ m <= s.seen /\ CreationOf(m)'.version # s.version
    <3>1. i \in AppsOf(s.contract) /\ CreationOf(i).version = s.version
      BY <2>3, <2>6
    <3>2. PICK m \in AppsOf(s.contract) :
            i < m /\ m <= s.seen /\ CreationOf(m).version # s.version
      BY <2>0, <2>1, <2>6, <3>1 DEF Considered
    <3> QED
      BY <2>3, <3>2
  <2> QED
    BY <1>4, <2>1, <2>2, <2>4, <2>5, <2>6 DEF Considered
<1>13. PaysItsOwn'
  <2>1. \A id \in DOMAIN apps : Unpaid(id)' = Unpaid(id)
    BY <1>4 DEF Unpaid
  <2>2. Unpaid(last)'
    BY <1>2, <1>4 DEF Unpaid
  <2> QED
    BY <1>1, <1>4, <1>6, <2>1, <2>2 DEF PaysItsOwn, At, Current
<1>14. PaidOnce'
  BY <1>1, <1>2, <1>4, <1>5 DEF PaidOnce
<1> QED
  BY <1>7, <1>8, <1>9, <1>10, <1>11, <1>12, <1>13, <1>14 DEF IInv, OnChain
-----------------------------------------------------------------------------
(* Steps between and at the ends of runs of the script. *)
LEMMA StartPreserves ==
  ASSUME IInv, NEW action \in {"build", "deploy", "all"},
         NEW todo \in Orders \cup {<<c>> : c \in Named}, Start(action, todo)
  PROVE  IInv'
<1>1. todo \in Seq(Contracts) /\ todo # <<>> /\ Distinct(todo)
  <2>1. CASE todo \in Orders
    BY <2>1, DeploymentAssumption DEF Distinct
  <2>2. CASE todo \in {<<c>> : c \in Named}
    <3>1. PICK c \in Named : todo = <<c>>
      BY <2>2
    <3>2. c \in Contracts
      BY DeploymentAssumption
    <3>3. <<c>> \in Seq(Contracts) /\ <<c>> # <<>> /\ \A i, j \in DOMAIN <<c>> : i = j
      BY <3>2
    <3> QED
      BY <3>1, <3>3 DEF Distinct
  <2> QED
    BY <2>1, <2>2
<1>2. /\ script' = [action |-> action, todo |-> todo, stage |-> FirstStage(action),
                    imported |-> [c \in Contracts |-> None], created |-> 0]
      /\ UNCHANGED <<disk, chain>>
  BY DEF Start
<1>3. /\ script' \in Script /\ script'.todo = todo /\ script'.action = action
      /\ script'.stage = (IF action = "deploy" THEN "import" ELSE "clear")
      /\ \A c \in Contracts : script'.imported[c] = None
  BY <1>1, <1>2 DEF Script, Stages, FirstStage, Modules
<1>4. TypeOK'
  BY <1>1, <1>2, <1>3 DEF IInv, TypeOK, disk, chain
<1>5. OneRun'
  <2>1. \A i \in DOMAIN todo : todo[i] \in Contracts
    BY <1>1
  <2> QED
    BY <1>1, <1>3, <2>1 DEF OneRun, BuildStages
<1>6. OnDisk'
  BY <1>2, <1>3, SameDisk DEF IInv, At, disk
<1>7. OnChain'
  BY <1>2, <1>3, SameChain DEF IInv, At, chain
<1> QED
  BY <1>4, <1>5, <1>6, <1>7 DEF IInv

LEMMA QuietPreserves ==
  ASSUME IInv, UNCHANGED <<specs, clients, sent, apps>>, indexed' \in 0 .. Len(apps),
         sources' \in [Contracts -> Versions], script' \in {script, None}
  PROVE  IInv'
<1>1. TypeOK'
  BY DEF IInv, TypeOK
<1>2. /\ (At("compile")' => UNCHANGED script) /\ (At("create")' => UNCHANGED script)
      /\ (At("fund")' => UNCHANGED script)
  BY DEF At
<1>3. OneRun'
  <2>1. CASE script' = None
    BY <2>1 DEF OneRun
  <2>2. CASE script' = script
    BY <2>2, SameRun DEF IInv
  <2> QED
    BY <2>1, <2>2
<1> QED
  BY <1>1, <1>2, <1>3, SameChain, SameDisk DEF IInv

LEMMA StepPreserves == IInv /\ [Next]_vars => IInv'
<1> SUFFICES ASSUME IInv, [Next]_vars PROVE IInv'
  OBVIOUS
<1>1. TypeOK
  BY DEF IInv
<1>2. ASSUME NEW c \in Editable, NEW version \in Versions, Edit(c, version) PROVE IInv'
  <2>1. sources' \in [Contracts -> Versions] /\ indexed' \in 0 .. Len(apps)
    BY <1>1, <1>2 DEF Edit, TypeOK, chain
  <2> QED
    BY <1>2, <2>1, QuietPreserves DEF Edit, chain
<1>3. ASSUME NEW action \in {"build", "deploy", "all"},
             NEW todo \in Orders \cup {<<c>> : c \in Named}, Start(action, todo)
      PROVE  IInv'
  BY <1>3, StartPreserves
<1>4. CASE RemoveFile
  BY <1>4, RemoveFilePreserves
<1>5. CASE OutputCleared \/ Compile
  BY <1>5, BuildPreserves
<1>6. CASE GenerateClient
  BY <1>6, GeneratePreserves
<1>7. CASE ImportClients
  BY <1>7, ImportPreserves
<1>8. CASE DeployUnchanged \/ PaymentConfirmed
  BY <1>8, MovingOnPreserves DEF DeployUnchanged, PaymentConfirmed, At
<1>9. CASE SubmitCreation
  BY <1>9, SubmitCreationPreserves
<1>10. CASE CreationConfirmed
  BY <1>10, CreationConfirmedPreserves
<1>11. CASE Fund
  BY <1>11, FundPreserves
<1>12. ASSUME NEW k \in DOMAIN sent, ExecuteCreation(k) PROVE IInv'
  BY <1>12, ExecuteCreationPreserves
<1>13. ASSUME NEW id \in DOMAIN apps, ExecutePayment(id) PROVE IInv'
  BY <1>13, ExecutePaymentPreserves
<1>14. CASE Stop \/ IndexerCatchesUp \/ UNCHANGED vars
  <2>1. /\ UNCHANGED <<sources, specs, clients, sent, apps>> /\ script' \in {script, None}
        /\ indexed' \in {indexed, indexed + 1} /\ (indexed' # indexed => indexed < Len(apps))
    BY <1>14 DEF Stop, IndexerCatchesUp, vars, disk, chain
  <2>2. indexed' \in 0 .. Len(apps)
    BY <1>1, <2>1 DEF TypeOK
  <2> QED
    BY <1>1, <2>1, <2>2, QuietPreserves DEF TypeOK
<1> QED
  BY <1>2, <1>3, <1>4, <1>5, <1>6, <1>7, <1>8, <1>9, <1>10, <1>11, <1>12, <1>13, <1>14
     DEF Next, ScriptStep

LEMMA Invariance == Spec => []IInv
  BY InitEstablishes, StepPreserves, PTL DEF Spec
-----------------------------------------------------------------------------
(* The variables of the script, the disk and the chain keep their types.   *)
THEOREM DeploymentTypes == Spec => []TypeOK
<1>1. IInv => TypeOK
  BY DEF IInv
<1> QED
  BY <1>1, Invariance, PTL

(* Builds that fail halfway, and removals that stop between two files,     *)
(* never leave a client beside another spec.                               *)
THEOREM ClientsMatchSpecs == Spec => []ArtifactsPaired
<1>1. IInv => ArtifactsPaired
  BY DEF IInv, OnDisk
<1> QED
  BY <1>1, Invariance, PTL

(* TruthRegistry is linked to the newest IdentityRegistry that was listed  *)
(* when its creation was decided.                                          *)
THEOREM LinksToNewest == Spec => []LinkedToNewest
<1>1. IInv => LinkedToNewest
  <2> SUFFICES ASSUME IInv, NEW i \in AppsOf("truth_registry")
               PROVE  /\ CreationOf(i).link \in AppsOf("identity_registry")
                      /\ \A j \in AppsOf("identity_registry") :
                           j > CreationOf(i).link => j > CreationOf(i).seen
    BY DEF LinkedToNewest
  <2>1. PICK k \in DOMAIN sent : k = apps[i].creation
    BY DEF IInv, OnChain, Submitted, AppsOf
  <2>2. Considered(k) /\ CreationOf(i) = sent[k] /\ sent[k].contract = "truth_registry"
        /\ sent[k] \in Creation
    BY <2>1, ChainFacts DEF IInv, OnChain, AppsOf, CreationOf
  <2>3. /\ sent[k].link \in Nat /\ sent[k].seen \in Nat
        /\ \A j \in AppsOf("identity_registry") : j \in Nat
    BY <2>2, ChainFacts DEF Creation, IInv, OnChain
  <2> QED
    BY <2>2, <2>3 DEF Considered
<1> QED
  BY <1>1, Invariance, PTL

(* No deployment repeats what the newest listed application of its name    *)
(* runs, however late its creation is executed.                            *)
THEOREM DeploysOnlyChanges == Spec => []NoRedundantApp
<1>1. IInv => NoRedundantApp
  <2> SUFFICES ASSUME IInv, NEW c \in Contracts, NEW i \in AppsOf(c), NEW j \in AppsOf(c),
                      i < j, CreationOf(i).version = CreationOf(j).version,
                      ~(i > CreationOf(j).seen)
               PROVE  \E k \in AppsOf(c) :
                        i < k /\ k < j /\ CreationOf(k).version # CreationOf(i).version
    BY DEF NoRedundantApp
  <2>1. PICK q \in DOMAIN sent : q = apps[j].creation
    BY DEF IInv, OnChain, Submitted, AppsOf
  <2>2. Considered(q) /\ CreationOf(j) = sent[q] /\ sent[q].contract = c /\ sent[q] \in Creation
    BY <2>1, ChainFacts DEF IInv, OnChain, AppsOf, CreationOf
  <2>3. i \in Nat /\ j \in DOMAIN apps /\ sent[q].seen \in Nat /\ i <= sent[q].seen
        /\ sent[q].seen < j /\ j \in Nat
    BY <2>1, <2>2, ChainFacts DEF Considered, Creation, IInv, OnChain
  <2>4. PICK k \in AppsOf(c) :
          i < k /\ k <= sent[q].seen /\ CreationOf(k).version # sent[q].version
    BY <2>2, <2>3 DEF Considered
  <2>5. k \in Nat
    BY ChainFacts DEF IInv, OnChain
  <2> QED
    BY <2>2, <2>3, <2>4, <2>5
<1> QED
  BY <1>1, Invariance, PTL

(* An application is paid at most once, by the run that created it, also   *)
(* when the payment is executed after that run stopped.                    *)
THEOREM PaysOnce == Spec => []FundedOnce
<1>1. IInv => FundedOnce
  BY DEF IInv, OnChain, PaysItsOwn, Unpaid, PaidOnce, FundedOnce
<1> QED
  BY <1>1, Invariance, PTL

(* What is on chain stays: no run of the script, of whatever kind and      *)
(* however it ends, takes back a creation, an application or its money,    *)
(* and no creation is executed twice.  What is submitted runs the spec     *)
(* that lies on disk at that moment, except that `all` may deploy          *)
(* identity_registry with the client that truth_registry's deployment      *)
(* imported before it was rebuilt.                                         *)
ChainGrows ==
  /\ \A k \in DOMAIN sent : k \in DOMAIN sent' /\ sent'[k] = sent[k]
  /\ \A id \in DOMAIN apps :
       /\ id \in DOMAIN apps' /\ apps'[id].creation = apps[id].creation
       /\ apps'[id].algos \in {apps[id].algos, apps[id].algos + 1}
  /\ \A id \in DOMAIN apps' \ DOMAIN apps : \A other \in DOMAIN apps :
       apps'[id].creation # apps[other].creation
  /\ \A k \in DOMAIN sent' \ DOMAIN sent :
       \/ sent'[k].version = specs[sent'[k].contract]
       \/ sent'[k].contract = "identity_registry" /\ script.action = "all"

LEMMA StepGrows == IInv /\ [Next]_vars => ChainGrows
<1> SUFFICES ASSUME IInv, [Next]_vars PROVE ChainGrows
  OBVIOUS
<1>0. /\ TypeOK /\ OnChain /\ OneRun /\ apps \in Seq(App) /\ sent \in Seq(Creation)
      /\ \A id \in DOMAIN apps : apps[id] \in App
  BY DEF IInv, TypeOK
<1>1. CASE UNCHANGED <<sent, apps>>
  BY <1>0, <1>1 DEF ChainGrows, App
<1>2. CASE SubmitCreation
  <2> DEFINE new == [contract |-> Current, version |-> script.imported[Current],
                     link |-> LinkOf(Current), seen |-> indexed]
  <2>1. sent' = Append(sent, new) /\ UNCHANGED apps /\ script # None /\ script.stage = "deploy"
    BY <1>2 DEF SubmitCreation, At
  <2>2. \/ script.imported[Current] = specs[Current]
        \/ Current = "identity_registry" /\ script.action = "all"
    BY <1>0, <2>1 DEF OneRun
  <2>3. new.contract = Current /\ new.version = script.imported[Current]
    OBVIOUS
  <2> HIDE DEF new
  <2>4. /\ DOMAIN sent' = DOMAIN sent \cup {Len(sent) + 1} /\ sent'[Len(sent) + 1] = new
        /\ \A k \in DOMAIN sent : sent'[k] = sent[k]
    BY <1>0, <2>1
  <2> QED
    BY <1>0, <2>1, <2>2, <2>3, <2>4 DEF ChainGrows, App
<1>3. ASSUME NEW id, NEW app, Paying(id, app), app.algos \in {apps[id].algos, apps[id].algos + 1}
      PROVE  ChainGrows
  <2>1. UNCHANGED sent /\ id \in DOMAIN apps
    BY <1>3 DEF Paying
  <2> QED
    BY <1>0, <1>3, <2>1, PayingFacts DEF ChainGrows, App
<1>4. CASE Fund
  <2> DEFINE id == script.created
             app == [apps[id] EXCEPT !.due = @ + 1]
  <2>1. apps' = [apps EXCEPT ![id] = app] /\ UNCHANGED <<disk, sent, indexed>>
    BY <1>4 DEF Fund, Pay
  <2>2. id \in DOMAIN apps /\ apps[id] \in App
    BY <1>0, <1>4 DEF OnChain, PaysItsOwn, Fund, AppsOf
  <2>3. app \in App /\ app.creation = apps[id].creation /\ app.algos = apps[id].algos
    BY <2>2 DEF App
  <2> HIDE DEF id, app
  <2> QED
    BY <1>3, <2>1, <2>2, <2>3 DEF Paying
<1>5. ASSUME NEW id \in DOMAIN apps, ExecutePayment(id) PROVE ChainGrows
  <2> DEFINE app == [creation |-> apps[id].creation, due |-> apps[id].due - 1,
                     algos |-> apps[id].algos + 1]
  <2>1. apps' = [apps EXCEPT ![id] = app] /\ UNCHANGED <<disk, sent, indexed>>
    BY <1>5 DEF ExecutePayment
  <2>2. app \in App /\ app.creation = apps[id].creation /\ app.algos = apps[id].algos + 1
    BY <1>0, <1>5 DEF App, ExecutePayment
  <2> HIDE DEF app
  <2> QED
    BY <1>3, <2>1, <2>2 DEF Paying
<1>6. ASSUME NEW k \in DOMAIN sent, ExecuteCreation(k) PROVE ChainGrows
  <2> DEFINE new == [creation |-> k, due |-> 0, algos |-> 0]
  <2>1. apps' = Append(apps, new) /\ UNCHANGED sent
    BY <1>6 DEF ExecuteCreation
  <2>2. new.creation = k
    OBVIOUS
  <2> HIDE DEF new
  <2>3. /\ DOMAIN apps' = DOMAIN apps \cup {Len(apps) + 1} /\ apps'[Len(apps) + 1] = new
        /\ \A id \in DOMAIN apps : apps'[id] = apps[id]
    BY <1>0, <2>1
  <2> QED
    BY <1>0, <1>6, <2>1, <2>2, <2>3 DEF ChainGrows, App, ExecuteCreation
<1>7. \/ UNCHANGED <<sent, apps>> \/ SubmitCreation \/ Fund
      \/ \E id \in DOMAIN apps : ExecutePayment(id)
      \/ \E k \in DOMAIN sent : ExecuteCreation(k)
  BY DEF Next, ScriptStep, Edit, Start, RemoveFile, OutputCleared, Compile, GenerateClient,
         ImportClients, DeployUnchanged, CreationConfirmed, PaymentConfirmed, Stop,
         IndexerCatchesUp, vars, chain
<1> QED
  BY <1>1, <1>2, <1>4, <1>5, <1>6, <1>7

(* smart_contracts/__main__.py never takes back anything it deployed. *)
THEOREM ApplicationsStay == Spec => [][ChainGrows]_vars
  BY StepGrows, Invariance, PTL DEF Spec
=============================================================================
