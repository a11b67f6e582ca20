------------------------------ MODULE Deployment ------------------------------
(***************************************************************************)
(* smart_contracts/__main__.py with the deploy_config.py of each contract: *)
(* `build`, `deploy` or `all`, for one contract or for all of them in the  *)
(* order in which the directory lists them.  What a run of the script      *)
(* leaves behind (artifacts on disk, applications on chain) is found by    *)
(* the next; a run can stop at any point, by an exception or a crash, and  *)
(* what it had submitted to algod may still be executed later.             *)
(*                                                                         *)
(* The generated clients carry the compiled program they deploy; Python    *)
(* imports a client once in a run.  Applications are looked up with the    *)
(* indexer, which lists them some time after the chain has them.  They are *)
(* never updated: a changed program, or a changed schema, becomes a new    *)
(* application (OnUpdate.AppendApp), from then on the one found.           *)
(***************************************************************************)
EXTENDS Integers, FiniteSets, Sequences

CONSTANTS
  Versions,  \* contents of a contract.py
  Editable,  \* contracts whose contract.py somebody edits
  Orders,    \* orders in which the directory may list the contracts
  Named,     \* contracts for which the script is also called alone
  MaxApps,   \* bound on creations submitted, for model checking only
  None

Contracts == {"identity_registry", "truth_registry", "trust_anchor"}

VARIABLES
  sources,  \* contract.py of each contract
  specs,    \* its *.arc56.json in artifacts, None if there is none
  clients,  \* its generated client in artifacts, None if there is none
  sent,     \* creations submitted to algod, in that order
  apps,     \* applications of the deployer; an application's id is its index
  indexed,  \* number of them that the indexer lists
  script    \* the run under way: contracts still to do, and where it is

disk == <<sources, specs, clients>>
chain == <<sent, apps, indexed>>
vars == <<disk, chain, script>>

(* History: a creation notes what the indexer listed when it was decided.  *)
Creation == [contract : Contracts, version : Versions, link : Nat, seen : Nat]
App == [creation : Nat, due : Nat, algos : Nat]
Stages == {"clear", "compile", "generate", "import", "deploy", "create", "fund", "pay"}
Modules == [Contracts -> Versions \cup {None}]
Script == [action : {"build", "deploy", "all"}, todo : Seq(Contracts), stage : Stages,
           imported : Modules, created : Nat]

ASSUME DeploymentAssumption ==
  /\ \A o \in Orders : /\ o \in Seq(Contracts) /\ o # <<>>
                       /\ \A i, j \in DOMAIN o : o[i] = o[j] => i = j
  /\ Editable \cup Named \subseteq Contracts
  /\ MaxApps \in Nat /\ None \notin Versions \cup Nat \cup Script

TypeOK ==
  /\ sources \in [Contracts -> Versions] /\ specs \in Modules /\ clients \in Modules
  /\ sent \in Seq(Creation) /\ apps \in Seq(App) /\ indexed \in 0 .. Len(apps)
  /\ script # None => script \in Script /\ script.todo # <<>>

(* A checkout holds the artifacts of its contracts. *)
Init ==
  /\ \E version \in Versions : sources = [c \in Contracts |-> version]
  /\ specs = sources /\ clients = sources
  /\ sent = <<>> /\ apps = <<>> /\ indexed = 0
  /\ script = None
-----------------------------------------------------------------------------
Edit(c, version) ==
  /\ script = None
  /\ sources' = [sources EXCEPT ![c] = version]
  /\ UNCHANGED <<specs, clients, chain, script>>

FirstStage(action) == IF action = "deploy" THEN "import" ELSE "clear"

(* main(action, contract_name), in a new process. *)
Start(action, todo) ==
  /\ script = None
  /\ script' = [action |-> action, todo |-> todo, stage |-> FirstStage(action),
                imported |-> [c \in Contracts |-> None], created |-> 0]
  /\ UNCHANGED <<disk, chain>>

At(stage) == script # None /\ script.stage = stage
Current == Head(script.todo)
GoTo(stage) == script' = [script EXCEPT !.stage = stage]

NextContract ==
  script' = IF Tail(script.todo) = <<>> THEN None
            ELSE [script EXCEPT !.todo = Tail(@), !.stage = FirstStage(script.action)]

(* build: rmtree removes the old output, file by file in any order, *)
RemoveFile ==
  /\ At("clear")
  /\ \/ /\ specs[Current] # None
        /\ specs' = [specs EXCEPT ![Current] = None]
        /\ UNCHANGED clients
     \/ /\ clients[Current] # None
        /\ clients' = [clients EXCEPT ![Current] = None]
        /\ UNCHANGED specs
  /\ UNCHANGED <<sources, chain, script>>

(* Fault: the compiler runs over what is left of the old output. *)
KeepOutput ==
  /\ At("clear")
  /\ GoTo("compile")
  /\ UNCHANGED <<disk, chain>>

(* before the compiler runs, *)
OutputCleared ==
  /\ At("clear") /\ specs[Current] = None /\ clients[Current] = None
  /\ GoTo("compile")
  /\ UNCHANGED <<disk, chain>>

Compile ==
  /\ At("compile")
  /\ specs' = [specs EXCEPT ![Current] = sources[Current]]
  /\ GoTo("generate")
  /\ UNCHANGED <<sources, clients, chain>>

(* and the client is generated from what it wrote. *)
GenerateClient ==
  /\ At("generate")
  /\ clients' = [clients EXCEPT ![Current] = specs[Current]]
  /\ IF script.action = "all" THEN GoTo("import") ELSE NextContract
  /\ UNCHANGED <<sources, specs, chain>>
-----------------------------------------------------------------------------
(* The clients that deploy_config.py imports. *)
Imports(c) == IF c = "truth_registry" THEN {"identity_registry", c} ELSE {c}

(* `deploy` looks for the spec first.  A client that the run imported      *)
(* before stays what it was (sys.modules), whatever lies on disk by now.   *)
ImportClients ==
  /\ At("import")
  /\ script.action = "deploy" => specs[Current] # None
  /\ \A c \in Imports(Current) : script.imported[c] # None \/ clients[c] # None
  /\ script' = [script EXCEPT
       !.stage = "deploy",
       !.imported = [c \in Contracts |->
                       IF c \in Imports(Current) /\ @[c] = None THEN clients[c] ELSE @[c]]]
  /\ UNCHANGED <<disk, chain>>

CreationOf(id) == sent[apps[id].creation]
AppsOf(c) == {id \in DOMAIN apps : CreationOf(id).contract = c}
Newest(ids) == CHOOSE i \in ids : \A j \in ids : j <= i
Listed(c) == {id \in AppsOf(c) : id <= indexed}

(* Fault: the first application of that name is found. *)
FirstByName(c) ==
  IF Listed(c) = {} THEN 0 ELSE CHOOSE i \in Listed(c) : \A j \in Listed(c) : i <= j

(* get_app_client_by_creator_and_name: the newest application of that name *)
(* that the indexer lists, 0 if none.                                      *)
ByCreatorAndName(c) == IF Listed(c) = {} THEN 0 ELSE Newest(Listed(c))

(* Fault: an application is created at each deployment. *)
NeverUpToDate(c) == FALSE

(* factory.deploy: nothing is done if the application found already runs   *)
(* the program of the client.                                              *)
UpToDate(c) ==
  LET id == ByCreatorAndName(c) IN id # 0 /\ CreationOf(id).version = script.imported[c]

(* truth_registry looks for identity_registry's application, whose id it   *)
(* passes at creation.                                                     *)
Deployable(c) == c = "truth_registry" => ByCreatorAndName("identity_registry") # 0
LinkOf(c) == IF c = "truth_registry" THEN ByCreatorAndName("identity_registry") ELSE 0

DeployUnchanged ==
  /\ At("deploy") /\ Deployable(Current) /\ UpToDate(Current)
  /\ NextContract
  /\ UNCHANGED <<disk, chain>>

SubmitCreation ==
  /\ At("deploy") /\ Deployable(Current) /\ ~UpToDate(Current)
  /\ Len(sent) < MaxApps
  /\ sent' = Append(sent, [contract |-> Current, version |-> script.imported[Current],
                           link |-> LinkOf(Current), seen |-> indexed])
  /\ GoTo("create")
  /\ UNCHANGED <<disk, apps, indexed>>

CreationConfirmed ==
  /\ At("create")
  /\ \E id \in DOMAIN apps :
       /\ apps[id].creation = Len(sent)
       /\ IF Current = "trust_anchor"
          THEN script' = [script EXCEPT !.stage = "fund", !.created = id]
          ELSE NextContract
  /\ UNCHANGED <<disk, chain>>

Pay(id) ==
  /\ apps' = [apps EXCEPT ![id].due = @ + 1]
  /\ GoTo("pay")
  /\ UNCHANGED <<disk, sent, indexed>>

(* Fault: trust_anchor's application is paid whatever the operation was. *)
FundAlways ==
  /\ At("fund") \/ (At("deploy") /\ Current = "trust_anchor")
  /\ ByCreatorAndName("trust_anchor") # 0
  /\ Pay(ByCreatorAndName("trust_anchor"))

(* trust_anchor: an application that this run created is sent one Algo. *)
Fund == At("fund") /\ Pay(script.created)

PaymentConfirmed ==
  /\ At("pay") /\ (script.created # 0 => apps[script.created].due = 0)
  /\ NextContract
  /\ UNCHANGED <<disk, chain>>

(* An exception, or the end of the process: compiler or generator fails,   *)
(* something is missing, algod does not confirm in time.                   *)
Stop ==
  /\ script # None
  /\ script' = None
  /\ UNCHANGED <<disk, chain>>
-----------------------------------------------------------------------------
(* algod executes what was submitted, also after the run gave up waiting.  *)
ExecuteCreation(i) ==
  /\ \A id \in DOMAIN apps : apps[id].creation # i
  /\ apps' = Append(apps, [creation |-> i, due |-> 0, algos |-> 0])
  /\ UNCHANGED <<disk, sent, indexed, script>>

ExecutePayment(id) ==
  /\ apps[id].due > 0
  /\ apps' = [apps EXCEPT ![id] = [creation |-> @.creation, due |-> @.due - 1,
                                   algos |-> @.algos + 1]]
  /\ UNCHANGED <<disk, sent, indexed, script>>

IndexerCatchesUp ==
  /\ indexed < Len(apps)
  /\ indexed' = indexed + 1
  /\ UNCHANGED <<disk, sent, apps, script>>

ScriptStep ==
  \/ RemoveFile \/ OutputCleared \/ Compile \/ GenerateClient
  \/ ImportClients \/ DeployUnchanged \/ SubmitCreation \/ CreationConfirmed
  \/ Fund \/ PaymentConfirmed \/ Stop

Next ==
  \/ \E c \in Editable, version \in Versions : Edit(c, version)
  \/ \E action \in {"build", "deploy", "all"} :
       \E todo \in Orders \cup {<<c>> : c \in Named} : Start(action, todo)
  \/ ScriptStep
  \/ \E i \in DOMAIN sent : ExecuteCreation(i)
  \/ \E id \in DOMAIN apps : ExecutePayment(id)
  \/ IndexerCatchesUp

Spec == Init /\ [][Next]_vars
-----------------------------------------------------------------------------
(* A client on disk is the client of the spec beside it, if there is one,  *)
(* also after removals and builds that stopped halfway: what is imported   *)
(* is never older than the spec that main looks for.                       *)
ArtifactsPaired ==
  \A c \in Contracts : clients[c] # None /\ specs[c] # None => clients[c] = specs[c]

(* A TruthRegistry is linked for good to the IdentityRegistry that was the *)
(* newest of those the indexer listed when its creation was decided,       *)
(* however late the creations of the two were executed.                    *)
LinkedToNewest ==
  \A i \in AppsOf("truth_registry") :
    /\ CreationOf(i).link \in AppsOf("identity_registry")
    /\ \A j \in AppsOf("identity_registry") :
         j > CreationOf(i).link => j > CreationOf(i).seen

(* Repeated deployments, in whatever order and after whatever failures,    *)
(* create a second application of the same program only if it changed in   *)
(* between, or if the indexer did not list the first one yet.              *)
NoRedundantApp ==
  \A c \in Contracts : \A i, j \in AppsOf(c) :
    i < j /\ CreationOf(i).version = CreationOf(j).version =>
      \/ i > CreationOf(j).seen
      \/ \E k \in AppsOf(c) : i < k /\ k < j /\ CreationOf(k).version # CreationOf(i).version

(* Only TrustAnchor's applications get money, one Algo at most, counting   *)
(* payments not executed yet, and only from the run that saw the creation  *)
(* confirmed.  (A run that stops before leaves one without: the next one   *)
(* finds nothing to do.)                                                   *)
FundedOnce ==
  /\ \A id \in DOMAIN apps :
       apps[id].due + apps[id].algos <= IF CreationOf(id).contract = "trust_anchor" THEN 1 ELSE 0
  /\ At("fund") => script.created \in AppsOf("trust_anchor") /\ apps[script.created].algos = 0
=============================================================================
