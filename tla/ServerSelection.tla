-------------------------- MODULE ServerSelection --------------------------
(***************************************************************************)
(* How a command finds its Jenkins server: FindJenkinsServers reads the    *)
(* Services and the Secrets of the Jenkins Operator and then the Secrets   *)
(* of the registry, three calls with time between them, and                *)
(* PickCustomJenkinsName chooses by --jenkins, by $TRIGGER_JENKINS_SERVER, *)
(* because there is only one, or by asking.  `tp list` only reads, `tp     *)
(* jobs` selects once, `tp trigger --tail` selects again for the log.      *)
(*                                                                         *)
(* Meanwhile servers come and go.  One action is one remote call or one    *)
(* prompt.  Kubernetes and its DNS are modelled from how the code uses     *)
(* them: the empty namespace lists all, and gets nothing.                  *)
(***************************************************************************)
EXTENDS Naturals

CONSTANTS
  Names,        \* names of Jenkins servers
  Namespaces,
  Current,      \* the namespace the Kubernetes client is configured with
  AllOfThem,    \* the empty namespace, the default of `tp trigger --namespace`
  NoName,       \* --jenkins or the environment variable not given
  None,         \* no server chosen
  Items,        \* the Services and Secrets that may come and go
  InCluster,    \* whether the command runs in the cluster
  MaxFaults,    \* bound: calls that fail
  MaxEdits      \* bound: Services and Secrets that come or go meanwhile

(* A Service of the operator with an HTTP port, its Secret, a registry Secret. *)
ItemKinds == {"service", "secret", "registered"}

(* A JenkinsServer: its name, whether it is from the registry (SecretName), *)
(* where its Service or registry Secret and the Secret of its Auth are, and *)
(* where its URL leads.                                                     *)
JenkinsServers ==
  [name : Names, registered : BOOLEAN, ns : Namespaces, auth : Namespaces,
   url : Namespaces \cup {"local"}]

ASSUME SelectionAssumption ==
  /\ Items \subseteq [kind : ItemKinds, ns : Namespaces, name : Names]
  /\ Current \in Namespaces /\ AllOfThem \notin Namespaces
  /\ NoName \notin Names /\ None \notin JenkinsServers /\ InCluster \in BOOLEAN
  /\ MaxFaults \in Nat /\ MaxEdits \in Nat

VARIABLES
  cluster,   \* the Services and Secrets that describe Jenkins servers
  options,   \* what the command was called with
  pc,
  round,     \* 1: the first selection; 2: the one of TailJenkinsBuildLog
  seen,      \* what the calls of this selection have listed
  picked,    \* the server of each selection
  kept,      \* history: what has been there since this selection began
  faults, edits

vars == <<cluster, options, pc, round, seen, picked, kept, faults, edits>>

(* f.Namespace: `tp trigger` replaces the discovered one by its option.    *)
Namespace == IF options.command = "trigger" THEN options.namespace ELSE Current
Scope == IF Namespace = AllOfThem THEN Namespaces ELSE {Namespace}
InScope(items) == {i \in items : i.ns \in Scope}
OfKind(items, kind) == {i \in InScope(items) : i.kind = kind}

Options ==
  [command : {"list", "jobs", "trigger"}, namespace : Namespaces \cup {AllOfThem},
   jenkins : Names \cup {NoName}, env : Names \cup {NoName}, batch : BOOLEAN, tail : BOOLEAN]

(* What a command does not read is left out. *)
Init ==
  /\ cluster \in SUBSET Items
  /\ options \in Options
  /\ options.command = "list" => options.jenkins = NoName /\ options.env = NoName /\ options.batch
  /\ options.command # "trigger" => options.namespace = AllOfThem /\ ~options.tail
  /\ pc = "services" /\ round = 1 /\ seen = {}
  /\ picked = [r \in {1, 2} |-> None]
  /\ kept = cluster
  /\ faults = 0 /\ edits = 0

(* Faulty variant: no look at whether there is a namespace.                *)
URLsWithoutCheck == {"local", Namespace}

(* Where createJenkinsURL leads: the namespace of a Service, or the local  *)
(* port for development when the Service has no Ingress or is not found.   *)
JenkinsURLs ==
  IF InCluster THEN {IF Namespace = AllOfThem THEN Current ELSE Namespace}
  ELSE {"local"} \cup (IF Namespace = AllOfThem THEN {} ELSE {Namespace})

(* The values the map of FindJenkinsServers may have.  A Service without a *)
(* Secret of its name is left out; a name in the registry hides the others. *)
Registered(items) ==
  {[name |-> i.name, registered |-> TRUE, ns |-> i.ns, auth |-> i.ns, url |-> i.ns] :
     i \in OfKind(items, "registered")}
Discovered(items) ==
  {d \in [name : Names, registered : {FALSE}, ns : Namespaces, auth : Namespaces, url : JenkinsURLs] :
     /\ [kind |-> "service", ns |-> d.ns, name |-> d.name] \in InScope(items)
     /\ [kind |-> "secret", ns |-> d.auth, name |-> d.name] \in InScope(items)}

(* Faulty variants: the registry replaces the map instead of adding to it;  *)
(* what is in both maps comes from either.                                  *)
RegistryReplaces(items) ==
  IF Registered(items) # {} THEN Registered(items) ELSE Discovered(items)
EitherMap(items) == Registered(items) \cup Discovered(items)
Servers(items) ==
  Registered(items) \cup
  {d \in Discovered(items) : \A r \in Registered(items) : r.name # d.name}
NamesOf(items) == {s.name : s \in Servers(items)}

Fault == faults < MaxFaults /\ faults' = faults + 1
NoFault == UNCHANGED faults

(* `tp trigger` ends with the error of its first selection; the second one *)
(* is made by TailJenkinsBuildLog, which answers nil and no log.           *)
Fail == pc' = IF round = 1 THEN "error" ELSE "ok"

-----------------------------------------------------------------------------
(* Each call lists the items of one kind in the namespace.                 *)
List(kind, here, there) ==
  /\ pc = here
  /\ \/ seen' = seen \cup OfKind(cluster, kind) /\ pc' = there /\ NoFault
     \/ Fail /\ Fault /\ UNCHANGED seen
  /\ UNCHANGED <<cluster, options, round, picked, kept, edits>>

ListServices == List("service", "services", "secrets")
ListSecrets == List("secret", "secrets", "registry")
AfterDiscovery == IF options.command = "list" THEN "ok" ELSE "pick"
ListRegistry == List("registered", "registry", AfterDiscovery)

Several(names) == \E m, n \in names : m # n

(* Faulty variant: the first of several names, also in batch mode.         *)
ChoicesUnchecked(names) ==
  IF options.jenkins # NoName THEN {options.jenkins} \cap names ELSE names

(* The names PickCustomJenkinsName may settle on, given those it found.    *)
Choices(names) ==
  IF options.jenkins # NoName THEN {options.jenkins} \cap names
  ELSE IF options.batch /\ options.env # NoName THEN {options.env} \cap names
  ELSE IF options.batch /\ Several(names) THEN {}
  ELSE names
Prompts == options.jenkins = NoName /\ ~options.batch /\ Several(NamesOf(seen))

AfterChoice == IF options.command = "trigger" /\ round = 1 THEN "build" ELSE "ok"
PickServer ==
  /\ pc = "pick"
  /\ \/ /\ \E s \in Servers(seen) :
             s.name \in Choices(NamesOf(seen)) /\ picked' = [picked EXCEPT ![round] = s]
        /\ pc' = AfterChoice
     \/ /\ Choices(NamesOf(seen)) = {} \/ Prompts
        /\ Fail /\ UNCHANGED picked
  /\ UNCHANGED <<cluster, options, round, seen, kept, faults, edits>>

(* Run goes on to TriggerPipeline; with --tail it selects a server again.  *)
TriggerPipeline ==
  /\ pc = "build"
  /\ \/ options.tail /\ pc' = "services" /\ round' = 2 /\ seen' = {} /\ kept' = cluster
     \/ /\ ~options.tail /\ pc' = "ok" /\ UNCHANGED <<round, seen, kept>>
     \/ /\ pc' = "error" /\ UNCHANGED <<round, seen, kept>>
  /\ UNCHANGED <<cluster, options, picked, faults, edits>>

-----------------------------------------------------------------------------
(* The operator, `tp add`, `tp delete` and users work on the cluster.      *)
Appear(i) ==
  /\ edits < MaxEdits /\ edits' = edits + 1
  /\ i \notin cluster /\ cluster' = cluster \cup {i}
  /\ UNCHANGED <<options, pc, round, seen, picked, kept, faults>>
Disappear(i) ==
  /\ edits < MaxEdits /\ edits' = edits + 1
  /\ i \in cluster /\ cluster' = cluster \ {i}
  /\ kept' = kept \ {i}
  /\ UNCHANGED <<options, pc, round, seen, picked, faults>>

Ended == pc \in {"ok", "error"}
Step == ListServices \/ ListSecrets \/ ListRegistry \/ PickServer \/ TriggerPipeline
Next == Step \/ (\E i \in Items : Appear(i) \/ Disappear(i)) \/ (Ended /\ UNCHANGED vars)
Spec == Init /\ [][Next]_vars

-----------------------------------------------------------------------------
TypeOK ==
  /\ cluster \in SUBSET Items /\ seen \in SUBSET Items /\ kept \in SUBSET Items
  /\ options \in Options
  /\ pc \in {"services", "secrets", "registry", "pick", "build", "ok", "error"}
  /\ round \in {1, 2}
  /\ picked \in [{1, 2} -> {None} \cup JenkinsServers]
  /\ faults \in 0..MaxFaults /\ edits \in 0..MaxEdits

(* What a server was made of, and what may take its name from it: another    *)
(* registry Secret of that name, or, if it was discovered, another Service or *)
(* Secret of the operator too (discovery.go:34-36, 71, 113, 143-154).        *)
ItemsOf(s) ==
  IF s.registered THEN {[kind |-> "registered", ns |-> s.ns, name |-> s.name]}
  ELSE {[kind |-> "service", ns |-> s.ns, name |-> s.name],
        [kind |-> "secret", ns |-> s.auth, name |-> s.name]}
Same(s, t) == ItemsOf(s) = ItemsOf(t)
Rivals(s, items) ==
  {i \in InScope(items) \ ItemsOf(s) : i.name = s.name /\ (s.registered => i.kind = "registered")}

(* "This command lists all the known Jenkins servers" (server_list.go:35):   *)
(* the three calls see different moments, yet the name of a server that is   *)
(* there all the while is never missed, by `tp list` or by a choice, and it  *)
(* stands for that very server unless another one of its name was listed.    *)
Read == pc = "pick" \/ (pc = "ok" /\ options.command = "list")
StillFound(s) ==
  /\ s.name \in NamesOf(seen)
  /\ Rivals(s, seen) # {} \/ \A t \in Servers(seen) : t.name = s.name => Same(s, t)
SteadyServersFound == Read => \A s \in Servers(kept) : StillFound(s)

(* In batch mode the server of the build has the name the option or else the *)
(* environment variable gave; without either it is used only if no other name *)
(* is there all the while. (Servers that share a name count as one.)         *)
BatchNeverGuesses ==
  pc = "build" /\ options.batch =>
    IF options.jenkins # NoName THEN picked[1].name = options.jenkins
    ELSE IF options.env # NoName THEN picked[1].name = options.env
    ELSE NamesOf(kept) \subseteq {picked[1].name}

(* helpers.go:169: in batch mode the log is only followed on another server  *)
(* than the build runs on if the first one was not there during the whole    *)
(* second selection, or another one of its name was listed then.             *)
TailMovesOnlyIfReplaced ==
  options.batch /\ None \notin {picked[1], picked[2]} /\ ~Same(picked[1], picked[2]) =>
    ~(ItemsOf(picked[1]) \subseteq kept) \/ Rivals(picked[1], seen) # {}

-----------------------------------------------------------------------------
(* The strengthenings that make the properties above inductive.              *)

KeptIsThere == kept \subseteq cluster
AllRead == pc = "pick" \/ Read
KeptIsSeen ==
  /\ pc \in {"secrets", "registry"} \/ AllRead => OfKind(kept, "service") \subseteq seen
  /\ pc = "registry" \/ AllRead => OfKind(kept, "secret") \subseteq seen
  /\ AllRead => OfKind(kept, "registered") \subseteq seen
FirstInScope == picked[1] # None => ItemsOf(picked[1]) \subseteq InScope(Items)
NamedAsAsked ==
  picked[1] # None /\ options.batch =>
    /\ options.jenkins # NoName => picked[1].name = options.jenkins
    /\ options.jenkins = NoName /\ options.env # NoName => picked[1].name = options.env
Rounds ==
  /\ round = 1 => picked[2] = None
  /\ round = 1 /\ pc \in {"services", "secrets", "registry", "pick"} => picked[1] = None
  /\ options.command = "list" => round = 1 /\ pc \notin {"pick", "build"}
  /\ pc = "build" => round = 1 /\ picked[1] # None /\ options.command = "trigger"
  /\ round = 2 => picked[1] # None /\ options.command = "trigger"
  /\ pc \in {"services", "secrets", "registry", "pick"} => picked[2] = None
SelectionInv == KeptIsThere /\ KeptIsSeen /\ FirstInScope /\ NamedAsAsked /\ Rounds

-----------------------------------------------------------------------------
(* What the documentation and messages say, and the code does not do.        *)

(* server.go:17 "URL the URL to connect to the Jenkins server": it leads to  *)
(* the Service the server was found as.                                      *)
URLConnectsToServer == picked[1] # None => picked[1].url = picked[1].ns
=============================================================================
