------------------------------ MODULE Registry ------------------------------
(***************************************************************************)
(* The registry of Jenkins servers (pkg/cmd/server): one Kubernetes Secret *)
(* per server, written by `tp add` (AddOptions.Run) and removed by         *)
(* `tp delete` (DeleteOptions.Run), next to users who edit Secrets by      *)
(* other means.  An add reads the Secret, sets its own fields in the copy  *)
(* and sends the copy back; Kubernetes refuses a copy that is out of date. *)
(*                                                                         *)
(* One action is one remote call with the code up to the next one.         *)
(***************************************************************************)
EXTENDS Naturals

CONSTANTS
  Clients,     \* the running commands
  Op,          \* "add" or "delete"
  Name,        \* the value of --name, or NoName
  Batch,       \* --batch-mode
  Names,       \* the names a user may type
  ValidName,   \* naming.ToValidName, as a function on Names
  NoName, Nobody,
  Extras,      \* data other users keep in the Secret of a server
  NoExtra,
  MaxFaults,   \* bound: remote calls that fail for a reason of their own
  MaxEdits     \* bound: edits by other users

Servers == {ValidName[n] : n \in Names}     \* the Secret of s is "tp-" s

ASSUME RegistryAssumption ==
  /\ Nobody \notin Clients /\ NoName \notin Names /\ NoExtra \in Extras
  /\ Op \in [Clients -> {"add", "delete"}]
  /\ Name \in [Clients -> Names \cup {NoName}]
  /\ Batch \in [Clients -> BOOLEAN]
  /\ ValidName \in [Names -> Names]
  /\ \A n \in Names : ValidName[ValidName[n]] = ValidName[n]
  /\ MaxFaults \in Nat /\ MaxEdits \in Nat

VARIABLES
  store,    \* the Secrets; ResourceVersion 0 is the Secret that is not there
  clock,    \* the last ResourceVersion Kubernetes gave out
  pc,
  name,     \* the server a command works on
  read,     \* the Secret an add has read
  gone,     \* history: clock of the removal a delete made, 0 before
  failed,   \* history: the commands one of whose own calls failed
  since,    \* history: the last change somebody else made to the server of
            \* an add between its Get and its save
  lost,     \* history: the adds whose server was removed after they ended well
  faults, edits

vars == <<store, clock, pc, name, read, gone, failed, since, lost, faults, edits>>

(* What an add writes is told apart by its author.                         *)
Secret == [rv : Nat, author : Clients \cup {Nobody}, extra : Extras]
Absent == [rv |-> 0, author |-> Nobody, extra |-> NoExtra]
Listed == {s \in Servers : store[s].rv # 0}
Change == [by : Clients \cup {Nobody}, what : {"none", "saved", "removed"}]
Untouched == [by |-> Nobody, what |-> "none"]

Init ==
  /\ store \in [Servers -> {Absent} \cup [rv : {1}, author : {Nobody}, extra : Extras]]
  /\ clock = 1
  /\ pc = [c \in Clients |-> "start"]
  /\ name = [c \in Clients |-> NoName]
  /\ read = [c \in Clients |-> Absent]
  /\ gone = [c \in Clients |-> 0]
  /\ failed = {} /\ lost = {}
  /\ since = [c \in Clients |-> Untouched]
  /\ faults = 0 /\ edits = 0

Fault(c) == faults < MaxFaults /\ faults' = faults + 1 /\ failed' = failed \cup {c}
NoFault == UNCHANGED <<faults, failed>>
Goto(c, where) == pc' = [pc EXCEPT ![c] = where]

(* Kubernetes takes a change of s made by u, a command or Nobody.          *)
Write(u, s, secret) ==
  /\ store' = [store EXCEPT ![s] = secret]
  /\ clock' = clock + 1
  /\ since' = [c \in Clients |->
       IF c # u /\ pc[c] = "save" /\ name[c] = s
       THEN [by |-> u, what |-> IF secret = Absent THEN "removed" ELSE "saved"] ELSE since[c]]
  /\ lost' = IF secret = Absent
             THEN lost \cup {c \in Clients : Op[c] = "add" /\ pc[c] = "ok" /\ name[c] = s} ELSE lost
Keep == UNCHANGED <<store, clock, since, lost>>

(* Without an option it needs a command fails in batch mode, else asks for   *)
(* it, and the prompt may be interrupted: --name of a delete, any of --name, *)
(* --url, --username and --token of an add.                                  *)
MissingOption(c) ==
  /\ pc[c] = "start" /\ (Op[c] = "add" \/ Name[c] = NoName)
  /\ Goto(c, "error")
  /\ NoFault /\ Keep /\ UNCHANGED <<name, read, gone, edits>>

(* Faulty variants of what follows: the name as it was typed; a Secret that *)
(* is not found taken for an error; a copy saved over whatever is there; a  *)
(* save whose error is not looked at.                                       *)
AddAsTyped(c) ==
  /\ pc[c] = "start" /\ Op[c] = "add"
  /\ Name[c] # NoName /\ name' = [name EXCEPT ![c] = Name[c]]
  /\ Goto(c, "get")
  /\ NoFault /\ Keep /\ UNCHANGED <<read, gone, edits>>
GetOrFail(c) ==
  /\ pc[c] = "get" /\ NoFault
  /\ IF store[name[c]].rv # 0
     THEN read' = [read EXCEPT ![c] = store[name[c]]] /\ Goto(c, "save")
     ELSE Goto(c, "error") /\ UNCHANGED read
  /\ Keep /\ UNCHANGED <<name, gone, edits>>
LastWriteWins(c) == TRUE
SaveErrorDropped(c) ==
  /\ pc[c] = "save" /\ Goto(c, "ok")
  /\ \/ /\ store[name[c]].rv = read[c].rv /\ NoFault
        /\ Write(c, name[c], [rv |-> clock + 1, author |-> c, extra |-> read[c].extra])
     \/ Keep /\ (Fault(c) \/ (store[name[c]].rv # read[c].rv /\ NoFault))
  /\ UNCHANGED <<name, read, gone, edits>>

-----------------------------------------------------------------------------
(* populateJenkinsService, and ToValidName at the start of                 *)
(* createJenkinsService.                                                   *)
AddOptions(c) ==
  /\ pc[c] = "start" /\ Op[c] = "add"
  /\ \E n \in (IF Name[c] # NoName THEN {Name[c]} ELSE IF Batch[c] THEN {} ELSE Names) :
       name' = [name EXCEPT ![c] = ValidName[n]]
  /\ Goto(c, "get")
  /\ NoFault /\ Keep /\ UNCHANGED <<read, gone, edits>>

(* secret, err := Get(secretsName): not found is no error.                 *)
AddGet(c) ==
  /\ pc[c] = "get"
  /\ \/ read' = [read EXCEPT ![c] = store[name[c]]] /\ Goto(c, "save") /\ NoFault
     \/ Goto(c, "error") /\ Fault(c) /\ UNCHANGED read
  /\ Keep /\ UNCHANGED <<name, gone, edits>>

(* Update if the Secret was there, else Create: refused when the Secret is *)
(* no longer the one that was read.                                        *)
Current(c) == store[name[c]].rv = read[c].rv
AddSave(c) ==
  LET Save == Write(c, name[c], [rv |-> clock + 1, author |-> c, extra |-> read[c].extra])
  IN  /\ pc[c] = "save"
      /\ \/ Current(c) /\ Save /\ Goto(c, "ok") /\ NoFault
         \/ ~Current(c) /\ Keep /\ Goto(c, "error") /\ NoFault
         \/ Current(c) /\ Save /\ Goto(c, "error") /\ Fault(c)
         \/ Keep /\ Goto(c, "error") /\ Fault(c)
      /\ UNCHANGED <<name, read, gone, edits>>

-----------------------------------------------------------------------------
(* FindJenkinsServers, then --name as it is or a name picked from the list. *)
DeleteFind(c) ==
  /\ pc[c] = "start" /\ Op[c] = "delete"
  /\ \/ /\ \E s \in Listed :
             /\ Name[c] = s \/ (Name[c] = NoName /\ ~Batch[c])
             /\ name' = [name EXCEPT ![c] = s]
        /\ Goto(c, "remove") /\ NoFault
     \/ Name[c] # NoName /\ Name[c] \notin Listed /\ Goto(c, "error") /\ NoFault /\ UNCHANGED name
     \/ Goto(c, "error") /\ Fault(c) /\ UNCHANGED name
  /\ Keep /\ UNCHANGED <<read, gone, edits>>

(* deleteSecret: not found is a success, whatever the Secret holds by now.  *)
DeleteSecret(c) ==
  LET Remove == IF name[c] \in Listed
                THEN Write(c, name[c], Absent) /\ gone' = [gone EXCEPT ![c] = clock + 1]
                ELSE Keep /\ UNCHANGED gone
  IN  /\ pc[c] = "remove"
      /\ \/ Remove /\ Goto(c, "ok") /\ NoFault
         \/ Remove /\ Goto(c, "error") /\ Fault(c)
         \/ Keep /\ Goto(c, "error") /\ Fault(c) /\ UNCHANGED gone
      /\ UNCHANGED <<name, read, edits>>

-----------------------------------------------------------------------------
(* Others edit or remove a Secret.                                         *)
UserEdits(s) ==
  /\ s \in Listed /\ edits < MaxEdits /\ edits' = edits + 1
  /\ \/ \E e \in Extras :
          Write(Nobody, s, [rv |-> clock + 1, author |-> store[s].author, extra |-> e])
     \/ Write(Nobody, s, Absent)
  /\ NoFault /\ UNCHANGED <<pc, name, read, gone>>

Step(c) ==
  \/ MissingOption(c) \/ AddOptions(c) \/ AddGet(c) \/ AddSave(c)
  \/ DeleteFind(c) \/ DeleteSecret(c)
Ended(c) == pc[c] \in {"ok", "error"}
Finished == (\A c \in Clients : Ended(c)) /\ UNCHANGED vars
Next == (\E c \in Clients : Step(c)) \/ (\E s \in Servers : UserEdits(s)) \/ Finished
Spec == Init /\ [][Next]_vars

-----------------------------------------------------------------------------
TypeOK ==
  /\ store \in [Servers -> Secret]
  /\ clock \in Nat \ {0}
  /\ pc \in [Clients -> {"start", "get", "save", "remove", "ok", "error"}]
  /\ name \in [Clients -> Servers \cup {NoName}]
  /\ \A c \in Clients : pc[c] \in {"get", "save", "remove"} => name[c] \in Servers
  /\ read \in [Clients -> Secret]
  /\ gone \in [Clients -> Nat]
  /\ since \in [Clients -> Change]
  /\ failed \in SUBSET Clients /\ lost \in SUBSET Clients
  /\ faults \in 0..MaxFaults /\ edits \in 0..MaxEdits

(* The servers a command may change: the one it was given, or the one its    *)
(* user types or picks when asked.                                           *)
Target(c) ==
  IF Name[c] = NoName THEN Servers
  ELSE {IF Op[c] = "add" THEN ValidName[Name[c]] ELSE Name[c]}

(* Get and Update are two calls, yet every add is one atomic change of the   *)
(* server it was given, that loses nothing other users saved in between, made *)
(* at most once and never reported when it was not made; so is every delete. *)
Promise == INSTANCE AtomicRegistry WITH
  Targets <- [c \in Clients |-> Target(c)],
  servers <- [s \in Servers |-> [there |-> store[s].rv # 0, author |-> store[s].author,
                                 extra |-> store[s].extra]],
  status <- [c \in Clients |-> IF pc[c] \in {"ok", "error"} THEN pc[c] ELSE "running"]
KeepsPromise == Promise!Spec

(* An add that had read a server before it was deleted does not bring it     *)
(* back: what is there after a deletion was created after it.                *)
NoResurrection ==
  \A c, d \in Clients :
    gone[c] # 0 /\ name[d] = name[c] /\ store[name[c]].rv # 0 /\ store[name[c]].author = d =>
      read[d].rv = 0 \/ read[d].rv > gone[c]

(* An add none of whose own calls failed is only refused because somebody    *)
(* changed the server after its Get and before its save: other users, or     *)
(* another command that succeeded, or would have but for the answer.         *)
Won(u) == u = Nobody \/ pc[u] = "ok" \/ u \in failed
ConflictHasWinner ==
  \A c \in Clients : Op[c] = "add" /\ pc[c] = "error" /\ c \notin failed /\ name[c] # NoName =>
    since[c].what # "none" /\ Won(since[c].by)

(* Two adds that read a server in the same state do not both succeed, nor do *)
(* two that found none, unless what one of them had added was removed before *)
(* the other saved: the second would silently hide the URL and token of the  *)
(* first.                                                                    *)
OneCreator ==
  \A c, d \in Clients :
    /\ c # d /\ name[c] = name[d] /\ read[c].rv = read[d].rv
    /\ Op[c] = "add" /\ Op[d] = "add" /\ pc[c] = "ok" /\ pc[d] = "ok"
    => read[c].rv = 0 /\ {c, d} \cap lost # {}

(* server_delete.go:80: a server that an add has reported is found by every  *)
(* delete that names it as it is registered, unless it was removed since.    *)
AddedCanBeDeleted ==
  [][\A c, d \in Clients :
       /\ Op[c] = "add" /\ pc[c] = "ok" /\ Name[c] # NoName
       /\ Op[d] = "delete" /\ Name[d] = ValidName[Name[c]]
       /\ pc[d] = "start" /\ pc'[d] = "error"
       => d \in failed' \/ c \in lost]_vars

-----------------------------------------------------------------------------
(* The strengthenings that make the properties above inductive.              *)

Versions ==
  /\ \A s \in Servers : store[s].rv <= clock /\ (store[s].rv = 0 => store[s] = Absent)
  /\ \A c \in Clients :
       /\ read[c].rv <= clock /\ (read[c].rv = 0 => read[c] = Absent)
       /\ gone[c] <= clock
CopyIsCurrent ==
  \A c \in Clients :
    pc[c] = "save" /\ store[name[c]].rv = read[c].rv => store[name[c]].extra = read[c].extra
AuthorsEnded ==
  /\ \A s \in Servers : store[s].author # Nobody => Ended(store[s].author)
  /\ \A c \in Clients : gone[c] # 0 => Ended(c) /\ name[c] \in Servers
GoneBefore ==
  \A c \in Clients :
    gone[c] # 0 /\ store[name[c]].rv # 0 => store[name[c]].rv > gone[c]
OwnPhases ==
  \A c \in Clients :
    /\ pc[c] \in {"get", "save"} => Op[c] = "add"
    /\ pc[c] = "remove" => Op[c] = "delete"

(* A command works on a server it may change.                                *)
NamedAsGiven ==
  \A c \in Clients : pc[c] \in {"get", "save", "remove", "ok"} => name[c] \in Servers \cap Target(c)

(* What an add has saved is newer than what it had read, until it is removed. *)
SavedOver ==
  \A c \in Clients : Op[c] = "add" /\ pc[c] = "ok" =>
    store[name[c]].rv > read[c].rv \/ (store[name[c]].rv = 0 /\ c \in lost)

(* An add whose copy is out of date was overtaken after it had read, and who *)
(* overtook it has ended.                                                    *)
FailedAreEnded == \A c \in failed : Ended(c)
UnnamedAtStart == \A c \in Clients : pc[c] = "start" => name[c] = NoName
OvertakenByWinner ==
  \A c \in Clients :
    /\ since[c].what # "none" => Won(since[c].by)
    /\ since[c].what = "none" /\ pc[c] = "save" => store[name[c]].rv = read[c].rv

RegistryInv == OwnPhases /\ Versions /\ CopyIsCurrent /\ AuthorsEnded /\ GoneBefore /\ NamedAsGiven

-----------------------------------------------------------------------------
(* What the tests and prompts of the code say, and it does not do.           *)

(* server_list_test.go:49 "failed to delete Jenkins name %s": a server can   *)
(* be deleted by the name it was added with.                                 *)
AddedNameIsDeletable ==
  [][\A c, d \in Clients :
       /\ Op[c] = "add" /\ pc[c] = "ok" /\ name[c] \in Listed
       /\ Op[d] = "delete" /\ Name[d] = Name[c]
       /\ pc[d] = "start" /\ pc'[d] = "error"
       => d \in failed']_vars
=============================================================================
