--------------------------- MODULE Registry_proof ---------------------------
(***************************************************************************)
(* Proofs about Registry, for every set of commands, names and Secrets and *)
(* every bound on faults and edits.                                        *)
(***************************************************************************)
EXTENDS Registry, TLAPS

LEMMA TypeInit == Init => TypeOK
BY RegistryAssumption DEF Init, TypeOK, Secret, Absent, Change, Untouched

(* What Kubernetes takes keeps every variable it changes in its type.       *)
LEMMA WriteType ==
  ASSUME TypeOK, NEW u \in Clients \cup {Nobody}, NEW s \in Servers, NEW secret \in Secret,
         Write(u, s, secret)
  PROVE  /\ store' \in [Servers -> Secret] /\ clock' \in Nat \ {0}
         /\ since' \in [Clients -> Change] /\ lost' \in SUBSET Clients
<1>1. store' \in [Servers -> Secret] /\ clock' \in Nat \ {0}
  BY DEF TypeOK, Write
<1>2. lost' \in SUBSET Clients
  BY DEF TypeOK, Write
<1>3. since' \in [Clients -> Change]
  <2> SUFFICES ASSUME NEW c \in Clients PROVE since'[c] \in Change
    BY DEF Write
  <2>1. \A what \in {"saved", "removed"} : [by |-> u, what |-> what] \in Change
    BY DEF Change
  <2> QED
    BY <2>1 DEF TypeOK, Write
<1> QED
  BY <1>1, <1>2, <1>3

LEMMA TypeNext == TypeOK /\ [Next]_vars => TypeOK'
<1> SUFFICES ASSUME TypeOK, [Next]_vars PROVE TypeOK'
  OBVIOUS
<1> USE DEF TypeOK, Goto, Keep
<1>a. MaxFaults \in Nat /\ MaxEdits \in Nat /\ Absent \in Secret
  BY RegistryAssumption DEF Absent, Secret
<1>b. \A n \in Names : ValidName[n] \in Servers
  BY DEF Servers
<1>c. \A c \in Clients : Fault(c) \/ NoFault => faults' \in 0..MaxFaults /\ failed' \in SUBSET Clients
  BY <1>a DEF Fault, NoFault
<1>1. ASSUME NEW c \in Clients, Step(c) PROVE TypeOK'
  <2>1. CASE MissingOption(c)
    BY <1>c, <2>1 DEF MissingOption
  <2>2. CASE AddOptions(c)
    <3>1. PICK n \in Names : name' = [name EXCEPT ![c] = ValidName[n]]
      BY <2>2, RegistryAssumption DEF AddOptions
    <3> QED
      BY <1>b, <1>c, <2>2, <3>1 DEF AddOptions
  <2>3. CASE AddGet(c)
    BY <1>c, <2>3 DEF AddGet
  <2>4. CASE AddSave(c)
    <3>1. name[c] \in Servers /\ [rv |-> clock + 1, author |-> c, extra |-> read[c].extra] \in Secret
      BY <2>4 DEF AddSave, Secret
    <3>2. /\ store' \in [Servers -> Secret] /\ clock' \in Nat \ {0}
          /\ since' \in [Clients -> Change] /\ lost' \in SUBSET Clients
      BY <2>4, <3>1, WriteType DEF AddSave
    <3> QED
      BY <1>c, <2>4, <3>2 DEF AddSave
  <2>5. CASE DeleteFind(c)
    BY <1>c, <2>5 DEF DeleteFind, Listed
  <2>6. CASE DeleteSecret(c)
    <3>1. name[c] \in Servers
      BY <2>6 DEF DeleteSecret
    <3>2. /\ store' \in [Servers -> Secret] /\ clock' \in Nat \ {0}
          /\ since' \in [Clients -> Change] /\ lost' \in SUBSET Clients
      BY <1>a, <2>6, <3>1, WriteType DEF DeleteSecret
    <3>3. gone' \in [Clients -> Nat]
      BY <2>6 DEF DeleteSecret
    <3> QED
      BY <1>c, <2>6, <3>2, <3>3 DEF DeleteSecret
  <2> QED
    BY <1>1, <2>1, <2>2, <2>3, <2>4, <2>5, <2>6 DEF Step
<1>2. ASSUME NEW s \in Servers, UserEdits(s) PROVE TypeOK'
  <2>1. \A e \in Extras : [rv |-> clock + 1, author |-> store[s].author, extra |-> e] \in Secret
    BY DEF Secret
  <2>2. /\ store' \in [Servers -> Secret] /\ clock' \in Nat \ {0}
        /\ since' \in [Clients -> Change] /\ lost' \in SUBSET Clients
    BY <1>2, <1>a, <2>1, WriteType DEF UserEdits
  <2> QED
    BY <1>a, <1>2, <2>2 DEF UserEdits, NoFault
<1>3. CASE UNCHANGED vars
  BY <1>3 DEF vars
<1> QED
  BY <1>1, <1>2, <1>3 DEF Next, Finished

(* Every variable keeps its type, for all names, commands and bounds.      *)
THEOREM TypeCorrect == Spec => []TypeOK
BY TypeInit, TypeNext, PTL DEF Spec

-----------------------------------------------------------------------------
(* ResourceVersions identify what was read.                                *)

LEMMA RegistryInit == Init => RegistryInv
<1> SUFFICES ASSUME Init PROVE RegistryInv
  OBVIOUS
<1>1. \A s \in Servers : store[s].rv \in {0, 1} /\ store[s].author = Nobody /\ (store[s].rv = 0 => store[s] = Absent)
  BY DEF Init, Absent
<1> QED
  BY <1>1
     DEF Init, RegistryInv, OwnPhases, Versions, CopyIsCurrent, AuthorsEnded, GoneBefore, NamedAsGiven,
         Absent

LEMMA PhasesNext == TypeOK /\ OwnPhases /\ [Next]_vars => OwnPhases'
<1> SUFFICES ASSUME TypeOK, OwnPhases, [Next]_vars PROVE OwnPhases'
  OBVIOUS
<1>1. ASSUME NEW c \in Clients, Step(c) PROVE OwnPhases'
  BY <1>1
     DEF Step, MissingOption, AddOptions, AddGet, AddSave, Current, DeleteFind, DeleteSecret, OwnPhases, Goto,
         TypeOK
<1>2. CASE UNCHANGED pc
  BY <1>2 DEF OwnPhases
<1> QED
  BY <1>1, <1>2 DEF Next, UserEdits, Finished, vars

(* A command keeps the server it was given, or has got by asking.           *)
LEMMA NamedNext == TypeOK /\ NamedAsGiven /\ [Next]_vars => NamedAsGiven'
<1> SUFFICES ASSUME TypeOK, NamedAsGiven, [Next]_vars PROVE NamedAsGiven'
  OBVIOUS
<1> USE DEF TypeOK, NamedAsGiven, Goto
<1>1. ASSUME NEW c \in Clients, AddOptions(c) PROVE NamedAsGiven'
  <2>1. PICK n \in IF Name[c] # NoName THEN {Name[c]} ELSE IF Batch[c] THEN {} ELSE Names :
          name' = [name EXCEPT ![c] = ValidName[n]]
    BY <1>1 DEF AddOptions
  <2>2. ValidName[n] \in Servers \cap Target(c)
    BY <1>1, <2>1, RegistryAssumption DEF AddOptions, Target, Servers
  <2> QED
    BY <1>1, <2>1, <2>2 DEF AddOptions
<1>2. ASSUME NEW c \in Clients, DeleteFind(c) PROVE NamedAsGiven'
  <2>1. CASE UNCHANGED name /\ Goto(c, "error")
    BY <2>1
  <2>2. ASSUME NEW s \in Listed, Name[c] = s \/ Name[c] = NoName, name' = [name EXCEPT ![c] = s],
               Goto(c, "remove")
        PROVE  NamedAsGiven'
    <3>1. s \in Servers \cap Target(c)
      BY <1>2, <2>2 DEF DeleteFind, Listed, Target
    <3> QED
      BY <2>2, <3>1
  <2> QED
    BY <1>2, <2>1, <2>2 DEF DeleteFind
<1>3. ASSUME NEW c \in Clients, MissingOption(c) \/ AddGet(c) PROVE NamedAsGiven'
  BY <1>3 DEF MissingOption, AddGet
<1>4. ASSUME NEW c \in Clients, AddSave(c) \/ DeleteSecret(c) PROVE NamedAsGiven'
  BY <1>4 DEF AddSave, DeleteSecret
<1>5. CASE UNCHANGED <<pc, name>>
  BY <1>5
<1> QED
  BY <1>1, <1>2, <1>3, <1>4, <1>5 DEF Next, Step, UserEdits, Finished, vars

LEMMA RegistryNext == TypeOK /\ RegistryInv /\ [Next]_vars => RegistryInv'
<1> DEFINE Inv == Versions /\ CopyIsCurrent /\ AuthorsEnded /\ GoneBefore
<1> SUFFICES ASSUME TypeOK, Inv, [Next]_vars PROVE Inv'
  BY PhasesNext, NamedNext DEF RegistryInv
<1> USE DEF TypeOK, Versions, CopyIsCurrent, AuthorsEnded, GoneBefore, Ended, Secret, Absent, Goto,
            Write, Keep
<1>a. Nobody \notin Clients /\ NoName \notin Servers /\ NoExtra \in Extras
  BY RegistryAssumption DEF Servers
<1>b. \A n \in Names : ValidName[n] \in Servers
  BY DEF Servers
<1>1. ASSUME NEW c \in Clients, Step(c) PROVE Inv'
  <2>1. CASE MissingOption(c)
    BY <2>1 DEF MissingOption
  <2>2. CASE AddOptions(c)
    BY <2>2 DEF AddOptions
  <2>3. CASE AddGet(c)
    <3>1. UNCHANGED <<store, clock, name, gone>> /\ pc[c] = "get" /\ name[c] \in Servers
      BY <2>3 DEF AddGet
    <3>2. \/ read' = [read EXCEPT ![c] = store[name[c]]] /\ pc' = [pc EXCEPT ![c] = "save"]
          \/ read' = read /\ pc' = [pc EXCEPT ![c] = "error"]
      BY <2>3 DEF AddGet
    <3>3. Versions'
      BY <3>1, <3>2
    <3>4. CopyIsCurrent'
      BY <3>1, <3>2
    <3>5. AuthorsEnded' /\ GoneBefore'
      BY <3>1, <3>2
    <3> QED
      BY <3>3, <3>4, <3>5
  <2>4. CASE AddSave(c)
    <3>1. CASE Keep /\ Goto(c, "error")
      <4>1. UNCHANGED <<store, clock, name, read, gone>>
        BY <2>4, <3>1 DEF AddSave, Current
      <4> QED
        BY <3>1, <4>1
    <3>2. CASE /\ store[name[c]].rv = read[c].rv
               /\ Write(c, name[c], [rv |-> clock + 1, author |-> c, extra |-> read[c].extra])
      <4>1. pc' = [pc EXCEPT ![c] = "ok"] \/ pc' = [pc EXCEPT ![c] = "error"]
        BY <2>4 DEF AddSave, Current
      <4>2. UNCHANGED <<name, read, gone>> /\ pc[c] = "save" /\ name[c] \in Servers
        BY <2>4 DEF AddSave, Current
      <4>a. /\ store' = [store EXCEPT ![name[c]] = [rv |-> clock + 1, author |-> c, extra |-> read[c].extra]]
            /\ clock' = clock + 1
        BY <3>2
      <4>3. Versions'
        BY <3>2, <4>2
      <4>4. CopyIsCurrent'
        BY <3>2, <4>1, <4>2
      <4> HIDE DEF Write
      <4>5. AuthorsEnded'
        BY <1>a, <4>a, <4>1, <4>2
      <4>6. GoneBefore'
        BY <4>a, <4>2
      <4> QED
        BY <4>3, <4>4, <4>5, <4>6
    <3> QED
      BY <2>4, <3>1, <3>2 DEF AddSave, Current
  <2>5. CASE DeleteFind(c)
    <3>1. UNCHANGED <<store, clock, read, gone>> /\ pc[c] = "start"
      BY <2>5 DEF DeleteFind
    <3>2. \/ \E s \in Servers : name' = [name EXCEPT ![c] = s] /\ pc' = [pc EXCEPT ![c] = "remove"]
          \/ name' = name /\ pc' = [pc EXCEPT ![c] = "error"]
      BY <2>5 DEF DeleteFind, Listed
    <3>3. Versions'
      BY <3>1
    <3>4. CopyIsCurrent'
      BY <3>1, <3>2
    <3>5. AuthorsEnded' /\ GoneBefore'
      BY <3>1, <3>2
    <3> QED
      BY <3>3, <3>4, <3>5
  <2>6. CASE DeleteSecret(c)
    <3>1. CASE Keep /\ UNCHANGED gone
      <4>1. UNCHANGED <<store, clock, name, read, gone>> /\ pc[c] = "remove"
        BY <2>6, <3>1 DEF DeleteSecret
      <4>2. pc' = [pc EXCEPT ![c] = "ok"] \/ pc' = [pc EXCEPT ![c] = "error"]
        BY <2>6 DEF DeleteSecret
      <4> QED
        BY <4>1, <4>2
    <3>2. CASE Write(c, name[c], Absent) /\ gone' = [gone EXCEPT ![c] = clock + 1]
      <4>1. pc' = [pc EXCEPT ![c] = "ok"] \/ pc' = [pc EXCEPT ![c] = "error"]
        BY <2>6 DEF DeleteSecret
      <4>2. UNCHANGED <<name, read>> /\ pc[c] = "remove" /\ name[c] \in Servers
        BY <2>6 DEF DeleteSecret
      <4>3. Versions'
        BY <3>2, <4>2
      <4>4. CopyIsCurrent'
        BY <3>2, <4>1, <4>2
      <4>5. AuthorsEnded' /\ GoneBefore'
        BY <1>a, <3>2, <4>1, <4>2
      <4> QED
        BY <4>3, <4>4, <4>5
    <3> QED
      BY <2>6, <3>1, <3>2 DEF DeleteSecret
  <2> QED
    BY <1>1, <2>1, <2>2, <2>3, <2>4, <2>5, <2>6 DEF Step
<1>2. ASSUME NEW s \in Servers, UserEdits(s) PROVE Inv'
  <2>1. UNCHANGED <<pc, name, read, gone>> /\ store[s].rv # 0
    BY <1>2 DEF UserEdits, Listed
  <2>2. CASE Write(Nobody, s, Absent)
    BY <1>a, <2>1, <2>2
  <2>3. ASSUME NEW e \in Extras, Write(Nobody, s, [rv |-> clock + 1, author |-> store[s].author, extra |-> e])
        PROVE  Inv'
    BY <1>a, <2>1, <2>3
  <2> QED
    BY <1>2, <2>2, <2>3 DEF UserEdits
<1>3. CASE UNCHANGED vars
  BY <1>3 DEF vars
<1> QED
  BY <1>1, <1>2, <1>3 DEF Next, Finished

LEMMA RegistryAlways == Spec => [](TypeOK /\ RegistryInv)
BY TypeInit, TypeNext, RegistryInit, RegistryNext, PTL DEF Spec

-----------------------------------------------------------------------------
(* Every step is a step of the promised registry, or none.                 *)

(* The registry of AtomicRegistry in a state of this one.                  *)
Shown == [s \in Servers |-> [there |-> store[s].rv # 0, author |-> store[s].author,
                             extra |-> store[s].extra]]
Progress == [c \in Clients |-> IF pc[c] \in {"ok", "error"} THEN pc[c] ELSE "running"]

LEMMA ShownWrite ==
  ASSUME TypeOK, NEW s \in Servers, NEW secret \in Secret, store' = [store EXCEPT ![s] = secret]
  PROVE  Shown' = [Shown EXCEPT ![s] = [there |-> secret.rv # 0, author |-> secret.author,
                                        extra |-> secret.extra]]
BY DEF Shown, TypeOK

LEMMA ProgressEnds ==
  ASSUME TypeOK, NEW c \in Clients, pc[c] \notin {"ok", "error"}, NEW end \in {"ok", "error"},
         Goto(c, end)
  PROVE  Progress[c] = "running" /\ Progress' = [Progress EXCEPT ![c] = end]
BY DEF Progress, TypeOK, Goto

LEMMA ProgressRuns ==
  ASSUME TypeOK, NEW c \in Clients, pc[c] \notin {"ok", "error"},
         NEW where \in {"get", "save", "remove"}, Goto(c, where)
  PROVE  Progress' = Progress
BY DEF Progress, TypeOK, Goto

LEMMA PromiseInit == Init => Promise!Init
<1> SUFFICES ASSUME Init PROVE Promise!Init
  OBVIOUS
<1>1. Shown \in [Servers -> Promise!Entries]
  <2> SUFFICES ASSUME NEW s \in Servers
               PROVE  [there |-> store[s].rv # 0, author |-> store[s].author, extra |-> store[s].extra]
                        \in Promise!Entries
    BY DEF Shown
  <2>1. CASE store[s] = Absent
    <3>1. (store[s].rv # 0) = FALSE /\ store[s].author = Nobody /\ store[s].extra = NoExtra
      BY <2>1 DEF Absent
    <3> QED
      BY <3>1, Zenon DEF Promise!Entries, Promise!Missing
  <2>2. CASE store[s] \in [rv : {1}, author : {Nobody}, extra : Extras]
    <3>1. (store[s].rv # 0) = TRUE /\ store[s].author \in Clients \cup {Nobody} /\ store[s].extra \in Extras
      BY <2>2
    <3>2. [there |-> TRUE, author |-> store[s].author, extra |-> store[s].extra]
            \in [there : {TRUE}, author : Clients \cup {Nobody}, extra : Extras]
      BY <3>1
    <3> QED
      BY <3>1, <3>2 DEF Promise!Entries
  <2> QED
    BY <2>1, <2>2 DEF Init
<1>2. Progress = [c \in Clients |-> "running"]
  BY DEF Init, Progress
<1> QED
  BY <1>1, <1>2 DEF Promise!Init, Shown, Progress

LEMMA PromiseNext ==
  TypeOK /\ RegistryInv /\ [Next]_vars => [Promise!Next]_<<Shown, Progress>>
<1> SUFFICES ASSUME TypeOK, RegistryInv, [Next]_vars
             PROVE  Promise!Next \/ UNCHANGED <<Shown, Progress>>
  OBVIOUS
<1> USE DEF Keep
<1> DEFINE Targets == [c \in Clients |-> Target(c)]
<1>1. ASSUME NEW c \in Clients, pc[c] \notin {"ok", "error"}, Goto(c, "error"), UNCHANGED store
      PROVE  Promise!Next
  <2>1. Progress[c] = "running" /\ Progress' = [Progress EXCEPT ![c] = "error"] /\ Shown' = Shown
    BY <1>1, ProgressEnds DEF Shown
  <2>2. Promise!Fail(c)
    BY <2>1 DEF Promise!Fail, Promise!EndAs, Shown, Progress
  <2> QED
    BY <2>2 DEF Promise!Next
<1>2. ASSUME NEW c \in Clients, MissingOption(c) PROVE Promise!Next
  BY <1>1, <1>2 DEF MissingOption
<1>3. ASSUME NEW c \in Clients, AddOptions(c) PROVE UNCHANGED <<Shown, Progress>>
  BY <1>3, ProgressRuns DEF AddOptions, Shown
<1>4. ASSUME NEW c \in Clients, AddGet(c) PROVE Promise!Next \/ UNCHANGED <<Shown, Progress>>
  BY <1>1, <1>4, ProgressRuns DEF AddGet, Shown
<1>5. ASSUME NEW c \in Clients, AddSave(c) PROVE Promise!Next
  <2>1. CASE Keep /\ Goto(c, "error")
    BY <1>1, <1>5, <2>1 DEF AddSave, Current
  <2>2. CASE /\ store[name[c]].rv = read[c].rv
             /\ Write(c, name[c], [rv |-> clock + 1, author |-> c, extra |-> read[c].extra])
    <3> DEFINE secret == [rv |-> clock + 1, author |-> c, extra |-> read[c].extra]
    <3>0. PICK s \in Servers : s = name[c]
      BY <1>5 DEF AddSave, Current, TypeOK
    <3>1. secret \in Secret /\ secret.rv # 0 /\ pc[c] = "save"
      BY <1>5 DEF AddSave, Current, TypeOK, Secret
    <3>2. read[c].extra = store[s].extra
      BY <2>2, <3>0, <3>1 DEF RegistryInv, CopyIsCurrent
    <3>3. Shown' = [Shown EXCEPT ![s] = [there |-> secret.rv # 0, author |-> secret.author,
                                         extra |-> secret.extra]]
      BY <2>2, <3>0, <3>1, ShownWrite DEF Write
    <3>a. Shown[s].extra = store[s].extra /\ (secret.rv # 0) = TRUE
      BY <3>1 DEF Shown
    <3>b. Shown' = [Shown EXCEPT ![s] = [there |-> TRUE, author |-> c, extra |-> Shown[s].extra]]
      BY <3>2, <3>3, <3>a
    <3>4. PICK end \in {"ok", "error"} : Goto(c, end)
      BY <1>5 DEF AddSave, Current
    <3>5. Progress[c] = "running" /\ Progress' = [Progress EXCEPT ![c] = end]
      BY <3>1, <3>4, ProgressEnds
    <3>6. Op[c] = "add" /\ s \in Targets[c]
      BY <3>0, <3>1 DEF RegistryInv, OwnPhases, NamedAsGiven
    <3> HIDE DEF secret
    <3>7. Promise!Add(c, s)
      BY <3>b, <3>5, <3>6 DEF Promise!Add, Promise!EndAs, Shown, Progress
    <3> QED
      BY <3>7 DEF Promise!Next
  <2> QED
    BY <1>5, <2>1, <2>2 DEF AddSave, Current
<1>6. ASSUME NEW c \in Clients, DeleteFind(c) PROVE Promise!Next \/ UNCHANGED <<Shown, Progress>>
  <2>1. UNCHANGED store /\ pc[c] = "start" /\ (Goto(c, "remove") \/ Goto(c, "error"))
    BY <1>6 DEF DeleteFind
  <2> QED
    BY <1>1, <2>1, ProgressRuns DEF Shown
<1>7. ASSUME NEW c \in Clients, DeleteSecret(c) PROVE Promise!Next
  <2>1. CASE Keep /\ Goto(c, "error")
    BY <1>1, <1>7, <2>1 DEF DeleteSecret
  <2>2. CASE Write(c, name[c], Absent) \/ (name[c] \notin Listed /\ Keep)
    <3>0. PICK s \in Servers : s = name[c]
      BY <1>7 DEF DeleteSecret, TypeOK
    <3>1. Absent \in Secret /\ pc[c] = "remove"
      BY <1>7, RegistryAssumption DEF DeleteSecret, TypeOK, Secret, Absent
    <3>2. (Absent.rv # 0) = FALSE /\ Absent.author = Nobody /\ Absent.extra = NoExtra
      BY DEF Absent
    <3>3. Shown' = [Shown EXCEPT ![s] = Promise!Missing]
      <4>1. CASE Write(c, name[c], Absent)
        BY <3>0, <3>1, <3>2, <4>1, ShownWrite DEF Write, Promise!Missing
      <4>2. CASE name[c] \notin Listed /\ Keep
        <5>1. store[s] = Absent /\ store' = store
          BY <3>0, <4>2 DEF Listed, RegistryInv, Versions
        <5>2. Shown[s] = Promise!Missing /\ Shown' = Shown
          BY <3>2, <5>1 DEF Shown, Promise!Missing
        <5> QED
          BY <5>2 DEF Shown
      <4> QED
        BY <2>2, <4>1, <4>2
    <3>4. PICK end \in {"ok", "error"} : Goto(c, end)
      BY <1>7 DEF DeleteSecret
    <3>5. Progress[c] = "running" /\ Progress' = [Progress EXCEPT ![c] = end]
      BY <3>1, <3>4, ProgressEnds
    <3>6. Op[c] = "delete" /\ s \in Targets[c]
      BY <3>0, <3>1 DEF RegistryInv, OwnPhases, NamedAsGiven
    <3>7. Promise!Delete(c, s)
      BY <3>3, <3>5, <3>6 DEF Promise!Delete, Promise!EndAs, Shown, Progress
    <3> QED
      BY <3>7 DEF Promise!Next
  <2> QED
    BY <1>7, <2>1, <2>2 DEF DeleteSecret
<1>8. ASSUME NEW s \in Servers, UserEdits(s) PROVE Promise!Next
  <2>1. store[s] \in Secret /\ store[s].rv # 0 /\ UNCHANGED pc
    BY <1>8 DEF UserEdits, Listed, TypeOK
  <2>2. Shown[s].there /\ Shown[s] = [there |-> TRUE, author |-> store[s].author, extra |-> store[s].extra]
    <3>1. (store[s].rv # 0) = TRUE
      BY <2>1
    <3> QED
      BY <3>1 DEF Shown
  <2>3. Progress' = Progress
    BY <2>1 DEF Progress
  <2>4. CASE Write(Nobody, s, Absent)
    <3>1. Absent \in Secret /\ (Absent.rv # 0) = FALSE /\ Absent.author = Nobody /\ Absent.extra = NoExtra
      BY RegistryAssumption DEF Absent, Secret
    <3>2. Shown' = [Shown EXCEPT ![s] = Promise!Missing]
      BY <2>4, <3>1, ShownWrite DEF Write, Promise!Missing
    <3>3. Promise!Edit(s)
      BY <2>2, <2>3, <3>2 DEF Promise!Edit, Shown, Progress
    <3> QED
      BY <3>3 DEF Promise!Next
  <2>5. ASSUME NEW e \in Extras, Write(Nobody, s, [rv |-> clock + 1, author |-> store[s].author, extra |-> e])
        PROVE  Promise!Next
    <3> DEFINE secret == [rv |-> clock + 1, author |-> store[s].author, extra |-> e]
    <3>1. secret \in Secret /\ (secret.rv # 0) = TRUE
      BY <2>1 DEF Secret, TypeOK
    <3>2. Shown' = [Shown EXCEPT ![s] = [there |-> TRUE, author |-> store[s].author, extra |-> e]]
      BY <2>5, <3>1, ShownWrite DEF Write
    <3>3. Shown' = [Shown EXCEPT ![s] = [there |-> TRUE, author |-> Shown[s].author, extra |-> e]]
      BY <2>2, <3>2
    <3>4. Promise!Edit(s)
      BY <2>2, <2>3, <3>3 DEF Promise!Edit, Shown, Progress
    <3> QED
      BY <3>4 DEF Promise!Next
  <2> QED
    BY <1>8, <2>4, <2>5 DEF UserEdits
<1>9. CASE UNCHANGED vars
  BY <1>9 DEF vars, Shown, Progress
<1> QED
  BY <1>2, <1>3, <1>4, <1>5, <1>6, <1>7, <1>8, <1>9 DEF Next, Step, Finished

(* The registry of Secrets, with its read, edit and write back, implements *)
(* the registry whose servers change atomically, for all commands.         *)
THEOREM RegistryKeepsPromise == Spec => KeepsPromise
<1>1. Spec => Promise!Init /\ [][Promise!Next]_<<Shown, Progress>>
  BY PromiseInit, PromiseNext, RegistryAlways, PTL DEF Spec
<1> QED
  BY <1>1, PTL DEF KeepsPromise, Promise!Spec, Shown, Progress

-----------------------------------------------------------------------------
(* Deleted servers stay deleted until they are added anew.                 *)

LEMMA ResurrectionNext ==
  TypeOK /\ RegistryInv /\ NoResurrection /\ [Next]_vars => NoResurrection'
<1> SUFFICES ASSUME TypeOK, RegistryInv, NoResurrection, [Next]_vars PROVE NoResurrection'
  OBVIOUS
<1> USE DEF NoResurrection, TypeOK, Versions, AuthorsEnded, GoneBefore, Ended, Secret, Absent, Goto,
            Write, Keep, RegistryInv
<1>a. Nobody \notin Clients /\ NoName \notin Servers
  BY RegistryAssumption DEF Servers
<1>1. ASSUME NEW c \in Clients, AddSave(c) PROVE NoResurrection'
  <2>1. CASE UNCHANGED store
    BY <1>1, <2>1 DEF AddSave, Current
  <2>2. CASE /\ store[name[c]].rv = read[c].rv
             /\ Write(c, name[c], [rv |-> clock + 1, author |-> c, extra |-> read[c].extra])
    BY <1>1, <1>a, <2>2 DEF AddSave, Current
  <2> QED
    BY <1>1, <2>1, <2>2 DEF AddSave, Current
<1>2. ASSUME NEW c \in Clients, DeleteSecret(c) PROVE NoResurrection'
  <2>1. CASE UNCHANGED <<store, gone>>
    <3>1. UNCHANGED <<name, read>>
      BY <1>2 DEF DeleteSecret
    <3> QED
      BY <2>1, <3>1
  <2>2. CASE Write(c, name[c], Absent) /\ gone' = [gone EXCEPT ![c] = clock + 1]
    BY <1>2, <1>a, <2>2 DEF DeleteSecret
  <2> QED
    BY <1>2, <2>1, <2>2 DEF DeleteSecret
<1>3. ASSUME NEW c \in Clients, MissingOption(c) \/ AddOptions(c) \/ AddGet(c) \/ DeleteFind(c)
      PROVE  NoResurrection'
  <2>1. UNCHANGED <<store, gone>> /\ ~Ended(c) /\ \A d \in Clients \ {c} : name'[d] = name[d] /\ read'[d] = read[d]
    BY <1>3 DEF MissingOption, AddOptions, AddGet, DeleteFind
  <2> QED
    BY <1>a, <2>1
<1>4. ASSUME NEW s \in Servers, UserEdits(s) PROVE NoResurrection'
  <2>1. UNCHANGED <<pc, name, read, gone>> /\ store[s].rv # 0
    BY <1>4 DEF UserEdits, Listed
  <2>2. CASE Write(Nobody, s, Absent)
    BY <1>a, <2>1, <2>2
  <2>3. ASSUME NEW e \in Extras, Write(Nobody, s, [rv |-> clock + 1, author |-> store[s].author, extra |-> e])
        PROVE  NoResurrection'
    BY <1>a, <2>1, <2>3
  <2> QED
    BY <1>4, <2>2, <2>3 DEF UserEdits
<1>5. CASE UNCHANGED vars
  BY <1>5 DEF vars
<1> QED
  BY <1>1, <1>2, <1>3, <1>4, <1>5 DEF Next, Step, Finished

(* An add that read a server before its deletion cannot bring it back.     *)
THEOREM DeletedStaysDeleted == Spec => []NoResurrection
<1>1. Init => NoResurrection
  BY DEF Init, NoResurrection
<1> QED
  BY <1>1, RegistryAlways, ResurrectionNext, PTL DEF Spec

-----------------------------------------------------------------------------
(* Who wins. A command that has ended keeps what it has, and the histories  *)
(* only grow.                                                               *)
LEMMA EndedStays ==
  ASSUME TypeOK, [Next]_vars, NEW e \in Clients, Ended(e)
  PROVE  pc'[e] = pc[e] /\ name'[e] = name[e] /\ read'[e] = read[e]
<1> USE DEF TypeOK, Goto, Ended
<1>1. ASSUME NEW c \in Clients, Step(c) PROVE c # e
  BY <1>1 DEF Step, MissingOption, AddOptions, AddGet, AddSave, DeleteFind, DeleteSecret
<1>2. ASSUME NEW c \in Clients, c # e, MissingOption(c) \/ AddOptions(c) \/ AddGet(c)
      PROVE  pc'[e] = pc[e] /\ name'[e] = name[e] /\ read'[e] = read[e]
  BY <1>2 DEF MissingOption, AddOptions, AddGet
<1>3. ASSUME NEW c \in Clients, c # e, AddSave(c) \/ DeleteFind(c) \/ DeleteSecret(c)
      PROVE  pc'[e] = pc[e] /\ name'[e] = name[e] /\ read'[e] = read[e]
  BY <1>3 DEF AddSave, DeleteFind, DeleteSecret
<1>4. CASE UNCHANGED <<pc, name, read>>
  BY <1>4
<1> QED
  BY <1>1, <1>2, <1>3, <1>4 DEF Next, Step, UserEdits, Finished, vars

LEMMA HistoryGrows ==
  ASSUME [Next]_vars
  PROVE  failed \subseteq failed' /\ lost \subseteq lost'
<1> USE DEF Fault, NoFault, Keep, Write
<1>1. ASSUME NEW c \in Clients, MissingOption(c) \/ AddOptions(c) \/ AddGet(c) \/ DeleteFind(c)
      PROVE  failed \subseteq failed' /\ lost \subseteq lost'
  BY <1>1 DEF MissingOption, AddOptions, AddGet, DeleteFind
<1>2. ASSUME NEW c \in Clients, AddSave(c) \/ DeleteSecret(c)
      PROVE  failed \subseteq failed' /\ lost \subseteq lost'
  BY <1>2 DEF AddSave, DeleteSecret
<1>3. ASSUME NEW t \in Servers, UserEdits(t)
      PROVE  failed \subseteq failed' /\ lost \subseteq lost'
  BY <1>3 DEF UserEdits
<1> QED
  BY <1>1, <1>2, <1>3 DEF Next, Step, Finished, vars

(* Who changes a Secret: a command that ends with it, in success unless the *)
(* answer is lost, or other users.                                          *)
LEMMA WhoWrites ==
  ASSUME TypeOK, RegistryInv, [Next]_vars, ~UNCHANGED <<store, since, lost>>
  PROVE  \E u \in Clients \cup {Nobody}, s \in Servers, secret \in Secret :
           /\ Write(u, s, secret) /\ (secret = Absent \/ secret.rv = clock + 1)
           /\ Won(u)' /\ (u \in Clients => Ended(u)')
<1> DEFINE Who(u, s, secret) ==
      /\ Write(u, s, secret) /\ (secret = Absent \/ secret.rv = clock + 1)
      /\ Won(u)' /\ (u \in Clients => Ended(u)')
<1> SUFFICES \E u \in Clients \cup {Nobody}, s \in Servers, secret \in Secret : Who(u, s, secret)
  OBVIOUS
<1> USE DEF Keep
<1>a. Absent \in Secret /\ Nobody \notin Clients
  BY RegistryAssumption DEF Absent, Secret
<1>b. ASSUME NEW c \in Clients, Goto(c, "ok") \/ (Goto(c, "error") /\ c \in failed')
      PROVE  Won(c)' /\ Ended(c)'
  BY <1>b DEF Won, Ended, Goto, TypeOK
<1>1. ASSUME NEW c \in Clients
      PROVE  ~(MissingOption(c) \/ AddOptions(c) \/ AddGet(c) \/ DeleteFind(c))
  BY DEF MissingOption, AddOptions, AddGet, DeleteFind
<1>2. ASSUME NEW c \in Clients, AddSave(c)
      PROVE  \E s \in Servers, secret \in Secret : Who(c, s, secret)
  <2> DEFINE secret == [rv |-> clock + 1, author |-> c, extra |-> read[c].extra]
  <2>1. name[c] \in Servers /\ secret \in Secret /\ secret.rv = clock + 1
    BY <1>2 DEF AddSave, TypeOK, Secret
  <2>2. Write(c, name[c], secret)
    BY <1>2 DEF AddSave
  <2>3. Goto(c, "ok") \/ (Goto(c, "error") /\ c \in failed')
    BY <1>2 DEF AddSave, Fault
  <2> HIDE DEF secret
  <2>4. Who(c, name[c], secret)
    BY <1>b, <2>1, <2>2, <2>3
  <2> QED
    BY <2>1, <2>4
<1>3. ASSUME NEW c \in Clients, DeleteSecret(c)
      PROVE  \E s \in Servers, secret \in Secret : Who(c, s, secret)
  <2>1. name[c] \in Servers /\ Write(c, name[c], Absent)
    BY <1>3 DEF DeleteSecret, TypeOK
  <2>2. Goto(c, "ok") \/ (Goto(c, "error") /\ c \in failed')
    BY <1>3 DEF DeleteSecret, Fault
  <2>3. Who(c, name[c], Absent)
    BY <1>b, <2>1, <2>2
  <2> QED
    BY <1>a, <2>1, <2>3
<1>4. ASSUME NEW s \in Servers, UserEdits(s)
      PROVE  \E secret \in Secret : Who(Nobody, s, secret)
  <2>1. Won(Nobody)'
    BY DEF Won
  <2>2. CASE Write(Nobody, s, Absent)
    BY <1>a, <2>1, <2>2
  <2>3. ASSUME NEW e \in Extras, Write(Nobody, s, [rv |-> clock + 1, author |-> store[s].author, extra |-> e])
        PROVE  \E secret \in Secret : Who(Nobody, s, secret)
    <3> DEFINE secret == [rv |-> clock + 1, author |-> store[s].author, extra |-> e]
    <3>1. secret \in Secret /\ secret.rv = clock + 1
      BY DEF TypeOK, Secret
    <3>2. Write(Nobody, s, secret)
      BY <2>3
    <3> HIDE DEF secret
    <3>3. Who(Nobody, s, secret)
      BY <1>a, <2>1, <3>1, <3>2
    <3> QED
      BY <3>1, <3>3
  <2> QED
    BY <1>4, <2>2, <2>3 DEF UserEdits
<1> HIDE DEF Who
<1> QED
  BY <1>1, <1>2, <1>3, <1>4 DEF Next, Step, Finished, vars

(* How an add comes to succeed.                                             *)
LEMMA AddEnds ==
  ASSUME TypeOK, RegistryInv, [Next]_vars, NEW e \in Clients, Op[e] = "add", pc'[e] = "ok", pc[e] # "ok"
  PROVE  /\ name[e] \in Servers /\ store[name[e]].rv = read[e].rv
         /\ name' = name /\ read' = read /\ \A c \in Clients \ {e} : pc'[c] = pc[c]
         /\ \E secret \in Secret : secret.rv = clock + 1 /\ Write(e, name[e], secret)
<1> USE DEF TypeOK, Goto
<1>1. ASSUME NEW c \in Clients, Step(c) PROVE c = e
  <2>1. pc' = [pc EXCEPT ![c] = pc'[c]]
    BY <1>1 DEF Step, MissingOption, AddOptions, AddGet, AddSave, DeleteFind, DeleteSecret
  <2> QED
    BY <2>1
<1>2. Step(e)
  BY <1>1 DEF Next, UserEdits, Finished, vars
<1>3. AddSave(e)
  BY <1>2
     DEF Step, MissingOption, AddOptions, AddGet, DeleteFind, DeleteSecret, RegistryInv, OwnPhases
<1> DEFINE secret == [rv |-> clock + 1, author |-> e, extra |-> read[e].extra]
<1>4. secret \in Secret /\ secret.rv = clock + 1
  BY DEF Secret
<1>5. /\ name[e] \in Servers /\ store[name[e]].rv = read[e].rv /\ Write(e, name[e], secret)
      /\ name' = name /\ read' = read /\ pc' = [pc EXCEPT ![e] = "ok"]
  BY <1>3 DEF AddSave, Current
<1> HIDE DEF secret
<1> QED
  BY <1>4, <1>5

-----------------------------------------------------------------------------
(* Two adds. What one has saved is newer than what it had read until it is  *)
(* removed, so an add that read the same as another cannot save after it.   *)

LEMMA SavedOverNext == TypeOK /\ RegistryInv /\ SavedOver /\ [Next]_vars => SavedOver'
<1> SUFFICES ASSUME TypeOK, RegistryInv, SavedOver, [Next]_vars,
                    NEW e \in Clients, Op[e] = "add", pc'[e] = "ok"
             PROVE  store'[name'[e]].rv > read'[e].rv \/ (store'[name'[e]].rv = 0 /\ e \in lost')
  BY DEF SavedOver
<1>1. CASE pc[e] = "ok"
  <2>1. name'[e] = name[e] /\ read'[e] = read[e]
    BY <1>1, EndedStays DEF Ended
  <2>2. PICK s \in Servers : s = name[e]
    BY <1>1 DEF RegistryInv, NamedAsGiven
  <2>3. store[s].rv > read[e].rv \/ (store[s].rv = 0 /\ e \in lost)
    BY <1>1, <2>2 DEF SavedOver
  <2>4. read[e].rv \in Nat /\ clock \in Nat /\ read[e].rv <= clock /\ store \in [Servers -> Secret]
    BY DEF TypeOK, RegistryInv, Versions, Secret
  <2>5. CASE UNCHANGED <<store, since, lost>>
    BY <2>1, <2>2, <2>3, <2>5
  <2>6. ASSUME NEW u, NEW t \in Servers, NEW secret \in Secret, Write(u, t, secret),
               secret = Absent \/ secret.rv = clock + 1
        PROVE  store'[s].rv > read[e].rv \/ (store'[s].rv = 0 /\ e \in lost')
    <3>1. CASE t # s
      BY <2>3, <2>4, <2>6, <3>1, HistoryGrows DEF Write
    <3>2. CASE t = s /\ secret.rv = clock + 1
      BY <2>4, <2>6, <3>2 DEF Write
    <3>3. CASE t = s /\ secret = Absent
      BY <1>1, <2>2, <2>4, <2>6, <3>3 DEF Write, Absent
    <3> QED
      BY <2>6, <3>1, <3>2, <3>3
  <2>7. CASE ~UNCHANGED <<store, since, lost>>
    <3>1. PICK u \in Clients \cup {Nobody}, t \in Servers, secret \in Secret :
            Write(u, t, secret) /\ (secret = Absent \/ secret.rv = clock + 1)
      BY <2>7, WhoWrites
    <3> QED
      BY <2>1, <2>2, <2>6, <3>1
  <2> QED
    BY <2>5, <2>7
<1>2. CASE pc[e] # "ok"
  <2>1. PICK s \in Servers :
          /\ s = name[e] /\ name' = name /\ read' = read
          /\ \E secret \in Secret : secret.rv = clock + 1 /\ Write(e, s, secret)
    BY <1>2, AddEnds
  <2>2. store'[s].rv = clock + 1
    BY <2>1 DEF Write, TypeOK
  <2>3. read[e].rv \in Nat /\ clock \in Nat /\ read[e].rv <= clock
    BY DEF TypeOK, RegistryInv, Versions, Secret
  <2> QED
    BY <2>1, <2>2, <2>3
<1> QED
  BY <1>1, <1>2

LEMMA SecondCreator ==
  ASSUME TypeOK, RegistryInv, SavedOver, [Next]_vars,
         NEW c \in Clients, NEW d \in Clients, c # d,
         name'[c] = name'[d], read'[c].rv = read'[d].rv,
         Op[c] = "add", Op[d] = "add", pc'[c] = "ok", pc'[d] = "ok", pc[d] # "ok"
  PROVE  read'[c].rv = 0 /\ c \in lost'
<1>1. /\ name[d] \in Servers /\ store[name[d]].rv = read[d].rv
      /\ name' = name /\ read' = read /\ pc[c] = "ok"
  BY AddEnds
<1>2. store[name[c]].rv > read[c].rv \/ (store[name[c]].rv = 0 /\ c \in lost)
  BY <1>1 DEF SavedOver
<1>3. store[name[c]].rv = read[c].rv /\ read[c].rv \in Nat
  BY <1>1 DEF TypeOK, Secret
<1> QED
  BY <1>1, <1>2, <1>3, HistoryGrows

LEMMA CreatorNext == TypeOK /\ RegistryInv /\ SavedOver /\ OneCreator /\ [Next]_vars => OneCreator'
<1> SUFFICES ASSUME TypeOK, RegistryInv, SavedOver, OneCreator, [Next]_vars,
                    NEW c \in Clients, NEW d \in Clients,
                    c # d, name'[c] = name'[d], read'[c].rv = read'[d].rv,
                    Op[c] = "add", Op[d] = "add", pc'[c] = "ok", pc'[d] = "ok"
             PROVE  read'[c].rv = 0 /\ {c, d} \cap lost' # {}
  BY DEF OneCreator
<1>1. CASE pc[c] = "ok" /\ pc[d] = "ok"
  <2>1. /\ name'[c] = name[c] /\ read'[c] = read[c]
        /\ name'[d] = name[d] /\ read'[d] = read[d]
    BY <1>1, EndedStays DEF Ended
  <2>2. read[c].rv = 0 /\ {c, d} \cap lost # {}
    BY <1>1, <2>1 DEF OneCreator
  <2> QED
    BY <2>1, <2>2, HistoryGrows
<1>2. CASE pc[d] # "ok"
  BY <1>2, SecondCreator
<1>3. CASE pc[c] # "ok"
  <2>1. read'[d].rv = 0 /\ d \in lost'
    BY <1>3, SecondCreator
  <2> QED
    BY <2>1
<1> QED
  BY <1>1, <1>2, <1>3

(* Two adds that read the same state of a server do not both succeed,       *)
(* unless what one of them saved was removed before the other saved.        *)
THEOREM OneCreatorOnly == Spec => []OneCreator
<1>1. Init => SavedOver /\ OneCreator
  BY DEF Init, SavedOver, OneCreator
<1>2. TypeOK /\ RegistryInv /\ SavedOver /\ OneCreator /\ [Next]_vars => (SavedOver /\ OneCreator)'
  BY SavedOverNext, CreatorNext
<1> QED
  BY <1>1, <1>2, RegistryAlways, PTL DEF Spec

-----------------------------------------------------------------------------
(* Who loses. A call that failed was its command's last, so who has won     *)
(* stays the winner.                                                        *)
LEMMA FailedEndedNext == TypeOK /\ FailedAreEnded /\ [Next]_vars => FailedAreEnded'
<1> SUFFICES ASSUME TypeOK, FailedAreEnded, [Next]_vars PROVE FailedAreEnded'
  OBVIOUS
<1> USE DEF TypeOK, Goto, FailedAreEnded, Ended, Fault, NoFault
<1>1. ASSUME NEW c \in Clients, MissingOption(c) \/ AddOptions(c) \/ AddGet(c) PROVE FailedAreEnded'
  BY <1>1 DEF MissingOption, AddOptions, AddGet
<1>2. ASSUME NEW c \in Clients, AddSave(c) \/ DeleteFind(c) \/ DeleteSecret(c) PROVE FailedAreEnded'
  BY <1>2 DEF AddSave, DeleteFind, DeleteSecret
<1>3. CASE UNCHANGED <<pc, failed>>
  BY <1>3
<1> QED
  BY <1>1, <1>2, <1>3 DEF Next, Step, UserEdits, Finished, vars

LEMMA UnnamedNext == TypeOK /\ UnnamedAtStart /\ [Next]_vars => UnnamedAtStart'
<1> SUFFICES ASSUME TypeOK, UnnamedAtStart, [Next]_vars PROVE UnnamedAtStart'
  OBVIOUS
<1> USE DEF TypeOK, UnnamedAtStart, Goto
<1>1. ASSUME NEW c \in Clients, MissingOption(c) \/ AddGet(c) \/ AddSave(c) \/ DeleteSecret(c)
      PROVE  UnnamedAtStart'
  BY <1>1 DEF MissingOption, AddGet, AddSave, DeleteSecret
<1>2. ASSUME NEW c \in Clients, AddOptions(c) \/ DeleteFind(c) PROVE UnnamedAtStart'
  BY <1>2 DEF AddOptions, DeleteFind
<1>3. CASE UNCHANGED <<pc, name>>
  BY <1>3
<1> QED
  BY <1>1, <1>2, <1>3 DEF Next, Step, UserEdits, Finished, vars

LEMMA WonStays ==
  ASSUME TypeOK, [Next]_vars, NEW u \in Clients \cup {Nobody}, Won(u)
  PROVE  Won(u)'
<1>1. CASE u = Nobody
  BY <1>1 DEF Won
<1>2. CASE u \in failed
  BY <1>2, HistoryGrows DEF Won
<1>3. CASE u \in Clients /\ pc[u] = "ok"
  BY <1>3, EndedStays DEF Won, Ended
<1> QED
  BY <1>1, <1>2, <1>3 DEF Won, TypeOK

(* A change reaches the history of every add that is between its two calls, *)
(* with the one who made it, who has won; and no other history.             *)
LEMMA WriteIsSeen ==
  ASSUME TypeOK, RegistryInv, [Next]_vars, NEW c \in Clients
  PROVE  \/ /\ since'[c] = since[c]
            /\ pc[c] = "save" /\ pc'[c] = "save" => store'[name[c]] = store[name[c]]
         \/ since'[c].what # "none" /\ Won(since[c].by)'
<1>1. CASE UNCHANGED <<store, since, lost>>
  BY <1>1
<1>2. CASE ~UNCHANGED <<store, since, lost>>
  <2>1. PICK u \in Clients \cup {Nobody}, s \in Servers, secret \in Secret :
          Write(u, s, secret) /\ Won(u)' /\ (u \in Clients => Ended(u)')
    BY <1>2, WhoWrites
  <2>2. CASE u # c /\ pc[c] = "save" /\ name[c] = s
    <3>1. since'[c].by = u /\ since'[c].what \in {"saved", "removed"}
      BY <2>1, <2>2 DEF Write
    <3> QED
      BY <2>1, <3>1 DEF Won
  <2>3. CASE ~(u # c /\ pc[c] = "save" /\ name[c] = s)
    <3>1. since'[c] = since[c]
      BY <2>1, <2>3 DEF Write
    <3>2. pc[c] = "save" /\ pc'[c] = "save" => name[c] # s
      BY <2>1, <2>3 DEF Ended
    <3>3. pc[c] = "save" /\ pc'[c] = "save" => store'[name[c]] = store[name[c]]
      BY <2>1, <3>2 DEF Write, TypeOK
    <3> QED
      BY <3>1, <3>3
  <2> QED
    BY <2>2, <2>3
<1> QED
  BY <1>1, <1>2

(* What an add can do before it succeeds, if none of its calls fails.       *)
LEMMA OwnAdd ==
  ASSUME TypeOK, RegistryInv, [Next]_vars, NEW c \in Clients, c \notin failed',
         Op[c] = "add", pc'[c] \in {"save", "error"}
  PROVE  \/ pc'[c] = pc[c] /\ name'[c] = name[c] /\ read'[c] = read[c]
         \/ pc[c] = "start" /\ pc'[c] = "error" /\ name'[c] = name[c]
         \/ /\ pc[c] = "get" /\ pc'[c] = "save" /\ name' = name
            /\ UNCHANGED <<store, since>> /\ read'[c] = store[name[c]]
         \/ /\ pc[c] = "save" /\ pc'[c] = "error" /\ name' = name
            /\ UNCHANGED <<store, since>> /\ store[name[c]].rv # read[c].rv
<1> USE DEF TypeOK, Goto, Keep
<1>a. ~Fault(c)
  BY DEF Fault
<1>1. ASSUME NEW d \in Clients, Step(d), d # c
      PROVE  pc'[c] = pc[c] /\ name'[c] = name[c] /\ read'[c] = read[c]
  <2>1. ASSUME MissingOption(d) \/ AddOptions(d) \/ AddGet(d)
        PROVE  pc'[c] = pc[c] /\ name'[c] = name[c] /\ read'[c] = read[c]
    BY <1>1, <2>1 DEF MissingOption, AddOptions, AddGet
  <2>2. ASSUME AddSave(d) \/ DeleteFind(d) \/ DeleteSecret(d)
        PROVE  pc'[c] = pc[c] /\ name'[c] = name[c] /\ read'[c] = read[c]
    BY <1>1, <2>2 DEF AddSave, DeleteFind, DeleteSecret
  <2> QED
    BY <1>1, <2>1, <2>2 DEF Step
<1>2. CASE MissingOption(c)
  BY <1>2 DEF MissingOption
<1>3. CASE AddOptions(c)
  BY <1>3 DEF AddOptions
<1>4. CASE AddGet(c)
  BY <1>a, <1>4 DEF AddGet
<1>5. CASE AddSave(c)
  BY <1>a, <1>5 DEF AddSave, Current
<1>6. ~DeleteFind(c) /\ ~DeleteSecret(c)
  BY DEF DeleteFind, DeleteSecret, RegistryInv, OwnPhases
<1>7. CASE UNCHANGED <<pc, name, read>>
  BY <1>7
<1> QED
  BY <1>1, <1>2, <1>3, <1>4, <1>5, <1>6, <1>7 DEF Next, Step, UserEdits, Finished, vars

LEMMA OvertakenNext ==
  TypeOK /\ RegistryInv /\ OvertakenByWinner /\ FailedAreEnded' /\ [Next]_vars => OvertakenByWinner'
<1> SUFFICES ASSUME TypeOK, RegistryInv, OvertakenByWinner, FailedAreEnded', [Next]_vars,
                    NEW c \in Clients
             PROVE  /\ since'[c].what # "none" => Won(since[c].by)'
                    /\ since'[c].what = "none" /\ pc'[c] = "save" => store'[name'[c]].rv = read'[c].rv
  BY DEF OvertakenByWinner, Won
<1>1. PICK u \in Clients \cup {Nobody} : u = since[c].by
  BY DEF TypeOK, Change
<1>2. since'[c].what # "none" => Won(since[c].by)'
  <2>1. CASE since'[c] = since[c]
    <3>1. since'[c].what # "none" => Won(u)'
      BY <1>1, <2>1, WonStays DEF OvertakenByWinner
    <3> QED
      BY <1>1, <2>1, <3>1 DEF Won
  <2> QED
    BY <2>1, WriteIsSeen
<1>3. ASSUME since'[c].what = "none", pc'[c] = "save" PROVE store'[name'[c]].rv = read'[c].rv
  <2>1. Op[c] = "add" /\ c \notin failed'
    BY <1>3, PhasesNext DEF RegistryInv, OwnPhases, FailedAreEnded, Ended
  <2>2. CASE pc[c] = "get" /\ name' = name /\ UNCHANGED store /\ read'[c] = store[name[c]]
    BY <2>2
  <2>3. CASE pc[c] = "save" /\ name'[c] = name[c] /\ read'[c] = read[c]
    <3>1. since'[c] = since[c] /\ store'[name[c]] = store[name[c]]
      BY <1>3, <2>3, WriteIsSeen
    <3> QED
      BY <1>3, <2>3, <3>1 DEF OvertakenByWinner
  <2> QED
    BY <1>3, <2>1, <2>2, <2>3, OwnAdd
<1> QED
  BY <1>2, <1>3

LEMMA ConflictNext ==
  TypeOK /\ RegistryInv /\ UnnamedAtStart /\ OvertakenByWinner /\ ConflictHasWinner /\ [Next]_vars
    => ConflictHasWinner'
<1> SUFFICES ASSUME TypeOK, RegistryInv, UnnamedAtStart, OvertakenByWinner, ConflictHasWinner,
                    [Next]_vars, NEW c \in Clients, Op[c] = "add", pc'[c] = "error", c \notin failed',
                    name'[c] # NoName
             PROVE  since'[c].what # "none" /\ Won(since[c].by)'
  BY DEF ConflictHasWinner, Won
<1>1. c \notin failed
  BY HistoryGrows
<1>2. ~(pc[c] = "start" /\ name'[c] = name[c])
  BY DEF UnnamedAtStart
<1>3. since[c].what # "none"
  <2>1. CASE pc[c] = "error" /\ name'[c] = name[c]
    BY <1>1, <2>1 DEF ConflictHasWinner
  <2>2. CASE pc[c] = "save" /\ store[name[c]].rv # read[c].rv
    BY <2>2 DEF OvertakenByWinner
  <2> QED
    BY <1>2, <2>1, <2>2, OwnAdd
<1>4. CASE since'[c] = since[c]
  <2>1. PICK u \in Clients \cup {Nobody} : u = since[c].by
    BY DEF TypeOK, Change
  <2>2. Won(u)'
    BY <1>3, <2>1, WonStays DEF OvertakenByWinner
  <2> QED
    BY <1>3, <1>4, <2>1, <2>2 DEF Won
<1> QED
  BY <1>4, WriteIsSeen

(* An add whose own calls did not fail lost to a change of its server made  *)
(* between its Get and its save: another command's that has won, or other   *)
(* users'.                                                                  *)
THEOREM ConflictsHaveWinners == Spec => []ConflictHasWinner
<1>1. Init => UnnamedAtStart /\ FailedAreEnded /\ OvertakenByWinner /\ ConflictHasWinner
  BY DEF Init, UnnamedAtStart, FailedAreEnded, OvertakenByWinner, ConflictHasWinner, Untouched
<1>2. /\ TypeOK /\ RegistryInv
      /\ UnnamedAtStart /\ FailedAreEnded /\ OvertakenByWinner /\ ConflictHasWinner
      /\ [Next]_vars
      => (UnnamedAtStart /\ FailedAreEnded /\ OvertakenByWinner /\ ConflictHasWinner)'
  BY UnnamedNext, FailedEndedNext, OvertakenNext, ConflictNext
<1> QED
  BY <1>1, <1>2, RegistryAlways, PTL DEF Spec

-----------------------------------------------------------------------------
(* What an add registers, a delete finds. A delete by name ends at once     *)
(* only if its lookup fails or there is none.                               *)
LEMMA DeleteMisses ==
  ASSUME TypeOK, Next, NEW d \in Clients, Op[d] = "delete", NEW s \in Servers, Name[d] = s,
         pc[d] = "start", pc'[d] = "error"
  PROVE  d \in failed' \/ s \notin Listed
<1> USE DEF TypeOK, Goto
<1>1. s # NoName
  BY RegistryAssumption DEF Servers
<1>2. ASSUME NEW c \in Clients, Step(c) PROVE c = d
  <2>1. pc' = [pc EXCEPT ![c] = pc'[c]]
    BY <1>2 DEF Step, MissingOption, AddOptions, AddGet, AddSave, DeleteFind, DeleteSecret
  <2> QED
    BY <2>1
<1>3. Step(d)
  BY <1>2 DEF Next, UserEdits, Finished, vars
<1>4. DeleteFind(d)
  BY <1>1, <1>3 DEF Step, MissingOption, AddOptions, AddGet, AddSave, DeleteSecret
<1> QED
  BY <1>1, <1>4 DEF DeleteFind, Fault

(* A server an add has reported stays registered, and a delete by its       *)
(* registered name finds it, until somebody removes it after the add.       *)
THEOREM AddedIsDeletable == Spec => AddedCanBeDeleted
<1>1. Init => SavedOver
  BY DEF Init, SavedOver
<1>2. TypeOK /\ RegistryInv /\ SavedOver /\ [Next]_vars =>
        [\A c, d \in Clients :
           /\ Op[c] = "add" /\ pc[c] = "ok" /\ Name[c] # NoName
           /\ Op[d] = "delete" /\ Name[d] = ValidName[Name[c]]
           /\ pc[d] = "start" /\ pc'[d] = "error"
           => d \in failed' \/ c \in lost]_vars
  <2> SUFFICES ASSUME TypeOK, RegistryInv, SavedOver, Next, NEW c \in Clients, NEW d \in Clients,
                      Op[c] = "add", pc[c] = "ok", Name[c] # NoName,
                      Op[d] = "delete", Name[d] = ValidName[Name[c]],
                      pc[d] = "start", pc'[d] = "error", c \notin lost
               PROVE  d \in failed'
    OBVIOUS
  <2>1. name[c] = ValidName[Name[c]] /\ name[c] \in Servers
    BY DEF RegistryInv, NamedAsGiven, Target
  <2>2. store[name[c]].rv > read[c].rv
    BY DEF SavedOver
  <2>3. store[name[c]].rv \in Nat /\ read[c].rv \in Nat
    BY <2>1 DEF TypeOK, Secret
  <2>4. name[c] \in Listed
    BY <2>1, <2>2, <2>3 DEF Listed
  <2> QED
    BY <2>1, <2>4, DeleteMisses
<1> QED
  BY <1>1, <1>2, SavedOverNext, RegistryAlways, PTL DEF Spec, AddedCanBeDeleted
=============================================================================
