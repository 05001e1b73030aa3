------------------------- MODULE StandalonePipeline -------------------------
(***************************************************************************)
(* getOrCreateStandalonePipeline of `tp trigger`, run by several commands  *)
(* against one Jenkins server.  For each segment of its JenkinsPath a      *)
(* command looks the item up and, on any error, creates it under           *)
(* helpers.Retry; at the end it fetches the pipeline it is to build.       *)
(*                                                                         *)
(* One action is one remote call together with the code that runs up to    *)
(* the next one.  A command that is killed takes no further step.          *)
(***************************************************************************)
EXTENDS JenkinsTree, FiniteSets

CONSTANTS
  Clients,       \* the running `tp trigger` commands
  JenkinsPath,   \* the path each of them was given, split at "/"
  Nobody,        \* maker of the items no command made
  MaxFaults,     \* bound: remote calls that fail for a reason of their own
  MaxEdits       \* bound: items Jenkins users add or delete meanwhile

VARIABLES
  pc,        \* where each command is in the loop
  seg,       \* the loop index i, from 1: the segments below it are ensured
  tries,     \* calls that failed in the current helpers.Retry
  job,       \* the class of the job the command returned
  faults,    \* faults so far
  edits,     \* user edits so far
  maker,     \* history: which command made the item at a path
  removed,   \* history: the paths users removed an item from
  sent       \* history: creation requests each command has sent

vars == <<items, pc, seg, tries, job, faults, edits, maker, removed, sent>>

Last(c) == Len(JenkinsPath[c])
Prefix(c, i) == SubSeq(JenkinsPath[c], 1, i)

ASSUME ClientsAssumption ==
  /\ Nobody \notin Clients
  /\ JenkinsPath \in [Clients -> Paths]
  /\ \A c \in Clients : \A i \in 1..Last(c) : Prefix(c, i) \in Paths
  /\ MaxFaults \in Nat /\ MaxEdits \in Nat

ASSUME CommandsAssumption == Clients # {} /\ IsFiniteSet(Clients)

Attempts == 3                     \* helpers.Retry(3, time.Second*10, ...)
Here(c) == Prefix(c, seg[c])
KindAt(c, i) == IF i = Last(c) THEN "pipeline" ELSE "folder"

Init ==
  /\ TreeInit
  /\ pc = [c \in Clients |-> "lookup"]
  /\ seg = [c \in Clients |-> 1]
  /\ tries = [c \in Clients |-> 0]
  /\ job = [c \in Clients |-> "absent"]
  /\ faults = 0 /\ edits = 0
  /\ maker = [p \in Paths |-> Nobody]
  /\ removed = {}
  /\ sent = [c \in Clients |-> 0]

(* A remote call fails: connection, proxy, a 5xx answer. *)
Fault == faults < MaxFaults /\ faults' = faults + 1
NoFault == UNCHANGED faults

(* Faulty variants of what follows: the index of the loop forgotten; one call *)
(* more than asked for; the last error swallowed; an item that is there       *)
(* created all the same; the pipeline made as a folder.                       *)
SegmentAgain(c) ==
  /\ pc' = [pc EXCEPT ![c] = "lookup"]
  /\ UNCHANGED seg
RetryOnceMore(c) ==
  /\ tries' = [tries EXCEPT ![c] = @ + 1]
  /\ pc' = [pc EXCEPT ![c] = IF tries[c] + 1 > Attempts THEN "error" ELSE "create"]
  /\ UNCHANGED seg
RetryThenGoOn(c) ==
  /\ tries' = [tries EXCEPT ![c] = @ + 1]
  /\ IF tries[c] + 1 < Attempts THEN UNCHANGED <<pc, seg>>
     ELSE /\ seg' = [seg EXCEPT ![c] = @ + 1]
          /\ pc' = [pc EXCEPT ![c] = IF seg[c] < Last(c) THEN "lookup" ELSE "fetch"]
CreateUnseen(c) ==
  /\ pc[c] = "lookup" /\ NoFault
  /\ pc' = [pc EXCEPT ![c] = "create"] /\ tries' = [tries EXCEPT ![c] = 0]
  /\ UNCHANGED <<seg, items, job, edits, maker, removed, sent>>
MakeFolder(c) ==
  /\ AddItem(Here(c), "folder")
  /\ maker' = [maker EXCEPT ![Here(c)] = c]

(* helpers.Retry returned nil for this segment. *)
NextSegment(c) ==
  /\ seg' = [seg EXCEPT ![c] = @ + 1]
  /\ pc' = [pc EXCEPT ![c] = IF seg[c] < Last(c) THEN "lookup" ELSE "fetch"]

(* The closure given to helpers.Retry returned an error: it is called again *)
(* without a new lookup, until Attempts calls have failed.                  *)
RetryOrFail(c) ==
  /\ tries' = [tries EXCEPT ![c] = @ + 1]
  /\ pc' = [pc EXCEPT ![c] = IF tries[c] + 1 >= Attempts THEN "error" ELSE "create"]
  /\ UNCHANGED seg

(* folder, err := GetJobByPath(folderPath...): an item that is there, of    *)
(* whatever class, ensures the segment; every error leads to a creation.    *)
LookUpItem(c) ==
  /\ pc[c] = "lookup"
  /\ \/ Present(Here(c)) /\ NoFault /\ NextSegment(c) /\ UNCHANGED tries
     \/ /\ \/ ~Present(Here(c)) /\ NoFault
           \/ Fault
        /\ pc' = [pc EXCEPT ![c] = "create"]
        /\ tries' = [tries EXCEPT ![c] = 0]
        /\ UNCHANGED seg
  /\ UNCHANGED <<items, job, edits, maker, removed, sent>>

MakeItem(c) ==
  /\ AddItem(Here(c), KindAt(c, seg[c]))
  /\ maker' = [maker EXCEPT ![Here(c)] = c]

(* CreateJobWithXML or CreateFolderJobWithXML: done, refused, or failed on  *)
(* the way there or on the way back, when the item has been made.           *)
CreateItem(c) ==
  /\ pc[c] = "create"
  /\ sent' = [sent EXCEPT ![c] = @ + 1]
  /\ \/ Accepts(Here(c)) /\ MakeItem(c) /\ NextSegment(c) /\ NoFault /\ UNCHANGED tries
     \/ ~Accepts(Here(c)) /\ RetryOrFail(c) /\ NoFault /\ UNCHANGED <<items, maker>>
     \/ Accepts(Here(c)) /\ MakeItem(c) /\ RetryOrFail(c) /\ Fault
     \/ RetryOrFail(c) /\ Fault /\ UNCHANGED <<items, maker>>
  /\ UNCHANGED <<job, edits, removed>>

(* job, err = GetJobByPath(paths...): the command's answer. *)
FetchJob(c) ==
  /\ pc[c] = "fetch"
  /\ \/ /\ Present(JenkinsPath[c]) /\ NoFault
        /\ job' = [job EXCEPT ![c] = items[JenkinsPath[c]]]
        /\ pc' = [pc EXCEPT ![c] = "ok"]
     \/ /\ \/ ~Present(JenkinsPath[c]) /\ NoFault
           \/ Fault
        /\ pc' = [pc EXCEPT ![c] = "error"]
        /\ UNCHANGED job
  /\ UNCHANGED <<items, seg, tries, edits, maker, removed, sent>>

(* Somebody else works on the same server. *)
UserAdds(p, kind) ==
  /\ edits < MaxEdits /\ edits' = edits + 1
  /\ Accepts(p) /\ AddItem(p, kind)
  /\ maker' = [maker EXCEPT ![p] = Nobody]
  /\ UNCHANGED <<pc, seg, tries, job, faults, removed, sent>>

UserRemoves(q) ==
  /\ edits < MaxEdits /\ edits' = edits + 1
  /\ Present(q) /\ RemoveItem(q)
  /\ removed' = removed \cup {p \in Paths : WithinFolder(p, q)}
  /\ UNCHANGED <<pc, seg, tries, job, faults, maker, sent>>

Step(c) == LookUpItem(c) \/ CreateItem(c) \/ FetchJob(c)
Ended(c) == pc[c] \in {"ok", "error"}
Finished == (\A c \in Clients : Ended(c)) /\ UNCHANGED vars

Next ==
  \/ \E c \in Clients : Step(c)
  \/ \E p \in Paths, kind \in Kinds : UserAdds(p, kind)
  \/ \E p \in Paths : UserRemoves(p)
  \/ Finished

(* A command that is not killed goes on to its next call, and calls return. *)
Fairness == \A c \in Clients : WF_vars(Step(c))
Spec == Init /\ [][Next]_vars /\ Fairness

-----------------------------------------------------------------------------
TypeOK ==
  /\ items \in [Paths -> Kinds \cup {"absent"}]
  /\ pc \in [Clients -> {"lookup", "create", "fetch", "ok", "error"}]
  /\ seg \in [Clients -> Nat \ {0}]
  /\ \A c \in Clients : seg[c] <= Last(c) + 1
  /\ tries \in [Clients -> 0..Attempts]
  /\ job \in [Clients -> Kinds \cup {"absent"}]
  /\ faults \in 0..MaxFaults /\ edits \in 0..MaxEdits
  /\ maker \in [Paths -> Clients \cup {Nobody}]
  /\ removed \in SUBSET Paths
  /\ sent \in [Clients -> Nat]

(* The loop "lets ensure there's a folder" (trigger.go:197): every segment a *)
(* command has gone past is an item still there, unless a user removed it,   *)
(* however lookups, lost replies and other commands' creations interleave.   *)
SegmentsEnsured ==
  \A c \in Clients : \A i \in 1..(seg[c] - 1) :
    Present(Prefix(c, i)) \/ Prefix(c, i) \in removed

(* A command that fails half way has only made items of its own path, the    *)
(* folders as folders and the pipeline as the pipeline, and none beyond the  *)
(* segment it failed at.                                                     *)
OwnFootprint ==
  \A p \in Paths : Present(p) /\ maker[p] # Nobody =>
    \E i \in 1..Last(maker[p]) :
      /\ i <= seg[maker[p]]
      /\ p = Prefix(maker[p], i)
      /\ items[p] = KindAt(maker[p], i)

(* helpers.Retry(3, ...) bounds the load on the server: a command sends no   *)
(* more than three creation requests per segment it has reached.             *)
RequestsBounded ==
  \A c \in Clients :
    sent[c] <= Attempts * (seg[c] - 1) + (IF seg[c] <= Last(c) THEN Attempts ELSE 0)

(* Commands that compete for the same folders: with no fault, no user and no *)
(* pipeline where a folder is needed, a command fails only because another   *)
(* one made the very item it asked for and is itself further down its path.  *)
NoConflict(c) == \A i \in 1..(Last(c) - 1) : items[Prefix(c, i)] # "pipeline"
LoserHasWinner ==
  \A c \in Clients :
    pc[c] = "error" /\ faults = 0 /\ edits = 0 /\ NoConflict(c) =>
      \E d \in Clients \ {c} :
        /\ seg[c] <= Last(c)
        /\ maker[Prefix(c, seg[c])] = d
        /\ seg[d] > seg[c]

(* So the competition never leaves everybody empty-handed.                   *)
SomeoneSucceeds ==
  (\A c \in Clients : Ended(c) /\ NoConflict(c)) /\ faults = 0 /\ edits = 0 =>
    \E c \in Clients : pc[c] = "ok"

(* trigger.go:190, 198: whatever the calls answer, lose or find changed, each *)
(* of them brings its command nearer to its end: a lookup and three creations *)
(* at most for every segment still to come, and the fetch.                    *)
CallsLeft(c) ==
  LET beyond == (1 + Attempts) * (Last(c) - seg[c]) + 1 IN
  CASE pc[c] = "lookup" -> 1 + Attempts + beyond
    [] pc[c] = "create" -> Attempts - tries[c] + beyond
    [] pc[c] = "fetch"  -> 1
    [] OTHER            -> 0
EveryCallCounts ==
  [][\A c \in Clients :
       CallsLeft(c)' < CallsLeft(c) \/ UNCHANGED <<pc[c], seg[c], tries[c], job[c], sent[c]>>]_vars

(* Retries are bounded and nothing waits: every command ends.                *)
EveryCommandEnds == \A c \in Clients : <>Ended(c)

-----------------------------------------------------------------------------
(* The strengthenings that make the properties above inductive.              *)

LoopIndex ==
  \A c \in Clients :
    /\ pc[c] \in {"lookup", "create"} => seg[c] <= Last(c)
    /\ pc[c] \in {"fetch", "ok"} => seg[c] = Last(c) + 1
    /\ pc[c] = "create" => tries[c] < Attempts

RequestsCounted ==
  \A c \in Clients :
    sent[c] <= Attempts * (seg[c] - 1)
               + (IF pc[c] \in {"create", "error"} /\ seg[c] <= Last(c) THEN tries[c] ELSE 0)

(* Without faults and users: what is there was there at the start or was     *)
(* made by a command that went on, and a creation fails only on such an item. *)
Quiet == faults = 0 /\ edits = 0
MakersAdvance ==
  \A p \in Paths : Present(p) /\ maker[p] # Nobody =>
    \E i \in 1..Last(maker[p]) : i < seg[maker[p]] /\ p = Prefix(maker[p], i)
TakenByCommand ==
  \A c \in Clients :
    pc[c] \in {"create", "error"} /\ seg[c] <= Last(c) /\ Present(Here(c)) =>
      maker[Here(c)] # Nobody
FailedOnTaken ==
  \A c \in Clients :
    /\ (pc[c] = "create" /\ tries[c] > 0) \/ pc[c] = "error"
    /\ NoConflict(c)
    => seg[c] <= Last(c) /\ Present(Here(c))
QuietInv == Quiet => removed = {} /\ MakersAdvance /\ TakenByCommand /\ FailedOnTaken

-----------------------------------------------------------------------------
(* What the comments and messages of the code say, and it does not do.       *)

(* trigger.go:197 "lets ensure there's a folder": a command does not give up *)
(* on a segment for which the folder, or the pipeline, is there.             *)
GivesUpOnlyOnMissing ==
  \A c \in Clients : pc[c] = "error" /\ seg[c] <= Last(c) /\ removed = {} =>
    items[Here(c)] # KindAt(c, seg[c])
=============================================================================
