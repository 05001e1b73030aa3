----------------------------- MODULE JobListing -----------------------------
(***************************************************************************)
(* The two walks over the jobs of a Jenkins server: AddJenkinsJobs, with   *)
(* which `tp jobs` lists the pipelines that match a filter, and            *)
(* GetAllPipelineJobNames, which names the pipelines below a job.  Each    *)
(* reads one item per call, and users add and delete items meanwhile.      *)
(*                                                                         *)
(* Both walk depth first, in the order in which Jenkins lists the items;   *)
(* here the next item read is any one of those that are pending.           *)
(***************************************************************************)
EXTENDS JenkinsTree

CONSTANTS
  Matching,    \* the paths that contain the filter
  MaxFaults,   \* bound: calls that fail for a reason of their own
  MaxEdits     \* bound: items users add or delete meanwhile

ASSUME ListingAssumption ==
  /\ Matching \subseteq Paths
  /\ MaxFaults \in Nat /\ MaxEdits \in Nat

VARIABLES
  walk,      \* which of the two walks is run: "jobs" or "names"
  root,      \* jobName of GetAllPipelineJobNames
  pc,
  pending,   \* the items listed or named and still to be read
  found,     \* jobMap, or jobNames
  asked,     \* history: how often each item has been read, or walked unread
  unread,    \* history: the items passed over since the call for them failed
  steady,    \* history: the items that are there since the walk began
  seen,      \* history: the paths that held a pipeline meanwhile
  faults, edits

server == <<items, steady, seen>>
vars == <<items, walk, root, pc, pending, found, asked, unread, steady, seen, faults, edits>>

Top == {p \in Paths : Len(p) = 1}
Children(p) == {q \in Paths : Len(q) = Len(p) + 1 /\ Parent(q) = p}
There(S) == {p \in S : Present(p)}
Pipelines(S) == {p \in S : items[p] = "pipeline"}
Folders == {p \in Paths : items[p] = "folder"}

(* A faulty variant: the names asked for below no job.                      *)
InitNoName ==
  /\ TreeInit
  /\ walk \in {"jobs", "names"} /\ root \in Paths
  /\ pc = IF walk = "jobs" THEN "list" ELSE "walk"
  /\ pending = IF walk = "jobs" THEN {} ELSE {<<>>}
  /\ found = {}
  /\ asked = [p \in Paths |-> 0] /\ unread = {}
  /\ steady = There(Paths) /\ seen = Pipelines(Paths)
  /\ faults = 0 /\ edits = 0

Init ==
  /\ TreeInit
  /\ walk \in {"jobs", "names"} /\ root \in Paths
  /\ pc = IF walk = "jobs" THEN "list" ELSE "walk"
  /\ pending = IF walk = "jobs" THEN {} ELSE {root}
  /\ found = {}
  /\ asked = [p \in Paths |-> 0] /\ unread = {}
  /\ steady = There(Paths) /\ seen = Pipelines(Paths)
  /\ faults = 0 /\ edits = 0

Fault == faults < MaxFaults /\ faults' = faults + 1
NoFault == UNCHANGED faults

(* The walk returns when nothing is pending.                                *)
GoOn(left) ==
  /\ pending' = left
  /\ pc' = IF left = {} THEN "ok" ELSE "walk"
GiveUp == pc' = "error" /\ UNCHANGED <<pending, found>>

(* Faulty variants of the definitions around: what matches listed whether   *)
(* it is a pipeline or not; a matching pipeline that ends the loop over its *)
(* list; an item that is missing read again.                                *)
CollectMatching(read, list) ==
  /\ found' = found \cup (list \cap Matching)
  /\ asked' = [p \in Paths |-> IF p \in read THEN asked[p] + 1 ELSE asked[p]]
  /\ GoOn((pending \ read) \cup (list \ Matching))
CollectFirst(read, list) ==
  LET matches == Pipelines(list) \cap Matching IN
  /\ found' = found \cup matches
  /\ asked' = [p \in Paths |-> IF p \in read THEN asked[p] + 1 ELSE asked[p]]
  /\ GoOn((pending \ read) \cup (IF matches = {} THEN list ELSE {}))
ReadUntilThere(p) ==
  /\ pc = "walk" /\ p \in pending /\ NoFault
  /\ asked' = [asked EXCEPT ![p] = IF @ = 0 THEN 1 ELSE 2]
  /\ GoOn(IF Present(p) THEN (pending \ {p}) \cup There(Children(p)) ELSE pending)
  /\ UNCHANGED <<server, walk, root, found, unread, edits>>

(* What one answer shows: the items in `list`, and all that is in an item    *)
(* that is listed with its jobs, one of `nested`.                           *)
OnTheWay(r, p, top) == WithinFolder(p, r) /\ r # p /\ WithinFolder(r, top)
Shown(list, nested) ==
  {p \in There(Paths) : \E top \in list :
     WithinFolder(p, top) /\ \A r \in Paths : OnTheWay(r, p, top) => r \in nested}

(* AddJenkinsJobs on the jobs of one answer: a pipeline that matches is      *)
(* taken as it is shown, what is listed with its jobs is walked as it is,    *)
(* and everything else is read by GetJob.                                   *)
Collect(read, list) ==
  \E nested \in SUBSET Folders :
    LET shown == Shown(list, nested)
        matches == Pipelines(shown) \cap Matching
    IN /\ nested \subseteq shown
       /\ found' = found \cup matches
       /\ asked' = [p \in Paths |-> IF p \in read \cup nested THEN asked[p] + 1 ELSE asked[p]]
       /\ GoOn((pending \ read) \cup (shown \ (matches \cup nested)))

(* jobs, err := jenkins.GetJobs()                                           *)
ListTop ==
  /\ pc = "list"
  /\ \/ Collect({}, There(Top)) /\ NoFault
     \/ GiveUp /\ Fault /\ UNCHANGED asked
  /\ UNCHANGED <<server, walk, root, unread, edits>>

(* AddJenkinsJobs, job, err := jenkins.GetJob(name): an item that cannot be *)
(* read is passed over, like one that holds no jobs.                        *)
ReadJobs(p) ==
  \/ /\ NoFault /\ UNCHANGED unread
     /\ Collect({p}, IF Present(p) THEN There(Children(p)) ELSE {})
  \/ Fault /\ unread' = unread \cup {p} /\ Collect({p}, {})

(* GetAllPipelineJobNames: whatever has no jobs in it is named, and an item *)
(* that cannot be read is an error of the whole walk.                       *)
ReadNames(p) ==
  LET list == There(Children(p)) IN
  /\ \/ /\ Present(p) /\ NoFault
        /\ found' = IF list = {} THEN found \cup {p} ELSE found
        /\ GoOn((pending \ {p}) \cup list)
     \/ ~Present(p) /\ NoFault /\ GiveUp
     \/ Fault /\ GiveUp
  /\ asked' = [asked EXCEPT ![p] = @ + 1] /\ UNCHANGED unread

ReadItem(p) ==
  /\ pc = "walk" /\ p \in pending
  /\ IF walk = "jobs" THEN ReadJobs(p) ELSE ReadNames(p)
  /\ UNCHANGED <<server, walk, root, edits>>

(* Somebody else works on the same server. *)
Edit == edits < MaxEdits /\ edits' = edits + 1
UserAdds(p, kind) ==
  /\ Edit /\ Accepts(p) /\ AddItem(p, kind)
  /\ seen' = IF kind = "pipeline" THEN seen \cup {p} ELSE seen
  /\ UNCHANGED <<walk, root, pc, pending, found, asked, unread, steady, faults>>
UserRemoves(q) ==
  /\ Edit /\ Present(q) /\ RemoveItem(q)
  /\ steady' = {p \in steady : ~WithinFolder(p, q)}
  /\ UNCHANGED <<walk, root, pc, pending, found, asked, unread, seen, faults>>

Step == ListTop \/ \E p \in Paths : ReadItem(p)
Ended == pc \in {"ok", "error"}
Next ==
  \/ Step
  \/ \E p \in Paths, kind \in Kinds : UserAdds(p, kind)
  \/ \E q \in Paths : UserRemoves(q)
  \/ Ended /\ UNCHANGED vars

(* The walk goes on to its next call, and calls return.                     *)
Spec == Init /\ [][Next]_vars /\ WF_vars(Step)

-----------------------------------------------------------------------------
TypeOK ==
  /\ items \in [Paths -> Kinds \cup {"absent"}]
  /\ walk \in {"jobs", "names"} /\ root \in Paths
  /\ pc \in {"list", "walk", "ok", "error"}
  /\ pending \in SUBSET Paths /\ found \in SUBSET Paths
  /\ asked \in [Paths -> Nat]
  /\ unread \in SUBSET Paths /\ steady \in SUBSET Paths /\ seen \in SUBSET Paths
  /\ faults \in 0..MaxFaults /\ edits \in 0..MaxEdits

(* server_jobs.go:28, helpers.go:52: a walk that succeeds has found every    *)
(* pipeline in question that was there all the time, however the tree       *)
(* changed around it.  Only AddJenkinsJobs passes over an item when the     *)
(* call for it fails (helpers.go:160), and loses what is in that one alone. *)
InQuestion == IF walk = "jobs" THEN Matching ELSE {p \in Paths : WithinFolder(p, root)}
PassedOver(p) == walk = "jobs" /\ \E q \in unread : WithinFolder(p, q) /\ q # p
SteadyPipelinesFound ==
  pc = "ok" => \A p \in Pipelines(steady) \cap InQuestion : p \in found \/ PassedOver(p)

(* server_jobs.go:86: what `tp jobs` lists was a pipeline that matches, at   *)
(* the time it was listed at least.                                         *)
ListedWerePipelines == walk = "jobs" => found \subseteq seen \cap Matching

(* A walk reads an item at most once, even one that is deleted and made     *)
(* again: so it names none twice, and its calls are bounded by the tree.    *)
ReadOnce == \A p \in Paths : asked[p] <= 1

(* Whatever users do to the tree meanwhile, the walk ends.                   *)
WalkEnds == <>Ended

-----------------------------------------------------------------------------
(* What the proofs strengthen these with.                                    *)

(* An item is reached from what it is in, and that is read only once: so     *)
(* what is pending has not been read.                                        *)
Reached(p) == asked[p] > 0 \/ p \in pending
ReachedFromAbove == \A p, q \in Paths :
  /\ Reached(p) /\ WithinFolder(p, q) /\ q # p
  /\ walk = "names" => Len(q) >= Len(root)
  => asked[q] > 0
ReachedBelowRoot == \A p \in Paths : walk = "names" /\ Reached(p) => Len(p) >= Len(root)
PendingUnread == pc = "walk" => \A p \in pending : asked[p] = 0
ListedFirst == pc = "list" => walk = "jobs" /\ \A p \in Paths : ~Reached(p)
ReadInv == ReachedFromAbove /\ ReachedBelowRoot /\ PendingUnread /\ ListedFirst /\ ReadOnce

(* What is sought is found, or the walk has still to read something it is in *)
(* or could not read it.                                                     *)
Sought == Pipelines(steady) \cap InQuestion
Awaited(p) == \E q \in pending : WithinFolder(p, q) /\ (walk = "jobs" => q # p)
SteadyAreThere == WellFormed(items) /\ steady \subseteq There(Paths)
NothingLeft == /\ pc = "ok" => pending = {}
               /\ pc = "list" => walk = "jobs"
SoughtNotLost ==
  pc \in {"walk", "ok"} => \A p \in Sought : p \in found \/ Awaited(p) \/ PassedOver(p)
WalkInv == SteadyAreThere /\ NothingLeft /\ SoughtNotLost

(* What is listed was seen, and so is every pipeline that is there.          *)
SeenInv == Pipelines(Paths) \subseteq seen /\ ListedWerePipelines
=============================================================================
