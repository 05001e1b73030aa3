------------------------- MODULE MultiBranchPipeline -------------------------
(***************************************************************************)
(* getOrCreateMultiBranchPipeline of `tp trigger --multi-branch-project`,  *)
(* run by several commands for one repository.  A command looks its        *)
(* branch's job up and, on any error, asks the project at owner/repo for a *)
(* scan and polls until a scan has made the job.                           *)
(*                                                                         *)
(* Next to the commands, branches are pushed and deleted, scans run, merge *)
(* or fail, and users replace what is at owner/repo.  One action is one    *)
(* remote call with the code up to the next one.                           *)
(***************************************************************************)
EXTENDS Naturals

CONSTANTS
  Clients,      \* the running commands
  Branches,     \* the branches of interest
  Branch,       \* o.Branch of each command
  MayTimeOut,   \* whether the Poll can run out of time
  MaxFaults,    \* bound: calls and scans that fail for a reason of their own
  MaxEdits      \* bound: changes of the branches and of the project

ASSUME MultiBranchAssumption ==
  /\ Branch \in [Clients -> Branches]
  /\ MayTimeOut \in BOOLEAN
  /\ MaxFaults \in Nat /\ MaxEdits \in Nat

VARIABLES
  git,       \* the branches of the repository
  project,   \* what Jenkins has at owner/repo
  jobs,      \* the branches with a job below it
  queued,    \* whether a scan has been asked for and has not begun
  scanning,  \* whether a scan is running
  found,     \* the branches the running scan has found
  pc,        \* where each command is
  owed,      \* history: whose scan is owed a job, see Owed
  faults, edits

jenkins == <<git, project, jobs, queued, scanning, found>>
vars == <<git, project, jobs, queued, scanning, found, pc, owed, faults, edits>>

Projects == {"absent", "folder", "pipeline", "multibranch"}
CanHold(kind) == kind \in {"folder", "multibranch"}

Init ==
  /\ git \in SUBSET Branches
  /\ project \in Projects
  /\ jobs \in IF CanHold(project) THEN SUBSET Branches ELSE {{}}
  /\ queued = FALSE /\ scanning = FALSE /\ found = {}
  /\ pc = [c \in Clients |-> "lookup"]
  /\ owed = {}
  /\ faults = 0 /\ edits = 0

Fault == faults < MaxFaults /\ faults' = faults + 1
NoFault == UNCHANGED faults
Goto(c, where) == pc' = [pc EXCEPT ![c] = where]
HasJob(c) == Branch[c] \in jobs

(* A command is owed its job from its request for a scan on, for as long as *)
(* its branch and the multi branch project stay and no scan fails.          *)
Owed(c) == IF Branch[c] \in git THEN owed' = owed \cup {c} ELSE UNCHANGED owed
OwedUnless(gone) == owed' = {c \in owed : Branch[c] \notin gone}

-----------------------------------------------------------------------------
(* Faulty variants of the actions below: no scan asked for while one runs;  *)
(* one asked for whatever the project is; the poll taking any answer for    *)
(* the job, or none.                                                        *)
ScanUnlessRunning(c) ==
  /\ pc[c] = "scan" /\ NoFault
  /\ project = "multibranch" /\ queued' = (queued \/ ~scanning)
  /\ Goto(c, "poll") /\ Owed(c)
  /\ UNCHANGED <<git, project, jobs, scanning, found, edits>>
ScanAnything(c) ==
  /\ pc[c] = "scan" /\ NoFault
  /\ queued' = TRUE /\ Goto(c, "poll")
  /\ UNCHANGED <<git, project, jobs, scanning, found, owed, edits>>
PollAnyAnswer(c) ==
  /\ pc[c] = "poll" /\ NoFault /\ Goto(c, "ok")
  /\ UNCHANGED <<jenkins, owed, edits>>
PollInVain(c) ==
  /\ pc[c] = "poll"
  /\ \/ UNCHANGED pc /\ NoFault
     \/ Goto(c, "failed") /\ Fault
  /\ UNCHANGED <<jenkins, owed, edits>>

-----------------------------------------------------------------------------
(* job, err := GetMultiBranchJob(...): every error leads to the scan, also   *)
(* one that is no 404.                                                      *)
LookUpJob(c) ==
  /\ pc[c] = "lookup"
  /\ \/ HasJob(c) /\ Goto(c, "ok") /\ NoFault
     \/ ~HasJob(c) /\ Goto(c, "project") /\ NoFault
     \/ Goto(c, "project") /\ Fault
  /\ UNCHANGED <<jenkins, owed, edits>>

(* job, err = GetJobByPath(owner, repo): its class is not looked at.        *)
FindProject(c) ==
  /\ pc[c] = "project"
  /\ \/ project # "absent" /\ Goto(c, "scan") /\ NoFault
     \/ project = "absent" /\ Goto(c, "error") /\ NoFault
     \/ Goto(c, "failed") /\ Fault
  /\ UNCHANGED <<jenkins, owed, edits>>

(* err = Build(job, url.Values{}): a multi branch project queues one scan    *)
(* for all who asked, a pipeline is built, nothing else can be.             *)
ScanProject(c) ==
  /\ pc[c] = "scan"
  /\ \/ /\ project = "multibranch" /\ queued' = TRUE /\ Owed(c)
        /\ \/ Goto(c, "poll") /\ NoFault
           \/ Goto(c, "failed") /\ Fault
     \/ project = "pipeline" /\ Goto(c, "poll") /\ NoFault /\ UNCHANGED <<queued, owed>>
     \/ project \in {"absent", "folder"} /\ Goto(c, "error") /\ NoFault /\ UNCHANGED <<queued, owed>>
     \/ Goto(c, "failed") /\ Fault /\ UNCHANGED <<queued, owed>>
  /\ UNCHANGED <<git, project, jobs, scanning, found, edits>>

(* The condition of gojenkins.Poll: a 404 is "not yet", any other error the  *)
(* end.                                                                     *)
PollJob(c) ==
  /\ pc[c] = "poll"
  /\ \/ HasJob(c) /\ Goto(c, "ok") /\ NoFault
     \/ ~HasJob(c) /\ UNCHANGED pc /\ NoFault
     \/ Goto(c, "failed") /\ Fault
  /\ UNCHANGED <<jenkins, owed, edits>>

TimeOut(c) ==
  /\ MayTimeOut /\ pc[c] = "poll" /\ Goto(c, "failed")
  /\ UNCHANGED <<jenkins, owed, faults, edits>>

-----------------------------------------------------------------------------
(* Jenkins                                                                  *)

(* A scan lists the branches first and makes the jobs that are missing; at  *)
(* its end it may drop the jobs of branches it has not found.               *)
StartScan ==
  /\ queued /\ ~scanning
  /\ queued' = FALSE /\ scanning' = TRUE /\ found' = git
  /\ UNCHANGED <<git, project, jobs, pc, owed, faults, edits>>
CreateBranchJob(b) ==
  /\ scanning /\ b \in found \ jobs
  /\ jobs' = jobs \cup {b}
  /\ UNCHANGED <<git, project, queued, scanning, found, pc, owed, faults, edits>>
StopScan == scanning /\ scanning' = FALSE /\ found' = {}
EndScan ==
  /\ StopScan /\ found \subseteq jobs
  /\ \E dropped \in SUBSET (jobs \ found) : jobs' = jobs \ dropped
  /\ UNCHANGED <<git, project, queued, pc, owed, faults, edits>>
FailScan ==
  /\ StopScan /\ Fault
  /\ IF queued THEN UNCHANGED owed ELSE owed' = {}
  /\ UNCHANGED <<git, project, jobs, queued, pc, edits>>

(* Users of the repository and of Jenkins.                                  *)
Edit == edits < MaxEdits /\ edits' = edits + 1
Push(b) ==
  /\ Edit /\ b \notin git /\ git' = git \cup {b}
  /\ UNCHANGED <<project, jobs, queued, scanning, found, pc, owed, faults>>
DeleteBranch(b) ==
  /\ Edit /\ b \in git /\ git' = git \ {b} /\ OwedUnless({b})
  /\ UNCHANGED <<project, jobs, queued, scanning, found, pc, faults>>
ReplaceProject(kind) ==
  /\ Edit /\ kind # project /\ project' = kind
  /\ jobs' = {} /\ queued' = (kind = "multibranch") /\ scanning' = FALSE /\ found' = {}
  /\ OwedUnless(Branches)
  /\ UNCHANGED <<git, pc, faults>>
AddJob(b) ==
  /\ Edit /\ project = "folder" /\ b \notin jobs /\ jobs' = jobs \cup {b}
  /\ UNCHANGED <<git, project, queued, scanning, found, pc, owed, faults>>

-----------------------------------------------------------------------------
Step(c) == LookUpJob(c) \/ FindProject(c) \/ ScanProject(c) \/ PollJob(c)
Scanner == StartScan \/ EndScan \/ \E b \in Branches : CreateBranchJob(b)
Users ==
  \/ \E b \in Branches : Push(b) \/ DeleteBranch(b) \/ AddJob(b)
  \/ \E kind \in Projects : ReplaceProject(kind)
Ended(c) == pc[c] \in {"ok", "error", "failed"}
Finished == (\A c \in Clients : Ended(c)) /\ UNCHANGED vars

Next == (\E c \in Clients : Step(c) \/ TimeOut(c)) \/ Scanner \/ FailScan \/ Users \/ Finished

(* Commands go on and calls return; a poll need not run out of time.  For    *)
(* ServedSpec Jenkins also works its queue off.                             *)
Fairness == \A c \in Clients : WF_vars(Step(c))
Spec == Init /\ [][Next]_vars /\ Fairness
ServedSpec == Spec /\ WF_vars(Scanner)

-----------------------------------------------------------------------------
TypeOK ==
  /\ git \in SUBSET Branches
  /\ project \in Projects
  /\ jobs \in SUBSET Branches
  /\ ~CanHold(project) => jobs = {}
  /\ queued \in BOOLEAN
  /\ scanning \in BOOLEAN
  /\ found \in SUBSET Branches
  /\ project # "multibranch" => ~queued /\ ~scanning
  /\ pc \in [Clients -> {"lookup", "project", "scan", "poll", "ok", "error", "failed"}]
  /\ owed \in SUBSET Clients
  /\ faults \in 0..MaxFaults /\ edits \in 0..MaxEdits

(* trigger.go:271: the request of a command is never lost in a scan that     *)
(* had listed the branches before, nor dropped by one: its branch has its    *)
(* job, is in the running scan, or will be in the one that is queued.        *)
ScanNotLost ==
  \A c \in owed :
    /\ project = "multibranch" /\ Branch[c] \in git
    /\ queued \/ Branch[c] \in (IF scanning THEN found ELSE jobs)

(* The scan around the limit of five minutes (trigger.go:276): also for a    *)
(* command that has given up the job comes, and a second one will find it.   *)
OwedJobComes == \A c \in Clients : c \in owed ~> HasJob(c) \/ c \notin owed

(* trigger.go:276-285: the poll of a command whose branch and project stay   *)
(* finds the job once a scan has made it, and needs no time limit to end; it *)
(* ends without the job only if a later call of its own fails or time does   *)
(* run out.  That its first lookup failed does no harm.                      *)
SteadyBranchFound ==
  \A c \in Clients : c \in owed ~> pc[c] \in {"ok", "failed"} \/ c \notin owed
=============================================================================
