---------------------------- MODULE BuildTrigger ----------------------------
(***************************************************************************)
(* What `tp trigger` does with its job (TriggerPipeline): when the          *)
(* PipelineFactory has it, with --cancel it stops the last build and       *)
(* waits; else it asks for a build, waits until GetLastBuild answers       *)
(* another number than before, and with --tail follows the log and returns *)
(* the verdict on that build.                                              *)
(*                                                                         *)
(* Several commands work on one job, next to other users, the executors of *)
(* Jenkins, its discarder of old builds and whoever deletes builds or the  *)
(* job.  One action is one remote call with the code up to the next one.   *)
(* gojenkins and Jenkins are modelled from how the code uses them.         *)
(***************************************************************************)
EXTENDS Naturals

CONSTANTS
  Clients,      \* the running commands
  Mode,         \* what each was asked for: "trigger", "tail" or "cancel"
  Someone,      \* who requests builds by other means
  MayTimeOut,   \* whether a Poll or TailLog can run out of time
  MaxBuilds,    \* bound: build numbers
  MaxOld,       \* bound: build numbers used before the commands start
  MaxFaults,    \* bound: remote calls that fail for a reason of their own
  MaxPurges,    \* bound: deletions of the last build and of the job
  MaxOthers     \* bound: requests by Someone

ASSUME TriggerAssumption ==
  /\ Someone \notin Clients
  /\ Mode \in [Clients -> {"trigger", "tail", "cancel"}]
  /\ MayTimeOut \in BOOLEAN
  /\ MaxBuilds \in Nat /\ MaxOld \in 0..MaxBuilds /\ MaxFaults \in Nat /\ MaxPurges \in Nat /\ MaxOthers \in Nat

VARIABLES
  job,      \* whether Jenkins has the job
  queue,    \* the requests that no build has been started for
  builds,   \* the state or result of each build
  next,     \* the next build number
  by,       \* history: the requests a build was started for
  pc,       \* where each command is
  prev,     \* previousBuildNumber
  build,    \* number of the build GetLastBuild answered last
  target,   \* history: the build a --cancel asked to stop
  stale,    \* history: the commands whose job or numbers may be gone, see Purge
  faults, purges, others

server == <<job, queue, builds, next, by>>
vars == <<job, queue, builds, next, by, pc, prev, build, target, stale, faults, purges, others>>

Numbers == 1..MaxBuilds
Live == {"running", "stopping"}                  \* build.Building
Results == {"SUCCESS", "FAILURE", "ABORTED"}
States == Live \cup Results \cup {"none"}        \* "none": not begun, or discarded
Exists(n) == n \in Numbers /\ builds[n] # "none"

(* The answer of GetLastBuild; 0 stands for "404", of the job or of a job   *)
(* without builds, as it does in previousBuildNumber and buildNumber.       *)
LastIs(n) ==
  /\ n = 0 \/ Exists(n)
  /\ \A m \in Numbers : m > n => ~Exists(m)

Init ==
  /\ job \in BOOLEAN /\ queue = {}
  /\ next \in IF job THEN 1..(MaxOld + 1) ELSE {1}
  /\ builds \in [Numbers -> {"running", "SUCCESS", "none"}]
  /\ \A n \in Numbers : n >= next => builds[n] = "none"
  /\ by = [n \in Numbers |-> {}]
  /\ pc = [c \in Clients |-> "prepare"]
  /\ prev = [c \in Clients |-> 0]
  /\ build = [c \in Clients |-> 0]
  /\ target = [c \in Clients |-> 0]
  /\ stale = {}
  /\ faults = 0 /\ purges = 0 /\ others = 0

Fault == faults < MaxFaults /\ faults' = faults + 1
NoFault == UNCHANGED faults
Goto(c, where) == pc' = [pc EXCEPT ![c] = where]

-----------------------------------------------------------------------------
(* Faulty variants of the actions below: the number to come taken for the   *)
(* previous one, or the one before it; every error of Build passed over;    *)
(* only the very next number waited for; the verdict of everything but a    *)
(* failure; the build that is last by now stopped; the answer about it not  *)
(* looked at; no time limit for the build to start.                         *)
ReadNumberToCome(c) ==
  /\ pc[c] = "read" /\ Mode[c] # "cancel"
  /\ prev' = [prev EXCEPT ![c] = next] /\ Goto(c, "request") /\ NoFault
  /\ UNCHANGED <<server, build, target, stale, purges, others>>
ReadNumberBefore(c) ==
  /\ pc[c] = "read" /\ Mode[c] # "cancel"
  /\ \E n \in 0..MaxBuilds : LastIs(n) /\ prev' = [prev EXCEPT ![c] = n - 1]
  /\ Goto(c, "request") /\ NoFault
  /\ UNCHANGED <<server, build, target, stale, purges, others>>
RequestRegardless(c) ==
  /\ pc[c] = "request" /\ Goto(c, "poll")
  /\ \/ job /\ queue' = queue \cup {c} /\ NoFault
     \/ Fault /\ UNCHANGED queue
  /\ UNCHANGED <<job, builds, next, by, prev, build, target, stale, purges, others>>
PollNextNumber(c) ==
  /\ pc[c] = "poll" /\ NoFault
  /\ \E n \in 0..MaxBuilds :
       /\ LastIs(n) /\ build' = [build EXCEPT ![c] = n]
       /\ IF n = prev[c] + 1 THEN Goto(c, "ok") ELSE UNCHANGED pc
  /\ UNCHANGED <<server, prev, target, stale, purges, others>>
VerdictUnlessFailed(c) ==
  /\ pc[c] = "verdict" /\ NoFault
  /\ Goto(c, IF Exists(build[c]) /\ builds[build[c]] # "FAILURE" THEN "ok" ELSE "error")
  /\ UNCHANGED <<server, prev, build, target, stale, purges, others>>
RequestUntilAnswered(c) ==
  /\ pc[c] = "request" /\ job
  /\ queue' = queue \cup {c}
  /\ \/ Goto(c, "poll") /\ NoFault
     \/ Fault /\ UNCHANGED pc
  /\ UNCHANGED <<job, builds, next, by, prev, build, target, stale, purges, others>>
StopLast(c) ==
  /\ pc[c] = "stop" /\ Goto(c, "stopped") /\ NoFault
  /\ target' = [target EXCEPT ![c] = build[c]]
  /\ \E n \in Numbers :
       LastIs(n) /\ builds' = [builds EXCEPT ![n] = IF @ \in Live THEN "stopping" ELSE @]
  /\ UNCHANGED <<job, queue, next, by, prev, build, stale, purges, others>>
CancelPollOnce(c) ==
  /\ pc[c] = "stopped" /\ Goto(c, "ok") /\ NoFault
  /\ UNCHANGED <<server, prev, build, target, stale, purges, others>>
TimeOutAfterStart(c) ==
  /\ MayTimeOut /\ pc[c] \in {"tail", "stopped"}
  /\ Goto(c, "error")
  /\ UNCHANGED <<server, prev, build, target, stale, faults, purges, others>>

-----------------------------------------------------------------------------
(* job, err := o.getOrCreatePipelineFactory(...)(): all that the rest counts *)
(* on is that the job is there when it returns one.                         *)
Prepare(c) ==
  /\ pc[c] = "prepare" /\ NoFault
  /\ \/ job /\ Goto(c, "read")
     \/ Goto(c, "error")
  /\ UNCHANGED <<server, prev, build, target, stale, purges, others>>

-----------------------------------------------------------------------------
(* triggerAndWaitForBuildToStart                                            *)

(* previousBuild, err := GetLastBuild(job): only a 404 is no error.         *)
ReadPrevious(c) ==
  /\ pc[c] = "read" /\ Mode[c] # "cancel"
  /\ \/ /\ \E n \in 0..MaxBuilds : LastIs(n) /\ prev' = [prev EXCEPT ![c] = n]
        /\ Goto(c, "request") /\ NoFault
     \/ Goto(c, "error") /\ Fault /\ UNCHANGED prev
  /\ UNCHANGED <<server, build, target, stale, purges, others>>

(* err = Build(job, nil): a 404 is passed over; a request whose reply is    *)
(* lost is an error and queued all the same.                                *)
RequestBuild(c) ==
  /\ pc[c] = "request"
  /\ \/ job /\ queue' = queue \cup {c} /\ Goto(c, "poll") /\ NoFault
     \/ ~job /\ Goto(c, "poll") /\ NoFault /\ UNCHANGED queue
     \/ job /\ queue' = queue \cup {c} /\ Goto(c, "error") /\ Fault
     \/ Goto(c, "error") /\ Fault /\ UNCHANGED queue
  /\ UNCHANGED <<job, builds, next, by, prev, build, target, stale, purges, others>>

(* fn: GetLastBuild until buildNumber differs from previousBuildNumber.     *)
PollLastBuild(c) ==
  /\ pc[c] = "poll"
  /\ \/ /\ \E n \in 0..MaxBuilds :
             /\ LastIs(n) /\ build' = [build EXCEPT ![c] = n]
             /\ \/ n = prev[c] /\ UNCHANGED pc
                \/ n # prev[c] /\ Goto(c, IF Mode[c] = "tail" THEN "tail" ELSE "ok")
        /\ NoFault
     \/ Goto(c, "error") /\ Fault /\ UNCHANGED build
  /\ UNCHANGED <<server, prev, target, stale, purges, others>>

-----------------------------------------------------------------------------
(* TailJenkinsBuildLog, GetBuild                                            *)

(* TailLog returns at the end of the log; without the build it has no log.  *)
(* An error of the second CreateJenkinsClientFromSelector is dropped.       *)
TailLog(c) ==
  /\ pc[c] = "tail"
  /\ \/ Exists(build[c]) /\ builds[build[c]] \notin Live /\ Goto(c, "verdict") /\ NoFault
     \/ ~Exists(build[c]) /\ Goto(c, "error") /\ NoFault
     \/ \E where \in {"verdict", "error"} : Goto(c, where) /\ Fault
  /\ UNCHANGED <<server, prev, build, target, stale, purges, others>>

(* build.Result != "SUCCESS" is an error, the empty result of a build that  *)
(* is still running included.                                               *)
Verdict(c) ==
  /\ pc[c] = "verdict"
  /\ \/ /\ Goto(c, IF Exists(build[c]) /\ builds[build[c]] = "SUCCESS" THEN "ok" ELSE "error")
        /\ NoFault
     \/ Goto(c, "error") /\ Fault
  /\ UNCHANGED <<server, prev, build, target, stale, purges, others>>

-----------------------------------------------------------------------------
(* cancelLastBuild                                                          *)

(* build, err := GetLastBuild(job): here a 404 is an error.                 *)
CancelRead(c) ==
  /\ pc[c] = "read" /\ Mode[c] = "cancel"
  /\ \/ /\ \E n \in 0..MaxBuilds :
             /\ LastIs(n) /\ build' = [build EXCEPT ![c] = n]
             /\ Goto(c, IF n = 0 THEN "error" ELSE IF builds[n] \in Live THEN "stop" ELSE "ok")
        /\ NoFault
     \/ Goto(c, "error") /\ Fault /\ UNCHANGED build
  /\ UNCHANGED <<server, prev, target, stale, purges, others>>

(* StopBuild(job, build.Number): the build stops in its own time, and one   *)
(* that has ended is left alone.                                            *)
StopBuild(c) ==
  /\ pc[c] = "stop"
  /\ target' = [target EXCEPT ![c] = build[c]]
  /\ \/ /\ Exists(build[c])
        /\ builds' = [builds EXCEPT ![build[c]] = IF @ \in Live THEN "stopping" ELSE @]
        /\ \/ Goto(c, "stopped") /\ NoFault
           \/ Goto(c, "error") /\ Fault
     \/ ~Exists(build[c]) /\ Goto(c, "error") /\ NoFault /\ UNCHANGED builds
     \/ Goto(c, "error") /\ Fault /\ UNCHANGED builds
  /\ UNCHANGED <<job, queue, next, by, prev, build, stale, purges, others>>

(* build, err = GetLastBuild(job) until it is not Building: whichever build *)
(* is the last one now.                                                     *)
CancelPoll(c) ==
  /\ pc[c] = "stopped"
  /\ \/ /\ \E n \in 0..MaxBuilds :
             /\ LastIs(n) /\ build' = [build EXCEPT ![c] = n]
             /\ \/ n = 0 /\ Goto(c, "error")
                \/ n # 0 /\ builds[n] \in Live /\ UNCHANGED pc
                \/ n # 0 /\ builds[n] \notin Live /\ Goto(c, "ok")
        /\ NoFault
     \/ Goto(c, "error") /\ Fault /\ UNCHANGED build
  /\ UNCHANGED <<server, prev, target, stale, purges, others>>

(* gojenkins.Poll gives up after five minutes, TailLog after 100 hours.     *)
TimeOut(c) ==
  /\ MayTimeOut /\ pc[c] \in {"poll", "tail", "stopped"}
  /\ Goto(c, "error")
  /\ UNCHANGED <<server, prev, build, target, stale, faults, purges, others>>

-----------------------------------------------------------------------------
(* Jenkins, its executors and its other users                               *)

(* A build starts for one queued request or for several merged ones.        *)
StartBuild ==
  /\ job /\ next <= MaxBuilds
  /\ \E served \in (SUBSET queue) \ {{}} :
       queue' = queue \ served /\ by' = [by EXCEPT ![next] = served]
  /\ builds' = [builds EXCEPT ![next] = "running"]
  /\ next' = next + 1
  /\ UNCHANGED <<job, pc, prev, build, target, stale, faults, purges, others>>

FinishBuild(n) ==
  /\ builds[n] \in Live
  /\ \E result \in {"SUCCESS", "FAILURE"} \cup (IF builds[n] = "stopping" THEN {"ABORTED"} ELSE {}) :
       builds' = [builds EXCEPT ![n] = result]
  /\ UNCHANGED <<job, queue, next, by, pc, prev, build, target, stale, faults, purges, others>>

SomeoneRequests ==
  /\ job /\ others < MaxOthers /\ others' = others + 1
  /\ queue' = queue \cup {Someone}
  /\ UNCHANGED <<job, builds, next, by, pc, prev, build, target, stale, faults, purges>>

(* The build discarder of a job, or a user, drops builds before the last one. *)
DiscardBuild(n) ==
  /\ builds[n] \in Results /\ \E m \in Numbers : m > n /\ Exists(m)
  /\ builds' = [builds EXCEPT ![n] = "none"]
  /\ UNCHANGED <<job, queue, next, by, pc, prev, build, target, stale, faults, purges, others>>

(* Users delete the last build, or the job.  `before` is where a command has  *)
(* nothing yet that goes stale: it has its job from "read" on, and numbers of *)
(* builds once it has read one.                                              *)
Purge(before) ==
  /\ purges < MaxPurges /\ purges' = purges + 1
  /\ stale' = stale \cup {c \in Clients : pc[c] \notin before}
DeleteBuild(n) ==
  /\ Purge({"prepare", "read"}) /\ builds[n] \in Results /\ LastIs(n)
  /\ builds' = [builds EXCEPT ![n] = "none"]
  /\ UNCHANGED <<job, queue, next, by, pc, prev, build, target, faults, others>>
DeleteJob ==
  /\ Purge({"prepare"}) /\ job /\ job' = FALSE
  /\ queue' = {} /\ builds' = [n \in Numbers |-> "none"] /\ next' = 1
  /\ UNCHANGED <<by, pc, prev, build, target, faults, others>>
CreateJob ==
  /\ ~job /\ job' = TRUE
  /\ UNCHANGED <<queue, builds, next, by, pc, prev, build, target, stale, faults, purges, others>>

-----------------------------------------------------------------------------
Step(c) ==
  \/ Prepare(c) \/ ReadPrevious(c) \/ RequestBuild(c) \/ PollLastBuild(c) \/ TailLog(c) \/ Verdict(c)
  \/ CancelRead(c) \/ StopBuild(c) \/ CancelPoll(c)
Environment ==
  \/ StartBuild \/ SomeoneRequests \/ DeleteJob \/ CreateJob
  \/ \E n \in Numbers : FinishBuild(n) \/ DiscardBuild(n) \/ DeleteBuild(n)
Ended(c) == pc[c] \in {"ok", "error"}
Finished == (\A c \in Clients : Ended(c)) /\ UNCHANGED vars

Next == (\E c \in Clients : Step(c) \/ TimeOut(c)) \/ Environment \/ Finished

Spec == Init /\ [][Next]_vars

-----------------------------------------------------------------------------
TypeOK ==
  /\ job \in BOOLEAN
  /\ queue \in SUBSET (Clients \cup {Someone})
  /\ builds \in [Numbers -> States]
  /\ next \in 1..(MaxBuilds + 1)
  /\ by \in [Numbers -> SUBSET (Clients \cup {Someone})]
  /\ pc \in [Clients -> {"prepare", "read", "request", "poll", "tail", "verdict",
                         "stop", "stopped", "ok", "error"}]
  /\ prev \in [Clients -> 0..MaxBuilds]
  /\ build \in [Clients -> 0..MaxBuilds]
  /\ target \in [Clients -> 0..MaxBuilds]
  /\ stale \in SUBSET Clients
  /\ faults \in 0..MaxFaults /\ purges \in 0..MaxPurges /\ others \in 0..MaxOthers

Reported(c) == pc[c] \in {"tail", "verdict"} \/ (pc[c] = "ok" /\ Mode[c] # "cancel")

(* trigger.go:334 "lets wait for a new build to start": unless its job or the *)
(* last build is deleted in the middle of a command, the build it reports is  *)
(* one that began after it had read the previous one, however many commands   *)
(* and users ask for builds, whichever old builds go, and whatever was        *)
(* deleted, or made anew with numbers from 1, before.                        *)
NewBuildReported ==
  \A c \in Clients \ stale : Reported(c) => build[c] > prev[c] /\ build[c] < next

Asked(c) == c \in queue \/ \E n \in Numbers : n > prev[c] /\ c \in by[n]

(* ... and its own request is either still queued or has its build, a new    *)
(* one too: success is never reported for a request Jenkins does not have.   *)
RequestNotLost == \A c \in Clients \ stale : Reported(c) => Asked(c)

(* trigger.go:345: a command goes on waiting only while its request is in    *)
(* the queue.  Once that has a build the next answer is a new number, though *)
(* by then the build may have ended, been overtaken or been discarded.       *)
WaitsOnlyWhileQueued ==
  \A c \in Clients \ stale : pc[c] = "poll" /\ LastIs(prev[c]) => c \in queue

(* trigger.go:328: also when its reply is lost the request is made once, so  *)
(* that Jenkins builds no more than once for a command.                      *)
OneBuildPerCommand ==
  \A c \in Clients : \A n \in Numbers : c \in by[n] =>
    c \notin queue /\ \A m \in Numbers \ {n} : c \notin by[m]

(* --tail succeeds only on a new build that succeeded, discarded since       *)
(* perhaps.                                                                  *)
TailOkMeansSuccess ==
  \A c \in Clients \ stale :
    pc[c] = "ok" /\ Mode[c] = "tail" =>
      build[c] > prev[c] /\ builds[build[c]] \in {"SUCCESS", "none"}

(* A build only stops before its end because a --cancel asked for that very  *)
(* number, though builds start, end and are deleted between its calls.       *)
OnlyTargetsStop ==
  \A n \in Numbers : builds[n] \in {"stopping", "ABORTED"} =>
    \E c \in Clients : Mode[c] = "cancel" /\ target[c] = n

(* --cancel succeeds with its build still running only if a newer one began. *)
CancelOkMeansStoppedOrNewer ==
  \A c \in Clients \ stale :
    pc[c] = "ok" /\ target[c] # 0 /\ builds[target[c]] \in Live =>
      \E n \in Numbers : n > target[c] /\ Exists(n)

-----------------------------------------------------------------------------
(* The strengthenings that make the safety properties inductive: a number a  *)
(* command that is not stale has read is that of a build that has begun and   *)
(* of which this or a later one is still there.                              *)

NumbersInOrder ==
  \A n \in Numbers : n >= next => builds[n] = "none" /\ by[n] \cap Clients \subseteq stale
JobPrepared == \A c \in Clients \ stale : pc[c] \in {"prepare", "error"} \/ job
Begun(n) == n < next /\ (n = 0 \/ \E m \in Numbers : m >= n /\ Exists(m))
NumbersBegun == \A c \in Clients \ stale : Begun(prev[c]) /\ Begun(build[c]) /\ Begun(target[c])
CancelPhases ==
  \A c \in Clients :
    /\ pc[c] \in {"stop", "stopped"} => Mode[c] = "cancel" /\ build[c] # 0
    /\ pc[c] \in {"request", "poll", "tail", "verdict"} => Mode[c] # "cancel"
    /\ target[c] # 0 => Mode[c] = "cancel" /\ pc[c] \in {"stopped", "ok", "error"}
    /\ pc[c] \in {"prepare", "read"} => prev[c] = 0 /\ build[c] = 0
NotYetAsked ==
  \A c \in Clients : pc[c] \in {"prepare", "read", "request"} =>
    c \notin queue /\ \A n \in Numbers : c \notin by[n]
AskedKept == \A c \in Clients \ stale : pc[c] = "poll" => Asked(c)
StartedStays ==
  \A c \in Clients \ stale : \A n \in Numbers : c \in by[n] => \E m \in Numbers : m >= n /\ Exists(m)
OrderInv ==
  /\ NumbersInOrder /\ JobPrepared /\ NumbersBegun
  /\ CancelPhases /\ NotYetAsked /\ AskedKept /\ StartedStays

-----------------------------------------------------------------------------
(* What the comments and messages of the code say, and it does not do.       *)

(* trigger.go:75 "Tails the build log to the current terminal": the verdict  *)
(* is asked for after the build.                                             *)
VerdictOnlyOnFinishedBuild ==
  \A c \in Clients : pc[c] = "verdict" /\ Exists(build[c]) => builds[build[c]] \notin Live
=============================================================================
