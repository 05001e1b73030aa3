--------------------------- MODULE TriggerCommand ---------------------------
(***************************************************************************)
(* `tp trigger --multi-branch-project` from end to end: the branch's job   *)
(* of MultiBranchPipeline is the job of BuildTrigger.  Commands for one    *)
(* branch find or wait for its job and then build it, while scans make and *)
(* drop the job they build.                                                *)
(*                                                                         *)
(* T is BuildTrigger with "the branch has its job" for `job`: TriggerCommand *)
(* implements it, and so has its properties.                               *)
(***************************************************************************)
EXTENDS MultiBranchPipeline

CONSTANTS
  Main,         \* the branch of every command
  Mode, Someone, MaxBuilds, MaxOld, MaxPurges, MaxOthers   \* see BuildTrigger

VARIABLES
  queue, builds, next, by,            \* Jenkins, see BuildTrigger
  at,                                 \* where each command is in TriggerPipeline
  prev, build, target, stale, buildFaults, purges, others

T == INSTANCE BuildTrigger WITH job <- Main \in jobs, pc <- at, faults <- buildFaults

ASSUME CommandAssumption ==
  /\ T!TriggerAssumption
  /\ Main \in Branches /\ Branch = [c \in Clients |-> Main]

requests == <<queue, builds, next, by>>
progress == <<prev, build, target>>
buildVars == <<queue, builds, next, by, at, prev, build, target, stale, buildFaults, purges, others>>
commandVars == <<vars, buildVars>>

CommandInit == Init /\ T!Init

-----------------------------------------------------------------------------
(* job, err := ...getOrCreatePipelineFactory(jenkinsClient, gitInfo)(): the  *)
(* command goes on with the job, or returns the error.                      *)
HandOver(c) ==
  /\ at' = [at EXCEPT ![c] = CASE pc'[c] = "ok" -> "read"
                               [] pc'[c] \in {"error", "failed"} -> "error"
                               [] OTHER -> @]
  /\ UNCHANGED <<requests, progress, stale, buildFaults, purges, others>>
PrepareCall(c) == Step(c) /\ HandOver(c)
PrepareTimeOut(c) == TimeOut(c) /\ HandOver(c)

(* Everything that comes after, one remote call or time limit at a time.    *)
TriggerCall(c) == UNCHANGED vars /\ at[c] # "prepare" /\ T!Step(c)
TriggerTimeOut(c) == UNCHANGED vars /\ T!TimeOut(c)

(* The branch's job takes its requests and builds with it.                  *)
JobsChange ==
  /\ IF Main \in jobs /\ Main \notin jobs'
     THEN /\ T!Purge({"prepare"})
          /\ queue' = {} /\ builds' = [n \in T!Numbers |-> "none"] /\ next' = 1
          /\ UNCHANGED by
     ELSE UNCHANGED <<requests, stale, purges>>
  /\ UNCHANGED <<at, progress, buildFaults, others>>

BuildJenkins ==
  /\ UNCHANGED vars
  /\ \/ T!StartBuild \/ T!SomeoneRequests
     \/ \E n \in T!Numbers : T!FinishBuild(n) \/ T!DiscardBuild(n) \/ T!DeleteBuild(n)

CommandEnded(c) == at[c] \in {"ok", "error"}
CommandNext ==
  \/ \E c \in Clients :
       PrepareCall(c) \/ PrepareTimeOut(c) \/ TriggerCall(c) \/ TriggerTimeOut(c)
  \/ (Scanner \/ FailScan \/ Users) /\ JobsChange
  \/ BuildJenkins
  \/ (\A c \in Clients : CommandEnded(c)) /\ UNCHANGED commandVars

CommandFairness ==
  \A c \in Clients :
    /\ WF_commandVars(PrepareCall(c)) /\ WF_commandVars(PrepareTimeOut(c))
    /\ WF_commandVars(TriggerCall(c)) /\ WF_commandVars(TriggerTimeOut(c))
CommandSpec == CommandInit /\ [][CommandNext]_commandVars /\ CommandFairness

(* Jenkins works its queues off, that of the scans and that of the builds.  *)
ServedCommandSpec ==
  /\ CommandSpec
  /\ WF_commandVars(Scanner /\ JobsChange)
  /\ WF_commandVars(UNCHANGED vars /\ T!StartBuild)

-----------------------------------------------------------------------------
(* trigger.go:136-147: the rest of TriggerPipeline takes it that the job is  *)
(* there when the factory returns one, and keeps its promises though the    *)
(* job comes and goes with the scans: TriggerCommand implements BuildTrigger. *)
ImplementsBuildTrigger == T!Spec

(* A command is in the factory until that returns, and not again.           *)
HandedOver ==
  /\ at = [c \in Clients |-> at[c]]
  /\ \A c \in Clients : at[c] = "prepare" <=> ~Ended(c)

(* Each wait has its own limit (trigger.go:142, 145, 276, helpers.go:181):   *)
(* so every command ends, whatever scans, executors and users do.           *)
EveryCommandEnds == \A c \in Clients : <>CommandEnded(c)

(* trigger.go:260-288, 334: with a server that works its queues off, nothing *)
(* deleted, no fault and time enough, a command whose branch and project    *)
(* stay gets the job from the scan and then sees its build start, though    *)
(* others' scans and builds come before, between and after its calls.       *)
SteadyBranchBuilt ==
  \A c \in Clients :
    c \in owed \/ at[c] = "read" ~> at[c] = "ok" \/ (c \notin owed /\ at[c] \in {"prepare", "error"})
=============================================================================
