------------------------ MODULE TriggerCommand_proof ------------------------
(***************************************************************************)
(* TriggerCommand implements BuildTrigger, for every set of commands,      *)
(* whatever scans and users do to the branch's job.                        *)
(***************************************************************************)
EXTENDS TriggerCommand, MultiBranchPipeline_proof

(* The factory's part of a step of TriggerCommand is one of                *)
(* MultiBranchPipeline.                                                    *)
LEMMA PreparesAsMultiBranch == [CommandNext]_commandVars => [Next]_vars
BY DEF CommandNext, commandVars, PrepareCall, PrepareTimeOut, TriggerCall, TriggerTimeOut,
       BuildJenkins, Next

LEMMA HandedOverInit == CommandInit => HandedOver
BY DEF CommandInit, Init, T!Init, HandedOver, Ended

(* What TriggerPipeline does once it has its job does not bring it back to *)
(* the factory.                                                            *)
LEMMA TriggerMoves ==
  ASSUME NEW c \in Clients, at[c] # "prepare", T!Step(c) \/ T!TimeOut(c)
  PROVE  at' = at \/ \E where : at' = [at EXCEPT ![c] = where] /\ where # "prepare"
<1>1. CASE T!TailLog(c)
  BY <1>1 DEF T!TailLog, T!Goto
<1>2. CASE T!CancelRead(c)
  BY <1>2 DEF T!CancelRead, T!Goto
<1> QED
  BY <1>1, <1>2
     DEF T!Step, T!TimeOut, T!Prepare, T!ReadPrevious, T!RequestBuild, T!PollLastBuild, T!Verdict,
         T!StopBuild, T!CancelPoll, T!Goto

(* What the factory's own calls do.                                        *)
LEMMA PrepareMoves ==
  ASSUME TypeOK, NEW c \in Clients, Step(c) \/ TimeOut(c)
  PROVE  /\ ~Ended(c) /\ UNCHANGED jobs
         /\ \A d \in Clients \ {c} : pc'[d] = pc[d]
         /\ pc'[c] = "ok" => Main \in jobs
BY CommandAssumption
   DEF Step, TimeOut, LookUpJob, FindProject, ScanProject, PollJob, Goto, Ended, HasJob, jenkins,
       TypeOK

(* What is not a command leaves every command where it is.                 *)
LEMMA OthersMoves ==
  ASSUME (Scanner \/ FailScan \/ Users) /\ JobsChange
  PROVE  UNCHANGED <<pc, at>>
BY DEF Scanner, StartScan, CreateBranchJob, EndScan, FailScan, Users, Push, DeleteBranch, AddJob,
       ReplaceProject, JobsChange

LEMMA HandedOverNext ==
  TypeOK /\ HandedOver /\ [CommandNext]_commandVars => HandedOver'
<1> SUFFICES ASSUME TypeOK, HandedOver, [CommandNext]_commandVars PROVE HandedOver'
  OBVIOUS
<1>1. ASSUME NEW c \in Clients, PrepareCall(c) \/ PrepareTimeOut(c) PROVE HandedOver'
  <2>1. HandOver(c) /\ (Step(c) \/ TimeOut(c))
    BY <1>1 DEF PrepareCall, PrepareTimeOut
  <2>2. ~Ended(c) /\ \A d \in Clients \ {c} : pc'[d] = pc[d]
    BY <2>1, PrepareMoves
  <2>3. at[c] = "prepare"
    BY <2>2 DEF HandedOver
  <2> QED
    BY <2>1, <2>2, <2>3 DEF HandOver, HandedOver, Ended
<1>2. ASSUME NEW c \in Clients, TriggerCall(c) \/ TriggerTimeOut(c) PROVE HandedOver'
  <2>1. UNCHANGED pc /\ at[c] # "prepare" /\ (T!Step(c) \/ T!TimeOut(c))
    BY <1>2 DEF TriggerCall, TriggerTimeOut, T!TimeOut, vars
  <2>2. at' = at \/ \E where : at' = [at EXCEPT ![c] = where] /\ where # "prepare"
    BY <2>1, TriggerMoves
  <2> QED
    BY <2>1, <2>2 DEF HandedOver, Ended
<1>3. CASE (Scanner \/ FailScan \/ Users) /\ JobsChange
  BY <1>3, OthersMoves DEF HandedOver, Ended
<1>4. CASE BuildJenkins
  BY <1>4 DEF BuildJenkins, T!StartBuild, T!SomeoneRequests, T!FinishBuild, T!DiscardBuild,
      T!DeleteBuild, vars,
      HandedOver, Ended
<1>5. CASE UNCHANGED commandVars
  BY <1>5 DEF commandVars, vars, buildVars, HandedOver, Ended
<1> QED
  BY <1>1, <1>2, <1>3, <1>4, <1>5 DEF CommandNext

-----------------------------------------------------------------------------
LEMMA StartsAsBuildTrigger == CommandInit => T!Init
BY DEF CommandInit

LEMMA StepsAsBuildTrigger ==
  TypeOK /\ HandedOver /\ [CommandNext]_commandVars => [T!Next]_(T!vars)
<1> SUFFICES ASSUME TypeOK, HandedOver, [CommandNext]_commandVars PROVE [T!Next]_(T!vars)
  OBVIOUS
<1>1. ASSUME NEW c \in Clients, PrepareCall(c) \/ PrepareTimeOut(c) PROVE [T!Next]_(T!vars)
  <2>1. HandOver(c) /\ (Step(c) \/ TimeOut(c))
    BY <1>1 DEF PrepareCall, PrepareTimeOut
  <2>2. ~Ended(c) /\ UNCHANGED jobs /\ (pc'[c] = "ok" => Main \in jobs)
    BY <2>1, PrepareMoves
  <2>3. at[c] = "prepare"
    BY <2>2 DEF HandedOver
  <2>4. UNCHANGED T!server /\ UNCHANGED <<prev, build, target, stale, buildFaults, purges, others>>
    BY <2>1, <2>2 DEF HandOver, T!server, requests, progress
  <2>5. CASE pc'[c] \in {"ok", "error", "failed"}
    <3>1. T!Prepare(c)
      BY <2>1, <2>2, <2>3, <2>4, <2>5 DEF HandOver, T!Prepare, T!Goto, T!NoFault
    <3> QED
      BY <3>1 DEF T!Next, T!Step
  <2>6. CASE pc'[c] \notin {"ok", "error", "failed"}
    <3>1. at' = at
      BY <2>1, <2>6 DEF HandOver, HandedOver
    <3> QED
      BY <2>4, <3>1 DEF T!vars, T!server
  <2> QED
    BY <2>5, <2>6
<1>2. ASSUME NEW c \in Clients, TriggerCall(c) \/ TriggerTimeOut(c) PROVE [T!Next]_(T!vars)
  BY <1>2 DEF TriggerCall, TriggerTimeOut, T!Next
<1>3. CASE (Scanner \/ FailScan \/ Users) /\ JobsChange
  <2>1. CASE Main \in jobs /\ Main \notin jobs'
    <3>1. T!DeleteJob
      BY <1>3, <2>1 DEF JobsChange, T!DeleteJob, T!Purge, progress
    <3> QED
      BY <3>1 DEF T!Next, T!Environment
  <2>2. CASE Main \notin jobs /\ Main \in jobs'
    <3>1. T!CreateJob
      BY <1>3, <2>2 DEF JobsChange, T!CreateJob, progress, requests
    <3> QED
      BY <3>1 DEF T!Next, T!Environment
  <2>3. CASE (Main \in jobs) = (Main \in jobs')
    BY <1>3, <2>3 DEF JobsChange, T!vars, progress, requests
  <2> QED
    BY <2>1, <2>2, <2>3
<1>4. CASE BuildJenkins
  BY <1>4 DEF BuildJenkins, T!Next, T!Environment
<1>5. CASE UNCHANGED commandVars
  BY <1>5 DEF commandVars, buildVars, vars, T!vars
<1> QED
  BY <1>1, <1>2, <1>3, <1>4, <1>5 DEF CommandNext

(* From end to end a command keeps to BuildTrigger: its job is there when   *)
(* the factory returns it, and goes only as a job can go there.             *)
THEOREM CommandImplementsBuildTrigger == CommandSpec => ImplementsBuildTrigger
<1>1. CommandInit => TypeOK
  BY TypeInit DEF CommandInit
<1>2. TypeOK /\ [CommandNext]_commandVars => TypeOK'
  BY PreparesAsMultiBranch, TypeNext
<1> QED
  BY <1>1, <1>2, HandedOverInit, HandedOverNext, StartsAsBuildTrigger, StepsAsBuildTrigger, PTL
     DEF CommandSpec, ImplementsBuildTrigger, T!Spec

-----------------------------------------------------------------------------
(* What is proved of BuildTrigger and of MultiBranchPipeline holds of the   *)
(* whole.                                                                  *)
P == INSTANCE BuildTrigger_proof WITH job <- Main \in jobs, pc <- at, faults <- buildFaults

LEMMA SameSpec == T!Spec => P!Spec
<1>1. T!Init => P!Init
  BY Zenon DEF T!Init, P!Init, T!Numbers, P!Numbers
<1>2. [T!Next]_(T!vars) => [P!Next]_(P!vars)
  BY Zenon DEF T!Next, P!Next, T!Step, P!Step, T!Environment, P!Environment, T!Finished,
      P!Finished, T!Ended, P!Ended, T!Prepare, P!Prepare, T!ReadPrevious, P!ReadPrevious,
      T!RequestBuild, P!RequestBuild, T!PollLastBuild, P!PollLastBuild, T!TailLog, P!TailLog,
      T!Verdict, P!Verdict, T!CancelRead, P!CancelRead, T!StopBuild, P!StopBuild, T!CancelPoll,
      P!CancelPoll, T!TimeOut, P!TimeOut, T!StartBuild, P!StartBuild, T!FinishBuild,
      P!FinishBuild, T!SomeoneRequests, P!SomeoneRequests, T!DiscardBuild, P!DiscardBuild,
      T!DeleteBuild, P!DeleteBuild,
      T!DeleteJob, P!DeleteJob, T!CreateJob, P!CreateJob, T!Purge, P!Purge, T!Fault, P!Fault,
      T!NoFault, P!NoFault, T!Goto, P!Goto, T!LastIs, P!LastIs, T!Exists, P!Exists, T!Numbers,
      P!Numbers, T!Live, P!Live, T!Results, P!Results, T!States, P!States, T!server, P!server,
      T!vars, P!vars
<1> QED
  BY <1>1, <1>2, PTL DEF T!Spec, P!Spec

(* The end to end command is built once, and stops only the number it       *)
(* picked; and unless a scan or a user removes its job or a build in its     *)
(* middle, it reports a new build, for a request Jenkins has and for no      *)
(* longer than that is queued, and a verdict that is final.                  *)
THEOREM CommandKeepsPromises ==
  CommandSpec => [](/\ P!OneBuildPerCommand /\ P!NewBuildReported /\ P!RequestNotLost
                    /\ P!WaitsOnlyWhileQueued /\ P!TailOkMeansSuccess
                    /\ P!OnlyTargetsStop /\ P!CancelOkMeansStoppedOrNewer)
<1>1. P!TriggerAssumption
  BY CommandAssumption DEF CommandAssumption, T!TriggerAssumption, P!TriggerAssumption
<1>2. P!Spec => []P!NewBuildReported
  BY <1>1, P!NewBuildIsReported DEF P!NewBuildIsReported, P!TriggerAssumption
<1>3. P!Spec => []P!RequestNotLost
  BY <1>1, P!RequestIsNotLost DEF P!RequestIsNotLost, P!TriggerAssumption
<1>4. P!Spec => []P!TailOkMeansSuccess
  BY <1>1, P!TailOkIsSuccess DEF P!TailOkIsSuccess, P!TriggerAssumption
<1>5. P!Spec => []P!OnlyTargetsStop
  BY <1>1, P!OnlyTargetsAreStopped DEF P!OnlyTargetsAreStopped, P!TriggerAssumption
<1>6. P!Spec => []P!CancelOkMeansStoppedOrNewer
  BY <1>1, P!CancelIsStoppedOrNewer DEF P!CancelIsStoppedOrNewer, P!TriggerAssumption
<1>7. P!Spec => []P!OneBuildPerCommand
  BY <1>1, P!OneBuildEach DEF P!OneBuildEach, P!TriggerAssumption
<1>8. P!Spec => []P!WaitsOnlyWhileQueued
  BY <1>1, P!WaitIsForTheQueue DEF P!WaitIsForTheQueue, P!TriggerAssumption
<1> QED
  BY <1>2, <1>3, <1>4, <1>5, <1>6, <1>7, <1>8, CommandImplementsBuildTrigger, SameSpec, PTL
     DEF ImplementsBuildTrigger

(* ... and the scan it asks for is not lost, though it builds meanwhile.    *)
THEOREM CommandScanIsNotLost == CommandSpec => []ScanNotLost
<1>1. CommandInit => TypeOK /\ ScanNotLost
  BY TypeInit, ScanInit DEF CommandInit
<1>2. TypeOK /\ ScanNotLost /\ [CommandNext]_commandVars => (TypeOK /\ ScanNotLost)'
  BY PreparesAsMultiBranch, TypeNext, ScanNext
<1> QED
  BY <1>1, <1>2, PTL DEF CommandSpec
=============================================================================
