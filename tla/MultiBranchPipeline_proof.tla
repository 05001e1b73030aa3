---------------------- MODULE MultiBranchPipeline_proof ----------------------
(***************************************************************************)
(* Proofs about MultiBranchPipeline, for every set of commands and         *)
(* branches and every bound on faults and edits.                           *)
(***************************************************************************)
EXTENDS MultiBranchPipeline, TLAPS

LEMMA TypeInit == Init => TypeOK
<1> SUFFICES ASSUME Init PROVE TypeOK
  OBVIOUS
<1>1. jobs \in SUBSET Branches /\ (~CanHold(project) => jobs = {})
  BY DEF Init
<1>2. queued \in BOOLEAN /\ scanning \in BOOLEAN /\ ~queued /\ ~scanning
  BY DEF Init
<1> QED
  BY <1>1, <1>2, MultiBranchAssumption DEF Init, TypeOK

LEMMA TypeNext == TypeOK /\ [Next]_vars => TypeOK'
<1> SUFFICES ASSUME TypeOK, [Next]_vars PROVE TypeOK'
  OBVIOUS
<1> USE DEF TypeOK, Projects, CanHold
<1>a. /\ MaxFaults \in Nat /\ MaxEdits \in Nat
      /\ \A c \in Clients : Branch[c] \in Branches
  BY MultiBranchAssumption
<1>b. (Fault \/ NoFault) => faults' \in 0..MaxFaults
  BY <1>a DEF Fault, NoFault
<1>c. Edit => edits' \in 0..MaxEdits
  BY <1>a DEF Edit
<1> USE DEF Goto, jenkins, HasJob
<1>1. ASSUME NEW c \in Clients, Step(c) PROVE TypeOK'
  <2>1. CASE LookUpJob(c)
    BY <1>b, <2>1 DEF LookUpJob
  <2>2. CASE FindProject(c)
    BY <1>b, <2>2 DEF FindProject
  <2>3. CASE ScanProject(c)
    <3>1. UNCHANGED <<git, project, jobs, scanning, found, edits>>
      BY <2>3 DEF ScanProject
    <3>2. queued' \in BOOLEAN /\ (project # "multibranch" => ~queued')
      <4>1. (project = "multibranch" /\ queued' = TRUE) \/ queued' = queued
        BY <2>3, ZenonT(30) DEF ScanProject
      <4>2. CASE project = "multibranch" /\ queued' = TRUE
        BY <4>2
      <4>3. CASE queued' = queued
        BY <4>3
      <4> QED
        BY <4>1, <4>2, <4>3
    <3>3. pc' \in [Clients -> {"lookup", "project", "scan", "poll", "ok", "error", "failed"}]
      BY <2>3 DEF ScanProject
    <3>4. owed' \in SUBSET Clients /\ faults' \in 0..MaxFaults
      BY <1>b, <2>3 DEF ScanProject, Owed
    <3> QED
      BY <3>1, <3>2, <3>3, <3>4
  <2>4. CASE PollJob(c)
    BY <1>b, <2>4 DEF PollJob
  <2> QED
    BY <1>1, <2>1, <2>2, <2>3, <2>4 DEF Step
<1>2. ASSUME NEW c \in Clients, TimeOut(c) PROVE TypeOK'
  BY <1>2 DEF TimeOut
<1>3. CASE StartScan
  BY <1>3 DEF StartScan
<1>4. ASSUME NEW b \in Branches, CreateBranchJob(b) PROVE TypeOK'
  BY <1>4 DEF CreateBranchJob
<1>5. CASE EndScan
  BY <1>5 DEF EndScan, StopScan
<1>6. CASE FailScan
  BY <1>b, <1>6 DEF FailScan, StopScan
<1>7. ASSUME NEW b \in Branches, Push(b) \/ DeleteBranch(b) \/ AddJob(b) PROVE TypeOK'
  BY <1>c, <1>7 DEF Push, DeleteBranch, AddJob, OwedUnless
<1>8. ASSUME NEW kind \in Projects, ReplaceProject(kind) PROVE TypeOK'
  BY <1>c, <1>8 DEF ReplaceProject, OwedUnless
<1>9. CASE UNCHANGED vars
  BY <1>9 DEF vars
<1> QED
  BY <1>1, <1>2, <1>3, <1>4, <1>5, <1>6, <1>7, <1>8, <1>9 DEF Next, Scanner, Users, Finished

(* Every variable keeps its type, and what is at owner/repo decides what    *)
(* there can be below it, in the queue and running.                         *)
THEOREM TypeCorrect == Spec => []TypeOK
BY TypeInit, TypeNext, PTL DEF Spec

-----------------------------------------------------------------------------
LEMMA ScanInit == Init => ScanNotLost
BY DEF Init, ScanNotLost

LEMMA ScanNext == TypeOK /\ ScanNotLost /\ [Next]_vars => ScanNotLost'
<1> SUFFICES ASSUME TypeOK, ScanNotLost, [Next]_vars PROVE ScanNotLost'
  OBVIOUS
<1> USE DEF ScanNotLost, TypeOK
<1>1. ASSUME NEW c \in Clients, Step(c) \/ TimeOut(c) PROVE ScanNotLost'
  <2>1. CASE ScanProject(c) /\ queued' /\ project = "multibranch"
    BY <2>1 DEF ScanProject, Owed
  <2>2. CASE UNCHANGED <<jenkins, owed>>
    BY <2>2 DEF jenkins
  <2> QED
    BY <1>1, <2>1, <2>2
       DEF Step, TimeOut, LookUpJob, FindProject, ScanProject, PollJob, jenkins
<1>2. CASE StartScan
  BY <1>2 DEF StartScan
<1>3. ASSUME NEW b \in Branches, CreateBranchJob(b) PROVE ScanNotLost'
  BY <1>3 DEF CreateBranchJob
<1>4. CASE EndScan
  BY <1>4 DEF EndScan, StopScan
<1>5. CASE FailScan
  BY <1>5 DEF FailScan, StopScan
<1>6. ASSUME NEW b \in Branches, Push(b) \/ DeleteBranch(b) \/ AddJob(b) PROVE ScanNotLost'
  BY <1>6 DEF Push, DeleteBranch, AddJob, OwedUnless
<1>7. ASSUME NEW kind \in Projects, ReplaceProject(kind) PROVE ScanNotLost'
  BY <1>7, MultiBranchAssumption DEF ReplaceProject, OwedUnless
<1>8. CASE UNCHANGED vars
  BY <1>8 DEF vars
<1> QED
  BY <1>1, <1>2, <1>3, <1>4, <1>5, <1>6, <1>7, <1>8 DEF Next, Scanner, Users, Finished

(* The scan a command has asked for is not lost, whatever scans, pushes,    *)
(* deletions and other commands come between.                               *)
THEOREM ScanIsNotLost == Spec => []ScanNotLost
BY TypeInit, TypeNext, ScanInit, ScanNext, PTL DEF Spec
=============================================================================
