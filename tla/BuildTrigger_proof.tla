------------------------- MODULE BuildTrigger_proof -------------------------
(***************************************************************************)
(* Proofs about BuildTrigger, for every set of commands, every number of   *)
(* builds and every bound on faults, deletions and other users' requests.  *)
(***************************************************************************)
EXTENDS BuildTrigger, TLAPS

LEMMA TypeInit == Init => TypeOK
BY TriggerAssumption DEF Init, TypeOK, Numbers, States, Live, Results

LEMMA TypeNext == TypeOK /\ [Next]_vars => TypeOK'
<1> SUFFICES ASSUME TypeOK, [Next]_vars PROVE TypeOK'
  OBVIOUS
<1> USE DEF TypeOK, Numbers, States, Live, Results
<1>a. /\ MaxBuilds \in Nat /\ MaxFaults \in Nat /\ MaxPurges \in Nat /\ MaxOthers \in Nat
  BY TriggerAssumption
<1>b. (Fault \/ NoFault) => faults' \in 0..MaxFaults
  BY <1>a DEF Fault, NoFault
<1>c. ASSUME NEW before, Purge(before) PROVE purges' \in 0..MaxPurges /\ stale' \in SUBSET Clients
  BY <1>a, <1>c DEF Purge
<1> USE DEF Goto, server
<1>1. ASSUME NEW c \in Clients, Step(c) PROVE TypeOK'
  <2>1. CASE ReadPrevious(c)
    BY <1>b, <2>1 DEF ReadPrevious
  <2>2. CASE RequestBuild(c)
    BY <1>b, <2>2 DEF RequestBuild
  <2>3. CASE PollLastBuild(c)
    <3>1. build' \in [Clients -> 0..MaxBuilds]
      BY <2>3 DEF PollLastBuild
    <3>2. pc' \in [Clients -> {"prepare", "read", "request", "poll", "tail", "verdict",
                            "stop", "stopped", "ok", "error"}]
      BY <2>3 DEF PollLastBuild
    <3>3. faults' \in 0..MaxFaults
      BY <1>b, <2>3 DEF PollLastBuild
    <3> QED
      BY <2>3, <3>1, <3>2, <3>3 DEF PollLastBuild
  <2>4. CASE TailLog(c)
    BY <1>b, <2>4 DEF TailLog
  <2>5. CASE Verdict(c)
    BY <1>b, <2>5 DEF Verdict
  <2>6. CASE CancelRead(c)
    <3>1. build' \in [Clients -> 0..MaxBuilds]
      BY <2>6 DEF CancelRead
    <3>2. pc' \in [Clients -> {"prepare", "read", "request", "poll", "tail", "verdict",
                            "stop", "stopped", "ok", "error"}]
      BY <2>6 DEF CancelRead
    <3>3. faults' \in 0..MaxFaults
      BY <1>b, <2>6 DEF CancelRead
    <3> QED
      BY <2>6, <3>1, <3>2, <3>3 DEF CancelRead
  <2>7. CASE StopBuild(c)
    BY <1>b, <2>7 DEF StopBuild, Exists
  <2>8. CASE CancelPoll(c)
    <3>1. build' \in [Clients -> 0..MaxBuilds]
      BY <2>8 DEF CancelPoll
    <3>2. pc' \in [Clients -> {"prepare", "read", "request", "poll", "tail", "verdict",
                            "stop", "stopped", "ok", "error"}]
      BY <2>8 DEF CancelPoll
    <3>3. faults' \in 0..MaxFaults
      BY <1>b, <2>8 DEF CancelPoll
    <3> QED
      BY <2>8, <3>1, <3>2, <3>3 DEF CancelPoll
  <2>9. CASE Prepare(c)
    BY <1>b, <2>9 DEF Prepare
  <2> QED
    BY <1>1, <2>1, <2>2, <2>3, <2>4, <2>5, <2>6, <2>7, <2>8, <2>9 DEF Step
<1>2. ASSUME NEW c \in Clients, TimeOut(c) PROVE TypeOK'
  BY <1>2 DEF TimeOut
<1>3. CASE Environment
  <2>1. CASE StartBuild
    <3>1. next' \in 1..(MaxBuilds + 1) /\ builds' \in [Numbers -> States]
      BY <1>a, <2>1 DEF StartBuild
    <3>2. queue' \in SUBSET (Clients \cup {Someone}) /\ by' \in [Numbers -> SUBSET (Clients \cup {Someone})]
      BY <2>1 DEF StartBuild
    <3> QED
      BY <2>1, <3>1, <3>2 DEF StartBuild
  <2>2. CASE SomeoneRequests
    BY <1>a, <2>2 DEF SomeoneRequests
  <2>3. CASE DeleteJob
    BY <1>a, <1>c, <2>3, 1 \in 1..(MaxBuilds + 1) DEF DeleteJob
  <2>4. CASE CreateJob
    BY <2>4 DEF CreateJob
  <2>5. ASSUME NEW n \in Numbers, FinishBuild(n) PROVE TypeOK'
    BY <2>5 DEF FinishBuild
  <2>6. ASSUME NEW n \in Numbers, DeleteBuild(n) PROVE TypeOK'
    BY <1>c, <2>6 DEF DeleteBuild
  <2>7. ASSUME NEW n \in Numbers, DiscardBuild(n) PROVE TypeOK'
    BY <2>7 DEF DiscardBuild
  <2> QED
    BY <1>3, <2>1, <2>2, <2>3, <2>4, <2>5, <2>6, <2>7 DEF Environment
<1>4. CASE UNCHANGED vars
  BY <1>4 DEF vars
<1> QED
  BY <1>1, <1>2, <1>3, <1>4 DEF Next, Finished

(* Every variable keeps its type, whatever the bounds.                     *)
THEOREM TypeCorrect == Spec => []TypeOK
BY TypeInit, TypeNext, PTL DEF Spec

-----------------------------------------------------------------------------
(* As long as nobody deletes anything, the server only moves forward: old    *)
(* builds are discarded, later ones are still there.                        *)

NothingDeleted == ~DeleteJob /\ \A n \in Numbers : ~DeleteBuild(n)

(* What a command's own calls leave alone.                                 *)
LEMMA ClientStep ==
  ASSUME NEW c \in Clients, Step(c) \/ TimeOut(c)
  PROVE  /\ UNCHANGED <<job, next, by, stale, purges, others>>
         /\ queue' = queue \/ queue' = queue \cup {c}
BY DEF Step, TimeOut, Prepare, ReadPrevious, RequestBuild, PollLastBuild, TailLog, Verdict, CancelRead,
       StopBuild, CancelPoll, server

(* Only a deletion makes a command stale ...                               *)
LEMMA StaleKept ==
  ASSUME [Next]_vars, NothingDeleted
  PROVE  stale' = stale
BY ClientStep
   DEF NothingDeleted, Next, Environment, StartBuild, SomeoneRequests, CreateJob, FinishBuild,
       DiscardBuild, Finished, vars

(* ... and each command but those that have nothing yet to go stale.       *)
LEMMA DeletionMakesStale ==
  ASSUME ~NothingDeleted, NEW c \in Clients \ stale', [Next]_vars
  PROVE  /\ c \notin stale /\ pc[c] \in {"prepare", "read"}
         /\ UNCHANGED <<by, pc, prev, build, target>>
         /\ DeleteJob => pc[c] = "prepare"
<1>1. DeleteJob \/ \E n \in Numbers : DeleteBuild(n)
  BY DEF NothingDeleted
<1>2. CASE DeleteJob
  BY <1>2 DEF DeleteJob, Purge
<1>3. ASSUME NEW n \in Numbers, DeleteBuild(n), ~DeleteJob
      PROVE  /\ c \notin stale /\ pc[c] \in {"prepare", "read"}
             /\ UNCHANGED <<by, pc, prev, build, target>>
  BY <1>3 DEF DeleteBuild, Purge
<1> QED
  BY <1>1, <1>2, <1>3

LEMMA ServerForward ==
  ASSUME TypeOK, NumbersInOrder, [Next]_vars, NothingDeleted
  PROVE  /\ NumbersInOrder'
         /\ \A n \in Numbers : Exists(n) => \E m \in Numbers : m >= n /\ Exists(m)'
         /\ \A n \in Numbers : (by[n] \cap Clients) \ stale \subseteq by'[n]
         /\ next' \in Nat /\ next <= next'
<1> USE DEF TypeOK, Numbers, States, Live, Results, Exists, NumbersInOrder
<1>a. MaxBuilds \in Nat
  BY TriggerAssumption
<1>1. ASSUME NEW c \in Clients, Step(c) \/ TimeOut(c)
      PROVE  /\ NumbersInOrder'
             /\ \A n \in Numbers : Exists(n) => \E m \in Numbers : m >= n /\ Exists(m)'
             /\ \A n \in Numbers : (by[n] \cap Clients) \ stale \subseteq by'[n]
             /\ next' \in Nat /\ next <= next'
  <2>1. \A n \in Numbers : (builds'[n] = "none") = (builds[n] = "none")
    <3>1. CASE StopBuild(c)
      BY <3>1 DEF StopBuild
    <3>2. CASE UNCHANGED builds
      BY <3>2
    <3> QED
      BY <1>1, <3>1, <3>2
         DEF Step, TimeOut, Prepare, ReadPrevious, RequestBuild, PollLastBuild, TailLog, Verdict,
             CancelRead, CancelPoll, server
  <2>2. UNCHANGED <<job, next, by, stale>>
    BY <1>1, ClientStep
  <2>3. NumbersInOrder'
    BY <2>1, <2>2
  <2> QED
    BY <2>1, <2>2, <2>3
<1>2. CASE Environment
  <2>1. CASE StartBuild
    <3>1. /\ next \in Numbers /\ next' = next + 1 /\ stale' = stale
          /\ builds' = [builds EXCEPT ![next] = "running"]
      BY <1>a, <2>1 DEF StartBuild
    <3>a. \A n \in Numbers : n # next => by'[n] = by[n]
      BY <2>1 DEF StartBuild
    <3>2. NumbersInOrder'
      BY <3>1, <3>a
    <3>3. \A n \in Numbers : Exists(n) => n >= n /\ Exists(n)'
      BY <3>1
    <3>4. \A n \in Numbers : (by[n] \cap Clients) \ stale \subseteq by'[n]
      BY <3>1, <3>a
    <3> QED
      BY <3>1, <3>2, <3>3, <3>4
  <2>2. CASE SomeoneRequests
    BY <2>2 DEF SomeoneRequests
  <2>3. ~DeleteJob /\ \A n \in Numbers : ~DeleteBuild(n)
    BY DEF NothingDeleted
  <2>4. ASSUME NEW n \in Numbers, FinishBuild(n)
        PROVE  /\ NumbersInOrder'
               /\ \A m \in Numbers : Exists(m) => \E k \in Numbers : k >= m /\ Exists(k)'
               /\ \A m \in Numbers : (by[m] \cap Clients) \ stale \subseteq by'[m]
               /\ next' \in Nat /\ next <= next'
    BY <2>4 DEF FinishBuild
  <2>5. CASE CreateJob
    BY <2>5 DEF CreateJob
  <2>6. ASSUME NEW n \in Numbers, DiscardBuild(n)
        PROVE  /\ NumbersInOrder'
               /\ \A m \in Numbers : Exists(m) => \E k \in Numbers : k >= m /\ Exists(k)'
               /\ \A m \in Numbers : (by[m] \cap Clients) \ stale \subseteq by'[m]
               /\ next' \in Nat /\ next <= next'
    <3>1. PICK k \in Numbers : k > n /\ Exists(k)
      BY <2>6 DEF DiscardBuild
    <3>2. builds'[k] # "none" /\ UNCHANGED <<next, by, stale>>
      BY <2>6, <3>1 DEF DiscardBuild
    <3>3. \A m \in Numbers : Exists(m) => m = n \/ Exists(m)'
      BY <2>6 DEF DiscardBuild
    <3>4. NumbersInOrder'
      BY <2>6, <3>2 DEF DiscardBuild
    <3> QED
      BY <1>a, <3>1, <3>2, <3>3, <3>4
  <2> QED
    BY <1>2, <2>1, <2>2, <2>3, <2>4, <2>5, <2>6 DEF Environment
<1>3. CASE UNCHANGED vars
  BY <1>3 DEF vars
<1> QED
  BY <1>1, <1>2, <1>3 DEF Next, Finished

(* A queued request stays queued until a build starts for it.              *)
LEMMA RequestKept ==
  ASSUME TypeOK, NumbersInOrder, [Next]_vars, NothingDeleted, NEW c \in Clients, c \in queue
  PROVE  c \in queue' \/ (next \in Numbers /\ c \in by'[next])
<1> USE DEF TypeOK, Numbers, NumbersInOrder
<1>1. ASSUME NEW d \in Clients, Step(d) \/ TimeOut(d) PROVE c \in queue'
  BY <1>1, ClientStep
<1>2. CASE StartBuild
  BY <1>2 DEF StartBuild
<1>3. ~DeleteJob
  BY DEF NothingDeleted
<1> QED
  BY <1>1, <1>2, <1>3
     DEF Next, Environment, SomeoneRequests, CreateJob, FinishBuild, DiscardBuild, DeleteBuild, Finished, vars

-----------------------------------------------------------------------------
(* A command makes its request once.                                       *)

(* A command's calls queue at most its own request, and only from where it *)
(* makes it; it comes to no place before that one again.                   *)
LEMMA RequestStep ==
  ASSUME TypeOK, NEW c \in Clients, Step(c) \/ TimeOut(c)
  PROVE  /\ by' = by
         /\ \A d \in Clients \ {c} : pc'[d] = pc[d] /\ (d \in queue' <=> d \in queue)
         /\ c \in queue' /\ c \notin queue => pc[c] = "request" /\ pc'[c] \in {"poll", "error"}
         /\ pc'[c] \in {"prepare", "read", "request"} => pc[c] \in {"prepare", "read", "request"}
<1>1. by' = by /\ (queue' = queue \/ queue' = queue \cup {c})
  BY ClientStep
<1>2. \A d \in Clients \ {c} : pc'[d] = pc[d]
  BY DEF Step, TimeOut, Prepare, ReadPrevious, RequestBuild, PollLastBuild, TailLog, Verdict, CancelRead,
         StopBuild, CancelPoll, Goto, TypeOK
<1>3. c \in queue' /\ c \notin queue => pc[c] = "request" /\ pc'[c] \in {"poll", "error"}
  BY DEF Step, TimeOut, Prepare, ReadPrevious, RequestBuild, PollLastBuild, TailLog, Verdict, CancelRead,
         StopBuild, CancelPoll, Goto, TypeOK, server
<1>4. pc'[c] \in {"prepare", "read", "request"} => pc[c] \in {"prepare", "read", "request"}
  BY DEF Step, TimeOut, Prepare, ReadPrevious, RequestBuild, PollLastBuild, TailLog, Verdict, CancelRead,
         StopBuild, CancelPoll, Goto, TypeOK
<1> QED
  BY <1>1, <1>2, <1>3, <1>4

(* StartBuild moves requests from the queue to one build.                  *)
LEMMA StartMoves ==
  ASSUME TypeOK, StartBuild, NEW c \in Clients
  PROVE  /\ next \in Numbers /\ pc' = pc
         /\ \A n \in Numbers : n # next => by'[n] = by[n]
         /\ c \in queue' => c \in queue /\ c \notin by'[next]
         /\ c \in by'[next] => c \in queue
BY TriggerAssumption DEF StartBuild, TypeOK, Numbers

LEMMA NotYetNext == TypeOK /\ NotYetAsked /\ [Next]_vars => NotYetAsked'
<1> SUFFICES ASSUME TypeOK, NotYetAsked, [Next]_vars,
                    NEW c \in Clients, pc'[c] \in {"prepare", "read", "request"}
             PROVE  c \notin queue' /\ \A n \in Numbers : c \notin by'[n]
  BY DEF NotYetAsked
<1>1. ASSUME NEW d \in Clients, Step(d) \/ TimeOut(d)
      PROVE  c \notin queue' /\ \A n \in Numbers : c \notin by'[n]
  BY <1>1, RequestStep DEF NotYetAsked
<1>2. CASE StartBuild
  BY <1>2, StartMoves DEF NotYetAsked
<1>3. CASE UNCHANGED <<pc, by>> /\ (c \in queue' => c \in queue)
  BY <1>3 DEF NotYetAsked
<1>4. Someone # c
  BY TriggerAssumption
<1> QED
  BY <1>1, <1>2, <1>3, <1>4
     DEF Next, Environment, SomeoneRequests, DeleteJob, CreateJob, FinishBuild, DiscardBuild,
         DeleteBuild, Finished, vars

-----------------------------------------------------------------------------
(* The numbers a command holds are those of builds that began.             *)

LEMMA OrderInit == Init => OrderInv
BY TriggerAssumption
   DEF Init, OrderInv, NumbersInOrder, JobPrepared, NumbersBegun, Begun, CancelPhases, NotYetAsked,
       AskedKept, StartedStays, Numbers

(* A command's numbers change only to an answer of GetLastBuild.           *)
LEMMA NumbersMove ==
  ASSUME TypeOK, [Next]_vars, NEW c \in Clients
  PROVE  /\ prev'[c] = prev[c] \/ (LastIs(prev'[c]) /\ pc[c] = "read" /\ pc'[c] = "request")
         /\ build'[c] = build[c] \/ LastIs(build'[c])
         /\ target'[c] = target[c] \/ (target'[c] = build[c] /\ pc[c] = "stop")
<1> USE DEF TypeOK, Goto
<1>1. ASSUME NEW d \in Clients, Step(d) \/ TimeOut(d)
      PROVE  /\ prev'[c] = prev[c] \/ (LastIs(prev'[c]) /\ pc[c] = "read" /\ pc'[c] = "request")
             /\ build'[c] = build[c] \/ LastIs(build'[c])
             /\ target'[c] = target[c] \/ (target'[c] = build[c] /\ pc[c] = "stop")
  <2>1. CASE ReadPrevious(d)
    BY <2>1 DEF ReadPrevious
  <2>2. CASE PollLastBuild(d)
    BY <2>2 DEF PollLastBuild
  <2>3. CASE CancelRead(d)
    BY <2>3 DEF CancelRead
  <2>4. CASE CancelPoll(d)
    BY <2>4 DEF CancelPoll
  <2>5. CASE StopBuild(d)
    BY <2>5 DEF StopBuild
  <2>6. CASE Prepare(d) \/ RequestBuild(d) \/ TailLog(d) \/ Verdict(d) \/ TimeOut(d)
    BY <2>6 DEF Prepare, RequestBuild, TailLog, Verdict, TimeOut
  <2> QED
    BY <1>1, <2>1, <2>2, <2>3, <2>4, <2>5, <2>6 DEF Step
<1>2. CASE UNCHANGED <<prev, build, target>>
  BY <1>2
<1> QED
  BY <1>1, <1>2
     DEF Next, Environment, StartBuild, SomeoneRequests, DeleteJob, CreateJob, FinishBuild,
         DiscardBuild, DeleteBuild, Finished, vars

LEMMA BegunNext ==
  ASSUME TypeOK, OrderInv, [Next]_vars, NothingDeleted
  PROVE  NumbersInOrder' /\ NumbersBegun'
<1>1. NumbersInOrder /\ NumbersBegun
  BY DEF OrderInv
<1>2. TypeOK' /\ next <= next' /\ stale' = stale
  BY <1>1, TypeNext, ServerForward, StaleKept
<1>3. ASSUME NEW n \in 0..MaxBuilds, Begun(n) PROVE Begun(n)'
  <2>1. n < next'
    BY <1>2, <1>3, TriggerAssumption DEF Begun, TypeOK
  <2>2. CASE n = 0
    BY <2>1, <2>2 DEF Begun
  <2>3. CASE n # 0
    <3>1. PICK m \in Numbers : m >= n /\ Exists(m)
      BY <1>3, <2>3 DEF Begun
    <3>2. PICK k \in Numbers : k >= m /\ Exists(k)'
      BY <1>1, <3>1, ServerForward
    <3>3. k >= n
      BY <3>1, <3>2, TriggerAssumption DEF Numbers
    <3> QED
      BY <2>1, <3>2, <3>3 DEF Begun
  <2> QED
    BY <2>2, <2>3
<1>4. \A n \in 0..MaxBuilds : LastIs(n) => Begun(n)
  BY <1>1, TriggerAssumption DEF LastIs, Begun, Exists, NumbersInOrder, Numbers, TypeOK
<1>5. ASSUME NEW c \in Clients \ stale PROVE Begun(prev'[c]) /\ Begun(build'[c]) /\ Begun(target'[c])
  <2>1. prev'[c] \in 0..MaxBuilds /\ build'[c] \in 0..MaxBuilds
    BY <1>2 DEF TypeOK
  <2> QED
    BY <1>1, <1>4, <2>1, NumbersMove DEF NumbersBegun
<1>6. ASSUME NEW c \in Clients \ stale PROVE Begun(prev[c])' /\ Begun(build[c])' /\ Begun(target[c])'
  <2>1. /\ prev'[c] \in 0..MaxBuilds /\ build'[c] \in 0..MaxBuilds
        /\ target'[c] \in 0..MaxBuilds
    BY <1>2 DEF TypeOK
  <2>2. \A n \in 0..MaxBuilds : Begun(n) => n < next' /\ (n = 0 \/ \E m \in Numbers : m >= n /\ Exists(m)')
    BY <1>3 DEF Begun
  <2> QED
    BY <1>5, <2>1, <2>2 DEF Begun, Exists
<1> QED
  BY <1>1, <1>2, <1>6, ServerForward DEF NumbersBegun

LEMMA PhasesNext == TypeOK /\ CancelPhases /\ [Next]_vars => CancelPhases'
<1> SUFFICES ASSUME TypeOK, CancelPhases, [Next]_vars PROVE CancelPhases'
  OBVIOUS
<1> USE DEF TypeOK, CancelPhases, Goto
<1>1. ASSUME NEW c \in Clients, Step(c) \/ TimeOut(c) PROVE CancelPhases'
  <2>1. CASE ReadPrevious(c)
    BY <2>1 DEF ReadPrevious
  <2>2. CASE RequestBuild(c)
    BY <2>2 DEF RequestBuild
  <2>3. CASE PollLastBuild(c)
    BY <2>3 DEF PollLastBuild
  <2>4. CASE Prepare(c) \/ TailLog(c) \/ Verdict(c) \/ TimeOut(c)
    BY <2>4 DEF Prepare, TailLog, Verdict, TimeOut
  <2>5. CASE CancelRead(c)
    BY <2>5 DEF CancelRead
  <2>6. CASE StopBuild(c)
    BY <2>6 DEF StopBuild
  <2>7. CASE CancelPoll(c)
    BY <2>7 DEF CancelPoll
  <2> QED
    BY <1>1, <2>1, <2>2, <2>3, <2>4, <2>5, <2>6, <2>7 DEF Step
<1>2. CASE UNCHANGED <<pc, prev, build, target>>
  BY <1>2
<1> QED
  BY <1>1, <1>2
     DEF Next, Environment, StartBuild, SomeoneRequests, DeleteJob, CreateJob, FinishBuild,
         DiscardBuild, DeleteBuild, Finished, vars

(* A request that was asked for stays asked for.                           *)
LEMMA AskedStays ==
  ASSUME TypeOK, NumbersInOrder, NumbersBegun, [Next]_vars, NothingDeleted,
         NEW c \in Clients \ stale, Asked(c), prev'[c] = prev[c]
  PROVE  Asked(c)'
<1>1. CASE c \in queue
  <2>1. c \in queue' \/ (next \in Numbers /\ c \in by'[next])
    BY <1>1, RequestKept
  <2>2. prev[c] < next
    BY TriggerAssumption DEF NumbersInOrder, NumbersBegun, Begun, Exists, TypeOK, Numbers
  <2> QED
    BY <2>1, <2>2 DEF Asked, TypeOK, Numbers
<1>2. CASE c \notin queue
  <2>1. PICK n \in Numbers : n > prev[c] /\ c \in by[n]
    BY <1>2 DEF Asked
  <2>2. c \in by'[n]
    BY <2>1, ServerForward
  <2> QED
    BY <2>1, <2>2 DEF Asked
<1> QED
  BY <1>1, <1>2

(* The job a command has been given stays.                                 *)
LEMMA JobStays ==
  ASSUME TypeOK, JobPrepared, [Next]_vars, NothingDeleted
  PROVE  JobPrepared'
<1> USE DEF TypeOK, JobPrepared, Goto
<1>1. ASSUME NEW c \in Clients, Step(c) \/ TimeOut(c) PROVE JobPrepared'
  <2>1. job' = job /\ stale' = stale
    BY <1>1, ClientStep
  <2>2. \A d \in Clients \ {c} : pc'[d] = pc[d]
    BY <1>1 DEF Step, TimeOut, Prepare, ReadPrevious, RequestBuild, PollLastBuild, TailLog, Verdict,
       CancelRead, StopBuild, CancelPoll
  <2>3. c \in stale \/ pc'[c] \in {"prepare", "error"} \/ job
    BY <1>1 DEF Step, TimeOut, Prepare, ReadPrevious, RequestBuild, PollLastBuild, TailLog, Verdict,
       CancelRead, StopBuild, CancelPoll
  <2> QED
    BY <2>1, <2>2, <2>3
<1>2. CASE UNCHANGED <<pc, stale>> /\ (job => job')
  BY <1>2
<1>3. ~DeleteJob
  BY DEF NothingDeleted
<1> QED
  BY <1>1, <1>2, <1>3
     DEF Next, Environment, StartBuild, SomeoneRequests, CreateJob, FinishBuild, DiscardBuild,
         NothingDeleted, Finished, vars

(* A request that has a build has it, or a later one, on the server.       *)
LEMMA StartedNext ==
  ASSUME TypeOK, NumbersInOrder, StartedStays, [Next]_vars, NothingDeleted,
         NEW c \in Clients \ stale, NEW n \in Numbers, c \in by'[n]
  PROVE  \E m \in Numbers : m >= n /\ Exists(m)'
<1>1. CASE c \in by[n]
  <2>1. PICK k \in Numbers : k >= n /\ Exists(k)
    BY <1>1 DEF StartedStays
  <2>2. PICK m \in Numbers : m >= k /\ Exists(m)'
    BY <2>1, ServerForward
  <2>3. m >= n
    BY <2>1, <2>2, TriggerAssumption DEF Numbers
  <2> QED
    BY <2>2, <2>3
<1>2. CASE c \notin by[n]
  <2>1. StartBuild
    BY <1>2, ClientStep
       DEF Next, Environment, SomeoneRequests, DeleteJob, CreateJob, FinishBuild, DiscardBuild,
           DeleteBuild, Finished, vars
  <2>2. n = next /\ builds'[n] = "running"
    BY <1>2, <2>1, StartMoves DEF StartBuild, TypeOK, Numbers
  <2>3. n >= n
    BY TriggerAssumption DEF Numbers
  <2> QED
    BY <2>2, <2>3 DEF Exists
<1> QED
  BY <1>1, <1>2

(* A polling command has asked.                                            *)
LEMMA PollingNext ==
  ASSUME TypeOK, OrderInv, [Next]_vars, NothingDeleted,
         NEW c \in Clients \ stale, pc'[c] = "poll"
  PROVE  Asked(c)'
<1>1. NumbersInOrder /\ JobPrepared /\ NumbersBegun /\ AskedKept
  BY DEF OrderInv
<1>2. CASE RequestBuild(c)
  <2>1. c \in queue'
    BY <1>1, <1>2 DEF RequestBuild, JobPrepared, Goto, TypeOK
  <2> QED
    BY <2>1 DEF Asked
<1>3. CASE ~RequestBuild(c)
  <2>1. pc[c] = "poll"
    BY <1>3
       DEF Next, Step, Environment, TimeOut, Prepare, ReadPrevious, RequestBuild, PollLastBuild, TailLog,
           Verdict, CancelRead, StopBuild, CancelPoll, StartBuild, SomeoneRequests, DeleteJob,
           CreateJob, FinishBuild, DiscardBuild, DeleteBuild, Finished, vars, Goto, TypeOK
  <2>2. prev'[c] = prev[c]
    BY <2>1, NumbersMove
  <2> QED
    BY <1>1, <2>1, <2>2, AskedStays DEF AskedKept
<1> QED
  BY <1>2, <1>3

LEMMA OrderNext == TypeOK /\ OrderInv /\ [Next]_vars => OrderInv'
<1> SUFFICES ASSUME TypeOK, OrderInv, [Next]_vars PROVE OrderInv'
  OBVIOUS
<1>1. /\ NumbersInOrder /\ JobPrepared /\ NumbersBegun
      /\ CancelPhases /\ NotYetAsked /\ AskedKept /\ StartedStays
  BY DEF OrderInv
<1>2. CancelPhases' /\ NotYetAsked' /\ TypeOK'
  BY <1>1, PhasesNext, NotYetNext, TypeNext
<1>3. CASE NothingDeleted
  <2>1. stale' = stale
    BY <1>3, StaleKept
  <2>2. AskedKept'
    BY <1>3, <2>1, PollingNext DEF AskedKept
  <2>3. StartedStays'
    BY <1>1, <1>3, <2>1, StartedNext DEF StartedStays, Exists, Numbers
  <2> QED
    BY <1>1, <1>2, <1>3, <2>2, <2>3, BegunNext, JobStays DEF OrderInv
<1>4. CASE ~NothingDeleted
  (* Of who is not stale now nothing was there to be deleted.               *)
  <2>1. \A c \in Clients \ stale' :
          /\ c \notin stale /\ pc[c] \in {"prepare", "read"}
          /\ UNCHANGED <<by, pc, prev, build, target>>
          /\ DeleteJob => pc[c] = "prepare"
    BY <1>4, DeletionMakesStale
  <2>2. DeleteJob \/ \E n \in Numbers : DeleteBuild(n)
    BY <1>4 DEF NothingDeleted
  <2>3. NumbersInOrder'
    <3>1. \A n \in Numbers : n >= next' => builds'[n] = "none"
      BY <1>1, <2>2 DEF DeleteJob, DeleteBuild, NumbersInOrder, TypeOK
    <3>2. \A n \in Numbers : by'[n] \cap Clients \subseteq stale'
      BY <1>1, <2>1 DEF NotYetAsked
    <3> QED
      BY <3>1, <3>2 DEF NumbersInOrder, Numbers
  <2>4. JobPrepared'
    BY <1>1, <2>1, <2>2 DEF JobPrepared, DeleteJob, DeleteBuild
  <2>5. NumbersBegun'
    <3>1. next' > 0
      BY <1>2 DEF TypeOK
    <3>2. \A c \in Clients \ stale' : prev'[c] = 0 /\ build'[c] = 0 /\ target'[c] = 0
      BY <1>1, <2>1 DEF CancelPhases
    <3> QED
      BY <3>1, <3>2 DEF NumbersBegun, Begun
  <2>6. AskedKept' /\ StartedStays'
    BY <1>1, <2>1 DEF AskedKept, StartedStays, NotYetAsked, Numbers
  <2> QED
    BY <1>2, <2>3, <2>4, <2>5, <2>6 DEF OrderInv
<1> QED
  BY <1>3, <1>4

LEMMA OrderAlways == Spec => [](TypeOK /\ OrderInv)
BY TypeInit, TypeNext, OrderInit, OrderNext, PTL DEF Spec

-----------------------------------------------------------------------------
(* What a command reports.                                                 *)

(* A command comes to report a build from the poll that saw a new number,  *)
(* and keeps to that build.                                                *)
LEMMA ReportingStep ==
  ASSUME TypeOK, CancelPhases, [Next]_vars, NEW c \in Clients, Reported(c)'
  PROVE  \/ Reported(c) /\ UNCHANGED <<prev[c], build[c]>>
         \/ pc[c] = "poll" /\ prev'[c] = prev[c] /\ LastIs(build'[c]) /\ build'[c] # prev[c]
<1> USE DEF TypeOK, CancelPhases, Reported, Goto
<1>1. ASSUME NEW d \in Clients, Step(d) \/ TimeOut(d)
      PROVE  \/ Reported(c) /\ UNCHANGED <<prev[c], build[c]>>
             \/ pc[c] = "poll" /\ prev'[c] = prev[c] /\ LastIs(build'[c]) /\ build'[c] # prev[c]
  <2>1. CASE ReadPrevious(d)
    BY <2>1 DEF ReadPrevious
  <2>2. CASE RequestBuild(d)
    BY <2>2 DEF RequestBuild
  <2>3. CASE PollLastBuild(d)
    BY <2>3 DEF PollLastBuild
  <2>4. CASE Prepare(d) \/ TailLog(d) \/ Verdict(d) \/ TimeOut(d)
    BY <2>4 DEF Prepare, TailLog, Verdict, TimeOut
  <2>5. CASE CancelRead(d)
    BY <2>5 DEF CancelRead
  <2>6. CASE StopBuild(d)
    BY <2>6 DEF StopBuild
  <2>7. CASE CancelPoll(d)
    BY <2>7 DEF CancelPoll
  <2> QED
    BY <1>1, <2>1, <2>2, <2>3, <2>4, <2>5, <2>6, <2>7 DEF Step
<1>2. CASE UNCHANGED <<pc, prev, build>>
  BY <1>2
<1> QED
  BY <1>1, <1>2
     DEF Next, Environment, StartBuild, SomeoneRequests, DeleteJob, CreateJob, FinishBuild,
         DiscardBuild, DeleteBuild, Finished, vars

(* Nothing is deleted in a step after which a command has reported a build, *)
(* or is done, and is not stale.                                           *)
LEMMA ReportsUndisturbed ==
  ASSUME [Next]_vars, NEW c \in Clients \ stale', Reported(c)' \/ pc'[c] = "ok"
  PROVE  NothingDeleted /\ c \notin stale
<1>1. NothingDeleted
  BY DeletionMakesStale DEF Reported
<1> QED
  BY <1>1, StaleKept

LEMMA ReportedNext ==
  TypeOK /\ OrderInv /\ NewBuildReported /\ [Next]_vars => NewBuildReported'
<1> SUFFICES ASSUME TypeOK, OrderInv, NewBuildReported, [Next]_vars,
                    NEW c \in Clients \ stale', Reported(c)'
             PROVE  build'[c] > prev'[c] /\ build'[c] < next'
  BY DEF NewBuildReported
<1>1. /\ NumbersInOrder /\ NumbersBegun /\ CancelPhases
      /\ NothingDeleted /\ c \notin stale
  BY ReportsUndisturbed DEF OrderInv
<1>2. build'[c] < next'
  BY <1>1, BegunNext DEF NumbersBegun, Begun
<1>3. CASE Reported(c) /\ UNCHANGED <<prev[c], build[c]>>
  BY <1>1, <1>2, <1>3 DEF NewBuildReported
<1>4. CASE prev'[c] = prev[c] /\ LastIs(build'[c]) /\ build'[c] # prev[c]
  <2>1. Begun(prev[c]) /\ prev[c] \in 0..MaxBuilds /\ build'[c] \in 0..MaxBuilds
    BY <1>1, TypeNext DEF NumbersBegun, TypeOK
  <2>2. build'[c] > prev[c]
    BY <1>4, <2>1, TriggerAssumption DEF LastIs, Begun, Numbers
  <2> QED
    BY <1>2, <1>4, <2>2
<1> QED
  BY <1>1, <1>3, <1>4, ReportingStep

(* Without a deletion in its middle a command reports only a build that     *)
(* began after the one it had read.                                        *)
THEOREM NewBuildIsReported == Spec => []NewBuildReported
<1>1. Init => NewBuildReported
  BY DEF Init, NewBuildReported, Reported
<1> QED
  BY <1>1, OrderAlways, ReportedNext, PTL DEF Spec

LEMMA NotLostNext ==
  TypeOK /\ OrderInv /\ RequestNotLost /\ [Next]_vars => RequestNotLost'
<1> SUFFICES ASSUME TypeOK, OrderInv, RequestNotLost, [Next]_vars,
                    NEW c \in Clients \ stale', Reported(c)'
             PROVE  Asked(c)'
  BY DEF RequestNotLost
<1>1. /\ NumbersInOrder /\ NumbersBegun /\ CancelPhases /\ AskedKept
      /\ NothingDeleted /\ c \notin stale
  BY ReportsUndisturbed DEF OrderInv
<1>2. Asked(c) /\ prev'[c] = prev[c]
  BY <1>1, ReportingStep DEF RequestNotLost, AskedKept
<1> QED
  BY <1>1, <1>2, AskedStays

(* ... and never for a request that Jenkins does not have.                 *)
THEOREM RequestIsNotLost == Spec => []RequestNotLost
<1>1. Init => RequestNotLost
  BY DEF Init, RequestNotLost, Reported
<1> QED
  BY <1>1, OrderAlways, NotLostNext, PTL DEF Spec

(* Nor does a command wait for a build of its own that it has missed.      *)
THEOREM WaitIsForTheQueue == Spec => []WaitsOnlyWhileQueued
<1>1. TypeOK /\ OrderInv => WaitsOnlyWhileQueued
  <2> SUFFICES ASSUME TypeOK, OrderInv,
                      NEW c \in Clients \ stale, pc[c] = "poll", LastIs(prev[c]), c \notin queue
               PROVE  FALSE
    BY DEF WaitsOnlyWhileQueued
  <2>1. PICK n \in Numbers : n > prev[c] /\ c \in by[n]
    BY DEF OrderInv, AskedKept, Asked
  <2>2. PICK m \in Numbers : m >= n /\ Exists(m)
    BY <2>1 DEF OrderInv, StartedStays
  <2>3. m > prev[c]
    BY <2>1, <2>2, TriggerAssumption DEF Numbers, TypeOK
  <2> QED
    BY <2>2, <2>3 DEF LastIs
<1> QED
  BY <1>1, OrderAlways, PTL DEF Spec

-----------------------------------------------------------------------------
(* Results are final until they are discarded, and what --cancel stops.    *)

(* How a build's state can change.                                         *)
LEMMA BuildMoves ==
  ASSUME TypeOK, NumbersInOrder, [Next]_vars, NEW n \in Numbers
  PROVE  \/ builds'[n] = builds[n]
         \/ n = next /\ builds[n] = "none" /\ builds'[n] = "running"
         \/ builds'[n] = "none"
         \/ builds[n] \in Live /\ builds'[n] \in {"SUCCESS", "FAILURE"}
         \/ builds[n] = "stopping" /\ builds'[n] = "ABORTED"
         \/ /\ builds[n] \in Live /\ builds'[n] = "stopping"
            /\ \E c \in Clients : StopBuild(c) /\ build[c] = n
<1> DEFINE Moved ==
      \/ builds'[n] = builds[n]
      \/ n = next /\ builds[n] = "none" /\ builds'[n] = "running"
      \/ builds'[n] = "none"
      \/ builds[n] \in Live /\ builds'[n] \in {"SUCCESS", "FAILURE"}
      \/ builds[n] = "stopping" /\ builds'[n] = "ABORTED"
      \/ /\ builds[n] \in Live /\ builds'[n] = "stopping"
         /\ \E c \in Clients : StopBuild(c) /\ build[c] = n
<1> USE DEF TypeOK
<1>1. ASSUME NEW c \in Clients, StopBuild(c) PROVE Moved
  <2>1. \/ builds' = builds
        \/ Exists(build[c]) /\ builds' = [builds EXCEPT ![build[c]] = IF @ \in Live THEN "stopping" ELSE @]
    BY <1>1 DEF StopBuild
  <2> QED
    BY <1>1, <2>1
<1>2. ASSUME StartBuild PROVE Moved
  BY <1>2 DEF StartBuild, NumbersInOrder, Numbers
<1>3. ASSUME NEW m \in Numbers, FinishBuild(m) PROVE Moved
  BY <1>3 DEF FinishBuild
<1>4. ASSUME NEW m \in Numbers, DiscardBuild(m) PROVE Moved
  BY <1>4 DEF DiscardBuild
<1>5. ASSUME builds' = builds PROVE Moved
  BY <1>5
<1>6. ASSUME DeleteJob \/ \E m \in Numbers : DeleteBuild(m) PROVE Moved
  BY <1>6 DEF DeleteJob, DeleteBuild
<1> HIDE DEF Moved
<1>7. Moved
  BY <1>1, <1>2, <1>3, <1>4, <1>5, <1>6
     DEF Next, Step, Environment, TimeOut, Prepare, ReadPrevious, RequestBuild, PollLastBuild, TailLog,
         Verdict, CancelRead, CancelPoll, SomeoneRequests, CreateJob, Finished, vars, server
<1> QED
  BY <1>7 DEF Moved

LEMMA TargetsNext ==
  TypeOK /\ OrderInv /\ OnlyTargetsStop /\ [Next]_vars => OnlyTargetsStop'
<1> SUFFICES ASSUME TypeOK, OrderInv, OnlyTargetsStop, [Next]_vars,
                    NEW n \in Numbers, builds'[n] \in {"stopping", "ABORTED"}
             PROVE  \E c \in Clients : Mode[c] = "cancel" /\ target'[c] = n
  BY DEF OnlyTargetsStop, Numbers
<1>1. NumbersInOrder /\ CancelPhases
  BY DEF OrderInv
<1>2. CASE builds[n] \in {"stopping", "ABORTED"}
  <2>1. PICK c \in Clients : Mode[c] = "cancel" /\ target[c] = n
    BY <1>1, <1>2 DEF OnlyTargetsStop
  <2>2. target'[c] = target[c]
    BY <1>1, <2>1, NumbersMove DEF CancelPhases, Numbers
  <2> QED
    BY <2>1, <2>2
<1>3. CASE builds[n] \notin {"stopping", "ABORTED"}
  <2>1. PICK c \in Clients : StopBuild(c) /\ build[c] = n
    BY <1>1, <1>3, BuildMoves
  <2>2. target'[c] = n /\ Mode[c] = "cancel"
    BY <1>1, <2>1 DEF StopBuild, CancelPhases, TypeOK
  <2> QED
    BY <2>2
<1> QED
  BY <1>2, <1>3

(* A build that stops early is one that a --cancel had picked.             *)
THEOREM OnlyTargetsAreStopped == Spec => []OnlyTargetsStop
<1>1. Init => OnlyTargetsStop
  BY DEF Init, OnlyTargetsStop
<1> QED
  BY <1>1, OrderAlways, TargetsNext, PTL DEF Spec

(* The calls after which a command is done.                                *)
LEMMA OkStep ==
  ASSUME TypeOK, [Next]_vars, NEW c \in Clients, pc'[c] = "ok"
  PROVE  \/ pc[c] = "ok" /\ UNCHANGED <<prev[c], build[c], target[c]>>
         \/ PollLastBuild(c) \/ Verdict(c) \/ CancelRead(c) \/ CancelPoll(c)
<1> USE DEF TypeOK, Goto
<1>1. ASSUME NEW d \in Clients, Step(d) \/ TimeOut(d)
      PROVE  \/ pc[c] = "ok" /\ UNCHANGED <<prev[c], build[c], target[c]>>
             \/ PollLastBuild(c) \/ Verdict(c) \/ CancelRead(c) \/ CancelPoll(c)
  <2>1. CASE d = c
    BY <1>1, <2>1 DEF Step, TimeOut, Prepare, ReadPrevious, RequestBuild, TailLog, StopBuild
  <2>2. CASE d # c
    BY <1>1, <2>2
       DEF Step, TimeOut, Prepare, ReadPrevious, RequestBuild, PollLastBuild, TailLog, Verdict, CancelRead,
           StopBuild, CancelPoll
  <2> QED
    BY <2>1, <2>2
<1>2. CASE UNCHANGED <<pc, prev, build, target>>
  BY <1>2
<1> QED
  BY <1>1, <1>2
     DEF Next, Environment, StartBuild, SomeoneRequests, DeleteJob, CreateJob, FinishBuild,
         DiscardBuild, DeleteBuild, Finished, vars

LEMMA CancelNext ==
  TypeOK /\ OrderInv /\ CancelOkMeansStoppedOrNewer /\ [Next]_vars
    => CancelOkMeansStoppedOrNewer'
<1> SUFFICES ASSUME TypeOK, OrderInv, CancelOkMeansStoppedOrNewer, [Next]_vars,
                    NEW c \in Clients \ stale', pc'[c] = "ok", target'[c] # 0, builds'[target'[c]] \in Live
             PROVE  \E n \in Numbers : n > target'[c] /\ Exists(n)'
  BY DEF CancelOkMeansStoppedOrNewer, Numbers
<1>1. /\ NumbersInOrder /\ NumbersBegun /\ CancelPhases
      /\ NothingDeleted /\ c \notin stale
  BY ReportsUndisturbed DEF OrderInv
<1>2. target'[c] = target[c]
  BY OkStep DEF PollLastBuild, Verdict, CancelRead, CancelPoll
<1>3. target[c] \in Numbers /\ target[c] # next
  BY <1>1, <1>2, TriggerAssumption DEF NumbersBegun, Begun, TypeOK, Numbers
<1>4. builds[target[c]] \in Live
  BY <1>1, <1>2, <1>3, BuildMoves DEF Live, Results
<1>5. pc[c] = "ok" \/ CancelPoll(c)
  BY <1>1, <1>2, OkStep DEF CancelPhases, PollLastBuild, Verdict, CancelRead
<1>6. \E n \in Numbers : n > target[c] /\ Exists(n)
  <2>1. CASE pc[c] = "ok"
    BY <1>1, <1>2, <1>4, <2>1 DEF CancelOkMeansStoppedOrNewer
  <2>2. CASE CancelPoll(c)
    <3>1. PICK n \in 0..MaxBuilds : LastIs(n) /\ n # 0 /\ builds[n] \notin Live
      BY <2>2 DEF CancelPoll, Goto, TypeOK
    <3>2. n \in Numbers /\ Exists(n) /\ n # target[c] /\ Exists(target[c])
      BY <1>3, <1>4, <3>1 DEF LastIs, Exists, Live
    <3> QED
      BY <1>3, <3>1, <3>2, TriggerAssumption DEF LastIs, Numbers
  <2> QED
    BY <1>5, <2>1, <2>2
<1>7. PICK n \in Numbers : n > target[c] /\ Exists(n)
  BY <1>6
<1>8. PICK k \in Numbers : k >= n /\ Exists(k)'
  BY <1>1, <1>7, ServerForward
<1>9. k > target'[c]
  BY <1>2, <1>3, <1>7, <1>8, TriggerAssumption DEF Numbers
<1> QED
  BY <1>8, <1>9

(* A successful --cancel leaves its build running only behind a newer one. *)
THEOREM CancelIsStoppedOrNewer == Spec => []CancelOkMeansStoppedOrNewer
<1>1. Init => CancelOkMeansStoppedOrNewer
  BY DEF Init, CancelOkMeansStoppedOrNewer
<1> QED
  BY <1>1, OrderAlways, CancelNext, PTL DEF Spec

LEMMA TailNext ==
  TypeOK /\ OrderInv /\ NewBuildReported /\ TailOkMeansSuccess /\ [Next]_vars
    => TailOkMeansSuccess'
<1> SUFFICES ASSUME TypeOK, OrderInv, NewBuildReported, TailOkMeansSuccess, [Next]_vars,
                    NEW c \in Clients \ stale', pc'[c] = "ok", Mode[c] = "tail"
             PROVE  (build[c] > prev[c] /\ builds[build[c]] \in {"SUCCESS", "none"})'
  BY DEF TailOkMeansSuccess
<1>1. /\ NumbersInOrder /\ NumbersBegun /\ CancelPhases
      /\ NothingDeleted /\ c \notin stale
  BY ReportsUndisturbed DEF OrderInv
<1>2. CASE pc[c] = "ok" /\ UNCHANGED <<prev[c], build[c], target[c]>>
  <2>1. build[c] > prev[c] /\ builds[build[c]] \in {"SUCCESS", "none"}
    BY <1>1, <1>2 DEF TailOkMeansSuccess
  <2>2. build[c] \in Numbers /\ build[c] # next
    BY <1>1, <2>1, TriggerAssumption DEF NumbersBegun, Begun, TypeOK, Numbers
  <2>3. builds'[build[c]] \in {"SUCCESS", "none"}
    BY <1>1, <2>1, <2>2, BuildMoves DEF Live
  <2> QED
    BY <1>2, <2>1, <2>3
<1>3. CASE Verdict(c)
  <2>1. builds[build[c]] = "SUCCESS" /\ UNCHANGED <<builds, build, prev>>
    BY <1>3 DEF Verdict, Goto, TypeOK, server
  <2>2. build[c] > prev[c]
    BY <1>1, <1>3 DEF NewBuildReported, Reported, Verdict
  <2> QED
    BY <2>1, <2>2
<1>4. CASE PollLastBuild(c) \/ CancelRead(c) \/ CancelPoll(c)
  BY <1>1, <1>4 DEF PollLastBuild, CancelRead, CancelPoll, CancelPhases, Goto, TypeOK
<1> QED
  BY <1>2, <1>3, <1>4, OkStep

(* --tail succeeds only on a new build that succeeded: a result is final,  *)
(* until the build is discarded.                                           *)
THEOREM TailOkIsSuccess == Spec => []TailOkMeansSuccess
<1>1. Init => TailOkMeansSuccess
  BY DEF Init, TailOkMeansSuccess
<1> QED
  BY <1>1, OrderAlways, NewBuildIsReported, TailNext, PTL DEF Spec

-----------------------------------------------------------------------------
(* The request is made once, whatever is deleted or discarded.             *)

LEMMA AskedOnceNext ==
  TypeOK /\ NotYetAsked /\ OneBuildPerCommand /\ [Next]_vars => OneBuildPerCommand'
<1> SUFFICES ASSUME TypeOK, NotYetAsked, OneBuildPerCommand, [Next]_vars, NEW c \in Clients
             PROVE  \A n \in Numbers : c \in by'[n] =>
                      c \notin queue' /\ \A m \in Numbers \ {n} : c \notin by'[m]
  BY DEF OneBuildPerCommand
<1>1. ASSUME NEW d \in Clients, Step(d) \/ TimeOut(d)
      PROVE  by' = by /\ (c \in queue' /\ c \notin queue => pc[c] = "request")
  BY <1>1, RequestStep
<1>2. CASE StartBuild
  <2>1. CASE c \in queue
    BY <1>2, <2>1, StartMoves DEF OneBuildPerCommand
  <2>2. CASE c \notin queue
    BY <1>2, <2>2, StartMoves DEF OneBuildPerCommand
  <2> QED
    BY <2>1, <2>2
<1>3. CASE by' = by /\ (c \in queue' => c \in queue)
  BY <1>3 DEF OneBuildPerCommand
<1>4. CASE \E d \in Clients : Step(d) \/ TimeOut(d)
  BY <1>1, <1>4 DEF NotYetAsked, OneBuildPerCommand
<1>5. Someone # c
  BY TriggerAssumption
<1> QED
  BY <1>2, <1>3, <1>4, <1>5
     DEF Next, Environment, SomeoneRequests, DeleteJob, CreateJob, FinishBuild, DiscardBuild,
         DeleteBuild, Finished, vars

(* Jenkins builds at most once for a command, lost replies or not.         *)
THEOREM OneBuildEach == Spec => []OneBuildPerCommand
<1>1. Init => OneBuildPerCommand
  BY DEF Init, OneBuildPerCommand
<1>2. OrderInv => NotYetAsked
  BY DEF OrderInv
<1> QED
  BY <1>1, <1>2, OrderAlways, AskedOnceNext, PTL DEF Spec
=============================================================================
