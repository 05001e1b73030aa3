---------------------- MODULE StandalonePipeline_proof ----------------------
(***************************************************************************)
(* Proofs about StandalonePipeline, for every set of commands, every tree  *)
(* and every bound on faults and user edits.                               *)
(***************************************************************************)
EXTENDS StandalonePipeline, SequenceTheorems, FiniteSetTheorems, WellFoundedInduction, TLAPS

(* The i-th prefix of a command's path is a path of length i, and the      *)
(* prefix before it is its parent.                                         *)
LEMMA PrefixFacts ==
  ASSUME NEW c \in Clients, NEW i \in 1..Last(c)
  PROVE  /\ Prefix(c, i) \in Paths
         /\ Len(Prefix(c, i)) = i
         /\ i > 1 => Parent(Prefix(c, i)) = Prefix(c, i - 1)
<1>1. JenkinsPath[c] \in Seq(Names) /\ Last(c) \in Nat
  BY ClientsAssumption, PathsAssumption, LenProperties DEF Last
<1>2. Prefix(c, i) \in Paths
  BY ClientsAssumption
<1>3. Len(Prefix(c, i)) = i
  BY <1>1, SubSeqProperties DEF Prefix, Last
<1>4. ASSUME i > 1 PROVE Parent(Prefix(c, i)) = Prefix(c, i - 1)
  <2>1. SubSeq(SubSeq(JenkinsPath[c], 1, i), 1, i - 1) = SubSeq(JenkinsPath[c], 1, i - 1)
    BY <1>1, <1>4, SubSeqOfSubSeq DEF Last
  <2> QED
    BY <1>3, <2>1 DEF Parent, Prefix
<1> QED
  BY <1>2, <1>3, <1>4

(* The path a command was given is its own last prefix.                    *)
LEMMA WholePath ==
  ASSUME NEW c \in Clients
  PROVE  /\ JenkinsPath[c] \in Paths
         /\ Last(c) \in Nat \ {0}
         /\ Prefix(c, Last(c)) = JenkinsPath[c]
<1>1. JenkinsPath[c] \in Paths /\ JenkinsPath[c] \in Seq(Names) /\ JenkinsPath[c] # <<>>
  BY ClientsAssumption, PathsAssumption
<1>2. Last(c) \in Nat \ {0}
  BY <1>1, EmptySeq, LenProperties DEF Last
<1> QED
  BY <1>1, <1>2, SubSeqFull DEF Prefix, Last

-----------------------------------------------------------------------------
(* Types, and the loop index that stays within the path.                   *)
Typed == TypeOK /\ LoopIndex

LEMMA TypedInit == Init => Typed
BY WholePath, ClientsAssumption
   DEF Init, TreeInit, Typed, TypeOK, LoopIndex, Kinds, Attempts

LEMMA TypedNext == Typed /\ [Next]_vars => Typed'
<1> SUFFICES ASSUME Typed, [Next]_vars PROVE Typed'
  OBVIOUS
<1> USE DEF Typed, TypeOK, LoopIndex, Kinds, Attempts
<1>a. \A d \in Clients : Last(d) \in Nat \ {0} /\ JenkinsPath[d] \in Paths
  BY WholePath
<1>b. MaxFaults \in Nat /\ MaxEdits \in Nat
  BY ClientsAssumption
<1>c. (Fault \/ NoFault) => faults' \in 0..MaxFaults
  BY <1>b DEF Fault, NoFault
<1>1. ASSUME NEW c \in Clients, LookUpItem(c) PROVE Typed'
  <2>1. faults' \in 0..MaxFaults
    BY <1>1, <1>c DEF LookUpItem
  <2> QED
    BY <1>1, <1>a, <2>1 DEF LookUpItem, NextSegment
<1>2. ASSUME NEW c \in Clients, CreateItem(c) PROVE Typed'
  <2>1. faults' \in 0..MaxFaults
    BY <1>2, <1>c DEF CreateItem
  <2>2. Here(c) \in Paths /\ KindAt(c, seg[c]) \in Kinds
    BY <1>2, <1>a, PrefixFacts DEF CreateItem, Here, KindAt
  <2>3. items' \in [Paths -> Kinds \cup {"absent"}] /\ maker' \in [Paths -> Clients \cup {Nobody}]
    BY <1>2, <2>2 DEF CreateItem, MakeItem, AddItem
  <2>4. (NextSegment(c) /\ UNCHANGED tries) \/ RetryOrFail(c)
    BY <1>2 DEF CreateItem
  <2>5. pc[c] = "create" /\ sent' \in [Clients -> Nat] /\ UNCHANGED <<job, edits, removed>>
    BY <1>2 DEF CreateItem
  <2>6. CASE NextSegment(c) /\ UNCHANGED tries
    BY <1>a, <2>1, <2>3, <2>5, <2>6 DEF NextSegment
  <2>7. CASE RetryOrFail(c)
    BY <1>a, <2>1, <2>3, <2>5, <2>7 DEF RetryOrFail
  <2> QED
    BY <2>4, <2>6, <2>7
<1>3. ASSUME NEW c \in Clients, FetchJob(c) PROVE Typed'
  <2>1. faults' \in 0..MaxFaults
    BY <1>3, <1>c DEF FetchJob
  <2>2. job' \in [Clients -> Kinds \cup {"absent"}]
    BY <1>3, <1>a DEF FetchJob
  <2> QED
    BY <1>3, <1>a, <2>1, <2>2 DEF FetchJob
<1>4. ASSUME NEW p \in Paths, NEW kind \in Kinds, UserAdds(p, kind) PROVE Typed'
  BY <1>4, <1>b DEF UserAdds, AddItem
<1>5. ASSUME NEW p \in Paths, UserRemoves(p) PROVE Typed'
  BY <1>5, <1>b DEF UserRemoves, RemoveItem
<1>6. CASE UNCHANGED vars
  BY <1>6 DEF vars
<1> QED
  BY <1>1, <1>2, <1>3, <1>4, <1>5, <1>6 DEF Next, Step, Finished

(* Types and loop index hold in every reachable state of every instance.   *)
LEMMA TypedAlways == Spec => []Typed
BY TypedInit, TypedNext, PTL DEF Spec

(* Every command's state, the tree and the counters keep their types.      *)
THEOREM TypeCorrect == Spec => []TypeOK
BY TypedAlways, PTL DEF Typed

-----------------------------------------------------------------------------
(* The bound on creation requests.                                         *)
LEMMA CountedInit == Init => RequestsCounted
BY WholePath DEF Init, RequestsCounted, Attempts

LEMMA CountedNext == Typed /\ RequestsCounted /\ [Next]_vars => RequestsCounted'
<1> SUFFICES ASSUME Typed, RequestsCounted, [Next]_vars PROVE RequestsCounted'
  OBVIOUS
<1> USE DEF Typed, TypeOK, LoopIndex, RequestsCounted, Attempts
<1>a. \A d \in Clients : Last(d) \in Nat \ {0}
  BY WholePath
<1>1. ASSUME NEW c \in Clients, LookUpItem(c) PROVE RequestsCounted'
  BY <1>1, <1>a DEF LookUpItem, NextSegment
<1>2. ASSUME NEW c \in Clients, CreateItem(c) PROVE RequestsCounted'
  <2>1. \/ NextSegment(c) /\ UNCHANGED tries
        \/ RetryOrFail(c)
    BY <1>2 DEF CreateItem
  <2>2. pc[c] = "create" /\ sent' = [sent EXCEPT ![c] = @ + 1]
    BY <1>2 DEF CreateItem
  <2>3. CASE NextSegment(c) /\ UNCHANGED tries
    BY <1>a, <2>2, <2>3 DEF NextSegment
  <2>4. CASE RetryOrFail(c)
    BY <1>a, <2>2, <2>4 DEF RetryOrFail
  <2> QED
    BY <2>1, <2>3, <2>4
<1>3. ASSUME NEW c \in Clients, FetchJob(c) PROVE RequestsCounted'
  BY <1>3, <1>a DEF FetchJob
<1>4. CASE UNCHANGED <<pc, seg, tries, sent>>
  BY <1>4
<1> QED
  BY <1>1, <1>2, <1>3, <1>4
     DEF Next, Step, Finished, UserAdds, UserRemoves, vars

(* No schedule of faults, users and other commands makes a command send    *)
(* more than Attempts creation requests per segment of its path.           *)
THEOREM RequestsAreBounded == Spec => []RequestsBounded
<1>1. Typed /\ RequestsCounted => RequestsBounded
  BY WholePath DEF Typed, TypeOK, RequestsCounted, RequestsBounded, Attempts
<1> QED
  BY <1>1, TypedAlways, CountedInit, CountedNext, PTL DEF Spec

-----------------------------------------------------------------------------
(* The loop ensures the segments it goes past.                             *)
LEMMA EnsuredInit == Init => SegmentsEnsured
BY DEF Init, SegmentsEnsured

LEMMA EnsuredNext == Typed /\ SegmentsEnsured /\ [Next]_vars => SegmentsEnsured'
<1> SUFFICES ASSUME Typed, SegmentsEnsured, [Next]_vars,
                    NEW d \in Clients, NEW i \in 1..(seg'[d] - 1)
             PROVE  (Present(Prefix(d, i)) \/ Prefix(d, i) \in removed)'
  BY DEF SegmentsEnsured
<1> USE DEF Typed, TypeOK, LoopIndex
<1>a. \A c \in Clients : Last(c) \in Nat \ {0}
  BY WholePath
<1>b. ASSUME i \in 1..(seg[d] - 1)
      PROVE  Prefix(d, i) \in Paths /\ (Present(Prefix(d, i)) \/ Prefix(d, i) \in removed)
  BY <1>a, <1>b, PrefixFacts DEF SegmentsEnsured
<1>1. ASSUME NEW c \in Clients, LookUpItem(c)
      PROVE  (Present(Prefix(d, i)) \/ Prefix(d, i) \in removed)'
  <2>1. CASE i \in 1..(seg[d] - 1)
    BY <1>1, <1>b, <2>1 DEF LookUpItem, Present
  <2>2. CASE i \notin 1..(seg[d] - 1)
    <3>1. d = c /\ i = seg[d] /\ Present(Here(d)) /\ UNCHANGED items
      BY <1>1, <2>2 DEF LookUpItem, NextSegment
    <3> QED
      BY <3>1 DEF Here, Present
  <2> QED
    BY <2>1, <2>2
<1>2. ASSUME NEW c \in Clients, CreateItem(c)
      PROVE  (Present(Prefix(d, i)) \/ Prefix(d, i) \in removed)'
  <2>1. Here(c) \in Paths /\ KindAt(c, seg[c]) # "absent"
    BY <1>2, <1>a, PrefixFacts DEF CreateItem, Here, KindAt
  <2>2. \A p \in Paths : Present(p) => Present(p)'
    BY <1>2, <2>1 DEF CreateItem, MakeItem, AddItem, Present
  <2>3. CASE i \in 1..(seg[d] - 1)
    BY <1>2, <1>b, <2>2, <2>3 DEF CreateItem
  <2>4. CASE i \notin 1..(seg[d] - 1)
    <3>1. d = c /\ i = seg[d] /\ MakeItem(c)
      BY <1>2, <2>4 DEF CreateItem, NextSegment, RetryOrFail
    <3> QED
      BY <2>1, <3>1 DEF Here, MakeItem, AddItem, Present
  <2> QED
    BY <2>3, <2>4
<1>3. ASSUME NEW p \in Paths, UserRemoves(p)
      PROVE  (Present(Prefix(d, i)) \/ Prefix(d, i) \in removed)'
  BY <1>3, <1>b DEF UserRemoves, RemoveItem, Present
<1>4. ASSUME NEW p \in Paths, NEW kind \in Kinds, UserAdds(p, kind)
      PROVE  (Present(Prefix(d, i)) \/ Prefix(d, i) \in removed)'
  BY <1>4, <1>b DEF UserAdds, AddItem, Present, Kinds
<1>5. ASSUME UNCHANGED <<items, seg, removed>>
      PROVE  (Present(Prefix(d, i)) \/ Prefix(d, i) \in removed)'
  BY <1>5, <1>b DEF Present
<1> QED
  BY <1>1, <1>2, <1>3, <1>4, <1>5 DEF Next, Step, Finished, FetchJob, vars

(* Whatever the other commands, the users and the network do, a segment    *)
(* that a command is past is there unless a user removed it.               *)
THEOREM SegmentsAreEnsured == Spec => []SegmentsEnsured
BY TypedAlways, EnsuredInit, EnsuredNext, PTL DEF Spec

-----------------------------------------------------------------------------
(* What a command leaves behind.                                           *)
LEMMA FootprintInit == Init => OwnFootprint
BY DEF Init, OwnFootprint

LEMMA FootprintNext == Typed /\ OwnFootprint /\ [Next]_vars => OwnFootprint'
<1> SUFFICES ASSUME Typed, OwnFootprint, [Next]_vars PROVE OwnFootprint'
  OBVIOUS
<1> USE DEF Typed, TypeOK, LoopIndex, OwnFootprint
<1>a. \A c \in Clients : Last(c) \in Nat \ {0}
  BY WholePath
<1>b. Nobody \notin Clients
  BY ClientsAssumption
<1>1. ASSUME UNCHANGED <<items, maker>>, \A c \in Clients : seg'[c] \in Nat /\ seg'[c] >= seg[c]
      PROVE  OwnFootprint'
  BY <1>1, <1>a DEF Present
<1>2. ASSUME NEW c \in Clients, CreateItem(c) PROVE OwnFootprint'
  <2>1. seg[c] \in 1..Last(c) /\ Here(c) \in Paths
    BY <1>2, <1>a, PrefixFacts DEF CreateItem, Here
  <2>2. \A e \in Clients : seg'[e] \in Nat /\ seg'[e] >= seg[e]
    BY <1>2 DEF CreateItem, NextSegment, RetryOrFail
  <2>3. CASE UNCHANGED <<items, maker>>
    BY <1>1, <2>2, <2>3
  <2>4. CASE MakeItem(c)
    <3> SUFFICES ASSUME NEW p \in Paths, Present(p)', maker'[p] # Nobody
                 PROVE  \E i \in 1..Last(maker'[p]) :
                          /\ i <= seg'[maker'[p]]
                          /\ p = Prefix(maker'[p], i)
                          /\ items'[p] = KindAt(maker'[p], i)
      BY DEF KindAt, Prefix, Last
    <3>1. CASE p = Here(c)
      <4>1. maker'[p] = c /\ items'[p] = KindAt(c, seg[c]) /\ seg'[c] >= seg[c]
        BY <2>1, <2>2, <2>4, <3>1 DEF MakeItem, AddItem
      <4>2. p = Prefix(c, seg[c])
        BY <3>1 DEF Here
      <4> QED
        BY <2>1, <4>1, <4>2
    <3>2. CASE p # Here(c)
      <4>1. items'[p] = items[p] /\ maker'[p] = maker[p] /\ Present(p)
        BY <2>1, <2>4, <3>2 DEF MakeItem, AddItem, Present
      <4>2. PICK i \in 1..Last(maker[p]) :
              i <= seg[maker[p]] /\ p = Prefix(maker[p], i) /\ items[p] = KindAt(maker[p], i)
        BY <4>1
      <4>3. maker[p] \in Clients /\ i <= seg'[maker[p]]
        BY <1>a, <2>2, <4>1, <4>2
      <4> QED
        BY <4>1, <4>2, <4>3
    <3> QED
      BY <3>1, <3>2
  <2> QED
    BY <1>2, <2>3, <2>4 DEF CreateItem
<1>3. ASSUME NEW c \in Clients, LookUpItem(c) \/ FetchJob(c) PROVE OwnFootprint'
  BY <1>1, <1>3 DEF LookUpItem, FetchJob, NextSegment
<1>4. ASSUME NEW q \in Paths, NEW kind \in Kinds, UserAdds(q, kind) PROVE OwnFootprint'
  BY <1>4 DEF UserAdds, AddItem, Present
<1>5. ASSUME NEW q \in Paths, UserRemoves(q) PROVE OwnFootprint'
  BY <1>5 DEF UserRemoves, RemoveItem, Present
<1>6. CASE UNCHANGED vars
  BY <1>1, <1>6 DEF vars
<1> QED
  BY <1>2, <1>3, <1>4, <1>5, <1>6 DEF Next, Step, Finished

(* A command leaves only items of its own path, of the right class, and    *)
(* none beyond the segment it reached, also when it fails half way.        *)
THEOREM FootprintIsOwn == Spec => []OwnFootprint
BY TypedAlways, FootprintInit, FootprintNext, PTL DEF Spec

-----------------------------------------------------------------------------
(* Competition for shared folders, without faults and users.               *)

(* Items only disappear when a user removes one.                           *)
LEMMA ItemsStay ==
  ASSUME Typed, [Next]_vars, Quiet'
  PROVE  /\ Quiet
         /\ removed' = removed
         /\ \A p \in Paths : Present(p) => items'[p] = items[p] /\ maker'[p] = maker[p]
         /\ \A c \in Clients : NoConflict(c)' => NoConflict(c)
<1> USE DEF Typed, TypeOK, LoopIndex, Quiet
<1>a. \A c \in Clients : Last(c) \in Nat \ {0}
  BY WholePath
<1>1. Quiet /\ removed' = removed
  BY DEF Next, Step, Finished, LookUpItem, CreateItem, FetchJob, UserAdds, UserRemoves, vars,
         Fault, NoFault
<1>2. \A p \in Paths : Present(p) => items'[p] = items[p] /\ maker'[p] = maker[p]
  <2>1. ASSUME NEW c \in Clients, CreateItem(c) 
      PROVE  \A p \in Paths : Present(p) => items'[p] = items[p] /\ maker'[p] = maker[p]
    <3>1. Here(c) \in Paths
      BY <2>1, <1>a, PrefixFacts DEF CreateItem, Here
    <3> QED
      BY <2>1, <3>1 DEF CreateItem, Accepts, MakeItem, AddItem
  <2>2. CASE UNCHANGED <<items, maker>>
    BY <2>2
  <2> QED
    BY <2>1, <2>2
       DEF Next, Step, Finished, LookUpItem, FetchJob, UserAdds, UserRemoves, vars
<1>3. \A c \in Clients : NoConflict(c)' => NoConflict(c)
  <2> SUFFICES ASSUME NEW c \in Clients, NoConflict(c)', NEW i \in 1..(Last(c) - 1)
               PROVE  items[Prefix(c, i)] # "pipeline"
    BY DEF NoConflict
  <2>1. Prefix(c, i) \in Paths
    BY <1>a, PrefixFacts
  <2>2. items'[Prefix(c, i)] # "pipeline"
    BY DEF NoConflict, Prefix, Last
  <2> QED
    BY <1>2, <2>1, <2>2 DEF Present
<1> QED
  BY <1>1, <1>2, <1>3

LEMMA QuietInit == Init => QuietInv
<1> SUFFICES ASSUME Init PROVE QuietInv
  OBVIOUS
<1> QED
  BY DEF Init, QuietInv, MakersAdvance, TakenByCommand, FailedOnTaken

LEMMA QuietNext == Typed /\ SegmentsEnsured /\ QuietInv /\ [Next]_vars => QuietInv'
<1> SUFFICES ASSUME Typed, SegmentsEnsured, QuietInv, [Next]_vars, Quiet'
             PROVE  (removed = {} /\ MakersAdvance /\ TakenByCommand /\ FailedOnTaken)'
  BY DEF QuietInv
<1>a. \A c \in Clients : Last(c) \in Nat \ {0}
  BY WholePath
<1>b. Nobody \notin Clients
  BY ClientsAssumption
<1>c. Quiet /\ removed = {} /\ MakersAdvance /\ TakenByCommand /\ FailedOnTaken
  BY ItemsStay DEF QuietInv
<1>d. removed' = {}
  BY <1>c, ItemsStay
<1>e. \A p \in Paths : Present(p) => items'[p] = items[p] /\ maker'[p] = maker[p]
  BY ItemsStay
<1>f. \A c \in Clients : NoConflict(c)' => NoConflict(c)
  BY ItemsStay
<1> USE DEF Typed, TypeOK, LoopIndex
<1>g. ~Fault /\ (\A p \in Paths, kind \in Kinds : ~UserAdds(p, kind)) /\ (\A p \in Paths : ~UserRemoves(p))
  BY <1>c DEF Quiet, Fault, UserAdds, UserRemoves
<1>1. ASSUME NEW c \in Clients, LookUpItem(c)
      PROVE  (MakersAdvance /\ TakenByCommand /\ FailedOnTaken)'
  <2>1. UNCHANGED <<items, maker>> /\ pc[c] = "lookup"
    BY <1>1 DEF LookUpItem
  <2>2. \/ Present(Here(c)) /\ NextSegment(c) /\ UNCHANGED tries
        \/ /\ ~Present(Here(c))
           /\ pc' = [pc EXCEPT ![c] = "create"]
           /\ tries' = [tries EXCEPT ![c] = 0]
           /\ UNCHANGED seg
    BY <1>1, <1>g DEF LookUpItem
  <2>3. MakersAdvance'
    BY <1>a, <1>c, <2>1, <2>2 DEF MakersAdvance, Present, NextSegment
  <2>4. TakenByCommand'
    BY <1>a, <1>c, <2>1, <2>2 DEF TakenByCommand, Present, Here, Prefix, Last, NextSegment
  <2>5. FailedOnTaken'
    BY <1>a, <1>c, <1>f, <2>1, <2>2 DEF FailedOnTaken, Present, Here, Prefix, Last, NextSegment
  <2> QED
    BY <2>3, <2>4, <2>5
<1>2. ASSUME NEW c \in Clients, CreateItem(c)
      PROVE  (MakersAdvance /\ TakenByCommand /\ FailedOnTaken)'
  <2>1. seg[c] \in 1..Last(c) /\ Here(c) \in Paths /\ pc[c] = "create"
    BY <1>2, <1>a, PrefixFacts DEF CreateItem, Here
  <2>2. \/ Accepts(Here(c)) /\ MakeItem(c) /\ NextSegment(c) /\ UNCHANGED tries
        \/ ~Accepts(Here(c)) /\ RetryOrFail(c) /\ UNCHANGED <<items, maker>>
    BY <1>2, <1>g DEF CreateItem
  <2>3. CASE Accepts(Here(c)) /\ MakeItem(c) /\ NextSegment(c) /\ UNCHANGED tries
    <3>1. MakersAdvance'
      <4> SUFFICES ASSUME NEW p \in Paths, Present(p)', maker'[p] # Nobody
                   PROVE  \E i \in 1..Last(maker'[p]) : i < seg'[maker'[p]] /\ p = Prefix(maker'[p], i)
        BY DEF MakersAdvance, Prefix, Last
      <4>1. CASE p = Here(c)
        <5>1. maker'[p] = c /\ seg'[c] = seg[c] + 1 /\ p = Prefix(c, seg[c])
          BY <2>1, <2>3, <4>1 DEF MakeItem, NextSegment, Here
        <5> QED
          BY <2>1, <5>1
      <4>2. CASE p # Here(c)
        <5>1. Present(p) /\ maker'[p] = maker[p]
          BY <2>1, <2>3, <4>2 DEF MakeItem, AddItem, Present
        <5> QED
          BY <1>a, <1>c, <2>3, <5>1 DEF MakersAdvance, NextSegment
      <4> QED
        BY <4>1, <4>2
    <3>2. TakenByCommand'
      <4> SUFFICES ASSUME NEW d \in Clients, pc'[d] \in {"create", "error"}, seg'[d] <= Last(d),
                          Present(Here(d))'
                   PROVE  maker'[Here(d)'] # Nobody
        BY DEF TakenByCommand, Last, Here, Prefix
      <4>1. d # c /\ seg'[d] = seg[d] /\ pc[d] = pc'[d] /\ Here(d)' = Here(d)
        BY <2>3 DEF NextSegment, Here, Prefix
      <4>2. CASE Here(d) = Here(c)
        BY <1>b, <2>1, <2>3, <4>1, <4>2 DEF MakeItem
      <4>3. CASE Here(d) # Here(c)
        <5>1. Present(Here(d)) /\ maker'[Here(d)] = maker[Here(d)]
          BY <2>1, <2>3, <4>1, <4>3 DEF MakeItem, AddItem, Present
        <5> QED
          BY <1>c, <4>1, <5>1 DEF TakenByCommand
      <4> QED
        BY <4>2, <4>3
    <3>3. FailedOnTaken'
      <4> SUFFICES ASSUME NEW d \in Clients,
                          (pc'[d] = "create" /\ tries'[d] > 0) \/ pc'[d] = "error",
                          NoConflict(d)'
                   PROVE  seg'[d] <= Last(d) /\ Present(Here(d))'
        BY DEF FailedOnTaken, Last
      <4>1. d # c /\ seg'[d] = seg[d] /\ pc[d] = pc'[d] /\ tries'[d] = tries[d] /\ Here(d)' = Here(d)
        BY <2>3 DEF NextSegment, Here, Prefix
      <4>2. seg[d] <= Last(d) /\ Present(Here(d))
        BY <1>c, <1>f, <4>1 DEF FailedOnTaken
      <4>3. Here(d) \in Paths
        BY <1>a, <4>2, PrefixFacts DEF Here
      <4> QED
        BY <1>e, <4>1, <4>2, <4>3 DEF Present
    <3> QED
      BY <3>1, <3>2, <3>3
  <2>4. CASE ~Accepts(Here(c)) /\ RetryOrFail(c) /\ UNCHANGED <<items, maker>>
    <3>1. MakersAdvance'
      BY <1>a, <1>c, <2>4 DEF MakersAdvance, Present, RetryOrFail
    <3>2. TakenByCommand'
      BY <1>a, <1>c, <2>1, <2>4 DEF TakenByCommand, Present, Here, RetryOrFail
    <3>3. ASSUME NoConflict(c) PROVE Present(Here(c))
      <4>1. CASE seg[c] = 1
        BY <2>1, <2>4, <4>1, PrefixFacts DEF Accepts, Here
      <4>2. CASE seg[c] # 1
        <5>1. seg[c] - 1 \in 1..(seg[c] - 1) /\ seg[c] - 1 \in 1..(Last(c) - 1) /\ seg[c] > 1
          BY <1>a, <2>1, <4>2
        <5>2. Parent(Here(c)) = Prefix(c, seg[c] - 1) /\ Prefix(c, seg[c] - 1) \in Paths
          BY <1>a, <2>1, <5>1, PrefixFacts DEF Here
        <5>3. items[Parent(Here(c))] = "folder"
          BY <1>c, <3>3, <5>1, <5>2 DEF SegmentsEnsured, NoConflict, Present, Kinds
        <5> QED
          BY <2>4, <5>3 DEF Accepts
      <4> QED
        BY <4>1, <4>2
    <3>4. FailedOnTaken'
      BY <1>a, <1>c, <1>f, <2>1, <2>4, <3>3 DEF FailedOnTaken, Present, Here, Prefix, Last, RetryOrFail
    <3> QED
      BY <3>1, <3>2, <3>4
  <2> QED
    BY <2>2, <2>3, <2>4
<1>3. ASSUME NEW c \in Clients, FetchJob(c)
      PROVE  (MakersAdvance /\ TakenByCommand /\ FailedOnTaken)'
  <2>1. seg[c] = Last(c) + 1 /\ Present(JenkinsPath[c])
    BY <1>3, <1>a, <1>c, WholePath DEF FetchJob, SegmentsEnsured
  <2>2. pc' = [pc EXCEPT ![c] = "ok"] /\ UNCHANGED <<items, seg, tries, maker>>
    BY <1>3, <1>g, <2>1 DEF FetchJob
  <2>3. MakersAdvance'
    BY <1>c, <2>2 DEF MakersAdvance, Present
  <2>4. TakenByCommand'
    BY <1>c, <2>2 DEF TakenByCommand, Present, Here
  <2>5. FailedOnTaken'
    BY <1>c, <2>2 DEF FailedOnTaken, Present, Here, NoConflict
  <2> QED
    BY <2>3, <2>4, <2>5
<1>4. CASE UNCHANGED vars
  BY <1>c, <1>4 DEF vars, MakersAdvance, TakenByCommand, FailedOnTaken, Present, Here, NoConflict
<1> QED
  BY <1>d, <1>g, <1>1, <1>2, <1>3, <1>4 DEF Next, Step, Finished

(* A command that works alone, or against commands for other branches,     *)
(* never loses: losing needs a competitor that made the same item and is   *)
(* ahead.                                                                  *)
THEOREM LosersHaveWinners == Spec => []LoserHasWinner
<1>1. Typed /\ QuietInv => LoserHasWinner
  <2> SUFFICES ASSUME Typed, QuietInv, NEW c \in Clients, pc[c] = "error", Quiet, NoConflict(c)
               PROVE  \E d \in Clients \ {c} :
                        seg[c] <= Last(c) /\ maker[Prefix(c, seg[c])] = d /\ seg[d] > seg[c]
    BY DEF LoserHasWinner, Quiet
  <2> DEFINE d == maker[Here(c)]
  <2>1. seg[c] \in 1..Last(c) /\ Present(Here(c)) /\ d # Nobody
    BY WholePath DEF Typed, TypeOK, QuietInv, FailedOnTaken, TakenByCommand
  <2>2. Here(c) \in Paths /\ Len(Here(c)) = seg[c]
    BY <2>1, PrefixFacts DEF Here
  <2>3. d \in Clients
    BY <2>1, <2>2 DEF Typed, TypeOK
  <2>4. PICK i \in 1..Last(d) : i < seg[d] /\ Here(c) = Prefix(d, i)
    BY <2>1, <2>2 DEF QuietInv, MakersAdvance
  <2>5. i = seg[c]
    BY <2>2, <2>3, <2>4, PrefixFacts
  <2> QED
    BY <2>1, <2>3, <2>4, <2>5 DEF Here, Typed, TypeOK
<1> QED
  BY <1>1, TypedAlways, SegmentsAreEnsured, QuietInit, QuietNext, PTL DEF Spec

(* Of finitely many commands one is furthest down its path: the one with   *)
(* the fewest ahead of it.                                                 *)
Ahead(c) == {d \in Clients : seg[d] > seg[c]}

LEMMA SomeoneLeads == Typed => \E c \in Clients : Ahead(c) = {}
<1> SUFFICES ASSUME Typed PROVE \E c \in Clients : Ahead(c) = {}
  OBVIOUS
<1> DEFINE Counts == {Cardinality(Ahead(c)) : c \in Clients}
<1>1. \A c \in Clients : IsFiniteSet(Ahead(c)) /\ Cardinality(Ahead(c)) \in Nat
  <2> SUFFICES ASSUME NEW c \in Clients
               PROVE  IsFiniteSet(Ahead(c)) /\ Cardinality(Ahead(c)) \in Nat
    OBVIOUS
  <2>1. Ahead(c) \subseteq Clients
    BY DEF Ahead
  <2> QED
    BY <2>1, CommandsAssumption, FS_Subset, FS_CardinalityType
<1>2. Counts \subseteq Nat /\ Counts # {}
  BY <1>1, CommandsAssumption
<1> DEFINE Less == {pair \in Nat \X Nat : pair[1] < pair[2]}
<1>3. IsWellFoundedOn(Less, Nat)
  BY NatLessThanWellFounded DEF OpToRel
<1>4. PICK c \in Clients :
        \A d \in Clients : ~(Cardinality(Ahead(d)) < Cardinality(Ahead(c)))
  <2> HIDE DEF Counts, Less
  <2>1. PICK n \in Counts : \A m \in Counts : <<m, n>> \notin Less
    BY <1>2, <1>3, WFMin
  <2>2. \A m \in Counts : ~(m < n)
    BY <1>2, <2>1 DEF Less
  <2> QED
    BY <2>1, <2>2 DEF Counts
<1>5. ASSUME NEW d \in Ahead(c) PROVE FALSE
  <2>1. d \in Clients /\ Ahead(d) \subseteq Ahead(c) /\ Ahead(d) # Ahead(c)
    BY DEF Ahead, Typed, TypeOK
  <2>2. Cardinality(Ahead(d)) < Cardinality(Ahead(c))
    BY <1>1, <2>1, FS_Subset
  <2> QED
    BY <1>4, <2>1, <2>2
<1> QED
  BY <1>5

(* When all have ended without a conflict, the one furthest ahead did not  *)
(* lose: whoever it lost to would be further ahead.                        *)
THEOREM SomeCommandSucceeds == Spec => []SomeoneSucceeds
<1>1. Typed /\ LoserHasWinner => SomeoneSucceeds
  <2> SUFFICES ASSUME Typed, LoserHasWinner, \A c \in Clients : Ended(c) /\ NoConflict(c),
                      faults = 0, edits = 0
               PROVE  \E c \in Clients : pc[c] = "ok"
    BY DEF SomeoneSucceeds
  <2>1. PICK c \in Clients : Ahead(c) = {}
    BY SomeoneLeads
  <2>2. pc[c] # "error"
    BY <2>1 DEF LoserHasWinner, Ahead
  <2> QED
    BY <2>2 DEF Ended
<1> QED
  BY <1>1, TypedAlways, LosersHaveWinners, PTL

-----------------------------------------------------------------------------
(* The calls a command has left.                                           *)

(* When a lookup or a creation has found or made the item, and when a        *)
(* creation is refused: either way fewer are left.                           *)
LEMMA SegmentCounts ==
  ASSUME Typed, NEW c \in Clients, pc[c] \in {"lookup", "create"}, NextSegment(c)
  PROVE  CallsLeft(c)' < CallsLeft(c)
<1>1. /\ Last(c) \in Nat /\ seg[c] \in Nat /\ tries[c] \in 0..3
      /\ seg[c] <= Last(c) /\ (pc[c] = "create" => tries[c] < 3)
  BY WholePath DEF Typed, TypeOK, LoopIndex, Attempts
<1>2. /\ seg'[c] = seg[c] + 1
      /\ pc'[c] = IF seg[c] < Last(c) THEN "lookup" ELSE "fetch"
  BY DEF NextSegment, Typed, TypeOK
<1>3. CallsLeft(c) > 4 * (Last(c) - seg[c]) + 1
  BY <1>1 DEF CallsLeft, Attempts
<1>4. CASE seg[c] < Last(c)
  <2>1. CallsLeft(c)' = 4 * (Last(c) - (seg[c] + 1)) + 5
    BY <1>1, <1>2, <1>4 DEF CallsLeft, Attempts
  <2> QED
    BY <1>1, <1>3, <2>1 DEF CallsLeft, Attempts
<1>5. CASE seg[c] = Last(c)
  <2>1. CallsLeft(c)' = 1
    BY <1>1, <1>2, <1>5 DEF CallsLeft
  <2> QED
    BY <1>1, <1>5, <2>1 DEF CallsLeft, Attempts
<1> QED
  BY <1>1, <1>4, <1>5

LEMMA RetryCounts ==
  ASSUME Typed, NEW c \in Clients, pc[c] = "create", RetryOrFail(c)
  PROVE  CallsLeft(c)' < CallsLeft(c)
<1>1. /\ Last(c) \in Nat /\ seg[c] \in Nat /\ tries[c] \in 0..2
      /\ seg[c] <= Last(c)
  BY WholePath DEF Typed, TypeOK, LoopIndex, Attempts
<1>2. /\ seg'[c] = seg[c] /\ tries'[c] = tries[c] + 1
      /\ pc'[c] = IF tries[c] + 1 >= 3 THEN "error" ELSE "create"
  BY DEF RetryOrFail, Typed, TypeOK, Attempts
<1> QED
  BY <1>1, <1>2 DEF CallsLeft, Attempts

LEMMA CallCounts ==
  ASSUME Typed, NEW c \in Clients, Step(c)
  PROVE  CallsLeft(c)' < CallsLeft(c)
<1>1. CASE pc[c] = "lookup" /\ NextSegment(c)
  BY <1>1, SegmentCounts
<1>2. CASE /\ pc[c] = "lookup" /\ UNCHANGED seg
           /\ pc' = [pc EXCEPT ![c] = "create"] /\ tries' = [tries EXCEPT ![c] = 0]
  <2>1. /\ Last(c) \in Nat /\ seg[c] \in Nat /\ seg'[c] = seg[c]
        /\ pc'[c] = "create" /\ tries'[c] = 0
    BY <1>2, WholePath DEF Typed, TypeOK
  <2> QED
    BY <1>2, <2>1 DEF CallsLeft, Attempts
<1>3. CASE CreateItem(c)
  BY <1>3, SegmentCounts, RetryCounts DEF CreateItem
<1>4. CASE FetchJob(c)
  <2>1. pc[c] = "fetch" /\ pc'[c] \in {"ok", "error"}
    BY <1>4 DEF FetchJob, Typed, TypeOK
  <2> QED
    BY <2>1 DEF CallsLeft
<1> QED
  BY <1>1, <1>2, <1>3, <1>4 DEF Step, LookUpItem

(* Nothing but its own calls moves a command.                              *)
LEMMA OthersDoNotMove ==
  ASSUME Typed, NEW c \in Clients, NEW d \in Clients, Step(d), d # c
  PROVE  UNCHANGED <<pc[c], seg[c], tries[c], job[c], sent[c]>>
BY DEF Step, LookUpItem, CreateItem, FetchJob, NextSegment, RetryOrFail, Typed, TypeOK

(* Every call of a command brings it nearer to its end, so that it makes at *)
(* most four per segment and the fetch: with the fairness of Spec, which is *)
(* what EveryCommandEnds adds, it ends.                                    *)
THEOREM CallsCount == Spec => EveryCallCounts
<1>1. Typed /\ [Next]_vars =>
        [\A c \in Clients :
           CallsLeft(c)' < CallsLeft(c) \/ UNCHANGED <<pc[c], seg[c], tries[c], job[c], sent[c]>>]_vars
  <2> SUFFICES ASSUME Typed, Next, NEW c \in Clients
               PROVE  \/ CallsLeft(c)' < CallsLeft(c)
                      \/ UNCHANGED <<pc[c], seg[c], tries[c], job[c], sent[c]>>
    OBVIOUS
  <2>1. ASSUME NEW d \in Clients, Step(d)
        PROVE  \/ CallsLeft(c)' < CallsLeft(c)
               \/ UNCHANGED <<pc[c], seg[c], tries[c], job[c], sent[c]>>
    BY <2>1, CallCounts, OthersDoNotMove
  <2>2. CASE UNCHANGED <<pc, seg, tries, job, sent>>
    BY <2>2
  <2> QED
    BY <2>1, <2>2 DEF Next, UserAdds, UserRemoves, Finished, vars
<1> QED
  BY <1>1, TypedAlways, PTL DEF Spec, EveryCallCounts
=============================================================================
