-------------------------- MODULE JobListing_proof --------------------------
(***************************************************************************)
(* Proofs about JobListing, for every set of paths, every filter and every *)
(* bound on faults and edits.                                              *)
(***************************************************************************)
EXTENDS JobListing, JenkinsTree_proof, WellFoundedInduction

LEMMA TypeInit == Init => TypeOK
BY ListingAssumption DEF Init, InitNoName, TypeOK, TreeInit, There, Pipelines, Kinds

LEMMA TypeNext == TypeOK /\ [Next]_vars => TypeOK'
<1> SUFFICES ASSUME TypeOK, [Next]_vars PROVE TypeOK'
  OBVIOUS
<1> USE DEF TypeOK
<1>a. MaxFaults \in Nat /\ MaxEdits \in Nat
  BY ListingAssumption
<1>b. (Fault \/ NoFault) => faults' \in 0..MaxFaults
  BY <1>a DEF Fault, NoFault
<1>c. Edit => edits' \in 0..MaxEdits
  BY <1>a DEF Edit
<1>d. ASSUME NEW read, NEW list, Collect(read, list)
      PROVE  /\ pending' \in SUBSET Paths /\ found' \in SUBSET Paths
             /\ asked' \in [Paths -> Nat]
             /\ pc' \in {"list", "walk", "ok", "error"}
  BY <1>d DEF Collect, GoOn, Pipelines, Shown, There
<1>e. \A p \in Paths : There(Children(p)) \in SUBSET Paths
  BY DEF There, Children
<1>1. CASE ListTop
  BY <1>1, <1>b, <1>d DEF ListTop, GiveUp, server
<1>2. ASSUME NEW p \in Paths, ReadItem(p) PROVE TypeOK'
  <2>1. UNCHANGED <<server, walk, root, edits>>
    BY <1>2 DEF ReadItem
  <2>2. /\ pending' \in SUBSET Paths /\ found' \in SUBSET Paths
        /\ pc' \in {"list", "walk", "ok", "error"} /\ faults' \in 0..MaxFaults
        /\ asked' \in [Paths -> Nat] /\ unread' \in SUBSET Paths
    <3>1. CASE ReadJobs(p)
      BY <1>b, <1>d, <3>1 DEF ReadJobs
    <3>2. CASE ReadNames(p)
      BY <1>b, <1>e, <3>2 DEF ReadNames, GoOn, GiveUp
    <3> QED
      BY <1>2, <3>1, <3>2 DEF ReadItem
  <2> QED
    BY <2>1, <2>2 DEF server
<1>3. ASSUME NEW p \in Paths, NEW kind \in Kinds, UserAdds(p, kind) PROVE TypeOK'
  BY <1>3, <1>c DEF UserAdds, AddItem, Kinds
<1>4. ASSUME NEW q \in Paths, UserRemoves(q) PROVE TypeOK'
  BY <1>4, <1>c DEF UserRemoves, RemoveItem, Kinds
<1>5. CASE UNCHANGED vars
  BY <1>5 DEF vars
<1> QED
  BY <1>1, <1>2, <1>3, <1>4, <1>5 DEF Next, Step

(* Every variable keeps its type.                                          *)
THEOREM TypeCorrect == Spec => []TypeOK
BY TypeInit, TypeNext, PTL DEF Spec

-----------------------------------------------------------------------------
(* Of two items another one is in, the upper one holds the lower one.       *)
LEMMA WithinComparable ==
  ASSUME NEW p \in Paths, NEW q \in Paths, NEW r \in Paths,
         WithinFolder(p, q), WithinFolder(p, r), Len(q) <= Len(r)
  PROVE  WithinFolder(r, q)
<1>1. /\ p \in Seq(Names) /\ Len(p) \in Nat /\ Len(q) \in Nat \ {0} /\ Len(r) \in Nat \ {0}
      /\ SubSeq(p, 1, Len(q)) = q /\ SubSeq(p, 1, Len(r)) = r /\ Len(r) <= Len(p)
  BY PathFacts DEF WithinFolder
<1>2. SubSeq(SubSeq(p, 1, Len(r)), 1, Len(q)) = SubSeq(p, 1, Len(q))
  BY <1>1, SubSeqOfSubSeq
<1> QED
  BY <1>1, <1>2 DEF WithinFolder

(* What has been read is in nothing unread, so nothing in an item that is   *)
(* still pending has been reached.                                          *)
LEMMA PendingHoldsUnreached ==
  ASSUME TypeOK, ReadInv, pc = "walk", NEW p \in pending, NEW q \in Paths,
         WithinFolder(q, p), q # p
  PROVE  ~Reached(q)
<1>1. p \in Paths /\ asked[p] = 0
  BY DEF TypeOK, ReadInv, PendingUnread
<1>2. walk = "names" => Len(p) >= Len(root)
  BY <1>1 DEF ReadInv, ReachedBelowRoot, Reached
<1> QED
  BY <1>1, <1>2 DEF ReadInv, ReachedFromAbove

(* A list whose items, and all that is in them, have not been reached: the  *)
(* items they are in have been read, and so have those shown with jobs.     *)
LEMMA CollectReads ==
  ASSUME TypeOK, ReadInv, walk = "jobs", walk' = "jobs",
         NEW read \in SUBSET pending, NEW list \in SUBSET Paths, Collect(read, list),
         \A p \in pending : asked[p] = 0,
         \A q \in Paths, top \in list : WithinFolder(q, top) => ~Reached(q),
         \A q \in Paths, top \in list :
            WithinFolder(top, q) /\ q # top => q \in read \/ asked[q] > 0
  PROVE  ReadInv'
<1>1. PICK nested \in SUBSET Folders :
        /\ nested \subseteq Shown(list, nested)
        /\ asked' = [p \in Paths |-> IF p \in read \cup nested THEN asked[p] + 1 ELSE asked[p]]
        /\ pending' \subseteq (pending \ read) \cup (Shown(list, nested) \ nested)
        /\ pc' # "list"
  BY DEF Collect, GoOn
<1> DEFINE shown == Shown(list, nested)
<1>2. \A p \in shown :
        /\ p \in Paths
        /\ \E top \in list : /\ WithinFolder(p, top)
                             /\ \A r \in Paths : OnTheWay(r, p, top) => r \in nested
  BY DEF Shown, There
<1>3. \A p \in shown : ~Reached(p)
  BY <1>2
<1>4. nested \subseteq shown
  BY <1>1
<1>5. pending' \subseteq (pending \ read) \cup (shown \ nested)
  BY <1>1
<1> HIDE DEF shown
<1>6. \A p \in Paths : /\ asked[p] \in Nat
                       /\ asked'[p] = IF p \in read \cup nested THEN asked[p] + 1 ELSE asked[p]
                       /\ asked[p] > 0 => asked'[p] > 0
  BY <1>1 DEF TypeOK
<1>7. \A p \in shown : asked[p] = 0 /\ p \notin pending
  BY <1>2, <1>3, <1>6 DEF Reached
<1>8. ReachedFromAbove'
  <2> SUFFICES ASSUME NEW p \in Paths, NEW q \in Paths, Reached(p)', WithinFolder(p, q), q # p
               PROVE  asked'[q] > 0
    BY DEF ReachedFromAbove
  <2>1. Reached(p) \/ p \in shown
    BY <1>4, <1>5, <1>6 DEF Reached
  <2>2. CASE Reached(p)
    BY <1>6, <2>2 DEF ReadInv, ReachedFromAbove
  <2>3. CASE p \in shown
    <3>1. PICK top \in list : /\ WithinFolder(p, top)
                              /\ \A r \in Paths : OnTheWay(r, p, top) => r \in nested
      BY <1>2, <2>3
    <3>2. top \in Paths /\ Len(top) \in Nat /\ Len(q) \in Nat
      BY PathFacts
    <3>3. CASE WithinFolder(q, top)
      BY <1>6, <3>1, <3>3 DEF OnTheWay
    <3>4. CASE ~WithinFolder(q, top)
      <4>1. WithinFolder(top, q) /\ q # top
        BY <3>1, <3>2, <3>4, WithinComparable, PathFacts
      <4> QED
        BY <1>6, <4>1
    <3> QED
      BY <3>3, <3>4
  <2> QED
    BY <2>1, <2>2, <2>3
<1>9. PendingUnread'
  <2> SUFFICES ASSUME NEW p \in pending' PROVE asked'[p] = 0
    BY DEF PendingUnread
  <2>1. CASE p \in pending \ read
    BY <1>4, <1>6, <1>7, <2>1 DEF TypeOK
  <2>2. CASE p \in shown \ nested
    BY <1>2, <1>6, <1>7, <2>2
  <2> QED
    BY <1>5, <2>1, <2>2
<1>10. ReadOnce'
  <2> SUFFICES ASSUME NEW p \in Paths PROVE asked'[p] <= 1
    BY DEF ReadOnce
  <2>1. p \in read \cup nested => asked[p] = 0
    BY <1>4, <1>7
  <2>2. asked[p] <= 1
    BY DEF ReadInv, ReadOnce
  <2> QED
    BY <1>6, <2>1, <2>2
<1>11. ListedFirst' /\ ReachedBelowRoot'
  BY <1>1 DEF ListedFirst, ReachedBelowRoot
<1> QED
  BY <1>8, <1>9, <1>10, <1>11 DEF ReadInv

LEMMA ReadInit == Init => ReadInv
<1> SUFFICES ASSUME Init PROVE ReadInv
  OBVIOUS
<1> USE DEF Init, Reached
<1>1. \A p \in Paths : asked[p] = 0 /\ Len(p) \in Nat
  BY PathFacts
<1>2. ReachedFromAbove
  <2> SUFFICES ASSUME NEW p \in Paths, NEW q \in Paths, Reached(p), WithinFolder(p, q), q # p,
                      walk = "names" => Len(q) >= Len(root)
               PROVE  FALSE
    BY DEF ReachedFromAbove
  <2>1. walk = "names" /\ p = root
    BY <1>1
  <2>2. Len(q) < Len(p)
    BY WithinLength
  <2> QED
    BY <1>1, <2>1, <2>2
<1>3. ReachedBelowRoot
  BY <1>1 DEF ReachedBelowRoot
<1>4. PendingUnread /\ ListedFirst /\ ReadOnce
  BY <1>1 DEF PendingUnread, ListedFirst, ReadOnce
<1> QED
  BY <1>2, <1>3, <1>4 DEF ReadInv

LEMMA ReadNext == TypeOK /\ ReadInv /\ [Next]_vars => ReadInv'
<1> SUFFICES ASSUME TypeOK, ReadInv, [Next]_vars PROVE ReadInv'
  OBVIOUS
<1> USE DEF Reached
<1>a. /\ \A p \in Paths : Len(p) \in Nat \ {0} /\ asked[p] \in Nat
      /\ pending \in SUBSET Paths /\ root \in Paths
  BY PathFacts DEF TypeOK
<1>1. CASE ListTop
  <2>1. /\ walk = "jobs" /\ UNCHANGED <<walk, root>>
        /\ \A p \in Paths : ~Reached(p)
    BY <1>1 DEF ListTop, ReadInv, ListedFirst
  <2>2. CASE Collect({}, There(Top))
    <3>1. /\ There(Top) \in SUBSET Paths
          /\ \A q \in Paths, top \in There(Top) : ~(WithinFolder(top, q) /\ q # top)
      <4>1. \A top \in There(Top) : top \in Paths /\ Len(top) = 1
        BY DEF There, Top
      <4>2. ASSUME NEW q \in Paths, NEW top \in There(Top), WithinFolder(top, q), q # top
            PROVE  FALSE
        <5>1. Len(q) < 1
          BY <4>1, <4>2, WithinLength
        <5> QED
          BY <1>a, <5>1
      <4> QED
        BY <4>1, <4>2
    <3> QED
      BY <1>a, <2>1, <2>2, <3>1, CollectReads
  <2>3. CASE GiveUp /\ UNCHANGED asked
    BY <2>1, <2>3 DEF GiveUp, ReadInv, ReachedFromAbove, ReachedBelowRoot, PendingUnread,
                      ListedFirst, ReadOnce
  <2> QED
    BY <1>1, <2>2, <2>3 DEF ListTop
<1>2. ASSUME NEW p \in Paths, ReadItem(p) PROVE ReadInv'
  <2>1. /\ p \in pending /\ asked[p] = 0 /\ pc = "walk" /\ UNCHANGED <<walk, root>>
        /\ \A q \in pending : asked[q] = 0
    BY <1>2 DEF ReadItem, ReadInv, PendingUnread
  <2>2. \A q \in Children(p) : /\ q \in Paths /\ WithinFolder(q, p) /\ q # p
                               /\ Len(q) = Len(p) + 1
                               /\ \A r \in Paths : WithinFolder(q, r) /\ r # q => WithinFolder(p, r)
    <3> SUFFICES ASSUME NEW q \in Children(p)
                 PROVE  /\ q \in Paths /\ WithinFolder(q, p) /\ q # p
                        /\ Len(q) = Len(p) + 1
                        /\ \A r \in Paths : WithinFolder(q, r) /\ r # q => WithinFolder(p, r)
      OBVIOUS
    <3>1. q \in Paths /\ Len(q) = Len(p) + 1 /\ Parent(q) = p
      BY DEF Children
    <3>2. Len(q) > 1
      BY <1>a, <3>1
    <3> QED
      BY <1>a, <3>1, <3>2, ParentFacts
  <2>3. \A q \in Paths, top \in Children(p) : WithinFolder(q, top) => ~Reached(q)
    <3> SUFFICES ASSUME NEW q \in Paths, NEW top \in Children(p), WithinFolder(q, top)
                 PROVE  ~Reached(q)
      OBVIOUS
    <3>1. WithinFolder(q, p)
      BY <2>2, WithinTransitive
    <3>2. q # p
      BY <1>a, <2>2 DEF WithinFolder
    <3> QED
      BY <2>1, <3>1, <3>2, PendingHoldsUnreached
  <2>4. \A q \in Paths : WithinFolder(p, q) /\ q # p /\ (walk = "names" => Len(q) >= Len(root))
                         => asked[q] > 0
    BY <2>1 DEF ReadInv, ReachedFromAbove
  <2>5. CASE walk = "jobs"
    <3>1. walk' = "jobs" /\ {p} \in SUBSET pending
      BY <2>1, <2>5
    <3>2. CASE Collect({p}, There(Children(p)))
      <4>1. There(Children(p)) \subseteq Children(p) /\ There(Children(p)) \in SUBSET Paths
        BY DEF There, Children
      <4>2. \A q \in Paths, top \in There(Children(p)) :
              WithinFolder(top, q) /\ q # top => q \in {p} \/ asked[q] > 0
        BY <2>2, <2>4, <2>5, <4>1
      <4> QED
        BY <2>1, <2>3, <2>5, <3>1, <3>2, <4>1, <4>2, CollectReads
    <3>3. CASE Collect({p}, {})
      BY <2>1, <2>5, <3>1, <3>3, CollectReads
    <3> QED
      BY <1>2, <2>5, <3>2, <3>3 DEF ReadItem, ReadJobs
  <2>6. CASE walk # "jobs"
    <3>1. walk = "names" /\ walk' = "names"
      BY <2>1, <2>6 DEF TypeOK
    <3>2. /\ \A q \in Paths : asked'[q] = IF q = p THEN 1 ELSE asked[q]
          /\ \/ pending' \subseteq (pending \ {p}) \cup Children(p) /\ pc' \in {"walk", "ok"}
             \/ pending' = pending /\ pc' = "error"
      BY <1>2, <2>1, <2>6 DEF TypeOK, ReadItem, ReadNames, GoOn, GiveUp, There
    <3>3. \A q \in Paths :
            /\ asked'[q] > 0 \/ q \in pending' => Reached(q) \/ q \in Children(p)
            /\ asked[q] > 0 => asked'[q] > 0
      BY <1>a, <2>1, <3>2
    <3>4. ReachedFromAbove'
      <4> SUFFICES ASSUME NEW q \in Paths, NEW r \in Paths, asked'[q] > 0 \/ q \in pending',
                          WithinFolder(q, r), r # q, Len(r) >= Len(root)
                   PROVE  asked'[r] > 0
        BY <2>1, <3>1 DEF ReachedFromAbove
      <4>1. CASE Reached(q)
        BY <3>3, <4>1 DEF ReadInv, ReachedFromAbove
      <4>2. CASE q \in Children(p)
        BY <2>2, <2>4, <3>2, <3>3, <4>2
      <4>3. Reached(q) \/ q \in Children(p)
        BY <3>3
      <4> HIDE DEF Reached
      <4> QED
        BY <4>1, <4>2, <4>3
    <3>5. ReachedBelowRoot'
      <4> SUFFICES ASSUME NEW q \in Paths, asked'[q] > 0 \/ q \in pending'
                   PROVE  Len(q) >= Len(root)
        BY <2>1 DEF ReachedBelowRoot
      <4>1. Len(p) >= Len(root) /\ (Reached(q) => Len(q) >= Len(root))
        BY <2>1, <3>1 DEF ReadInv, ReachedBelowRoot
      <4>2. Reached(q) \/ q \in Children(p)
        BY <3>3
      <4> HIDE DEF Reached
      <4>3. q \in Children(p) => Len(q) = Len(p) + 1
        BY <2>2
      <4>4. Len(p) \in Nat /\ Len(root) \in Nat /\ Len(q) \in Nat
        BY <1>a
      <4> QED
        BY <4>1, <4>2, <4>3, <4>4
    <3>6. PendingUnread'
      <4> SUFFICES ASSUME pc' = "walk", NEW q \in pending' PROVE asked'[q] = 0
        BY DEF PendingUnread
      <4>1. CASE q \in Children(p)
        <5>1. q \in Paths /\ q # p /\ ~Reached(q)
          BY <2>2, <2>3, <4>1, PathFacts
        <5> QED
          BY <1>a, <3>2, <5>1
      <4>2. CASE q \in pending \ {p}
        BY <1>a, <2>1, <3>2, <4>2
      <4> QED
        BY <3>2, <4>1, <4>2
    <3>7. ListedFirst' /\ ReadOnce'
      BY <2>1, <3>2 DEF ListedFirst, ReadInv, ReadOnce
    <3> QED
      BY <3>4, <3>5, <3>6, <3>7 DEF ReadInv
  <2> QED
    BY <2>5, <2>6
<1>3. ASSUME UNCHANGED <<walk, root, pc, pending, asked>> PROVE ReadInv'
  BY <1>3 DEF ReadInv, ReachedFromAbove, ReachedBelowRoot, PendingUnread, ListedFirst, ReadOnce
<1> QED
  BY <1>1, <1>2, <1>3 DEF Next, Step, UserAdds, UserRemoves, vars

(* A walk reads no item twice, whatever users add and delete meanwhile.     *)
THEOREM ItemsAreReadOnce == Spec => []ReadOnce
<1>1. Init => TypeOK /\ ReadInv
  BY TypeInit, ReadInit
<1>2. TypeOK /\ ReadInv /\ [Next]_vars => (TypeOK /\ ReadInv)'
  BY TypeNext, ReadNext
<1>3. TypeOK /\ ReadInv => ReadOnce
  BY DEF ReadInv
<1> QED
  BY <1>1, <1>2, <1>3, PTL DEF Spec

-----------------------------------------------------------------------------
(* The next item on the way down from one that is there to a pipeline that  *)
(* is in it: it is there, among what Jenkins lists, and unless it is the    *)
(* pipeline itself it is a folder.                                          *)
LEMMA WayDown ==
  ASSUME TypeOK, WellFormed(items), NEW p \in Paths, items[p] = "pipeline",
         NEW q \in Paths, WithinFolder(p, q), q # p
  PROVE  /\ Present(q)
         /\ \E r \in There(Children(q)) :
              WithinFolder(p, r) /\ (r # p => items[r] = "folder")
<1>1. Len(q) \in Nat \ {0} /\ Len(q) < Len(p) /\ SubSeq(p, 1, Len(q)) = q
  BY PathFacts, WithinLength DEF WithinFolder
<1>2. PICK r \in Paths : Len(r) = Len(q) + 1 /\ WithinFolder(p, r) /\ Parent(r) = q
  <2>1. \A n \in Nat \ {0} : n < Len(p) =>
          \E r \in Paths : Len(r) = n + 1 /\ WithinFolder(p, r) /\ Parent(r) = SubSeq(p, 1, n)
    <3> SUFFICES ASSUME NEW n \in Nat \ {0}, n < Len(p)
                 PROVE  \E r \in Paths : /\ Len(r) = n + 1 /\ WithinFolder(p, r)
                                         /\ Parent(r) = SubSeq(p, 1, n)
      OBVIOUS
    <3>1. n \in Nat /\ n > 0
      OBVIOUS
    <3> QED
      BY <3>1, PrefixStep
  <2> QED
    BY <1>1, <2>1
<1>3. \A s \in Paths : WithinFolder(p, s) /\ s # p => items[s] = "folder"
  BY DEF WellFormed
<1>4. Present(q)
  BY <1>3 DEF Present
<1>5. Present(r) /\ (r # p => items[r] = "folder")
  BY <1>2, <1>3 DEF Present
<1> QED
  BY <1>2, <1>4, <1>5 DEF There, Children

LEMMA TopOnTheWay ==
  ASSUME TypeOK, WellFormed(items), NEW p \in Paths, items[p] = "pipeline"
  PROVE  \E r \in There(Top) : WithinFolder(p, r) /\ (r # p => items[r] = "folder")
<1>1. Len(p) \in Nat \ {0}
  BY PathFacts
<1>2. PICK r \in Paths : Len(r) = 1 /\ WithinFolder(p, r)
  BY <1>1, PrefixStep
<1>3. r # p => items[r] = "folder"
  BY <1>2 DEF WellFormed
<1>4. Present(r)
  BY <1>3 DEF Present
<1> QED
  BY <1>2, <1>3, <1>4 DEF There, Top

(* A pipeline holds nothing.                                                *)
LEMMA PipelineHoldsNothing ==
  ASSUME WellFormed(items), NEW p \in Paths, items[p] = "pipeline"
  PROVE  There(Children(p)) = {}
<1> SUFFICES ASSUME NEW q \in There(Children(p)) PROVE FALSE
  OBVIOUS
<1>1. q \in Paths /\ items[q] # "absent" /\ Len(q) = Len(p) + 1 /\ Parent(q) = p
  BY DEF There, Children, Present
<1>2. Len(q) > 1
  BY <1>1, PathFacts
<1>3. WithinFolder(q, p)
  BY <1>1, <1>2, ParentFacts
<1>4. p # q
  BY <1>1, PathFacts
<1>5. items[p] = "folder"
  BY <1>1, <1>3, <1>4 DEF WellFormed
<1> QED
  BY <1>5

(* A set of natural numbers has a least one.                                *)
LEMMA LeastNumber ==
  ASSUME NEW S \in SUBSET Nat, S # {}
  PROVE  \E m \in S : \A k \in S : m <= k
<1> DEFINE R == OpToRel(<, Nat)
<1>1. IsWellFoundedOn(R, Nat)
  BY NatLessThanWellFounded
<1>2. \A x, y \in Nat : x < y => <<x, y>> \in R
  BY DEF OpToRel
<1> HIDE DEF R
<1>3. S \subseteq Nat
  OBVIOUS
<1>4. \E m \in S : \A k \in S : ~(<<k, m>> \in R)
  BY <1>1, <1>3, WFMin, Zenon
<1>5. PICK m \in S : \A k \in S : ~(<<k, m>> \in R)
  BY <1>4, Zenon
<1>6. ASSUME NEW k \in S PROVE m <= k
  <2>1. k \in Nat /\ m \in Nat
    OBVIOUS
  <2>2. ~(k < m)
    BY <1>2, <1>5, <2>1, Zenon
  <2> QED
    BY <2>1, <2>2
<1> QED
  BY <1>6

(* The loop over a list: a pipeline that is sought and in a listed item is  *)
(* found if it is shown, and else the uppermost item on the way to it that  *)
(* is shown without its jobs stays to be read.                              *)
LEMMA CollectSought ==
  ASSUME TypeOK, WellFormed(items), NEW p \in Paths, p \in Matching, items[p] = "pipeline",
         walk' = "jobs", NEW read, NEW list \in SUBSET Paths, Collect(read, list),
         NEW top \in list, WithinFolder(p, top)
  PROVE  p \in found' \/ Awaited(p)'
<1>1. PICK nested \in SUBSET Folders :
        /\ Pipelines(Shown(list, nested)) \cap Matching \subseteq found'
        /\ Shown(list, nested) \ (Pipelines(Shown(list, nested)) \cup nested) \subseteq pending'
  BY DEF Collect, GoOn
<1>2. CASE p \in Shown(list, nested)
  BY <1>1, <1>2 DEF Pipelines
<1>3. CASE p \notin Shown(list, nested)
  <2> DEFINE Open == {r \in Paths : OnTheWay(r, p, top) /\ r \notin nested}
             Depths == {Len(r) : r \in Open}
  <2>1. Open # {}
    BY <1>3 DEF Shown, There, Present
  <2>2. Depths \in SUBSET Nat /\ Depths # {}
    BY <2>1, PathFacts
  <2> HIDE DEF Depths
  <2>3. PICK m \in Depths : \A k \in Depths : m <= k
    BY <2>2, LeastNumber
  <2>4. PICK r \in Open : \A q \in Open : Len(r) <= Len(q)
    BY <2>3 DEF Depths
  <2>5. r \in Paths /\ WithinFolder(p, r) /\ r # p /\ WithinFolder(r, top) /\ r \notin nested
    BY DEF OnTheWay
  <2>6. items[r] = "folder"
    BY <2>5 DEF WellFormed
  <2>7. \A q \in Paths : OnTheWay(q, r, top) => q \in nested
    <3> SUFFICES ASSUME NEW q \in Paths, OnTheWay(q, r, top), q \notin nested PROVE FALSE
      OBVIOUS
    <3>1. WithinFolder(r, q) /\ q # r /\ WithinFolder(q, top)
      BY DEF OnTheWay
    <3>2. WithinFolder(p, q)
      BY <2>5, <3>1, WithinTransitive
    <3>3. Len(q) < Len(r) /\ Len(r) < Len(p)
      BY <2>5, <3>1, WithinLength
    <3>4. Len(q) \in Nat /\ Len(r) \in Nat /\ Len(p) \in Nat
      BY <2>5, PathFacts
    <3>5. q # p
      BY <3>3, <3>4
    <3>6. q \in Open
      BY <3>1, <3>2, <3>5 DEF OnTheWay
    <3> QED
      BY <2>4, <3>3, <3>4, <3>6
  <2>8. r \in Shown(list, nested)
    BY <2>5, <2>6, <2>7 DEF Shown, There, Present
  <2>9. r \in pending'
    BY <1>1, <2>5, <2>6, <2>8 DEF Pipelines
  <2> QED
    BY <2>5, <2>9 DEF Awaited
<1> QED
  BY <1>2, <1>3

(* Whoever works on the server meanwhile, the tree stays one, and what is   *)
(* called steady is there and is what it was.                               *)
LEMMA ServerStays ==
  ASSUME TypeOK, SteadyAreThere, [Next]_vars
  PROVE  /\ SteadyAreThere'
         /\ \A p \in steady' : p \in steady /\ items'[p] = items[p]
<1>0. /\ items \in [Paths -> Kinds \cup {"absent"}] /\ WellFormed(items)
      /\ \A p \in steady : p \in Paths /\ Present(p)
  BY DEF TypeOK, SteadyAreThere, There
<1>1. ASSUME NEW r \in Paths, NEW kind \in Kinds, UserAdds(r, kind)
      PROVE  /\ SteadyAreThere'
             /\ \A p \in steady' : p \in steady /\ items'[p] = items[p]
  <2>1. Accepts(r) /\ AddItem(r, kind) /\ steady' = steady
    BY <1>1 DEF UserAdds
  <2>2. WellFormed(items')
    BY <1>0, <2>1, AddKeepsWellFormed
  <2>3. \A p \in steady : p # r /\ items'[p] = items[p]
    BY <1>0, <2>1 DEF Accepts, AddItem
  <2> QED
    BY <1>0, <2>1, <2>2, <2>3 DEF SteadyAreThere, WellFormed, There, Present
<1>2. ASSUME NEW r \in Paths, UserRemoves(r)
      PROVE  /\ SteadyAreThere'
             /\ \A p \in steady' : p \in steady /\ items'[p] = items[p]
  <2>1. RemoveItem(r) /\ steady' = {p \in steady : ~WithinFolder(p, r)}
    BY <1>2 DEF UserRemoves
  <2>2. WellFormed(items')
    BY <1>0, <2>1, RemoveKeepsWellFormed
  <2>3. \A p \in steady' : p \in steady /\ items'[p] = items[p]
    BY <1>0, <2>1 DEF RemoveItem
  <2> QED
    BY <1>0, <2>2, <2>3 DEF SteadyAreThere, WellFormed, There, Present
<1>3. CASE UNCHANGED <<items, steady>>
  BY <1>3 DEF SteadyAreThere, WellFormed, There, Present
<1> QED
  BY <1>1, <1>2, <1>3 DEF Next, Step, ListTop, ReadItem, vars, server

LEMMA WalkInit == Init => WalkInv
<1> SUFFICES ASSUME Init PROVE WalkInv
  OBVIOUS
<1>1. SteadyAreThere
  BY DEF Init, TreeInit, SteadyAreThere
<1>2. NothingLeft
  BY DEF Init, NothingLeft
<1>3. SoughtNotLost
  BY DEF Init, SoughtNotLost, Sought, InQuestion, Awaited
<1> QED
  BY <1>1, <1>2, <1>3 DEF WalkInv

LEMMA WalkNext == TypeOK /\ WalkInv /\ [Next]_vars => WalkInv'
<1> SUFFICES ASSUME TypeOK, WalkInv, [Next]_vars PROVE WalkInv'
  OBVIOUS
<1>a. SteadyAreThere /\ NothingLeft /\ SoughtNotLost /\ WellFormed(items)
  BY DEF WalkInv, SteadyAreThere
<1>b. /\ SteadyAreThere'
      /\ \A p \in steady' : p \in steady /\ items'[p] = items[p]
  BY <1>a, ServerStays
<1>c. \A read, list : Collect(read, list) =>
        /\ pc' \in {"walk", "ok"} /\ (pc' = "ok" => pending' = {})
        /\ pending \ read \subseteq pending' /\ found \subseteq found'
  BY DEF Collect, GoOn
<1>1. CASE ListTop
  <2>1. /\ pc = "list" /\ walk = "jobs" /\ walk' = "jobs" /\ UNCHANGED <<items, steady>>
        /\ (Collect({}, There(Top)) /\ NoFault) \/ GiveUp
    BY <1>1, <1>a DEF ListTop, NothingLeft, server
  <2>2. NothingLeft'
    BY <1>c, <2>1 DEF NothingLeft, GiveUp
  <2>3. SoughtNotLost'
    <3> SUFFICES ASSUME pc' \in {"walk", "ok"}, NEW p \in Sought'
                 PROVE  p \in found' \/ Awaited(p)' \/ PassedOver(p)'
      BY DEF SoughtNotLost
    <3>1. p \in steady /\ items[p] = "pipeline" /\ p \in Matching
      BY <2>1 DEF Sought, Pipelines, InQuestion
    <3>2. Collect({}, There(Top))
      BY <2>1 DEF GiveUp
    <3>3. p \in Paths /\ There(Top) \in SUBSET Paths
      BY <3>1 DEF TypeOK, There, Top
    <3> QED
      BY <1>a, <2>1, <3>1, <3>2, <3>3, TopOnTheWay, CollectSought
  <2> QED
    BY <1>b, <2>2, <2>3 DEF WalkInv
<1>2. ASSUME NEW q \in Paths, ReadItem(q) PROVE WalkInv'
  <2>1. /\ pc = "walk" /\ q \in pending /\ UNCHANGED <<items, steady, walk, root>>
    BY <1>2 DEF ReadItem, server
  <2>2. NothingLeft'
    <3>1. CASE ReadJobs(q)
      BY <1>c, <2>1, <3>1 DEF ReadJobs, NothingLeft
    <3>2. CASE ReadNames(q)
      BY <2>1, <3>2 DEF ReadNames, GoOn, GiveUp, NothingLeft
    <3> QED
      BY <1>2, <3>1, <3>2 DEF ReadItem
  <2>3. SoughtNotLost'
    <3> SUFFICES ASSUME pc' \in {"walk", "ok"}, NEW p \in Sought'
                 PROVE  p \in found' \/ Awaited(p)' \/ PassedOver(p)'
      BY DEF SoughtNotLost
    <3>1. p \in steady /\ items[p] = "pipeline" /\ p \in Sought
      BY <2>1 DEF Sought, Pipelines, InQuestion
    <3>2. p \in Paths
      BY <3>1 DEF TypeOK
    <3>3. PassedOver(p) => PassedOver(p)'
      BY <1>2, <2>1 DEF ReadItem, ReadJobs, PassedOver
    <3>4. p \in found \/ Awaited(p) \/ PassedOver(p)
      BY <1>a, <2>1, <3>1 DEF SoughtNotLost
    <3>5. CASE walk = "jobs"
      <4>1. p \in Matching /\ walk' = "jobs" /\ ReadJobs(q)
        BY <1>2, <2>1, <3>1, <3>5 DEF ReadItem, Sought, InQuestion
      <4>2. found \subseteq found' /\ pending \ {q} \subseteq pending'
        BY <1>c, <4>1 DEF ReadJobs
      <4>3. CASE WithinFolder(p, q) /\ q # p
        <5>1. /\ Present(q) /\ There(Children(q)) \in SUBSET Paths
              /\ \E r \in There(Children(q)) : WithinFolder(p, r)
          BY <1>a, <3>1, <3>2, <4>3, WayDown DEF There, Children
        <5>2. CASE Collect({q}, There(Children(q)))
          BY <1>a, <3>1, <3>2, <4>1, <5>1, <5>2, CollectSought
        <5>3. CASE q \in unread'
          BY <4>1, <4>3, <5>3 DEF PassedOver
        <5> QED
          BY <4>1, <5>1, <5>2, <5>3 DEF ReadJobs
      <4>4. CASE ~(WithinFolder(p, q) /\ q # p)
        BY <3>3, <3>4, <3>5, <4>1, <4>2, <4>4 DEF Awaited
      <4> QED
        BY <4>3, <4>4
    <3>6. CASE walk # "jobs"
      <4>1. /\ walk = "names" /\ walk' = "names"
        BY <2>1, <3>6 DEF TypeOK
      <4>2. /\ found' = IF There(Children(q)) = {} THEN found \cup {q} ELSE found
            /\ pending' = (pending \ {q}) \cup There(Children(q))
        BY <1>2, <3>6 DEF ReadItem, ReadNames, GiveUp, GoOn
      <4>3. CASE q = p
        BY <1>a, <3>1, <3>2, <4>2, <4>3, PipelineHoldsNothing
      <4>4. CASE WithinFolder(p, q) /\ q # p
        <5>1. \E r \in There(Children(q)) : WithinFolder(p, r)
          BY <1>a, <3>1, <3>2, <4>4, WayDown
        <5> QED
          BY <4>1, <4>2, <5>1 DEF Awaited
      <4>5. CASE ~WithinFolder(p, q)
        BY <3>4, <4>1, <4>2, <4>5 DEF Awaited, PassedOver
      <4> QED
        BY <4>3, <4>4, <4>5
    <3> QED
      BY <3>5, <3>6
  <2> QED
    BY <1>b, <2>2, <2>3 DEF WalkInv
<1>3. ASSUME UNCHANGED <<walk, root, pc, pending, found, unread>> PROVE WalkInv'
  <2>1. NothingLeft'
    BY <1>3, <1>a DEF NothingLeft
  <2>2. \A p \in Sought' : p \in Sought
    BY <1>3, <1>b DEF Sought, Pipelines, InQuestion
  <2>3. \A p : Awaited(p)' = Awaited(p) /\ PassedOver(p)' = PassedOver(p)
    BY <1>3 DEF Awaited, PassedOver
  <2>4. SoughtNotLost'
    BY <1>3, <1>a, <2>2, <2>3 DEF SoughtNotLost
  <2> QED
    BY <1>b, <2>1, <2>4 DEF WalkInv
<1> QED
  BY <1>1, <1>2, <1>3 DEF Next, Step, UserAdds, UserRemoves, vars

(* A walk that succeeds has found every pipeline in question that was there *)
(* all the time and is in no item it could not read: the way down to it      *)
(* never leaves what is still to be read.                                   *)
THEOREM SteadyPipelinesAreFound == Spec => []SteadyPipelinesFound
<1>1. Init => TypeOK /\ WalkInv
  BY TypeInit, WalkInit
<1>2. TypeOK /\ WalkInv /\ [Next]_vars => (TypeOK /\ WalkInv)'
  BY TypeNext, WalkNext
<1>3. TypeOK /\ WalkInv => SteadyPipelinesFound
  <2> SUFFICES ASSUME WalkInv, pc = "ok", NEW p \in Pipelines(steady) \cap InQuestion
               PROVE  p \in found \/ PassedOver(p)
    BY DEF SteadyPipelinesFound
  <2>1. pending = {}
    BY DEF WalkInv, NothingLeft
  <2>2. p \in found \/ Awaited(p) \/ PassedOver(p)
    BY DEF WalkInv, SoughtNotLost, Sought
  <2> QED
    BY <2>1, <2>2 DEF Awaited
<1> QED
  BY <1>1, <1>2, <1>3, PTL DEF Spec

-----------------------------------------------------------------------------
LEMMA SeenInit == Init => SeenInv
BY DEF Init, SeenInv, ListedWerePipelines

LEMMA SeenNext == TypeOK /\ SeenInv /\ [Next]_vars => SeenInv'
<1> SUFFICES ASSUME TypeOK, SeenInv, [Next]_vars PROVE SeenInv'
  OBVIOUS
<1>1. ASSUME NEW read, NEW list, Collect(read, list), UNCHANGED <<items, seen, walk>>
      PROVE  SeenInv'
  BY <1>1 DEF SeenInv, ListedWerePipelines, Collect, Pipelines, Shown, There
<1>2. ASSUME UNCHANGED <<items, seen, walk>>, walk = "names" \/ found' = found PROVE SeenInv'
  BY <1>2 DEF SeenInv, ListedWerePipelines, Pipelines
<1>3. CASE ListTop
  BY <1>1, <1>2, <1>3 DEF ListTop, GiveUp, server
<1>4. ASSUME NEW p \in Paths, ReadItem(p) PROVE SeenInv'
  <2>1. CASE walk = "jobs"
    BY <1>1, <1>4, <2>1 DEF ReadItem, ReadJobs, server
  <2>2. CASE walk # "jobs"
    BY <1>2, <1>4, <2>2 DEF ReadItem, server, TypeOK
  <2> QED
    BY <2>1, <2>2
<1>5. ASSUME NEW p \in Paths, NEW kind \in Kinds, UserAdds(p, kind) PROVE SeenInv'
  <2>1. \A q \in Paths : items'[q] = IF q = p THEN kind ELSE items[q]
    BY <1>5 DEF UserAdds, AddItem, TypeOK
  <2>2. seen \subseteq seen' /\ (kind = "pipeline" => p \in seen') /\ UNCHANGED <<walk, found>>
    BY <1>5 DEF UserAdds
  <2> QED
    BY <2>1, <2>2 DEF SeenInv, ListedWerePipelines, Pipelines
<1>6. ASSUME NEW q \in Paths, UserRemoves(q) PROVE SeenInv'
  <2>1. \A p \in Paths : items'[p] \in {"absent", items[p]}
    BY <1>6 DEF UserRemoves, RemoveItem
  <2>2. UNCHANGED <<seen, walk, found>>
    BY <1>6 DEF UserRemoves
  <2> QED
    BY <2>1, <2>2 DEF SeenInv, ListedWerePipelines, Pipelines
<1>7. CASE UNCHANGED vars
  BY <1>7 DEF vars, server, SeenInv, ListedWerePipelines, Pipelines
<1> QED
  BY <1>3, <1>4, <1>5, <1>6, <1>7 DEF Next, Step

(* Whatever `tp jobs` lists was a matching pipeline at some time of the walk. *)
THEOREM ListedArePipelines == Spec => []ListedWerePipelines
<1>1. Init => TypeOK /\ SeenInv
  BY TypeInit, SeenInit
<1>2. TypeOK /\ SeenInv /\ [Next]_vars => (TypeOK /\ SeenInv)'
  BY TypeNext, SeenNext
<1>3. TypeOK /\ SeenInv => ListedWerePipelines
  BY DEF SeenInv
<1> QED
  BY <1>1, <1>2, <1>3, PTL DEF Spec
=============================================================================
