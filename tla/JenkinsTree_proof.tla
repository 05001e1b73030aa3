-------------------------- MODULE JenkinsTree_proof --------------------------
(***************************************************************************)
(* Facts about item trees, for every set of paths: prefixes of a path, and *)
(* trees that stay well formed when items are added and removed.           *)
(***************************************************************************)
EXTENDS JenkinsTree, SequenceTheorems, TLAPS

LEMMA PathFacts ==
  ASSUME NEW p \in Paths
  PROVE  /\ p \in Seq(Names)
         /\ Len(p) \in Nat \ {0}
         /\ WithinFolder(p, p)
<1>1. p \in Seq(Names) /\ p # <<>>
  BY PathsAssumption
<1>2. Len(p) \in Nat \ {0}
  BY <1>1, EmptySeq, LenProperties
<1>3. WithinFolder(p, p)
  BY <1>1, <1>2, SubSeqFull DEF WithinFolder
<1> QED
  BY <1>1, <1>2, <1>3

(* A path within another is as long or longer, and the same if as long.    *)
LEMMA WithinLength ==
  ASSUME NEW p \in Paths, NEW q \in Paths, WithinFolder(p, q), q # p
  PROVE  Len(q) < Len(p)
<1>1. Len(p) \in Nat /\ Len(q) \in Nat /\ Len(q) <= Len(p) /\ SubSeq(p, 1, Len(q)) = q
  BY PathFacts DEF WithinFolder
<1>2. SubSeq(p, 1, Len(p)) = p
  BY PathFacts, SubSeqFull
<1> QED
  BY <1>1, <1>2

LEMMA WithinTransitive ==
  ASSUME NEW p \in Paths, NEW q \in Paths, NEW r \in Paths,
         WithinFolder(p, q), WithinFolder(q, r)
  PROVE  WithinFolder(p, r)
<1>1. /\ p \in Seq(Names) /\ q \in Seq(Names)
      /\ Len(p) \in Nat \ {0} /\ Len(q) \in Nat \ {0} /\ Len(r) \in Nat \ {0}
      /\ Len(q) <= Len(p) /\ SubSeq(p, 1, Len(q)) = q
      /\ Len(r) <= Len(q) /\ SubSeq(q, 1, Len(r)) = r
  BY PathFacts DEF WithinFolder
<1>2. SubSeq(SubSeq(p, 1, Len(q)), 1, Len(r)) = SubSeq(p, 1, Len(r))
  BY <1>1, SubSeqOfSubSeq
<1> QED
  BY <1>1, <1>2 DEF WithinFolder

(* The next segment on the way from an item down to one within it.         *)
LEMMA PrefixStep ==
  ASSUME NEW p \in Paths, NEW n \in Nat, n < Len(p)
  PROVE  \E r \in Paths : /\ Len(r) = n + 1 /\ WithinFolder(p, r)
                          /\ n > 0 => Parent(r) = SubSeq(p, 1, n)
<1> DEFINE r == SubSeq(p, 1, n + 1)
<1>1. p \in Seq(Names) /\ Len(p) \in Nat
  BY PathFacts
<1>2. r \in Paths
  BY <1>1, PathsAssumption
<1>3. Len(r) = n + 1
  BY <1>1, SubSeqProperties
<1>4. WithinFolder(p, r)
  BY <1>1, <1>3 DEF WithinFolder
<1>5. ASSUME n > 0 PROVE Parent(r) = SubSeq(p, 1, n)
  <2>1. SubSeq(SubSeq(p, 1, n + 1), 1, n) = SubSeq(p, 1, n)
    BY <1>1, <1>5, SubSeqOfSubSeq
  <2> QED
    BY <1>3, <2>1 DEF Parent
<1> QED
  BY <1>2, <1>3, <1>4, <1>5

(* An item is within its parent, and so is its parent within what it is in.*)
LEMMA ParentFacts ==
  ASSUME NEW p \in Paths, Len(p) > 1
  PROVE  /\ Parent(p) \in Paths /\ Len(Parent(p)) = Len(p) - 1
         /\ WithinFolder(p, Parent(p))
         /\ \A q \in Paths : WithinFolder(p, q) /\ q # p => WithinFolder(Parent(p), q)
<1>1. p \in Seq(Names) /\ Len(p) \in Nat /\ Len(p) - 1 \in 1..Len(p)
  BY PathFacts
<1>2. Parent(p) \in Paths
  BY <1>1, PathsAssumption DEF Parent
<1>3. Len(Parent(p)) = Len(p) - 1
  BY <1>1, SubSeqProperties DEF Parent
<1>4. WithinFolder(p, Parent(p))
  BY <1>1, <1>3 DEF WithinFolder, Parent
<1>5. ASSUME NEW q \in Paths, WithinFolder(p, q), q # p PROVE WithinFolder(Parent(p), q)
  <2>1. Len(q) \in Nat \ {0} /\ Len(q) < Len(p) /\ SubSeq(p, 1, Len(q)) = q
    BY <1>5, WithinLength, PathFacts DEF WithinFolder
  <2>2. SubSeq(SubSeq(p, 1, Len(p) - 1), 1, Len(q)) = SubSeq(p, 1, Len(q))
    BY <1>1, <2>1, SubSeqOfSubSeq
  <2> QED
    BY <1>1, <1>3, <2>1, <2>2 DEF WithinFolder, Parent
<1> QED
  BY <1>2, <1>3, <1>4, <1>5

-----------------------------------------------------------------------------
(* An item that is accepted keeps the tree well formed.                    *)
LEMMA AddKeepsWellFormed ==
  ASSUME items \in [Paths -> Kinds \cup {"absent"}], WellFormed(items),
         NEW r \in Paths, NEW kind \in Kinds, Accepts(r), AddItem(r, kind)
  PROVE  WellFormed(items')
<1> SUFFICES ASSUME NEW p \in Paths, NEW q \in Paths,
                    items'[p] # "absent", WithinFolder(p, q), q # p
             PROVE  items'[q] = "folder"
  BY DEF WellFormed
<1>1. items[r] = "absent" /\ (Len(r) > 1 => items[Parent(r)] = "folder")
  BY DEF Accepts, Present
<1>2. \A s \in Paths : s # r => items'[s] = items[s]
  BY DEF AddItem
<1>3. CASE p = r
  <2>1. Len(r) > 1
    BY <1>3, WithinLength, PathFacts
  <2>2. Parent(r) \in Paths /\ WithinFolder(Parent(r), q)
    BY <1>3, <2>1, ParentFacts
  <2>3. items[Parent(r)] = "folder"
    BY <1>1, <2>1
  <2>4. items[q] = "folder"
    BY <2>2, <2>3 DEF WellFormed
  <2> QED
    BY <1>2, <1>3, <2>4
<1>4. CASE p # r
  <2>1. items[q] = "folder"
    BY <1>2, <1>4 DEF WellFormed
  <2> QED
    BY <1>1, <1>2, <2>1
<1> QED
  BY <1>3, <1>4

(* And so does the removal of an item with all that is in it.              *)
LEMMA RemoveKeepsWellFormed ==
  ASSUME items \in [Paths -> Kinds \cup {"absent"}], WellFormed(items),
         NEW r \in Paths, RemoveItem(r)
  PROVE  WellFormed(items')
<1> SUFFICES ASSUME NEW p \in Paths, NEW q \in Paths,
                    items'[p] # "absent", WithinFolder(p, q), q # p
             PROVE  items'[q] = "folder"
  BY DEF WellFormed
<1>1. ~WithinFolder(p, r) /\ items[p] # "absent"
  BY DEF RemoveItem
<1>2. ~WithinFolder(q, r)
  BY <1>1, WithinTransitive
<1>3. items[q] = "folder"
  BY <1>1 DEF WellFormed
<1> QED
  BY <1>2, <1>3 DEF RemoveItem
=============================================================================
