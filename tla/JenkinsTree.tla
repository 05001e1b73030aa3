---------------------------- MODULE JenkinsTree ----------------------------
(***************************************************************************)
(* The item tree of a Jenkins server, as getOrCreateStandalonePipeline     *)
(* (pkg/cmd/trigger/trigger.go) and the fake client of its test use it: an *)
(* item is addressed by its path, GetJobByPath finds it or answers an      *)
(* error, CreateJobWithXML and CreateFolderJobWithXML add a new item and   *)
(* refuse a path that is taken or whose parent cannot hold items.          *)
(***************************************************************************)
EXTENDS Naturals, Sequences

CONSTANTS
  Names,   \* the segments of item paths
  Paths    \* the item paths of interest, with all of their prefixes

VARIABLE items   \* what each path holds

Parent(p) == SubSeq(p, 1, Len(p) - 1)

ASSUME PathsAssumption ==
  /\ Paths \subseteq Seq(Names) \ {<<>>}
  /\ \A p \in Paths : \A i \in 1..Len(p) : SubSeq(p, 1, i) \in Paths

(* The classes of items the code tells apart, "com.cloudbees...Folder" and *)
(* the pipeline, and the path that holds nothing.                          *)
Kinds == {"folder", "pipeline"}
Present(p) == items[p] # "absent"

WithinFolder(p, q) == Len(q) <= Len(p) /\ SubSeq(p, 1, Len(q)) = q

(* Whatever an item is inside of is a folder. *)
WellFormed(tree) ==
  \A p, q \in Paths : tree[p] # "absent" /\ WithinFolder(p, q) /\ q # p => tree[q] = "folder"

(* The server adds an item only at a free path, at the root or in a folder. *)
Accepts(p) == ~Present(p) /\ (Len(p) > 1 => items[Parent(p)] = "folder")
AddItem(p, kind) == items' = [items EXCEPT ![p] = kind]

(* Deleting an item deletes everything below it. *)
RemoveItem(q) ==
  items' = [p \in Paths |-> IF WithinFolder(p, q) THEN "absent" ELSE items[p]]

TreeInit == items \in {tree \in [Paths -> Kinds \cup {"absent"}] : WellFormed(tree)}
=============================================================================
