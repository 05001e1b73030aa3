----------------------------- MODULE MCRegistry -----------------------------
(***************************************************************************)
(* Instances of Registry for TLC.                                          *)
(***************************************************************************)
EXTENDS Registry, TLC

CONSTANTS c1, c2, c3, c4

MCNames == {"Foo", "foo", "bar"}
MCValidName == "Foo" :> "foo" @@ "foo" :> "foo" @@ "bar" :> "bar"

(* Two adds, one of them with the guided wizard, and two deletes, one by     *)
(* name and one by the name picked from the list.                            *)
InBatch == [c \in Clients |-> c \notin {c2, c3}]
AddsAndDeletes == c1 :> "add" @@ c2 :> "add" @@ c3 :> "delete" @@ c4 :> "delete"
RaceNames == c1 :> "Foo" @@ c2 :> NoName @@ c3 :> NoName @@ c4 :> "foo"

(* An add, then a delete with the same --name.                             *)
AddAndDelete == c1 :> "add" @@ c2 :> "delete"
SameName == c1 :> "Foo" @@ c2 :> "Foo"
=============================================================================
