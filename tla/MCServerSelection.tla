------------------------- MODULE MCServerSelection -------------------------
(***************************************************************************)
(* Instances of ServerSelection for TLC: two servers and two namespaces.   *)
(***************************************************************************)
EXTENDS ServerSelection

CONSTANTS a, b

Operator(ns, name) ==
  {[kind |-> "service", ns |-> ns, name |-> name], [kind |-> "secret", ns |-> ns, name |-> name]}
Registry(ns, name) == {[kind |-> "registered", ns |-> ns, name |-> name]}

(* A discovered server here, with a second Secret of its name in the other *)
(* namespace, and a registered one whose name a Service there has too.     *)
SharedNames ==
  Operator("mine", a) \cup {[kind |-> "secret", ns |-> "theirs", name |-> a]} \cup
  Registry("mine", b) \cup Operator("theirs", b)
=============================================================================
