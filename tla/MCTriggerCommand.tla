-------------------------- MODULE MCTriggerCommand --------------------------
(***************************************************************************)
(* Instances of TriggerCommand for TLC.                                    *)
(***************************************************************************)
EXTENDS TriggerCommand, TLC

CONSTANTS c1, c2, main

SameBranch == [c \in Clients |-> Main]
TwoTriggers == c1 :> "trigger" @@ c2 :> "trigger"
TailAndCancel == c1 :> "tail" @@ c2 :> "cancel"
=============================================================================
