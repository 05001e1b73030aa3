--------------------------- MODULE MCBuildTrigger ---------------------------
(***************************************************************************)
(* Instances of BuildTrigger for TLC.                                      *)
(***************************************************************************)
EXTENDS BuildTrigger, TLC

CONSTANTS c1, c2

TailAndCancel == c1 :> "tail" @@ c2 :> "cancel"
=============================================================================
