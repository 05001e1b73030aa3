----------------------- MODULE MCMultiBranchPipeline -----------------------
(***************************************************************************)
(* Instances of MultiBranchPipeline for TLC.                               *)
(***************************************************************************)
EXTENDS MultiBranchPipeline, TLC

CONSTANTS c1, c2, main, fix

TwoBranches == c1 :> main @@ c2 :> fix
=============================================================================
