------------------------ MODULE MCStandalonePipeline ------------------------
(***************************************************************************)
(* Instances of StandalonePipeline for TLC.                                *)
(***************************************************************************)
EXTENDS StandalonePipeline, TLC

CONSTANTS c1, c2, c3

(* Two commands for branch "fix", which is a folder for the third one's      *)
(* branch "fix/main".                                                       *)
NestedBranches ==
  c1 :> <<"repo", "fix">> @@ c2 :> <<"repo", "fix", "main">> @@ c3 :> <<"repo", "fix">>
MCNames == {"repo", "fix", "main"}
MCPaths == {<<"repo">>, <<"repo", "fix">>, <<"repo", "fix", "main">>}

(* Two commands for the same branch.                                        *)
SameBranch == c1 :> <<"repo", "fix">> @@ c2 :> <<"repo", "fix">>
=============================================================================
