---------------------------- MODULE MCJobListing ----------------------------
(***************************************************************************)
(* Instances of JobListing for TLC.                                        *)
(***************************************************************************)
EXTENDS JobListing

(* A repository with a folder of branches, and jobs next to and above it.   *)
MCNames == {"org", "repo", "fix", "report", "job"}
MCPaths == {<<"org">>, <<"org", "repo">>, <<"org", "repo", "fix">>, <<"org", "report">>, <<"job">>}

(* The filter "rep".                                                        *)
Rep == {<<"org", "repo">>, <<"org", "repo", "fix">>, <<"org", "report">>}
=============================================================================
