----------------------------- MODULE MCGitCache -----------------------------
(***************************************************************************)
(* Instances of GitCache for TLC: a changeset on a branch, one only        *)
(* reachable by name, and one the remote does not have.  Where main has a  *)
(* submodule, pull has files of its own; both have one in another place.   *)
(***************************************************************************)
EXTENDS GitCache, TLC

CONSTANTS main, pull, missing
MCCommits == {main, pull, missing}
MCUnder == (main :> {main, pull}) @@ (pull :> {pull}) @@ (missing :> {})
=============================================================================
