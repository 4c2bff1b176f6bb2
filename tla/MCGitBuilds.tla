----------------------------- MODULE MCGitBuilds ----------------------------
(* Instances of GitBuilds for TLC. *)
EXTENDS GitBuilds
=============================================================================
