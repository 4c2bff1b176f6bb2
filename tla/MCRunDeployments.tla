-------------------------- MODULE MCRunDeployments --------------------------
(* Instances of RunDeployments for TLC. *)
EXTENDS RunDeployments, TLC

Symmetry == Permutations(Deps) \cup Permutations(Requests)
=============================================================================
