---------------------------- MODULE MCHubStorage ----------------------------
(* Instances of HubStorage for TLC. *)
EXTENDS HubStorage, TLC

Symmetry == Permutations(Deps) \cup Permutations(Names) \cup Permutations(Procs)
=============================================================================
