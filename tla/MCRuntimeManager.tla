-------------------------- MODULE MCRuntimeManager --------------------------
(* Instances of RuntimeManager for TLC. *)
EXTENDS RuntimeManager, TLC

Symmetry == Permutations(Containers) \cup Permutations(Jobs)
=============================================================================
