-------------------------- MODULE MCRuntimeService --------------------------
(* Instances of RuntimeService for TLC. *)
EXTENDS RuntimeService, TLC

Symmetry == Permutations(Containers) \cup Permutations(Jobs)
            \cup Permutations(TaskIds) \cup Permutations(Clients)
=============================================================================
