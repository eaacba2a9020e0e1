-------------------------- MODULE MCResourceTasks --------------------------
(***************************************************************************)
(* ResourceTasks for TLC: task slots and updates are interchangeable.      *)
(***************************************************************************)
EXTENDS ResourceTasks, TLC

Symmetry == Permutations(Tasks) \cup Permutations(Updates)
=============================================================================
