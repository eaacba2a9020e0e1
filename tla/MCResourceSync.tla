--------------------------- MODULE MCResourceSync ---------------------------
(* Instances of ResourceSync for TLC. *)
EXTENDS ResourceSync, TLC

\* Names and synchronisations are interchangeable; used by safety runs only.
Symmetry == Permutations(Names) \cup Permutations(Syncs)
=============================================================================
