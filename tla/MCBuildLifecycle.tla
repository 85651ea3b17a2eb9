-------------------------- MODULE MCBuildLifecycle --------------------------
(***************************************************************************)
(* Instances of BuildLifecycle for TLC.  The jobs of one kind, and the     *)
(* requests, are interchangeable.                                          *)
(***************************************************************************)
EXTENDS BuildRefinement, TLC

Symmetry == Permutations(Regular) \cup Permutations(Deploy)
                \cup Permutations(Requests)
=============================================================================
