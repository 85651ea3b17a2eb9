--------------------------- MODULE MCProjectBuilds ---------------------------
(***************************************************************************)
(* Instances of ProjectBuilds for TLC.                                     *)
(***************************************************************************)
EXTENDS ProjectBuildsRefinement, TLC

\* Nothing to do, deploy jobs only, and both kinds.
SomeConfigurations == {[regular |-> 0, deploy |-> 0], [regular |-> 0, deploy |-> 2],
                       [regular |-> 2, deploy |-> 3]}

Symmetry == Permutations(Transactions) \cup Permutations(Branches)
=============================================================================
