----------------------------- MODULE MCUserRepos -----------------------------
(***************************************************************************)
(* Instances of UserRepos for TLC.                                         *)
(***************************************************************************)
EXTENDS UserRepos, TLC

Symmetry ==
    Permutations(Windows) \cup Permutations(Companies)
        \cup Permutations(Repos) \cup Permutations(Names)
=============================================================================
