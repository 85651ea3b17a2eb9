------------------------ MODULE MCBuildNotifications ------------------------
(***************************************************************************)
(* Instances of BuildNotifications for TLC.                                *)
(***************************************************************************)
EXTENDS BuildNotifications, TLC

TwoOnMaster == [b \in 1..2 |-> "master"]
One == 1..1
Two == 1..2

Symmetry == Permutations(Requests)
=============================================================================
