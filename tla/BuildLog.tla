------------------------------ MODULE BuildLog ------------------------------
(***************************************************************************)
(* The builds of a project as its members see them: a list that only grows *)
(* at its end.  The number of a build is its place in the list.            *)
(***************************************************************************)
EXTENDS Sequences

CONSTANT Branches

VARIABLE log   \* the branch of each build

Init == log = <<>>

Next == \E b \in Branches : log' = Append(log, b)

Spec == Init /\ [][Next]_log
=============================================================================
