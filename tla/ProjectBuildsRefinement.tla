----------------------- MODULE ProjectBuildsRefinement -----------------------
(***************************************************************************)
(* The table of ProjectBuilds as a BuildLog.                               *)
(***************************************************************************)
EXTENDS ProjectBuilds

\* The page of the project shows its builds in the order of their numbers: in
\* place i stands the build with i builds up to and including itself.
NumberAt(i) ==
    CHOOSE n \in Numbers : Cardinality({m \in Numbers : m <= n}) = i

Listed == [i \in 1..Cardinality(Numbers) |-> builds[NumberAt(i)].branch]

Log == INSTANCE BuildLog WITH log <- Listed

\* The project's list of builds is a BuildLog: rows are never replaced, moved
\* or numbered again.
ImplementsLog == Log!Spec
=============================================================================
