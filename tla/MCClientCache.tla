---------------------------- MODULE MCClientCache ----------------------------
(***************************************************************************)
(* Instances of ClientCache for TLC.                                       *)
(***************************************************************************)
EXTENDS ClientCache

Symmetry == Permutations(Requests) \cup Permutations(Branches)

\* Of the value of a spoiled key only its last number is compared: a later page
\* starts there, and until a fetch replaces it nothing else depends on it.  Where
\* a spoiled list ends after it was cut is not told apart, so TLC may leave out
\* states that differ in that; the theorems leave out none.
View == <<builds, writing, writes, open, events, requests, spoiled,
          [k \in Keys |->
              IF ~Cached(k) \/ k \notin spoiled THEN cache[k]
              ELSE IF cache[k] = <<>> THEN <<>> ELSE <<Last(cache[k]).number>>]>>
=============================================================================
