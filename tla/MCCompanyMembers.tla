--------------------------- MODULE MCCompanyMembers ---------------------------
(***************************************************************************)
(* Instances of CompanyMembers for TLC.                                    *)
(***************************************************************************)
EXTENDS CompanyMembers, TLC

Symmetry == Permutations(Companies) \cup Permutations(Requests)

\* Requests about a user whose companies do not change.
KindsOfMembers == {"default", "role"}

KindsOfAll == {"default", "role", "join", "delete"}
=============================================================================
