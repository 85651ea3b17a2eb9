------------------------------ MODULE MCAccounts ------------------------------
(***************************************************************************)
(* Instances of Accounts for TLC.                                          *)
(***************************************************************************)
EXTENDS Accounts, TLC

Symmetry == Permutations(Users) \cup Permutations(Accounts) \cup Permutations(Emails)
            \cup Permutations(Companies) \cup Permutations(Requests)
=============================================================================
