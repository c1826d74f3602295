------------------------------ MODULE MCAccount ------------------------------
(* One process connects the account, one changes it; two people.             *)
EXTENDS Account, TLC

\* The people are not told apart.
Symmetry == Permutations(Users)
=============================================================================
