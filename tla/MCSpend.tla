------------------------------ MODULE MCSpend ------------------------------
(* Two users, so that a flush has one to do while it writes the other. *)
EXTENDS Spend, TLC

Symm == Permutations(Users) \cup Permutations(Readers)
=============================================================================
