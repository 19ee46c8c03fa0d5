------------------------------ MODULE MCHealth ------------------------------
(* A small fleet for Health: two vendors of one provider share its key. *)
EXTENDS Health, TLC

CONSTANTS v1, v2, key1

Keys == (v1 :> key1) @@ (v2 :> key1)

Symm == Permutations(Sessions) \cup Permutations(Attempts)
=============================================================================
