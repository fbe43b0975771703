------------------------------ MODULE MCScreens -----------------------------
(* Instances of Screens for TLC. *)
EXTENDS Screens

CONSTANTS f1, f2, a1, a2

TwoAttempts == {f1, f2}
TwoAccounts == {a1, a2}

Interchangeable == Permutations(TwoAttempts) \cup Permutations(TwoAccounts)
=============================================================================
