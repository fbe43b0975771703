--------------------------- MODULE MCRegistration ---------------------------
(* Instances of Registration for TLC. *)
EXTENDS Registration, TLC

CONSTANTS f1, f2, a1, a2

TwoAttempts == {f1, f2}
TwoAccounts == {a1, a2}
=============================================================================
