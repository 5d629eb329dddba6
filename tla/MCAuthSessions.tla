--------------------------- MODULE MCAuthSessions ----------------------------
(* Instances of AuthSessions for TLC. *)
EXTENDS AuthSessions, TLC

CONSTANTS admin, r1, r2

OneUser == {admin}
TwoRequests == {r1, r2}
Symmetry == Permutations(TwoRequests)
=============================================================================
