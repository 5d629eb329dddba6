--------------------------- MODULE MCTaskDispatch ---------------------------
(***************************************************************************)
(* TLC instances of TaskDispatch.  Requests are interchangeable: any of    *)
(* them may create a task or cancel one.                                   *)
(***************************************************************************)
EXTENDS TaskDispatch, TLC

RequestSymmetry == Permutations(Request)
=============================================================================
