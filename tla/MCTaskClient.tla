---------------------------- MODULE MCTaskClient ----------------------------
(***************************************************************************)
(* TLC instances of TaskClient over TaskDispatch.  Requests are            *)
(* interchangeable: any of them may create a task or cancel one.           *)
(***************************************************************************)
EXTENDS TaskClient, TLC

\* Executions are counted for RetryBudget alone; no action reads the count.
WithoutRuns == <<tasks, jobs, minted, req, disp, nodeUp, crashes, cli>>

RequestSymmetry == Permutations(Request)
=============================================================================
