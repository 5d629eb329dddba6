---------------------------- MODULE TaskService -----------------------------
(***************************************************************************)
(* What the orchestrator promises a user about one of their tasks, with    *)
(* no jobs, queue, dispatcher or handlers: a task is accepted once, moves  *)
(* forward only, ends at most once, and is called completed only when an   *)
(* answer to it has been stored, which is then never taken back.           *)
(***************************************************************************)
CONSTANT Task

VARIABLES status,   \* what GET /v1/tasks/{id} reports
          answered  \* is a successful result stored for the task?

vars == <<status, answered>>

Ended == {"completed", "failed", "canceled", "superseded"}

Open == {"pending", "running"}

Init ==
    /\ status = [t \in Task |-> "none"]
    /\ answered = [t \in Task |-> FALSE]

Accept(t) ==
    /\ status[t] = "none"
    /\ status' = [status EXCEPT ![t] = "pending"]
    /\ UNCHANGED answered

Start(t) ==
    /\ status[t] = "pending"
    /\ status' = [status EXCEPT ![t] = "running"]
    /\ UNCHANGED answered

\* A result may arrive after the task has ended; it is stored all the same.
Answer(t) ==
    /\ status[t] # "none"
    /\ answered' = [answered EXCEPT ![t] = TRUE]
    /\ UNCHANGED status

Complete(t) ==
    /\ status[t] \in Open
    /\ answered[t]
    /\ status' = [status EXCEPT ![t] = "completed"]
    /\ UNCHANGED answered

Fail(t) ==
    /\ status[t] \in Open
    /\ status' = [status EXCEPT ![t] = "failed"]
    /\ UNCHANGED answered

Cancel(t) ==
    /\ status[t] \in Open
    /\ status' = [status EXCEPT ![t] = "canceled"]
    /\ UNCHANGED answered

Next ==
    \E t \in Task :
        Accept(t) \/ Start(t) \/ Answer(t) \/ Complete(t) \/ Fail(t) \/ Cancel(t)

Spec == Init /\ [][Next]_vars
=============================================================================
