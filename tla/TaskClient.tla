----------------------------- MODULE TaskClient -----------------------------
(***************************************************************************)
(* cynork processes that follow a task while TaskDispatch works on it:     *)
(* task result with and without --wait, task watch, and the waiting part   *)
(* of task create --result.  Every poll is one GET /v1/tasks/{id}/result,  *)
(* which the gateway answers from two reads of the store; the tables may   *)
(* change between the two, and before the answer is read.                  *)
(***************************************************************************)
EXTENDS TaskDispatch, Sequences

CONSTANTS
    Client,  \* cynork processes
    Owned    \* tasks of their user: resolveTask refuses everybody else's

ASSUME OwnedAssumption == Owned \subseteq Task

VARIABLE cli      \* state of each of them

clientVars == <<vars, cli>>

-----------------------------------------------------------------------------
(* State *)

\* What taskStatusToSpec makes of the status column.
taskStatusToSpec(s) == IF s = "pending" THEN "queued" ELSE s

SpecStatus == {taskStatusToSpec(s) : s \in TaskStatus}

\* Mutant: GetTaskResult lists the jobs first.
JobsFirst == <<"jobs", "task">>

\* The reads of GetTaskResult in their order.
GetTaskResultReads == <<"task", "jobs">>

\* read: reads done for the answer that is being put together; answer: is
\* there a completed job with a successful result among those it lists?
CliState == [pc : {"idle", "asked"},
             task : Task \cup {NoTask},
             read : 0 .. Len(GetTaskResultReads),
             status : SpecStatus,
             answer : BOOLEAN]

IdleCli == [pc |-> "idle", task |-> NoTask, read |-> 0,
            status |-> "none", answer |-> FALSE]

ClientTypeOK == TypeOK /\ cli \in [Client -> CliState]

ClientInit == Init /\ cli = [c \in Client |-> IdleCli]

\* client.GetTaskResult of a command that names task t.
Ask(t) == [IdleCli EXCEPT !.pc = "asked", !.task = t]

-----------------------------------------------------------------------------
\* A command is started with the id of a task of its user.
StartCommand(c) ==
    /\ cli[c].pc = "idle"
    /\ \E t \in Owned :
          /\ tasks[t].status # "none"
          /\ cli' = [cli EXCEPT ![c] = Ask(t)]
    /\ UNCHANGED vars

\* jobToResponse copies status and result of every row.
ListsAnswer(t) ==
    \E j \in JobsOf(t) : jobs[j].status = "completed" /\ jobs[j].result = "ok"

\* What one read of the handler adds to answer a.
Fetch(what, a) ==
    IF what = "task"
    THEN [a EXCEPT !.status = taskStatusToSpec(tasks[a.task].status)]
    ELSE [a EXCEPT !.answer = ListsAnswer(a.task)]

\* exitFromGatewayErr: any error ends the command, also one that polls.
EndCommand(c) == cli' = [cli EXCEPT ![c] = IdleCli]

\* resolveTask, then GetJobsByTaskID.
GetTaskResult(c) ==
    /\ cli[c].pc = "asked"
    /\ cli[c].read < Len(GetTaskResultReads)
    /\ \E o \in Outcome :
          LET n == cli[c].read + 1
              a == Fetch(GetTaskResultReads[n], cli[c])
          IN  IF o = "ok" THEN cli' = [cli EXCEPT ![c] = [a EXCEPT !.read = n]]
                          ELSE EndCommand(c)
    /\ UNCHANGED vars

\* Mutant: the map lacks an entry.
StatusesWithoutCanceled == {"completed", "failed", "superseded"}

terminalTaskStatuses == {"completed", "failed", "canceled", "superseded"}

\* The answer arrives and is printed.  A command that polls returns when the
\* task has ended and else sleeps and asks again.
Poll(c) ==
    /\ cli[c].pc = "asked"
    /\ cli[c].read = Len(GetTaskResultReads)
    /\ cli' = [cli EXCEPT ![c] =
                 IF cli[c].status \in terminalTaskStatuses
                 THEN IdleCli ELSE Ask(cli[c].task)]
    /\ UNCHANGED vars

\* A command without --wait returns after its first answer, one that is
\* interrupted or loses its connection at any time.
Return(c) ==
    /\ cli[c].pc = "asked"
    /\ EndCommand(c)
    /\ UNCHANGED vars

-----------------------------------------------------------------------------
\* The steps a command that polls takes by itself.
Follow(c) == GetTaskResult(c) \/ Poll(c)

ClientNext ==
    \/ Next /\ UNCHANGED cli
    \/ \E c \in Client : StartCommand(c) \/ Follow(c) \/ Return(c)

ClientSpec == ClientInit /\ [][ClientNext]_clientVars

\* The gateway answers what it is asked and a command that sleeps wakes up.
FairClientSpec ==
    /\ ClientSpec
    /\ WF_clientVars(Dispatcher /\ UNCHANGED cli)
    /\ \A r \in Request : WF_clientVars(Handler(r) /\ UNCHANGED cli)
    /\ \A c \in Client : WF_clientVars(Follow(c))

-----------------------------------------------------------------------------
(* The inductive invariant behind EndShownIsTheEnd *)

\* A command that asks names a task, and what it has read of an end is the end:
\* the status it holds is that of the row, and once the jobs are listed they
\* hold the answer of a completed task.
WhatIsRead(c) ==
    /\ cli[c].pc = "asked" => cli[c].task \in Task
    /\ cli[c].pc = "idle" => cli[c].read = 0
    /\ cli[c].read = 0 => cli[c].status = "none"
    /\ cli[c].status \in terminalTaskStatuses => tasks[cli[c].task].status = cli[c].status
    /\ cli[c].read = Len(GetTaskResultReads) /\ cli[c].status = "completed" => cli[c].answer

ClientInv ==
    /\ IInv
    /\ cli \in [Client -> CliState]
    /\ \A c \in Client : WhatIsRead(c)

-----------------------------------------------------------------------------
(* Properties *)

(***************************************************************************)
(* The end a user is shown is the end: when printTaskResult prints a       *)
(* terminal status the task row still has that status, and a completed     *)
(* task is printed with the job that carries its answer.  The two reads of *)
(* GetTaskResult are not one snapshot and the answer is old by the time it *)
(* is printed; what protects the user is that the task is read first and   *)
(* that the task is the last thing applyJobResult writes.                  *)
(***************************************************************************)
EndShownIsTheEnd ==
    \A c \in Client :
        /\ cli[c].read = Len(GetTaskResultReads)
        /\ cli[c].status \in terminalTaskStatuses
        => /\ tasks[cli[c].task].status = cli[c].status
           /\ cli[c].status = "completed" => cli[c].answer

(***************************************************************************)
(* With a dispatchable node from some time on, a command that waits for a  *)
(* task returns by itself: the task ends, whoever ends it, and its status  *)
(* is one the poll loops of waitAndPrintTaskResult, runTaskResult and      *)
(* runTaskWatch take for an end.  They have no other way out, as none has  *)
(* a limit on the number of polls.                                         *)
(***************************************************************************)
EveryWaitEnds ==
    <>[]nodeUp => \A c \in Client : cli[c].pc = "asked" ~> cli[c].pc = "idle"
=============================================================================
