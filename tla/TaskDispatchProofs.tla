------------------------ MODULE TaskDispatchProofs --------------------------
(***************************************************************************)
(* Proofs about the task pipeline for every number of tasks, requests,     *)
(* jobs, attempts and restarts, and every set of store faults.             *)
(***************************************************************************)
EXTENDS TaskDispatch, TLAPS

-----------------------------------------------------------------------------
(* Type correctness *)

\* UpdateTaskStatus keeps the tasks table well typed.
LEMMA UpdateTaskStatusType ==
    ASSUME TypeOK, NEW t, NEW o, NEW s \in TaskStatus,
           UpdateTaskStatus(o, t, s)
    PROVE  tasks' \in [Task -> TaskRow]
<1>1. CASE t \in Task
  BY <1>1 DEF TypeOK, UpdateTaskStatus, TaskRow, isTerminalTaskStatus
<1>2. CASE t \notin Task
  BY <1>2 DEF TypeOK, UpdateTaskStatus
<1>3. QED
  BY <1>1, <1>2

\* Minting a job id keeps the id counter and the request well typed.
LEMMA MintType ==
    ASSUME TypeOK, NEW r \in Request, NEW next \in CreatePC, Mint(r, next)
    PROVE  /\ minted' \in 0 .. MaxJobs
           /\ req' \in [Request -> ReqState]
<1>1. minted + 1 \in 0 .. MaxJobs
  BY BoundsAssumption DEF TypeOK, Mint
<1>2. req' \in [Request -> ReqState]
  BY <1>1, ZenonT(60) DEF TypeOK, Mint, ReqState
<1>3. QED
  BY <1>1, <1>2 DEF Mint

\* The three ways of writing a job row keep the jobs table well typed.
LEMMA JobWriteType ==
    ASSUME TypeOK, NEW j, NEW o, NEW t \in Task \cup {NoTask},
           NEW s \in JobStatus, NEW res \in Result,
           \/ InsertJob(o, j, t, s, res)
           \/ UpdateJobStatus(o, j, s)
           \/ CompleteJob(o, j, res, s)
    PROVE  jobs' \in [JobId -> JobRow]
<1>1. CASE InsertJob(o, j, t, s, res)
  BY <1>1 DEF TypeOK, InsertJob, JobRow
<1>2. CASE UpdateJobStatus(o, j, s)
  BY <1>2 DEF TypeOK, UpdateJobStatus, JobRow
<1>3. CASE CompleteJob(o, j, res, s)
  BY <1>3 DEF TypeOK, CompleteJob, JobRow
<1>4. QED
  BY <1>1, <1>2, <1>3

\* The initial tables and idle processes are well typed.
LEMMA InitType == Init => TypeOK
BY BoundsAssumption
   DEF Init, TypeOK, JobId, TaskRow, TaskStatus, TaskTerminal, JobRow,
       NoJobRow, JobStatus, JobClosed, Result, ReqState, IdleReq, CreatePC,
       CancelPC, DispState, DispPC, IdleDisp

\* No step of a handler, the dispatcher or the environment breaks a type.
LEMMA NextType == TypeOK /\ [Next]_vars => TypeOK'
<1> SUFFICES ASSUME TypeOK, [Next]_vars PROVE TypeOK'
  OBVIOUS
<1> USE TaskAssumption, BoundsAssumption, FaultsAssumption
<1>1. ASSUME NEW r \in Request, CreateTask(r) PROVE TypeOK'
  <2>1. tasks' \in [Task -> TaskRow]
    BY <1>1 DEF CreateTask, TypeOK, InsertTask, TaskRow, TaskStatus
  <2>2. req' \in [Request -> ReqState]
    BY <1>1 DEF CreateTask, TypeOK, ReqState, IdleReq, ReqAt, CreatePC
  <2>3. QED
    BY <1>1, <2>1, <2>2 DEF CreateTask, TypeOK
<1>2. ASSUME NEW r \in Request, CancelTask(r) PROVE TypeOK'
  BY <1>2 DEF CancelTask, TypeOK, ReqState, ReqAt, CancelPC
<1>3. ASSUME NEW r \in Request, Handler(r) PROVE TypeOK'
  <2>1. req[r] \in ReqState
    BY DEF TypeOK
  <2>2. CASE InferenceAnswers(r)
    BY <2>2, MintType DEF InferenceAnswers, TypeOK, CreatePC
  <2>3. CASE InferenceFails(r)
    BY <2>3 DEF InferenceFails, TypeOK, ReqState, CreatePC
  <2>4. CASE CreateJobCompleted(r)
    <3>1. jobs' \in [JobId -> JobRow]
      BY <2>1, <2>4, JobWriteType
         DEF CreateJobCompleted, ReqState, JobStatus, JobClosed, Result
    <3>2. req' \in [Request -> ReqState]
      BY <2>4 DEF CreateJobCompleted, TypeOK, ReqState, CreatePC
    <3>3. QED
      BY <2>4, <3>1, <3>2 DEF CreateJobCompleted, TypeOK
  <2>5. CASE InferenceCompletesTask(r)
    <3>1. tasks' \in [Task -> TaskRow]
      BY <2>1, <2>5, UpdateTaskStatusType
         DEF InferenceCompletesTask, ReqState, TaskStatus, TaskTerminal
    <3>2. QED
      BY <2>5, <3>1 DEF InferenceCompletesTask, TypeOK, ReqState, IdleReq
  <2>6. CASE PrepareJob(r)
    BY <2>6, MintType DEF PrepareJob, TypeOK, CreatePC
  <2>7. CASE CreateJob(r)
    <3>1. jobs' \in [JobId -> JobRow]
      BY <2>1, <2>7, JobWriteType
         DEF CreateJob, ReqState, JobStatus, Result
    <3>2. QED
      BY <2>7, <3>1 DEF CreateJob, TypeOK, ReqState, IdleReq
  <2>8. CASE CancelTaskRow(r)
    <3>1. tasks' \in [Task -> TaskRow]
      BY <2>1, <2>8, UpdateTaskStatusType
         DEF CancelTaskRow, ReqState, TaskStatus, TaskTerminal
    <3>2. req' \in [Request -> ReqState]
      BY <2>1, <2>8 DEF CancelTaskRow, TypeOK, ReqState, IdleReq, ReqAt, CancelPC
    <3>3. QED
      BY <2>8, <3>1, <3>2 DEF CancelTaskRow, TypeOK
  <2>9. CASE CancelReadJobs(r)
    BY <2>1, <2>9 DEF CancelReadJobs, TypeOK, ReqState, IdleReq, ReqAt, CancelPC,
       OpenJobsOf, JobsOf
  <2>10. CASE CancelJob(r)
    <3>1. jobs' \in [JobId -> JobRow]
      BY <2>10, JobWriteType DEF CancelJob, JobStatus, JobClosed, Result
    <3>2. req' \in [Request -> ReqState]
      BY <2>10 DEF CancelJob, TypeOK, ReqState
    <3>3. QED
      BY <2>10, <3>1, <3>2 DEF CancelJob, TypeOK
  <2>11. CASE CancelResponds(r)
    BY <2>11 DEF CancelResponds, TypeOK, ReqState, IdleReq
  <2>12. QED
    BY <1>3, <2>2, <2>3, <2>4, <2>5, <2>6, <2>7, <2>8, <2>9, <2>10, <2>11 DEF Handler
<1>4. ASSUME Dispatcher PROVE TypeOK'
  <2>2. CASE GetNextQueuedJob
    BY <2>2 DEF GetNextQueuedJob, TypeOK, DispState, DispPC, JobId, Result
  <2>3. CASE PickNode
    BY <2>3 DEF PickNode, TypeOK, DispState, DispPC, IdleDisp, Result
  <2>4. CASE AssignJob
    <3>1. jobs' \in [JobId -> JobRow]
      BY <2>4, JobWriteType
         DEF AssignJob, AssignJobToNode, JobStatus, Result
    <3>2. QED
      BY <2>4, <3>1 DEF AssignJob, TypeOK, DispState, DispPC, IdleDisp, Result
  <2>5. CASE MarkJobRunning
    <3>1. jobs' \in [JobId -> JobRow]
      BY <2>5, JobWriteType DEF MarkJobRunning, JobStatus, Result
    <3>2. QED
      BY <2>5, <3>1 DEF MarkJobRunning, TypeOK, DispState, DispPC
  <2>6. CASE MarkTaskRunning
    <3>1. tasks' \in [Task -> TaskRow]
      BY <2>6, UpdateTaskStatusType DEF MarkTaskRunning, TaskStatus
    <3>2. QED
      BY <2>6, <3>1 DEF MarkTaskRunning, TypeOK, DispState, DispPC
  <2>7. CASE SendReachesWorker
    <3>1. disp' \in DispState
      <4>1. disp.attempt + 1 \in Nat /\ "await" \in DispPC
        BY DEF TypeOK, DispState, DispPC
      <4>2. disp' = [disp EXCEPT !.pc = "await", !.attempt = disp.attempt + 1]
        BY <2>7 DEF SendReachesWorker
      <4>3. QED
        BY <4>1, <4>2 DEF TypeOK, DispState
    <3>2. runs' \in [JobId -> Nat]
      <4>1. \A j \in JobId : runs[j] + 1 \in Nat
        BY DEF TypeOK
      <4>2. QED
        BY <2>7, <4>1 DEF SendReachesWorker, TypeOK
    <3>3. QED
      BY <2>7, <3>1, <3>2 DEF SendReachesWorker, TypeOK
  <2>8. CASE SendRefused
    <3>1. [disp EXCEPT !.attempt = @ + 1] \in DispState
      BY DEF TypeOK, DispState
    <3>2. disp' \in DispState
      BY <2>8, <3>1 DEF SendRefused, AfterTransient, DispState, DispPC
    <3>3. QED
      BY <2>8, <3>2 DEF SendRefused, TypeOK
  <2>8a. CASE SendFails
    <3>1. [disp EXCEPT !.attempt = @ + 1] \in DispState
      BY DEF TypeOK, DispState
    <3>2. disp' \in DispState
      BY <2>8a, <3>1 DEF SendFails, DispState, DispPC
    <3>3. QED
      BY <2>8a, <3>2 DEF SendFails, TypeOK
  <2>9. CASE WorkerAnswers
    BY <2>9 DEF WorkerAnswers, TypeOK, DispState, DispPC, Result
  <2>10. CASE AnswerLost
    BY <2>10 DEF AnswerLost, AfterTransient, TypeOK, DispState, DispPC
  <2>11. CASE WorkerRejects
    BY <2>11 DEF WorkerRejects, TypeOK, DispState, DispPC
  <2>12. CASE ApplyJobResult
    <3>1. disp.result \in Result /\ StatusFor(disp.result) \in JobStatus
      BY DEF TypeOK, DispState, StatusFor, JobStatus, JobClosed
    <3>2. jobs' \in [JobId -> JobRow]
      BY <2>12, <3>1, JobWriteType DEF ApplyJobResult
    <3>3. QED
      BY <2>12, <3>2 DEF ApplyJobResult, TypeOK, DispState, DispPC, IdleDisp, Result
  <2>13. CASE SettleTask
    <3>1. StatusFor(disp.result) \in TaskStatus
      BY DEF StatusFor, TaskStatus, TaskTerminal
    <3>2. tasks' \in [Task -> TaskRow]
      BY <2>13, <3>1, UpdateTaskStatusType DEF SettleTask
    <3>3. QED
      BY <2>13, <3>2 DEF SettleTask, TypeOK, DispState, DispPC, IdleDisp, Result
  <2>14. CASE MarkJobFailed
    <3>1. jobs' \in [JobId -> JobRow]
      BY <2>14, JobWriteType DEF MarkJobFailed, JobStatus, JobClosed, Result
    <3>2. QED
      BY <2>14, <3>1 DEF MarkJobFailed, TypeOK, DispState, DispPC
  <2>15. CASE MarkTaskFailed
    <3>1. tasks' \in [Task -> TaskRow]
      BY <2>15, UpdateTaskStatusType DEF MarkTaskFailed, TaskStatus, TaskTerminal
    <3>2. QED
      BY <2>15, <3>1 DEF MarkTaskFailed, TypeOK, DispState, DispPC, IdleDisp, Result
  <2>16. QED
    BY <1>4, <2>2, <2>3, <2>4, <2>5, <2>6, <2>7, <2>8, <2>8a, <2>9, <2>10, <2>11, <2>12,
       <2>13, <2>14, <2>15 DEF Dispatcher
<1>5. CASE ControlPlaneRestart
  BY <1>5 DEF ControlPlaneRestart, TypeOK, DispState, DispPC, IdleDisp, Result
<1>6. CASE NodeAvailability
  BY <1>6 DEF NodeAvailability, TypeOK
<1>7. CASE UNCHANGED vars
  BY <1>7 DEF vars, TypeOK
<1>8. QED
  BY <1>1, <1>2, <1>3, <1>4, <1>5, <1>6, <1>7 DEF Next

\* Every row and every process state keeps its type through every handler,
\* dispatcher and restart step of the task pipeline.
THEOREM TypeCorrect == Spec => []TypeOK
BY InitType, NextType, PTL DEF Spec

-----------------------------------------------------------------------------
(* What the store operations leave alone *)

\* Task rows only move forward: rows do not disappear, terminal rows do not
\* change, and a task becomes completed only when that is what is written.
Forward ==
    \A u \in Task :
        /\ tasks[u].status # "none" => tasks'[u].status # "none"
        /\ isTerminalTaskStatus(tasks[u].status) => tasks'[u] = tasks[u]

\* UpdateTaskStatus on an existing task moves the table forward.
LEMMA UpdateTaskStatusForward ==
    ASSUME TypeOK, NEW t \in Task, NEW o, NEW s \in TaskStatus \ {"none"},
           UpdateTaskStatus(o, t, s)
    PROVE  /\ Forward
           /\ \A u \in Task : tasks'[u].status = "completed" =>
                 tasks[u].status = "completed" \/ (u = t /\ s = "completed")
           /\ o = "ok" /\ s \in TaskTerminal =>
                 isTerminalTaskStatus(tasks'[t].status)
BY DEF TypeOK, TaskRow, UpdateTaskStatus, Forward, isTerminalTaskStatus, Commits

\* A job write touches one row; an update of the status keeps the result, and
\* neither an update nor a completion changes the owner.
LEMMA JobWriteEffect ==
    ASSUME TypeOK, NEW j \in JobId, NEW o, NEW s \in JobStatus, NEW res \in Result,
           UpdateJobStatus(o, j, s) \/ CompleteJob(o, j, res, s)
    PROVE  /\ \A k \in JobId : k # j => jobs'[k] = jobs[k]
           /\ \A k \in JobId : jobs'[k].task = jobs[k].task
           /\ jobs'[j].status \in {s, jobs[j].status}
           /\ jobs'[j].result \in {res, jobs[j].result}
           /\ UpdateJobStatus(o, j, s) => jobs'[j].result = jobs[j].result
           /\ CompleteJob(o, j, res, s) =>
                 \/ jobs'[j] = jobs[j]
                 \/ jobs'[j].status = s /\ jobs'[j].result = res
           /\ o = "ok" => jobs'[j].status = s
           /\ o = "ok" /\ CompleteJob(o, j, res, s) => jobs'[j].result = res
<1>1. CASE UpdateJobStatus(o, j, s)
  BY <1>1 DEF TypeOK, JobRow, UpdateJobStatus, Commits, CompleteJob
<1>2. CASE CompleteJob(o, j, res, s)
  BY <1>2 DEF TypeOK, JobRow, CompleteJob, Commits, UpdateJobStatus
<1>3. QED
  BY <1>1, <1>2

\* An insert touches one row.
LEMMA InsertJobEffect ==
    ASSUME TypeOK, NEW j \in JobId, NEW o, NEW t, NEW s, NEW res,
           InsertJob(o, j, t, s, res)
    PROVE  /\ \A k \in JobId : k # j => jobs'[k] = jobs[k]
           /\ \/ jobs'[j] = jobs[j]
              \/ jobs'[j] = [task |-> t, status |-> s, result |-> res]
           /\ o = "ok" => jobs'[j] = [task |-> t, status |-> s, result |-> res]
BY DEF TypeOK, InsertJob, Commits

-----------------------------------------------------------------------------
(* The inductive invariant *)

\* Empty tables and idle processes satisfy the invariant.
LEMMA InitIInv == Init => IInv
<1> SUFFICES ASSUME Init PROVE IInv
  OBVIOUS
<1>1. TypeOK
  BY InitType
<1>2. RequestsOK /\ MintedOnce /\ JobsOK /\ DispatcherOK
  BY BoundsAssumption DEF Init, RequestsOK, MintedOnce, JobsOK, DispatcherOK,
     IdleReq, IdleDisp, NoJobRow
<1>3. CompletedAnswered /\ InferenceAnswered /\ SettleAnswered
  BY DEF Init, CompletedAnswered, InferenceAnswered, SettleAnswered, IdleReq, IdleDisp
<1>4. QED
  BY <1>1, <1>2, <1>3 DEF IInv

\* A step that only moves task rows forward keeps what is known about
\* requests and jobs, and about the answer of a task in "settle".
LEMMA TasksForward ==
    ASSUME IInv, Forward, UNCHANGED <<jobs, minted, req, runs>>
    PROVE  RequestsOK' /\ MintedOnce' /\ JobsOK' /\ InferenceAnswered'
<1>1. RequestsOK'
  BY DEF IInv, RequestsOK, Forward, isTerminalTaskStatus
<1>2. MintedOnce'
  BY DEF IInv, MintedOnce
<1>3. JobsOK'
  BY DEF IInv, JobsOK, Forward
<1>4. InferenceAnswered'
  BY DEF IInv, InferenceAnswered, KeepsAnswer
<1>5. QED
  BY <1>1, <1>2, <1>3, <1>4

\* A step of the dispatcher that writes no table keeps everything else.
LEMMA DispatcherOnly ==
    ASSUME IInv, TypeOK', DispatcherOK', disp'.pc # "settle",
           UNCHANGED <<tasks, jobs, minted, req, runs>>
    PROVE  IInv'
<1>1. RequestsOK' /\ MintedOnce' /\ JobsOK'
  BY DEF IInv, RequestsOK, MintedOnce, JobsOK
<1>2. CompletedAnswered' /\ InferenceAnswered' /\ SettleAnswered'
  BY DEF IInv, CompletedAnswered, InferenceAnswered, SettleAnswered, KeepsAnswer
<1>3. QED
  BY <1>1, <1>2 DEF IInv

\* The dispatcher's own writes of its job's row hit a row that exists and has
\* no result yet, so it is no task's answer and no request's blank row.
LEMMA DispatcherJobWrite ==
    ASSUME IInv, TypeOK',
           disp.pc \in {"assign", "markJob", "complete", "failJob"},
           NEW o, NEW s \in {"running", "completed", "failed"}, NEW res \in Result,
           UpdateJobStatus(o, disp.job, s) \/ CompleteJob(o, disp.job, res, s),
           UNCHANGED <<tasks, minted, req, runs>>
    PROVE  /\ RequestsOK' /\ MintedOnce' /\ JobsOK'
           /\ CompletedAnswered' /\ InferenceAnswered'
<1> DEFINE j == disp.job
<1>1. /\ j \in JobId
      /\ jobs[j].status # "none"
      /\ jobs[j].result = "none"
  BY DEF IInv, DispatcherOK
<1>2. s \in JobStatus
  BY DEF JobStatus, JobClosed
<1>3. /\ \A k \in JobId : k # j => jobs'[k] = jobs[k]
      /\ \A k \in JobId : jobs'[k].task = jobs[k].task
      /\ jobs'[j].status \in {s, jobs[j].status}
      /\ UpdateJobStatus(o, j, s) => jobs'[j].result = jobs[j].result
      /\ CompleteJob(o, j, res, s) =>
            jobs'[j] = jobs[j] \/ jobs'[j].status = s
  BY <1>1, <1>2, JobWriteEffect DEF IInv
<1>4. RequestsOK'
  BY <1>1, <1>3 DEF IInv, RequestsOK, TypeOK, ReqState
<1>5. MintedOnce'
  BY DEF IInv, MintedOnce
<1>6. JobsOK'
  BY <1>1, <1>3 DEF IInv, JobsOK
<1>7. CompletedAnswered' /\ InferenceAnswered'
  BY <1>1, <1>3 DEF IInv, CompletedAnswered, InferenceAnswered, KeepsAnswer
<1>8. QED
  BY <1>4, <1>5, <1>6, <1>7

\* The dispatcher's task updates keep the invariant: it completes a task only
\* in "settle" with a good result, when the answer is in place.
LEMMA DispatcherTaskWrite ==
    ASSUME IInv, TypeOK', DispatcherOK',
           disp.pc # "idle", disp'.pc # "settle",
           NEW o, NEW s \in {"running", "completed", "failed"},
           s = "completed" => disp.pc = "settle" /\ disp.result = "ok",
           UpdateTaskStatus(o, jobs[disp.job].task, s),
           UNCHANGED <<jobs, minted, req, runs>>
    PROVE  IInv'
<1> DEFINE t == jobs[disp.job].task
<1>1. t \in Task
  BY DEF IInv, DispatcherOK, JobsOK
<1>2. s \in TaskStatus \ {"none"}
  BY DEF TaskStatus, TaskTerminal
<1>3. /\ Forward
      /\ \A u \in Task : tasks'[u].status = "completed" =>
            tasks[u].status = "completed" \/ (u = t /\ s = "completed")
  BY <1>1, <1>2, UpdateTaskStatusForward DEF IInv
<1>4. RequestsOK' /\ MintedOnce' /\ JobsOK' /\ InferenceAnswered'
  BY <1>3, TasksForward
<1>5. CompletedAnswered'
  <2>1. SUFFICES ASSUME NEW u \in Task, tasks'[u].status = "completed"
                 PROVE  \E j \in JobId : KeepsAnswer(u, j)'
    BY DEF CompletedAnswered
  <2>2. CASE tasks[u].status = "completed"
    BY <2>2 DEF IInv, CompletedAnswered, KeepsAnswer
  <2>3. CASE tasks[u].status # "completed"
    <3>1. u = t /\ disp.pc = "settle" /\ disp.result = "ok"
      BY <1>3, <2>1, <2>3
    <3>2. ~isTerminalTaskStatus(tasks[t].status)
      BY <1>1, <1>3, <2>1, <2>3, <3>1 DEF Forward
    <3>3. KeepsAnswer(u, disp.job) /\ disp.job \in JobId
      BY <3>1, <3>2 DEF IInv, SettleAnswered, DispatcherOK
    <3>4. QED
      BY <3>3 DEF KeepsAnswer
  <2>4. QED
    BY <2>2, <2>3
<1>6. SettleAnswered'
  BY DEF SettleAnswered
<1>7. QED
  BY <1>4, <1>5, <1>6 DEF IInv

\* Every dispatcher step keeps the invariant.
LEMMA DispatcherStep ==
    ASSUME IInv, TypeOK', Dispatcher
    PROVE  IInv'
<1> USE BoundsAssumption
<1>1. TypeOK /\ DispatcherOK
  BY DEF IInv
<1>2. CASE GetNextQueuedJob
  <2>1. DispatcherOK'
    BY <1>1, <1>2 DEF GetNextQueuedJob, IInv, JobsOK, IsNextQueuedJob, Queued,
       DispatcherOK
  <2>2. QED
    BY <1>2, <2>1, DispatcherOnly DEF GetNextQueuedJob
<1>3. CASE PickNode
  <2>1. DispatcherOK'
    BY <1>1, <1>3 DEF PickNode, DispatcherOK, IdleDisp, TypeOK, DispState
  <2>2. QED
    BY <1>3, <2>1, DispatcherOnly DEF PickNode, IdleDisp, TypeOK, DispState
<1>4. CASE AssignJob
  <2>1. PICK o \in Outcome :
          /\ UpdateJobStatus(o, disp.job, "running")
          /\ disp' = IF o = "ok" THEN [disp EXCEPT !.pc = "markJob"] ELSE IdleDisp
    BY <1>4 DEF AssignJob, AssignJobToNode
  <2>2. disp.pc = "assign" /\ UNCHANGED <<tasks, minted, req, runs>>
    BY <1>4 DEF AssignJob
  <2>3. disp.job \in JobId /\ "none" \in Result /\ "running" \in JobStatus
    BY <1>1, <2>2 DEF DispatcherOK, Result, JobStatus
  <2>4. /\ RequestsOK' /\ MintedOnce' /\ JobsOK'
        /\ CompletedAnswered' /\ InferenceAnswered'
    BY <2>1, <2>2, <2>3, DispatcherJobWrite
  <2>5. /\ jobs'[disp.job].result = jobs[disp.job].result
        /\ o = "ok" => jobs'[disp.job].status = "running"
    BY <1>1, <2>1, <2>3, JobWriteEffect
  <2>6. DispatcherOK' /\ SettleAnswered'
    <3>1. CASE o = "ok"
      BY <1>1, <2>1, <2>2, <2>3, <2>5, <3>1
         DEF DispatcherOK, SettleAnswered, TypeOK, DispState
    <3>2. CASE o # "ok"
      BY <2>1, <3>2 DEF DispatcherOK, SettleAnswered, IdleDisp
    <3>3. QED
      BY <3>1, <3>2
  <2>7. QED
    BY <2>4, <2>6 DEF IInv
<1>5. CASE MarkJobRunning
  <2>1. PICK o \in Outcome : UpdateJobStatus(o, disp.job, "running")
    BY <1>5 DEF MarkJobRunning
  <2>2. /\ disp.pc = "markJob"
        /\ disp' = [disp EXCEPT !.pc = "markTask"]
        /\ UNCHANGED <<tasks, minted, req, runs>>
    BY <1>5 DEF MarkJobRunning
  <2>3. disp.job \in JobId /\ "none" \in Result /\ "running" \in JobStatus
    BY <1>1, <2>2 DEF DispatcherOK, Result, JobStatus
  <2>4. /\ RequestsOK' /\ MintedOnce' /\ JobsOK'
        /\ CompletedAnswered' /\ InferenceAnswered'
    BY <2>1, <2>2, <2>3, DispatcherJobWrite
  <2>5. /\ jobs'[disp.job].result = jobs[disp.job].result
        /\ jobs'[disp.job].status \in {"running", jobs[disp.job].status}
    BY <1>1, <2>1, <2>3, JobWriteEffect
  <2>6. DispatcherOK' /\ SettleAnswered'
    BY <1>1, <2>2, <2>3, <2>5 DEF DispatcherOK, SettleAnswered, TypeOK, DispState
  <2>7. QED
    BY <2>4, <2>6 DEF IInv
<1>6. CASE MarkTaskRunning
  <2>1. PICK o \in Outcome : UpdateTaskStatus(o, jobs[disp.job].task, "running")
    BY <1>6 DEF MarkTaskRunning
  <2>2. DispatcherOK' /\ disp.pc # "idle" /\ disp'.pc # "settle"
    BY <1>1, <1>6 DEF MarkTaskRunning, DispatcherOK, TypeOK, DispState
  <2>3. QED
    BY <1>6, <2>1, <2>2, DispatcherTaskWrite DEF MarkTaskRunning
<1>7. CASE SendReachesWorker
  <2>1. /\ disp.pc = "send" /\ disp.job \in JobId
        /\ disp.attempt < MaxAttempts /\ runs[disp.job] <= disp.attempt
        /\ jobs[disp.job].status \notin {"none", "queued"}
        /\ disp.attempt \in Nat /\ runs \in [JobId -> Nat]
    BY <1>1, <1>7 DEF SendReachesWorker, DispatcherOK, TypeOK, DispState
  <2>2. /\ runs' = [runs EXCEPT ![disp.job] = runs[disp.job] + 1]
        /\ disp'.pc = "await" /\ disp'.attempt = disp.attempt + 1
        /\ disp'.job = disp.job /\ disp'.result = disp.result
        /\ UNCHANGED <<tasks, jobs, minted, req>>
    BY <1>1, <1>7 DEF SendReachesWorker, TypeOK, DispState
  <2>3. runs'[disp.job] = runs[disp.job] + 1
    BY <2>1, <2>2
  <2>4. JobsOK'
    BY <2>1, <2>2, <2>3 DEF IInv, JobsOK
  <2>5. DispatcherOK'
    BY <1>1, <2>1, <2>2, <2>3 DEF DispatcherOK
  <2>6. RequestsOK' /\ MintedOnce' /\ CompletedAnswered' /\ InferenceAnswered'
    BY <2>2 DEF IInv, RequestsOK, MintedOnce, CompletedAnswered, InferenceAnswered,
       KeepsAnswer
  <2>7. SettleAnswered'
    BY <2>2 DEF SettleAnswered
  <2>8. QED
    BY <2>4, <2>5, <2>6, <2>7 DEF IInv
<1>8. CASE SendRefused
  <2>1. /\ disp.pc = "send" /\ disp.attempt < MaxAttempts /\ disp.attempt \in Nat
        /\ disp'.attempt = disp.attempt + 1
        /\ disp'.pc = IF disp.attempt + 1 = MaxAttempts THEN "failJob" ELSE "send"
        /\ disp'.job = disp.job /\ disp'.result = disp.result
        /\ UNCHANGED <<tasks, jobs, minted, req, runs>>
    BY <1>1, <1>8 DEF SendRefused, AfterTransient, DispatcherOK, TypeOK, DispState
  <2>2. runs[disp.job] \in Nat
    BY <1>1, <2>1 DEF DispatcherOK, TypeOK
  <2>3. DispatcherOK'
    BY <1>1, <2>1, <2>2 DEF DispatcherOK
  <2>4. QED
    BY <2>1, <2>3, DispatcherOnly
<1>8a. CASE SendFails
  <2>1. /\ disp.pc = "send" /\ disp.attempt < MaxAttempts /\ disp.attempt \in Nat
        /\ disp'.attempt = disp.attempt + 1 /\ disp'.pc = "failJob"
        /\ disp'.job = disp.job /\ disp'.result = disp.result
        /\ UNCHANGED <<tasks, jobs, minted, req, runs>>
    BY <1>1, <1>8a DEF SendFails, DispatcherOK, TypeOK, DispState
  <2>2. runs[disp.job] \in Nat
    BY <1>1, <2>1 DEF DispatcherOK, TypeOK
  <2>3. DispatcherOK'
    BY <1>1, <2>1, <2>2 DEF DispatcherOK
  <2>4. QED
    BY <2>1, <2>3, DispatcherOnly
<1>9. CASE WorkerAnswers
  <2>1. DispatcherOK'
    BY <1>1, <1>9 DEF WorkerAnswers, DispatcherOK, TypeOK, DispState
  <2>2. disp'.pc # "settle"
    BY <1>1, <1>9 DEF WorkerAnswers, TypeOK, DispState
  <2>3. QED
    BY <1>9, <2>1, <2>2, DispatcherOnly DEF WorkerAnswers
<1>10. CASE AnswerLost
  <2>1. DispatcherOK' /\ disp'.pc # "settle"
    BY <1>1, <1>10 DEF AnswerLost, AfterTransient, DispatcherOK, TypeOK, DispState
  <2>2. QED
    BY <1>10, <2>1, DispatcherOnly DEF AnswerLost
<1>11. CASE WorkerRejects
  <2>1. DispatcherOK' /\ disp'.pc # "settle"
    BY <1>1, <1>11 DEF WorkerRejects, DispatcherOK, TypeOK, DispState
  <2>2. QED
    BY <1>11, <2>1, DispatcherOnly DEF WorkerRejects
<1>12. CASE ApplyJobResult
  <2> DEFINE s == StatusFor(disp.result)
  <2>1. PICK o \in Outcome :
          /\ CompleteJob(o, disp.job, disp.result, s)
          /\ disp' = IF o = "ok" THEN [disp EXCEPT !.pc = "settle"] ELSE IdleDisp
    BY <1>12 DEF ApplyJobResult
  <2>2. disp.pc = "complete" /\ UNCHANGED <<tasks, minted, req, runs>>
    BY <1>12 DEF ApplyJobResult
  <2>3. /\ disp.job \in JobId /\ disp.result \in Result
        /\ s \in {"completed", "failed"} /\ s \in JobStatus
        /\ disp.result \in {"ok", "bad"}
    BY <1>1, <2>2 DEF DispatcherOK, TypeOK, DispState, StatusFor, JobStatus, JobClosed
  <2>4. /\ RequestsOK' /\ MintedOnce' /\ JobsOK'
        /\ CompletedAnswered' /\ InferenceAnswered'
    BY <2>1, <2>2, <2>3, DispatcherJobWrite
  <2>5. /\ o = "ok" => jobs'[disp.job].status = s /\ jobs'[disp.job].result = disp.result
        /\ jobs'[disp.job].task = jobs[disp.job].task
    BY <1>1, <2>1, <2>3, JobWriteEffect
  <2>6. DispatcherOK'
    <3>1. CASE o = "ok"
      BY <1>1, <2>1, <2>2, <2>3, <2>5, <3>1
         DEF DispatcherOK, TypeOK, DispState
    <3>2. CASE o # "ok"
      BY <2>1, <3>2 DEF DispatcherOK, IdleDisp
    <3>3. QED
      BY <3>1, <3>2
  <2>7. SettleAnswered'
    <3>1. SUFFICES ASSUME disp'.pc = "settle", disp'.result = "ok",
                          ~isTerminalTaskStatus(tasks[jobs[disp.job].task].status)
                   PROVE  /\ disp'.job = disp.job
                          /\ KeepsAnswer(jobs[disp.job].task, disp.job)'
      BY <1>1, <2>1, <2>2, <2>5 DEF SettleAnswered, TypeOK, DispState, IdleDisp
    <3>2. o = "ok" /\ disp'.job = disp.job /\ disp.result = "ok"
      BY <1>1, <2>1, <3>1 DEF IdleDisp, TypeOK, DispState
    <3>3. \A r \in Request : disp.job \notin req[r].todo
      BY <3>1 DEF IInv, RequestsOK
    <3>4. QED
      BY <2>2, <2>5, <3>2, <3>3 DEF KeepsAnswer, StatusFor
  <2>8. QED
    BY <2>4, <2>6, <2>7 DEF IInv
<1>13. CASE SettleTask
  <2>1. PICK o \in Outcome :
          UpdateTaskStatus(o, jobs[disp.job].task, StatusFor(disp.result))
    BY <1>13 DEF SettleTask
  <2>2. /\ disp.pc = "settle" /\ disp'.pc # "settle"
        /\ StatusFor(disp.result) \in {"completed", "failed"}
        /\ StatusFor(disp.result) = "completed" => disp.result = "ok"
    BY <1>1, <1>13 DEF SettleTask, StatusFor, IdleDisp
  <2>3. DispatcherOK'
    BY <1>13 DEF SettleTask, DispatcherOK, IdleDisp
  <2>4. QED
    BY <1>13, <2>1, <2>2, <2>3, DispatcherTaskWrite DEF SettleTask
<1>14. CASE MarkJobFailed
  <2>1. PICK o \in Outcome : CompleteJob(o, disp.job, "error", "failed")
    BY <1>14 DEF MarkJobFailed
  <2>2. /\ disp.pc = "failJob"
        /\ disp' = [disp EXCEPT !.pc = "failTask"]
        /\ UNCHANGED <<tasks, minted, req, runs>>
    BY <1>14 DEF MarkJobFailed
  <2>3. disp.job \in JobId /\ "error" \in Result /\ "failed" \in JobStatus
    BY <1>1, <2>2 DEF DispatcherOK, Result, JobStatus, JobClosed
  <2>4. /\ RequestsOK' /\ MintedOnce' /\ JobsOK'
        /\ CompletedAnswered' /\ InferenceAnswered'
    BY <2>1, <2>2, <2>3, DispatcherJobWrite
  <2>5. jobs'[disp.job].status \in {"failed", jobs[disp.job].status}
    BY <1>1, <2>1, <2>3, JobWriteEffect
  <2>6. DispatcherOK' /\ SettleAnswered'
    BY <1>1, <2>2, <2>3, <2>5 DEF DispatcherOK, SettleAnswered, TypeOK, DispState
  <2>7. QED
    BY <2>4, <2>6 DEF IInv
<1>15. CASE MarkTaskFailed
  <2>1. PICK o \in Outcome : UpdateTaskStatus(o, jobs[disp.job].task, "failed")
    BY <1>15 DEF MarkTaskFailed
  <2>2. DispatcherOK' /\ disp.pc # "idle" /\ disp'.pc # "settle"
    BY <1>15 DEF MarkTaskFailed, DispatcherOK, IdleDisp
  <2>3. QED
    BY <1>15, <2>1, <2>2, DispatcherTaskWrite DEF MarkTaskFailed
<1>16. QED
  BY <1>2, <1>3, <1>4, <1>5, <1>6, <1>7, <1>8, <1>8a, <1>9, <1>10, <1>11, <1>12,
     <1>13, <1>14, <1>15 DEF Dispatcher

\* The steps of a request that only change that request's own state, to a
\* state with no jobs to cancel and no id in hand, keep the invariant.
LEMMA RequestOnly ==
    ASSUME IInv, TypeOK', NEW r \in Request, NEW s \in ReqState,
           req' = [req EXCEPT ![r] = s],
           s.pc \notin {"inferInsert", "insert", "inferTask"},
           s.todo = {} \/ s.pc = "cancelJobs",
           \A j \in s.todo : jobs[j].task = s.task /\ jobs[j].status # "completed",
           s.pc # "idle" => s.task \in Task /\ tasks[s.task].status # "none",
           s.pc \in {"cancelRead", "cancelJobs"} =>
              isTerminalTaskStatus(tasks[s.task].status),
           UNCHANGED <<tasks, jobs, minted, disp, runs>>
    PROVE  IInv'
<1>1. req'[r] = s /\ \A q \in Request : q # r => req'[q] = req[q]
  BY DEF IInv, TypeOK
<1>2. RequestsOK'
  BY <1>1 DEF IInv, RequestsOK
<1>3. MintedOnce'
  BY <1>1 DEF IInv, MintedOnce
<1>4. JobsOK' /\ DispatcherOK'
  BY DEF IInv, JobsOK, DispatcherOK
<1>5. ASSUME NEW t, NEW j, KeepsAnswer(t, j) PROVE KeepsAnswer(t, j)'
  BY <1>1, <1>5 DEF KeepsAnswer
<1>6. CompletedAnswered' /\ SettleAnswered'
  BY <1>5 DEF IInv, CompletedAnswered, SettleAnswered
<1>7. InferenceAnswered'
  BY <1>1, <1>5 DEF IInv, InferenceAnswered
<1>8. QED
  BY <1>2, <1>3, <1>4, <1>6, <1>7 DEF IInv

\* Minting hands out an id no other request holds and no row uses.
LEMMA MintStep ==
    ASSUME IInv, TypeOK', NEW r \in Request,
           NEW next \in {"inferInsert", "insert"}, Mint(r, next),
           req[r].pc \in {"infer", "mint"},
           UNCHANGED <<tasks, jobs, disp, runs>>
    PROVE  IInv'
<1>1. /\ minted \in Nat /\ minted' = minted + 1 /\ minted' \in JobId
      /\ MaxJobs \in Nat
  BY BoundsAssumption DEF IInv, TypeOK, Mint, JobId
<1>2. /\ req'[r].pc = next /\ req'[r].job = minted + 1
      /\ req'[r].task = req[r].task /\ req'[r].todo = req[r].todo
      /\ \A q \in Request : q # r => req'[q] = req[q]
  BY DEF IInv, TypeOK, ReqState, Mint
<1>3. jobs[minted + 1].status = "none"
  BY <1>1 DEF IInv, JobsOK
<1>4. RequestsOK'
  BY <1>1, <1>2, <1>3 DEF IInv, RequestsOK, JobId
<1>5. MintedOnce'
  BY <1>1, <1>2 DEF IInv, MintedOnce, RequestsOK, JobId
<1>6. JobsOK' /\ DispatcherOK'
  BY <1>1 DEF IInv, JobsOK, DispatcherOK, JobId
<1>7. ASSUME NEW t, NEW j, KeepsAnswer(t, j) PROVE KeepsAnswer(t, j)'
  BY <1>2, <1>7 DEF KeepsAnswer
<1>8. CompletedAnswered' /\ SettleAnswered' /\ InferenceAnswered'
  BY <1>2, <1>7 DEF IInv, CompletedAnswered, SettleAnswered, InferenceAnswered
<1>9. QED
  BY <1>4, <1>5, <1>6, <1>8 DEF IInv

\* Inserting the row of an id in hand: the row was blank, so it was nobody's
\* answer, not in the dispatcher's hands and on no cancellation's list.
LEMMA InsertStep ==
    ASSUME IInv, TypeOK', NEW r \in Request, NEW o,
           req[r].pc \in {"inferInsert", "insert"},
           NEW s \in {"queued", "completed"}, NEW res \in {"none", "ok"},
           s = "queued" => res = "none",
           InsertJob(o, req[r].job, req[r].task, s, res),
           req' = [req EXCEPT ![r] = req'[r]],
           req'[r].pc \in {"idle", "mint", "inferTask"}, req'[r].todo = {},
           req'[r].pc # "idle" => req'[r].task = req[r].task,
           req'[r].pc = "inferTask" =>
              o = "ok" /\ s = "completed" /\ res = "ok" /\ req'[r].job = req[r].job,
           UNCHANGED <<tasks, minted, disp, runs>>
    PROVE  IInv'
<1> DEFINE j == req[r].job
           q == req'[r]
<1>1. /\ j \in JobId /\ j <= minted /\ jobs[j].status = "none" /\ jobs[j].task = NoTask
      /\ req[r].task \in Task /\ tasks[req[r].task].status # "none"
      /\ runs[j] = 0 /\ jobs[j].result = "none"
      /\ MaxAttempts \in Nat
  BY BoundsAssumption DEF IInv, RequestsOK, JobsOK
<1>2. /\ \A k \in JobId : k # j => jobs'[k] = jobs[k]
      /\ \/ jobs'[j] = jobs[j]
         \/ jobs'[j] = [task |-> req[r].task, status |-> s, result |-> res]
      /\ o = "ok" => jobs'[j] = [task |-> req[r].task, status |-> s, result |-> res]
  BY <1>1, InsertJobEffect DEF IInv
<1>3. req'[r] = q /\ \A p \in Request : p # r => req'[p] = req[p]
  BY DEF IInv, TypeOK
<1>4. \A p \in Request : j \notin req[p].todo
  BY <1>1, TaskAssumption DEF IInv, RequestsOK
<1>5. RequestsOK'
  <2>1. SUFFICES ASSUME NEW p \in Request, p # r
                 PROVE  /\ \A k \in req[p].todo : jobs'[k].task = jobs[k].task
                        /\ req[p].pc \in {"inferInsert", "insert"} =>
                              jobs'[req[p].job] = jobs[req[p].job]
    BY <1>1, <1>3, <2>1 DEF IInv, RequestsOK
  <2>2. \A k \in req[p].todo : k \in JobId
    BY DEF IInv, TypeOK, ReqState
  <2>3. QED
    BY <1>1, <1>2, <1>4, <2>1, <2>2 DEF IInv, RequestsOK, MintedOnce
<1>6. MintedOnce'
  BY <1>3 DEF IInv, MintedOnce
<1>7. JobsOK'
  <2>1. /\ jobs'[j].status \in {"none", s}
        /\ jobs'[j].status \in {"none", "queued"} => jobs'[j].result = "none"
        /\ jobs'[j].status = "none" => jobs'[j].task = NoTask
        /\ jobs'[j].status # "none" => jobs'[j].task = req[r].task
    BY <1>1, <1>2
  <2>2. minted \in Int /\ j \in Int
    BY <1>1, BoundsAssumption DEF IInv, TypeOK, JobId
  <2>3. \A k \in JobId : k # j => jobs'[k] = jobs[k]
    BY <1>2
  <2>4. s # "none"
    OBVIOUS
  <2>5. ASSUME NEW k \in JobId
        PROVE  /\ k > minted => jobs'[k].status = "none"
               /\ jobs'[k].status \in {"none", "queued"} =>
                     jobs'[k].result = "none" /\ runs[k] = 0
               /\ jobs'[k].status = "none" => jobs'[k].task = NoTask
               /\ jobs'[k].status # "none" =>
                     /\ jobs'[k].task \in Task
                     /\ tasks[jobs'[k].task].status # "none"
               /\ runs[k] <= MaxAttempts
    <3>1. CASE k = j
      BY <1>1, <2>1, <2>2, <3>1
    <3>2. CASE k # j
      BY <2>3, <3>2 DEF IInv, JobsOK
    <3>3. QED
      BY <3>1, <3>2
  <2>6. QED
    BY <2>5 DEF JobsOK
<1>8. DispatcherOK'
  BY <1>1, <1>2 DEF IInv, DispatcherOK
<1>9. ASSUME NEW t, NEW k \in JobId, KeepsAnswer(t, k) PROVE KeepsAnswer(t, k)'
  BY <1>1, <1>2, <1>3, <1>9 DEF KeepsAnswer
<1>10. CompletedAnswered'
  BY <1>9 DEF IInv, CompletedAnswered
<1>11. SettleAnswered'
  BY <1>1, <1>2, <1>9 DEF IInv, SettleAnswered, DispatcherOK
<1>12. InferenceAnswered'
  <2>1. ASSUME NEW p \in Request, p # r, req'[p].pc = "inferTask"
        PROVE  req'[p].job \in JobId /\ KeepsAnswer(req[p].task, req[p].job)'
    BY <1>3, <1>9, <2>1 DEF IInv, InferenceAnswered
  <2>2. ASSUME q.pc = "inferTask" PROVE q.job \in JobId /\ KeepsAnswer(req[r].task, req[r].job)'
    BY <1>1, <1>2, <1>3, <1>4, <2>2 DEF KeepsAnswer
  <2>3. QED
    BY <1>3, <2>1, <2>2 DEF InferenceAnswered
<1>13. QED
  BY <1>5, <1>6, <1>7, <1>8, <1>10, <1>11, <1>12 DEF IInv

\* Completing or cancelling a task from a request moves the tasks table
\* forward and ends or continues the request.
LEMMA RequestTaskWrite ==
    ASSUME IInv, TypeOK', NEW r \in Request, NEW o,
           req[r].pc \in {"inferTask", "cancelTask"},
           NEW s \in {"completed", "canceled"},
           s = "completed" => req[r].pc = "inferTask",
           UpdateTaskStatus(o, req[r].task, s),
           req' = [req EXCEPT ![r] = req'[r]],
           \/ req'[r] = IdleReq
           \/ o = "ok" /\ req'[r] = ReqAt("cancelRead", req[r].task, {}),
           UNCHANGED <<jobs, minted, disp, runs>>
    PROVE  IInv'
<1> DEFINE t == req[r].task
           q == req'[r]
<1>1. t \in Task /\ tasks[t].status # "none"
  BY DEF IInv, RequestsOK
<1>2. s \in TaskStatus \ {"none"} /\ s \in TaskTerminal
  BY DEF TaskStatus, TaskTerminal
<1>3. /\ Forward
      /\ \A u \in Task : tasks'[u].status = "completed" =>
            tasks[u].status = "completed" \/ (u = t /\ s = "completed")
      /\ o = "ok" => isTerminalTaskStatus(tasks'[t].status)
  BY <1>1, <1>2, UpdateTaskStatusForward DEF IInv
<1>4. /\ req'[r] = q /\ q.todo = {} /\ q.pc \in {"idle", "cancelRead"}
      /\ q.pc = "cancelRead" => o = "ok" /\ q.task = t
      /\ \A p \in Request : p # r => req'[p] = req[p]
  BY DEF IInv, TypeOK, IdleReq, ReqAt
<1>5. RequestsOK'
  BY <1>1, <1>3, <1>4 DEF IInv, RequestsOK, Forward, isTerminalTaskStatus
<1>6. MintedOnce'
  BY <1>4 DEF IInv, MintedOnce
<1>7. JobsOK' /\ DispatcherOK'
  BY <1>3 DEF IInv, JobsOK, DispatcherOK, Forward
<1>8. ASSUME NEW u, NEW k, KeepsAnswer(u, k) PROVE KeepsAnswer(u, k)'
  BY <1>4, <1>8 DEF KeepsAnswer
<1>9. CompletedAnswered'
  <2>1. SUFFICES ASSUME NEW u \in Task, tasks'[u].status = "completed"
                 PROVE  \E k \in JobId : KeepsAnswer(u, k)
    BY <1>8 DEF CompletedAnswered
  <2>2. CASE tasks[u].status = "completed"
    BY <2>2 DEF IInv, CompletedAnswered
  <2>3. CASE u = t /\ s = "completed"
    BY <2>3 DEF IInv, InferenceAnswered
  <2>4. QED
    BY <1>3, <2>1, <2>2, <2>3
<1>10. InferenceAnswered'
  BY <1>4, <1>8 DEF IInv, InferenceAnswered
<1>11. SettleAnswered'
  <2>1. disp.pc = "settle" => jobs[disp.job].task \in Task
    BY DEF IInv, DispatcherOK, JobsOK
  <2>2. QED
    BY <1>3, <1>8, <2>1 DEF IInv, SettleAnswered, Forward
<1>12. QED
  BY <1>5, <1>6, <1>7, <1>9, <1>10, <1>11 DEF IInv

\* A cancellation overwrites the status of a job on its list, which belongs
\* to a task that has ended and is not the answer of any task.
LEMMA CancelJobStep ==
    ASSUME IInv, TypeOK', NEW r \in Request, CancelJob(r)
    PROVE  IInv'
<1>1. PICK j \in req[r].todo, o \in Outcome :
        /\ UpdateJobStatus(o, j, "canceled")
        /\ req' = [req EXCEPT ![r].todo = @ \ {j}]
  BY DEF CancelJob
<1>2. UNCHANGED <<tasks, minted, disp, runs>> /\ req[r].pc = "cancelJobs"
  BY DEF CancelJob
<1>3. /\ j \in JobId /\ "canceled" \in JobStatus /\ "none" \in Result
      /\ req[r].task \in Task /\ jobs[j].task = req[r].task
      /\ isTerminalTaskStatus(tasks[jobs[j].task].status)
  BY <1>2, TaskAssumption DEF IInv, RequestsOK, TypeOK, ReqState, JobStatus, JobClosed,
     Result
<1>4. jobs[j].status # "none"
  BY <1>3, TaskAssumption DEF IInv, JobsOK
<1>5. /\ \A k \in JobId : k # j => jobs'[k] = jobs[k]
      /\ \A k \in JobId : jobs'[k].task = jobs[k].task
      /\ jobs'[j].status \in {"canceled", jobs[j].status}
      /\ jobs'[j].result = jobs[j].result
  BY <1>1, <1>3, JobWriteEffect DEF IInv
<1>6. /\ req'[r].pc = req[r].pc /\ req'[r].task = req[r].task
      /\ req'[r].job = req[r].job /\ req'[r].todo = req[r].todo \ {j}
      /\ \A q \in Request : q # r => req'[q] = req[q]
  BY <1>1 DEF IInv, TypeOK, ReqState
<1>7. RequestsOK'
  <2>1. \A q \in Request : req[q].todo \subseteq JobId
    BY DEF IInv, TypeOK, ReqState
  <2>2. \A q \in Request :
          /\ req'[q].pc = req[q].pc /\ req'[q].task = req[q].task
          /\ req'[q].job = req[q].job /\ req'[q].todo \subseteq req[q].todo
    BY <1>6
  <2>3. \A q \in Request : req[q].pc \in {"inferInsert", "insert"} =>
           jobs'[req[q].job] = jobs[req[q].job]
    BY <1>4, <1>5 DEF IInv, RequestsOK
  <2>4. QED
    BY <1>2, <1>5, <2>1, <2>2, <2>3 DEF IInv, RequestsOK
<1>8. MintedOnce'
  BY <1>6 DEF IInv, MintedOnce
<1>9. JobsOK'
  BY <1>2, <1>4, <1>5 DEF IInv, JobsOK
<1>10. DispatcherOK'
  BY <1>2, <1>5 DEF IInv, DispatcherOK
<1>11. ASSUME NEW t, NEW k \in JobId, KeepsAnswer(t, k) PROVE KeepsAnswer(t, k)'
  BY <1>1, <1>5, <1>6, <1>11 DEF KeepsAnswer
<1>12. CompletedAnswered' /\ InferenceAnswered'
  BY <1>2, <1>6, <1>11 DEF IInv, CompletedAnswered, InferenceAnswered
<1>13. SettleAnswered'
  BY <1>2, <1>5, <1>11 DEF IInv, SettleAnswered, DispatcherOK
<1>14. QED
  BY <1>7, <1>8, <1>9, <1>10, <1>12, <1>13 DEF IInv
\* A request is accepted: a task row that did not exist is inserted as
\* pending, and nothing refers to it yet but this request.
LEMMA CreateTaskStep ==
    ASSUME IInv, TypeOK', NEW r \in Request, CreateTask(r)
    PROVE  IInv'
<1>1. PICK t \in Task, o \in Outcome, next \in {"infer", "mint"} :
        /\ tasks[t].status = "none"
        /\ InsertTask(o, t)
        /\ req' = [req EXCEPT ![r] =
                      IF o = "ok" THEN ReqAt(next, t, {}) ELSE IdleReq]
  BY DEF CreateTask
<1>2. UNCHANGED <<jobs, minted, disp, runs>>
  BY DEF CreateTask
<1>3. /\ \A u \in Task : u # t => tasks'[u] = tasks[u]
      /\ \/ tasks'[t] = tasks[t]
         \/ tasks'[t].status = "pending"
      /\ o = "ok" => tasks'[t].status = "pending"
  BY <1>1 DEF InsertTask, IInv, TypeOK, Commits
<1>4. Forward
  BY <1>1, <1>3 DEF Forward, isTerminalTaskStatus, TaskTerminal
<1>5. /\ \A q \in Request : q # r => req'[q] = req[q]
      /\ req'[r].todo = {}
      /\ req'[r].pc \in {"idle", "infer", "mint"}
      /\ req'[r].pc # "idle" => req'[r].task = t /\ o = "ok"
  BY <1>1 DEF IInv, TypeOK, ReqAt, IdleReq
<1>6. RequestsOK'
  BY <1>2, <1>3, <1>4, <1>5 DEF IInv, RequestsOK, Forward, isTerminalTaskStatus
<1>7. MintedOnce'
  BY <1>5 DEF IInv, MintedOnce
<1>8. JobsOK' /\ DispatcherOK'
  BY <1>2, <1>4 DEF IInv, JobsOK, DispatcherOK, Forward
<1>9. ASSUME NEW u, NEW k, KeepsAnswer(u, k) PROVE KeepsAnswer(u, k)'
  BY <1>2, <1>5, <1>9 DEF KeepsAnswer
<1>10. CompletedAnswered'
  BY <1>1, <1>3, <1>9 DEF IInv, CompletedAnswered
<1>11. InferenceAnswered'
  BY <1>5, <1>9 DEF IInv, InferenceAnswered
<1>12. SettleAnswered'
  <2>1. disp.pc = "settle" => jobs[disp.job].task \in Task
    BY DEF IInv, DispatcherOK, JobsOK
  <2>2. QED
    BY <1>2, <1>4, <1>9, <2>1 DEF IInv, SettleAnswered, Forward
<1>13. QED
  BY <1>6, <1>7, <1>8, <1>10, <1>11, <1>12 DEF IInv

\* Every step of an accepted request keeps the invariant.
LEMMA HandlerStep ==
    ASSUME IInv, TypeOK', NEW r \in Request, Handler(r)
    PROVE  IInv'
<1>1. /\ TypeOK /\ req[r] \in ReqState /\ IdleReq \in ReqState
      /\ req \in [Request -> ReqState]
      /\ TypeOK' /\ req'[r] \in ReqState
  BY BoundsAssumption DEF IInv, TypeOK, IdleReq, ReqState
<1>2. CASE InferenceAnswers(r)
  BY <1>2, MintStep DEF InferenceAnswers
<1>3. CASE InferenceFails(r)
  <2>1. req[r].pc = "infer" /\ req[r].todo = {}
    BY <1>3 DEF InferenceFails, IInv, RequestsOK
  <2>2. req' = [req EXCEPT ![r] = req'[r]] /\ req'[r] = [req[r] EXCEPT !.pc = "mint"]
    BY <1>1, <1>3 DEF InferenceFails
  <2>3. /\ req'[r].pc = "mint" /\ req'[r].todo = {} /\ req'[r].task = req[r].task
        /\ req[r].task \in Task /\ tasks[req[r].task].status # "none"
    BY <1>1, <2>1, <2>2 DEF ReqState, IInv, RequestsOK
  <2>4. QED
    BY <1>1, <1>3, <2>2, <2>3, RequestOnly DEF InferenceFails
<1>4. CASE CreateJobCompleted(r)
  <2>1. PICK o \in Outcome :
          /\ InsertJob(o, req[r].job, req[r].task, "completed", "ok")
          /\ req' = [req EXCEPT ![r].pc = IF o = "ok" THEN "inferTask" ELSE "mint"]
    BY <1>4 DEF CreateJobCompleted
  <2>2. req[r].pc = "inferInsert" /\ req[r].todo = {}
    BY <1>4 DEF CreateJobCompleted, IInv, RequestsOK
  <2>3. /\ req' = [req EXCEPT ![r] = req'[r]]
        /\ req'[r].pc = IF o = "ok" THEN "inferTask" ELSE "mint"
        /\ req'[r].todo = {} /\ req'[r].task = req[r].task
        /\ req'[r].job = req[r].job
    BY <1>1, <2>1, <2>2 DEF ReqState
  <2>4. /\ req'[r].pc \in {"idle", "mint", "inferTask"}
        /\ req'[r].pc = "inferTask" => o = "ok"
    BY <2>3
  <2>5. UNCHANGED <<tasks, minted, disp, runs>>
    BY <1>4 DEF CreateJobCompleted
  <2>6. InsertJob(o, req[r].job, req[r].task, "completed", "ok")
    BY <2>1
  <2>7. req' = [req EXCEPT ![r] = req'[r]]
    BY <2>3
  <2>8. /\ req'[r].todo = {} /\ req'[r].task = req[r].task
        /\ req'[r].job = req[r].job
    BY <2>3
  <2>9. QED
    BY <1>1, <2>2, <2>4, <2>5, <2>6, <2>7, <2>8, InsertStep
<1>5. CASE InferenceCompletesTask(r)
  <2>1. PICK o \in Outcome : UpdateTaskStatus(o, req[r].task, "completed")
    BY <1>5 DEF InferenceCompletesTask
  <2>2. /\ req[r].pc = "inferTask"
        /\ req' = [req EXCEPT ![r] = req'[r]]
        /\ req'[r] = IdleReq
        /\ UNCHANGED <<jobs, minted, disp, runs>>
    BY <1>1, <1>5 DEF InferenceCompletesTask
  <2>3. QED
    BY <1>1, <2>1, <2>2, RequestTaskWrite
<1>6. CASE PrepareJob(r)
  BY <1>6, MintStep DEF PrepareJob
<1>7. CASE CreateJob(r)
  <2>1. PICK o \in Outcome : InsertJob(o, req[r].job, req[r].task, "queued", "none")
    BY <1>7 DEF CreateJob
  <2>2. /\ req[r].pc = "insert"
        /\ req' = [req EXCEPT ![r] = req'[r]]
        /\ req'[r] = IdleReq
        /\ UNCHANGED <<tasks, minted, disp, runs>>
    BY <1>1, <1>7 DEF CreateJob
  <2>3. req'[r].pc = "idle" /\ req'[r].todo = {}
    BY <2>2 DEF IdleReq
  <2>4. QED
    BY <1>1, <2>1, <2>2, <2>3, InsertStep
<1>8. CASE CancelTaskRow(r)
  <2>1. PICK o \in Outcome :
          /\ UpdateTaskStatus(o, req[r].task, "canceled")
          /\ req' = [req EXCEPT ![r] =
                        IF o = "ok" THEN ReqAt("cancelRead", req[r].task, {})
                                    ELSE IdleReq]
    BY <1>8 DEF CancelTaskRow
  <2>2. /\ req[r].pc = "cancelTask"
        /\ UNCHANGED <<jobs, minted, disp, runs>>
    BY <1>8 DEF CancelTaskRow
  <2>3. /\ req' = [req EXCEPT ![r] = req'[r]]
        /\ \/ req'[r] = IdleReq
           \/ o = "ok" /\ req'[r] = ReqAt("cancelRead", req[r].task, {})
    BY <1>1, <2>1
  <2>4. UpdateTaskStatus(o, req[r].task, "canceled")
    BY <2>1
  <2>5. QED
    BY <1>1, <2>2, <2>3, <2>4, RequestTaskWrite
<1>9. CASE CancelReadJobs(r)
  <2>1. /\ req[r].pc = "cancelRead"
        /\ UNCHANGED <<tasks, jobs, minted, disp, runs>>
        /\ req' = [req EXCEPT ![r] = req'[r]]
        /\ \/ req'[r] = IdleReq
           \/ req'[r] = ReqAt("cancelJobs", req[r].task, OpenJobsOf(req[r].task))
    BY <1>1, <1>9 DEF CancelReadJobs
  <2>2. \A j \in OpenJobsOf(req[r].task) :
          jobs[j].task = req[r].task /\ jobs[j].status # "completed"
    BY DEF OpenJobsOf, JobsOf, JobClosed
  <2>3. /\ req[r].task \in Task /\ tasks[req[r].task].status # "none"
        /\ isTerminalTaskStatus(tasks[req[r].task].status)
    BY <2>1 DEF IInv, RequestsOK
  <2>4. CASE req'[r] = IdleReq
    BY <1>1, <2>1, <2>4, RequestOnly, ZenonT(60) DEF IdleReq
  <2>5. CASE req'[r] = ReqAt("cancelJobs", req[r].task, OpenJobsOf(req[r].task))
    BY <1>1, <2>1, <2>2, <2>3, <2>5, RequestOnly DEF ReqAt
  <2>6. QED
    BY <2>1, <2>4, <2>5
<1>10. CASE CancelJob(r)
  BY <1>10, CancelJobStep
<1>11. CASE CancelResponds(r)
  BY <1>1, <1>11, RequestOnly DEF CancelResponds, IdleReq
<1>12. QED
  BY <1>2, <1>3, <1>4, <1>5, <1>6, <1>7, <1>8, <1>9, <1>10, <1>11 DEF Handler

\* The invariant is inductive.
LEMMA NextIInv == IInv /\ [Next]_vars => IInv'
<1>1. SUFFICES ASSUME IInv, [Next]_vars PROVE IInv'
  OBVIOUS
<1>2. TypeOK'
  BY <1>1, NextType DEF IInv
<1>3. ASSUME NEW r \in Request, CreateTask(r) PROVE IInv'
  BY <1>1, <1>2, <1>3, CreateTaskStep
<1>4. ASSUME NEW r \in Request, CancelTask(r) PROVE IInv'
  <2>1. PICK t \in Task :
          /\ tasks[t].status # "none"
          /\ req' = [req EXCEPT ![r] = ReqAt("cancelTask", t, {})]
    BY <1>4 DEF CancelTask
  <2>2. ReqAt("cancelTask", t, {}) \in ReqState
    BY BoundsAssumption DEF ReqAt, ReqState, CancelPC
  <2>3. UNCHANGED <<tasks, jobs, minted, disp, runs>>
    BY <1>4 DEF CancelTask
  <2>4. QED
    BY <1>1, <1>2, <2>1, <2>2, <2>3, RequestOnly DEF ReqAt
<1>5. ASSUME NEW r \in Request, Handler(r) PROVE IInv'
  BY <1>1, <1>2, <1>5, HandlerStep
<1>6. CASE Dispatcher
  BY <1>1, <1>2, <1>6, DispatcherStep
<1>7. CASE ControlPlaneRestart
  <2>1. DispatcherOK' /\ disp'.pc # "settle"
    BY <1>7, BoundsAssumption DEF ControlPlaneRestart, DispatcherOK, IdleDisp
  <2>2. QED
    BY <1>1, <1>2, <1>7, <2>1, DispatcherOnly DEF ControlPlaneRestart
<1>8. CASE NodeAvailability \/ UNCHANGED vars
  <2>1. UNCHANGED <<tasks, jobs, minted, req, disp, runs>>
    BY <1>8 DEF NodeAvailability, vars
  <2>2. QED
    BY <1>1, <1>2, <2>1 DEF IInv, RequestsOK, MintedOnce, JobsOK, DispatcherOK,
       CompletedAnswered, InferenceAnswered, SettleAnswered, KeepsAnswer
<1>9. QED
  BY <1>1, <1>3, <1>4, <1>5, <1>6, <1>7, <1>8 DEF Next

(***************************************************************************)
(* The inductive invariant holds in every reachable state.                 *)
(***************************************************************************)
THEOREM Invariant == Spec => []IInv
<1>1. Init => IInv
  BY InitIInv
<1>2. IInv /\ [Next]_vars => IInv'
  BY NextIInv
<1>3. QED
  BY <1>1, <1>2, PTL DEF Spec

(***************************************************************************)
(* A completed task always has a completed job with a good result, however *)
(* cancellations, the dispatcher and its restarts interleave.              *)
(***************************************************************************)
THEOREM ResultKept == Spec => []CompletedTaskKeepsResult
<1>1. IInv => CompletedTaskKeepsResult
  BY DEF IInv, CompletedAnswered, KeepsAnswer, CompletedTaskKeepsResult, JobsOf
<1>2. QED
  BY <1>1, Invariant, PTL

(***************************************************************************)
(* No job is executed more often than callWorkerAPI has attempts, over all *)
(* ticks and restarts of the control plane.                                *)
(***************************************************************************)
THEOREM Budget == Spec => []RetryBudget
<1>1. IInv => RetryBudget
  BY DEF IInv, JobsOK, RetryBudget
<1>2. QED
  BY <1>1, Invariant, PTL
-----------------------------------------------------------------------------
(* What one step does to the tables *)

\* A step writes one job row, which has no result yet or keeps it, and which
\* keeps its owner or gets an existing task as its owner.
JobStep ==
    /\ UNCHANGED tasks
    /\ \E j \in JobId :
          /\ \A k \in JobId : k # j => jobs'[k] = jobs[k]
          /\ jobs[j].result = "none" \/ jobs'[j].result = jobs[j].result
          /\ jobs'[j].task = jobs[j].task \/ jobs[j].result = "none"
          /\ jobs'[j].result # "none" =>
                /\ jobs'[j].task \in Task
                /\ tasks[jobs'[j].task].status # "none"

\* A step inserts a task row.
TaskInsertStep ==
    /\ UNCHANGED jobs
    /\ \E t \in Task, o \in Outcome : tasks[t].status = "none" /\ InsertTask(o, t)

\* A step updates the status of an existing task, to completed only if the
\* task has a good result.
TaskStep ==
    /\ UNCHANGED jobs
    /\ \E t \in Task, o \in Outcome, s \in {"running", "failed", "canceled", "completed"} :
          /\ tasks[t].status # "none"
          /\ UpdateTaskStatus(o, t, s)
          /\ s = "completed" => \E j \in JobsOf(t) : jobs[j].result = "ok"

\* The dispatcher's and the cancellations' writes of a job row.
LEMMA JobWriteIsJobStep ==
    ASSUME IInv, NEW j \in JobId, NEW o, NEW s \in JobStatus, NEW res \in Result,
           jobs[j].status # "none",
           \/ UpdateJobStatus(o, j, s)
           \/ CompleteJob(o, j, res, s) /\ jobs[j].result = "none",
           UNCHANGED tasks
    PROVE  JobStep
<1>1. /\ \A k \in JobId : k # j => jobs'[k] = jobs[k]
      /\ jobs'[j].task = jobs[j].task
      /\ jobs[j].result = "none" \/ jobs'[j].result = jobs[j].result
  BY JobWriteEffect DEF IInv
<1>2. jobs[j].task \in Task /\ tasks[jobs[j].task].status # "none"
  BY DEF IInv, JobsOK
<1>3. QED
  BY <1>1, <1>2 DEF JobStep

\* The handlers' inserts of a job row.
LEMMA InsertIsJobStep ==
    ASSUME IInv, NEW r \in Request, NEW o, NEW s, NEW res,
           req[r].pc \in {"inferInsert", "insert"},
           InsertJob(o, req[r].job, req[r].task, s, res),
           UNCHANGED tasks
    PROVE  JobStep
<1> DEFINE j == req[r].job
<1>1. /\ j \in JobId /\ jobs[j].result = "none"
      /\ req[r].task \in Task /\ tasks[req[r].task].status # "none"
  BY DEF IInv, RequestsOK, JobsOK
<1>2. /\ \A k \in JobId : k # j => jobs'[k] = jobs[k]
      /\ \/ jobs'[j] = jobs[j]
         \/ jobs'[j] = [task |-> req[r].task, status |-> s, result |-> res]
  BY <1>1, InsertJobEffect DEF IInv
<1>3. jobs'[j].result # "none" => jobs'[j].task = req[r].task
  BY <1>1, <1>2
<1>4. QED
  BY <1>1, <1>2, <1>3 DEF JobStep

\* Each step is one of the three, or leaves both tables alone.
LEMMA StepKinds ==
    ASSUME IInv, [Next]_vars
    PROVE  JobStep \/ TaskInsertStep \/ TaskStep \/ UNCHANGED <<tasks, jobs>>
<1>1. /\ "running" \in JobStatus /\ "canceled" \in JobStatus
      /\ "failed" \in JobStatus /\ "completed" \in JobStatus
      /\ "none" \in Result /\ "error" \in Result
      /\ StatusFor(disp.result) \in {"completed", "failed"}
      /\ disp.result \in Result
  BY DEF JobStatus, JobClosed, Result, StatusFor, IInv, TypeOK, DispState
<1>2. disp.pc # "idle" =>
        /\ disp.job \in JobId /\ jobs[disp.job].status # "none"
        /\ jobs[disp.job].task \in Task
        /\ tasks[jobs[disp.job].task].status # "none"
  BY DEF IInv, DispatcherOK, JobsOK
<1>3. ASSUME NEW r \in Request, CreateTask(r) PROVE TaskInsertStep
  BY <1>3 DEF CreateTask, TaskInsertStep
<1>4. ASSUME NEW r \in Request, Handler(r)
      PROVE  JobStep \/ TaskStep \/ UNCHANGED <<tasks, jobs>>
  <2>1. CASE CreateJobCompleted(r)
    BY <2>1, <1>4, InsertIsJobStep DEF CreateJobCompleted
  <2>2. CASE CreateJob(r)
    BY <2>2, <1>4, InsertIsJobStep DEF CreateJob
  <2>3. CASE InferenceCompletesTask(r)
    <3>1. /\ req[r].task \in Task /\ tasks[req[r].task].status # "none"
          /\ \E j \in JobsOf(req[r].task) : jobs[j].result = "ok"
      BY <2>3 DEF InferenceCompletesTask, IInv, RequestsOK, InferenceAnswered,
         KeepsAnswer, JobsOf
    <3>2. QED
      BY <2>3, <3>1 DEF InferenceCompletesTask, TaskStep
  <2>4. CASE CancelTaskRow(r)
    <3>1. req[r].task \in Task /\ tasks[req[r].task].status # "none"
      BY <2>4, <1>4 DEF CancelTaskRow, IInv, RequestsOK
    <3>2. QED
      BY <2>4, <3>1 DEF CancelTaskRow, TaskStep
  <2>5. CASE CancelJob(r)
    <3>1. PICK j \in req[r].todo, o \in Outcome : UpdateJobStatus(o, j, "canceled")
      BY <2>5 DEF CancelJob
    <3>2. UNCHANGED tasks /\ j \in JobId
      BY <2>5, <1>4 DEF CancelJob, IInv, TypeOK, ReqState
    <3>3. jobs[j].status # "none"
      BY <1>4, <3>2, TaskAssumption DEF IInv, RequestsOK, JobsOK
    <3>4. QED
      BY <1>1, <3>1, <3>2, <3>3, JobWriteIsJobStep
  <2>6. QED
    BY <1>4, <2>1, <2>2, <2>3, <2>4, <2>5 DEF Handler, InferenceAnswers,
       InferenceFails, PrepareJob, CancelReadJobs, CancelResponds
<1>5. CASE Dispatcher
  <2>1. CASE AssignJob
    BY <1>1, <1>2, <2>1, JobWriteIsJobStep DEF AssignJob, AssignJobToNode
  <2>2. CASE MarkJobRunning
    BY <1>1, <1>2, <2>2, JobWriteIsJobStep DEF MarkJobRunning
  <2>3. CASE MarkTaskRunning
    BY <1>2, <2>3 DEF MarkTaskRunning, TaskStep
  <2>4. CASE ApplyJobResult
    <3>1. disp.pc = "complete" /\ UNCHANGED tasks /\ StatusFor(disp.result) \in JobStatus
      BY <1>1, <2>4 DEF ApplyJobResult
    <3>2. jobs[disp.job].result = "none"
      BY <3>1 DEF IInv, DispatcherOK
    <3>3. QED
      BY <1>1, <1>2, <2>4, <3>1, <3>2, JobWriteIsJobStep DEF ApplyJobResult
  <2>5. CASE SettleTask
    <3>1. PICK o \in Outcome :
            UpdateTaskStatus(o, jobs[disp.job].task, StatusFor(disp.result))
      BY <2>5 DEF SettleTask
    <3>2. disp.pc = "settle" /\ UNCHANGED jobs
      BY <2>5 DEF SettleTask
    <3>3. jobs[disp.job].result = disp.result
      BY <3>2 DEF IInv, DispatcherOK
    <3>4. StatusFor(disp.result) = "completed" =>
            \E j \in JobsOf(jobs[disp.job].task) : jobs[j].result = "ok"
      BY <1>2, <3>2, <3>3 DEF StatusFor, JobsOf
    <3>5. QED
      BY <1>1, <1>2, <3>1, <3>2, <3>4 DEF TaskStep
  <2>6. CASE MarkJobFailed
    <3>1. disp.pc = "failJob" /\ UNCHANGED tasks
      BY <2>6 DEF MarkJobFailed
    <3>2. jobs[disp.job].result = "none"
      BY <3>1 DEF IInv, DispatcherOK
    <3>3. QED
      BY <1>1, <1>2, <2>6, <3>1, <3>2, JobWriteIsJobStep DEF MarkJobFailed
  <2>7. CASE MarkTaskFailed
    BY <1>2, <2>7 DEF MarkTaskFailed, TaskStep
  <2>8. QED
    BY <1>5, <2>1, <2>2, <2>3, <2>4, <2>5, <2>6, <2>7 DEF Dispatcher,
       GetNextQueuedJob, PickNode, SendReachesWorker, SendRefused,
       SendFails, WorkerAnswers,
       AnswerLost, WorkerRejects
<1>6. QED
  BY <1>3, <1>4, <1>5 DEF Next, vars, CancelTask, ControlPlaneRestart,
     NodeAvailability

(***************************************************************************)
(* No step of any handler or of the dispatcher changes a stored result.    *)
(***************************************************************************)
THEOREM ResultsAreFinal == Spec => ResultWrittenOnce
<1>1. ASSUME IInv, [Next]_vars, NEW j \in JobId, jobs[j].result # "none"
      PROVE  jobs'[j].result = jobs[j].result
  BY <1>1, StepKinds DEF JobStep, TaskInsertStep, TaskStep
<1>2. IInv /\ [Next]_vars =>
        [\A j \in JobId : jobs[j].result # "none" =>
            jobs'[j].result = jobs[j].result]_vars
  BY <1>1
<1>3. QED
  BY <1>2, Invariant, PTL DEF Spec, ResultWrittenOnce

\* No step changes the row of a task that has ended.
LEMMA TerminalRowStays ==
  ASSUME IInv, [Next]_vars, NEW t \in Task, isTerminalTaskStatus(tasks[t].status)
  PROVE  tasks'[t] = tasks[t]
<1>1. TypeOK
  BY DEF IInv
<1>2. CASE TaskInsertStep
  BY <1>1, <1>2 DEF TaskInsertStep, InsertTask, TypeOK, isTerminalTaskStatus, TaskTerminal
<1>3. CASE TaskStep
  BY <1>1, <1>3 DEF TaskStep, UpdateTaskStatus, TypeOK
<1>4. QED
  BY <1>2, <1>3, StepKinds DEF JobStep

(***************************************************************************)
(* No step of any handler or of the dispatcher changes the row of a task   *)
(* that has ended.                                                         *)
(***************************************************************************)
THEOREM TerminalTasksStick == Spec => TerminalTaskSticks
<1>1. IInv /\ [Next]_vars =>
        [\A t \in Task : tasks[t].status \in TaskTerminal =>
            tasks'[t] = tasks[t]]_vars
  BY TerminalRowStays DEF isTerminalTaskStatus
<1>2. QED
  BY <1>1, Invariant, PTL DEF Spec, TerminalTaskSticks
-----------------------------------------------------------------------------
(* The task pipeline implements TaskService *)

\* The refinement mapping of TS, named for use in proofs.
StatusView == [t \in Task |-> tasks[t].status]

HasAnswer(t) == \E j \in JobsOf(t) : jobs[j].result = "ok"

AnsweredView == [t \in Task |-> HasAnswer(t)]

\* A job write is an answer to one task or changes no task's view.
LEMMA JobStepRefines ==
    ASSUME IInv, JobStep
    PROVE  /\ StatusView' = StatusView
           /\ \/ AnsweredView' = AnsweredView
              \/ \E t \in Task :
                    /\ tasks[t].status # "none"
                    /\ AnsweredView' = [AnsweredView EXCEPT ![t] = TRUE]
<1>1. StatusView' = StatusView
  BY DEF JobStep, StatusView
<1>2. PICK j \in JobId :
          /\ \A k \in JobId : k # j => jobs'[k] = jobs[k]
          /\ jobs[j].result = "none" \/ jobs'[j].result = jobs[j].result
          /\ jobs'[j].task = jobs[j].task \/ jobs[j].result = "none"
          /\ jobs'[j].result # "none" =>
                /\ jobs'[j].task \in Task
                /\ tasks[jobs'[j].task].status # "none"
  BY DEF JobStep
<1>3. CASE jobs'[j].result = "ok"
  <2>1. PICK t \in Task : t = jobs'[j].task /\ tasks[t].status # "none"
    BY <1>2, <1>3
  <2>2. HasAnswer(t)' = TRUE
    BY <1>3, <2>1 DEF HasAnswer, JobsOf
  <2>3. ASSUME NEW u \in Task, u # t PROVE HasAnswer(u)' = HasAnswer(u)
    BY <1>2, <1>3, <2>1, <2>3 DEF HasAnswer, JobsOf
  <2>4. AnsweredView' = [AnsweredView EXCEPT ![t] = TRUE]
    BY <2>1, <2>2, <2>3 DEF AnsweredView
  <2>5. QED
    BY <1>1, <2>1, <2>4
<1>4. CASE jobs'[j].result # "ok"
  <2>1. ASSUME NEW u \in Task PROVE HasAnswer(u)' = HasAnswer(u)
    BY <1>2, <1>4 DEF HasAnswer, JobsOf
  <2>2. AnsweredView' = AnsweredView
    BY <2>1 DEF AnsweredView
  <2>3. QED
    BY <1>1, <2>2
<1>5. QED
  BY <1>3, <1>4

\* Every step of the pipeline is a step of the service or a stutter.
LEMMA StepRefines ==
    ASSUME IInv, [Next]_vars
    PROVE  [TS!Next]_(TS!vars)
<1>1. TypeOK /\ tasks \in [Task -> TaskRow]
  BY DEF IInv, TypeOK
<1>2. UNCHANGED jobs => AnsweredView' = AnsweredView
  BY DEF AnsweredView, HasAnswer, JobsOf
<1>3. CASE JobStep
  <2>1. CASE AnsweredView' = AnsweredView
    BY <1>3, <2>1, JobStepRefines DEF TS!vars, StatusView, AnsweredView, HasAnswer
  <2>2. ASSUME NEW t \in Task, tasks[t].status # "none",
               AnsweredView' = [AnsweredView EXCEPT ![t] = TRUE]
        PROVE  TS!Answer(t)
    <3>1. StatusView' = StatusView /\ StatusView[t] # "none"
      BY <1>3, <2>2, JobStepRefines DEF StatusView
    <3>2. QED
      BY <2>2, <3>1 DEF TS!Answer, StatusView, AnsweredView, HasAnswer
  <2>3. QED
    BY <1>3, <2>1, <2>2, JobStepRefines DEF TS!Next
<1>4. CASE TaskInsertStep
  <2>1. PICK t \in Task, o \in Outcome : tasks[t].status = "none" /\ InsertTask(o, t)
    BY <1>4 DEF TaskInsertStep
  <2>2. AnsweredView' = AnsweredView
    BY <1>2, <1>4 DEF TaskInsertStep
  <2>3. CASE ~Commits(o)
    <3>1. StatusView' = StatusView
      BY <1>1, <2>1, <2>3 DEF InsertTask, StatusView
    <3>2. QED
      BY <2>2, <3>1 DEF TS!vars, StatusView, AnsweredView, HasAnswer
  <2>4. CASE Commits(o)
    <3>1. StatusView' = [StatusView EXCEPT ![t] = "pending"] /\ StatusView[t] = "none"
      BY <1>1, <2>1, <2>4 DEF InsertTask, StatusView
    <3>2. TS!Accept(t)
      BY <2>2, <3>1 DEF TS!Accept, StatusView, AnsweredView, HasAnswer
    <3>3. QED
      BY <3>2 DEF TS!Next
  <2>5. QED
    BY <2>3, <2>4
<1>5. CASE TaskStep
  <2>1. PICK t \in Task, o \in Outcome,
             s \in {"running", "failed", "canceled", "completed"} :
          /\ tasks[t].status # "none"
          /\ UpdateTaskStatus(o, t, s)
          /\ s = "completed" => HasAnswer(t)
    BY <1>5 DEF TaskStep, HasAnswer
  <2>2. AnsweredView' = AnsweredView
    BY <1>2, <1>5 DEF TaskStep
  <2>3. CASE StatusView' = StatusView
    BY <2>2, <2>3 DEF TS!vars, StatusView, AnsweredView, HasAnswer
  <2>4. CASE StatusView' # StatusView
    <3>1. Commits(o) /\ ~isTerminalTaskStatus(tasks[t].status)
      BY <1>1, <2>1, <2>4 DEF UpdateTaskStatus, StatusView
    <3>2. /\ StatusView' = [StatusView EXCEPT ![t] = s]
          /\ StatusView[t] \in {"pending", "running"}
      BY <1>1, <2>1, <3>1 DEF UpdateTaskStatus, StatusView, TaskRow, TaskStatus,
         isTerminalTaskStatus
    <3>3. s = "running" => StatusView[t] = "pending"
      BY <2>4, <3>2 DEF StatusView
    <3>4. s = "completed" => AnsweredView[t]
      BY <2>1 DEF AnsweredView
    <3>5. TS!Start(t) \/ TS!Fail(t) \/ TS!Cancel(t) \/ TS!Complete(t)
      <4>1. CASE s = "running"
        BY <2>2, <3>2, <3>3, <4>1 DEF TS!Start, StatusView, AnsweredView, HasAnswer
      <4>2. CASE s = "failed"
        BY <2>2, <3>2, <4>2 DEF TS!Fail, TS!Open, StatusView, AnsweredView, HasAnswer
      <4>3. CASE s = "canceled"
        BY <2>2, <3>2, <4>3 DEF TS!Cancel, TS!Open, StatusView, AnsweredView, HasAnswer
      <4>4. CASE s = "completed"
        BY <2>2, <3>2, <3>4, <4>4 DEF TS!Complete, TS!Open, StatusView, AnsweredView,
           HasAnswer
      <4>5. QED
        BY <4>1, <4>2, <4>3, <4>4
    <3>6. QED
      BY <3>5 DEF TS!Next
  <2>5. QED
    BY <2>3, <2>4
<1>6. CASE UNCHANGED <<tasks, jobs>>
  BY <1>6 DEF TS!vars, JobsOf
<1>7. QED
  BY <1>3, <1>4, <1>5, <1>6, StepKinds

(***************************************************************************)
(* The tables, the handlers and the dispatcher implement TaskService: a    *)
(* user sees tasks that move forward only, end once, and are completed     *)
(* only with a stored answer that is never taken back.                     *)
(***************************************************************************)
THEOREM Refinement == Spec => ImplementsTaskService
<1>1. Init => TS!Init
  <2>1. Init => StatusView = [t \in Task |-> "none"]
    BY DEF Init, StatusView
  <2>2. Init => AnsweredView = [t \in Task |-> FALSE]
    BY DEF Init, AnsweredView, HasAnswer, JobsOf, NoJobRow
  <2>3. QED
    BY <2>1, <2>2 DEF TS!Init, StatusView, AnsweredView, HasAnswer
<1>2. IInv /\ [Next]_vars => [TS!Next]_(TS!vars)
  BY StepRefines
<1>3. QED
  BY <1>1, <1>2, Invariant, PTL DEF Spec, ImplementsTaskService, TS!Spec

-----------------------------------------------------------------------------
(* With a store that does not fail, settled tasks have no open job *)

Settled == {"completed", "failed"}

CreatingPC == {"infer", "inferInsert", "mint", "insert"}

HoldingPC == {"pick", "assign", "markJob", "markTask", "send", "await", "complete", "failJob"}

\* A task has one job at most.
OneJobPerTask ==
    \A j, k \in JobId : (jobs[j].task \in Task /\ jobs[k].task = jobs[j].task) => k = j

\* A request that is still to make the job of a task is the only one, and nothing
\* but a cancellation has ended that task.
CreatorsOK ==
    \A r \in Request : req[r].pc \in CreatingPC =>
        /\ \A j \in JobId : jobs[j].task # req[r].task
        /\ tasks[req[r].task].status \notin Settled
        /\ \A q \in Request : (q # r /\ req[q].pc \in CreatingPC) => req[q].task # req[r].task

\* The dispatcher settles a task after it has closed its job.
HeldOK ==
    /\ disp.pc \in HoldingPC => tasks[jobs[disp.job].task].status \notin Settled
    /\ disp.pc \in {"settle", "failTask"} => jobs[disp.job].status \in JobClosed

SettleInv == OneJobPerTask /\ CreatorsOK /\ HeldOK /\ SettledTaskHasNoOpenJob

\* What the invariant of the tables says of a job that the dispatcher holds, and
\* of a task that has jobs.
LEMMA HeldJob ==
    ASSUME IInv
    PROVE  /\ disp.pc # "idle" =>
                 /\ disp.job \in JobId /\ jobs[disp.job].status # "none"
                 /\ jobs[disp.job].task \in Task
           /\ \A j \in JobId : jobs[j].task \in Task => tasks[jobs[j].task].status # "none"
           /\ \A r \in Request : req[r].pc # "idle" =>
                 req[r].task \in Task /\ tasks[req[r].task].status # "none"
<1>1. disp.pc # "idle" =>
         /\ disp.job \in JobId /\ jobs[disp.job].status # "none"
         /\ jobs[disp.job].task \in Task
  BY DEF IInv, DispatcherOK, JobsOK
<1>2. \A j \in JobId : jobs[j].task \in Task => tasks[jobs[j].task].status # "none"
  BY TaskAssumption DEF IInv, JobsOK
<1>3. \A r \in Request : req[r].pc # "idle" =>
         req[r].task \in Task /\ tasks[req[r].task].status # "none"
  BY DEF IInv, RequestsOK
<1>4. QED
  BY <1>1, <1>2, <1>3

\* A step that writes no table; a job that is taken from the queue is open.
LEMMA SettleNoWrite ==
    ASSUME IInv, SettleInv, UNCHANGED <<tasks, jobs>>,
           \A r \in Request :
              \/ req'[r].pc \notin CreatingPC
              \/ req[r].pc \in CreatingPC /\ req'[r].task = req[r].task,
           \/ disp'.pc \notin HoldingPC \cup {"settle", "failTask"}
           \/ disp' = disp
           \/ disp'.pc \in HoldingPC /\ disp.pc \in HoldingPC /\ disp'.job = disp.job
           \/ disp'.pc = "pick" /\ disp'.job \in JobId /\ jobs[disp'.job].status = "queued"
    PROVE  SettleInv'
<1>1. OneJobPerTask' /\ SettledTaskHasNoOpenJob'
  BY DEF SettleInv, OneJobPerTask, SettledTaskHasNoOpenJob, JobsOf
<1>2. CreatorsOK'
  BY DEF SettleInv, CreatorsOK
<1>3. HeldOK'
  <2>1. CASE disp'.pc = "pick" /\ disp'.job \in JobId /\ jobs[disp'.job].status = "queued"
    <3>1. jobs[disp'.job].task \in Task
      BY <2>1 DEF IInv, JobsOK
    <3>2. tasks[jobs[disp'.job].task].status \notin Settled
      BY <2>1, <3>1 DEF SettleInv, SettledTaskHasNoOpenJob, Settled, JobsOf, JobClosed
    <3>3. QED
      BY <2>1, <3>2 DEF HeldOK
  <2>2. CASE disp'.pc \notin HoldingPC \cup {"settle", "failTask"}
    BY <2>2 DEF HeldOK
  <2>3. CASE disp' = disp
    BY <2>3 DEF SettleInv, HeldOK
  <2>4. CASE disp'.pc \in HoldingPC /\ disp.pc \in HoldingPC /\ disp'.job = disp.job
    <3>1. disp'.pc \notin {"settle", "failTask"}
      BY <2>4 DEF HoldingPC
    <3>2. QED
      BY <2>4, <3>1 DEF SettleInv, HeldOK
  <2>5. QED
    BY <2>1, <2>2, <2>3, <2>4
<1>4. QED
  BY <1>1, <1>2, <1>3 DEF SettleInv

\* A task is updated; it is settled only when its jobs are closed, and when nobody
\* makes or holds one.
LEMMA SettleTaskWrite ==
    ASSUME IInv, SettleInv, UNCHANGED jobs, NEW t \in Task, NEW o,
           NEW s \in {"running", "canceled", "completed", "failed"}, UpdateTaskStatus(o, t, s),
           s \in Settled => /\ \A j \in JobsOf(t) : jobs[j].status \in JobClosed
                            /\ \A r \in Request : req'[r].pc \in CreatingPC => req[r].task # t
                            /\ disp'.pc \in HoldingPC => jobs[disp.job].task # t,
           \A r \in Request : req'[r].pc \notin CreatingPC \/ req'[r] = req[r],
           \/ disp'.pc = "idle" \/ disp' = disp
           \/ disp'.pc = "send" /\ disp.pc = "markTask" /\ disp'.job = disp.job
    PROVE  SettleInv'
<1>1. /\ \A u \in Task : u # t => tasks'[u] = tasks[u]
      /\ tasks'[t].status \in {s, tasks[t].status}
  BY DEF UpdateTaskStatus, IInv, TypeOK, TaskRow
<1>2. \A u \in Task : tasks'[u].status \in Settled =>
         tasks[u].status \in Settled \/ (u = t /\ s \in Settled)
  BY <1>1
<1>3. OneJobPerTask'
  BY DEF SettleInv, OneJobPerTask
<1>4. SettledTaskHasNoOpenJob'
  BY <1>2 DEF SettleInv, SettledTaskHasNoOpenJob, JobsOf, Settled
<1>5. CreatorsOK'
  <2>1. SUFFICES ASSUME NEW r \in Request, req'[r].pc \in CreatingPC
                 PROVE  /\ \A j \in JobId : jobs'[j].task # req'[r].task
                        /\ tasks'[req'[r].task].status \notin Settled
                        /\ \A q \in Request : (q # r /\ req'[q].pc \in CreatingPC) =>
                                                 req'[q].task # req'[r].task
    BY DEF CreatorsOK
  <2>2. req'[r] = req[r] /\ req[r].task \in Task
    BY <2>1, HeldJob DEF CreatingPC
  <2>3. tasks[req[r].task].status \notin Settled
    BY <2>1, <2>2 DEF SettleInv, CreatorsOK
  <2>4. tasks'[req[r].task].status \notin Settled
    BY <1>2, <2>1, <2>2, <2>3
  <2>5. QED
    BY <2>1, <2>2, <2>4 DEF SettleInv, CreatorsOK
<1>6. HeldOK'
  <2>1. CASE disp'.pc = "idle"
    BY <2>1 DEF HeldOK, HoldingPC
  <2>2. CASE disp'.pc \in HoldingPC /\ disp.pc \in HoldingPC /\ disp'.job = disp.job
    <3>1. jobs[disp.job].task \in Task /\ disp'.pc \notin {"settle", "failTask"}
      BY <2>2, HeldJob DEF HoldingPC
    <3>2. tasks[jobs[disp.job].task].status \notin Settled
      BY <2>2 DEF SettleInv, HeldOK
    <3>3. tasks'[jobs[disp.job].task].status \notin Settled
      BY <1>2, <2>2, <3>1, <3>2
    <3>4. QED
      BY <2>2, <3>1, <3>3 DEF HeldOK
  <2>3. CASE disp' = disp /\ disp.pc \notin HoldingPC
    BY <2>3 DEF SettleInv, HeldOK
  <2>4. disp.pc = "markTask" => disp.pc \in HoldingPC
    BY DEF HoldingPC
  <2>5. disp'.pc = "send" => disp'.pc \in HoldingPC
    BY DEF HoldingPC
  <2>6. QED
    BY <2>1, <2>2, <2>3, <2>4, <2>5
<1>7. QED
  BY <1>3, <1>4, <1>5, <1>6 DEF SettleInv

\* The row of a job is updated: it is closed, or it is the one the dispatcher holds.
LEMMA SettleJobWrite ==
    ASSUME IInv, SettleInv, UNCHANGED tasks, NEW j \in JobId, jobs[j].task \in Task,
           \A k \in JobId : k # j => jobs'[k] = jobs[k],
           jobs'[j].task = jobs[j].task,
           \/ jobs'[j].status \in JobClosed
           \/ disp.pc \in HoldingPC /\ disp.job = j /\ disp'.pc \notin {"settle", "failTask"},
           \A r \in Request : req'[r].pc \notin CreatingPC \/ req'[r] = req[r],
           \/ disp'.pc = "idle" \/ disp' = disp
           \/ disp'.pc \in HoldingPC /\ disp.pc \in HoldingPC /\ disp'.job = disp.job
           \/ /\ disp'.pc \in {"settle", "failTask"} /\ disp'.job = j
              /\ jobs'[j].status \in JobClosed
    PROVE  SettleInv'
<1>1. \A k \in JobId : jobs'[k].task = jobs[k].task
  OBVIOUS
<1>2. OneJobPerTask'
  BY <1>1 DEF SettleInv, OneJobPerTask
<1>3. CreatorsOK'
  BY <1>1 DEF SettleInv, CreatorsOK
<1>4. SettledTaskHasNoOpenJob'
  <2>1. SUFFICES ASSUME NEW t \in Task, tasks[t].status \in Settled, NEW k \in JobId,
                        jobs[k].task = t
                 PROVE  jobs'[k].status \in JobClosed
    BY <1>1 DEF SettledTaskHasNoOpenJob, JobsOf, Settled
  <2>2. jobs[k].status \in JobClosed
    BY <2>1 DEF SettleInv, SettledTaskHasNoOpenJob, JobsOf, Settled
  <2>3. CASE k # j
    BY <2>2, <2>3
  <2>4. CASE k = j
    <3>1. ~(disp.pc \in HoldingPC /\ disp.job = j)
      BY <2>1, <2>4 DEF SettleInv, HeldOK
    <3>2. QED
      BY <2>4, <3>1
  <2>5. QED
    BY <2>3, <2>4
<1>5. HeldOK'
  <2>1. CASE disp'.pc \in HoldingPC
    <3>1. disp.pc \in HoldingPC /\ disp'.job = disp.job /\ disp'.pc \notin {"settle", "failTask"}
      BY <2>1 DEF HoldingPC
    <3>2. disp.job \in JobId
      BY <3>1, HeldJob DEF HoldingPC
    <3>3. QED
      BY <1>1, <3>1, <3>2 DEF SettleInv, HeldOK
  <2>2. CASE disp'.pc \in {"settle", "failTask"}
    <3>1. disp'.pc \notin HoldingPC /\ disp'.pc # "idle"
      BY <2>2 DEF HoldingPC
    <3>2. CASE disp'.job = j /\ jobs'[j].status \in JobClosed
      BY <3>1, <3>2 DEF HeldOK
    <3>3. CASE disp' = disp
      <4>1. jobs[disp.job].status \in JobClosed /\ disp.job \in JobId
        BY <2>2, <3>3, HeldJob DEF SettleInv, HeldOK
      <4>2. jobs'[disp.job].status \in JobClosed
        BY <2>2, <3>3, <4>1
      <4>3. QED
        BY <3>1, <3>3, <4>2 DEF HeldOK
    <3>4. QED
      BY <2>2, <3>1, <3>2, <3>3
  <2>3. QED
    BY <2>1, <2>2 DEF HeldOK
<1>6. QED
  BY <1>2, <1>3, <1>4, <1>5 DEF SettleInv

\* The only request that may make the job of a task makes it.
LEMMA SettleInsert ==
    ASSUME IInv, SettleInv, NEW r \in Request, req[r].pc \in {"inferInsert", "insert"},
           NEW s \in {"completed", "queued"}, NEW res,
           InsertJob("ok", req[r].job, req[r].task, s, res), UNCHANGED <<tasks, disp>>,
           \A q \in Request : req'[q].pc \notin CreatingPC \/ (q # r /\ req'[q] = req[q])
    PROVE  SettleInv'
<1>1. PICK j \in JobId, t \in Task : /\ j = req[r].job /\ t = req[r].task
                                     /\ jobs[j].status = "none"
  BY HeldJob DEF IInv, RequestsOK
<1>2. req[r].pc \in CreatingPC
  BY DEF CreatingPC
<1>3. /\ \A k \in JobId : k # j => jobs'[k] = jobs[k]
      /\ jobs'[j] = [task |-> t, status |-> s, result |-> res]
  BY <1>1, InsertJobEffect DEF IInv
<1>4. jobs'[j].task = t /\ jobs'[j].status = s
  BY <1>3
<1>5. /\ \A k \in JobId : jobs[k].task # t
      /\ tasks[t].status \notin Settled
      /\ \A q \in Request : (q # r /\ req[q].pc \in CreatingPC) => req[q].task # t
  BY <1>1, <1>2 DEF SettleInv, CreatorsOK
<1>6. OneJobPerTask'
  BY <1>3, <1>4, <1>5 DEF SettleInv, OneJobPerTask
<1>7. SettledTaskHasNoOpenJob'
  <2>1. SUFFICES ASSUME NEW u \in Task, tasks[u].status \in Settled, NEW k \in JobId,
                        jobs'[k].task = u
                 PROVE  jobs'[k].status \in JobClosed
    BY DEF SettledTaskHasNoOpenJob, JobsOf, Settled
  <2>2. k # j
    BY <1>4, <1>5, <2>1
  <2>3. QED
    BY <1>3, <2>1, <2>2 DEF SettleInv, SettledTaskHasNoOpenJob, JobsOf, Settled
<1>8. CreatorsOK'
  <2>1. SUFFICES ASSUME NEW q \in Request, req'[q].pc \in CreatingPC
                 PROVE  /\ \A k \in JobId : jobs'[k].task # req'[q].task
                        /\ tasks'[req'[q].task].status \notin Settled
                        /\ \A x \in Request : (x # q /\ req'[x].pc \in CreatingPC) =>
                                                 req'[x].task # req'[q].task
    BY DEF CreatorsOK
  <2>2. q # r /\ req'[q] = req[q] /\ req[q].task # t
    BY <1>5, <2>1
  <2>3. \A k \in JobId : jobs'[k].task # req[q].task
    BY <1>3, <1>4, <2>1, <2>2 DEF SettleInv, CreatorsOK
  <2>4. QED
    BY <2>1, <2>2, <2>3 DEF SettleInv, CreatorsOK
<1>9. HeldOK'
  <2>1. disp.pc # "idle" => disp.job \in JobId /\ disp.job # j
    BY <1>1, HeldJob
  <2>2. disp.pc # "idle" => jobs'[disp.job] = jobs[disp.job]
    BY <1>3, <2>1
  <2>3. disp.pc \in HoldingPC \cup {"settle", "failTask"} => disp.pc # "idle"
    BY DEF HoldingPC
  <2>4. QED
    BY <2>2, <2>3 DEF SettleInv, HeldOK
<1>10. QED
  BY <1>6, <1>7, <1>8, <1>9 DEF SettleInv

\* The request that inserts a task is the one to make its job.
LEMMA SettleCreateTask ==
    ASSUME IInv, SettleInv, NEW r \in Request, CreateTask(r), Faults = {}
    PROVE  SettleInv'
<1>1. PICK t \in Task, next \in {"infer", "mint"} :
         /\ tasks[t].status = "none"
         /\ InsertTask("ok", t)
         /\ req' = [req EXCEPT ![r] = ReqAt(next, t, {})]
  BY DEF CreateTask, Outcome
<1>2. UNCHANGED <<jobs, disp>>
  BY DEF CreateTask
<1>3. /\ req'[r] = ReqAt(next, t, {}) /\ \A q \in Request : q # r => req'[q] = req[q]
      /\ \A u \in Task : u # t => tasks'[u] = tasks[u]
      /\ tasks'[t] = [status |-> "pending", closed |-> FALSE]
  BY <1>1 DEF IInv, TypeOK, InsertTask, Commits
<1>4. req'[r].pc \in CreatingPC /\ req'[r].task = t /\ tasks'[t].status = "pending"
  BY <1>3 DEF ReqAt, CreatingPC
<1>5. \A u \in Task : tasks'[u].status \in Settled => tasks[u].status \in Settled
  BY <1>3, <1>4 DEF Settled
<1>6. /\ \A j \in JobId : jobs[j].task # t
      /\ \A q \in Request : req[q].pc \in CreatingPC =>
            /\ req[q].task # t /\ req[q].task \in Task
            /\ tasks[req[q].task].status \notin Settled
  BY <1>1, HeldJob DEF CreatingPC, SettleInv, CreatorsOK
<1>7. OneJobPerTask' /\ SettledTaskHasNoOpenJob'
  BY <1>2, <1>5 DEF SettleInv, OneJobPerTask, SettledTaskHasNoOpenJob, JobsOf, Settled
<1>8. CreatorsOK'
  <2>1. SUFFICES ASSUME NEW q \in Request, req'[q].pc \in CreatingPC
                 PROVE  /\ \A k \in JobId : jobs'[k].task # req'[q].task
                        /\ tasks'[req'[q].task].status \notin Settled
                        /\ \A x \in Request : (x # q /\ req'[x].pc \in CreatingPC) =>
                                                 req'[x].task # req'[q].task
    BY DEF CreatorsOK
  <2>2. CASE q = r
    <3>1. tasks'[t].status \notin Settled
      BY <1>4 DEF Settled
    <3>2. QED
      BY <1>2, <1>3, <1>4, <1>6, <2>2, <3>1
  <2>3. CASE q # r
    <3>1. req'[q] = req[q] /\ req[q].task # t /\ req[q].task \in Task
      BY <1>3, <1>6, <2>1, <2>3
    <3>2. tasks'[req[q].task].status \notin Settled
      BY <1>3, <1>6, <2>1, <3>1
    <3>3. \A k \in JobId : jobs'[k].task # req[q].task
      BY <1>2, <2>1, <3>1 DEF SettleInv, CreatorsOK
    <3>4. \A x \in Request : (x # q /\ req'[x].pc \in CreatingPC) => req'[x].task # req[q].task
      BY <1>3, <1>4, <2>1, <3>1 DEF SettleInv, CreatorsOK
    <3>5. QED
      BY <3>1, <3>2, <3>3, <3>4
  <2>4. QED
    BY <2>2, <2>3
<1>9. HeldOK'
  <2>1. disp.pc \in HoldingPC => jobs[disp.job].task \in Task
    BY HeldJob DEF HoldingPC
  <2>2. QED
    BY <1>2, <1>5, <2>1 DEF SettleInv, HeldOK
<1>10. QED
  BY <1>7, <1>8, <1>9 DEF SettleInv

\* The task of a closed job may be settled once the dispatcher has let go of it.
LEMMA OnlyJobClosed ==
    ASSUME SettleInv, NEW j \in JobId, jobs[j].task \in Task, jobs[j].status \in JobClosed
    PROVE  /\ \A k \in JobsOf(jobs[j].task) : jobs[k].status \in JobClosed
           /\ \A r \in Request : req[r].pc \in CreatingPC => req[r].task # jobs[j].task
<1>1. \A k \in JobsOf(jobs[j].task) : k = j
  BY DEF SettleInv, OneJobPerTask, JobsOf
<1>2. QED
  BY <1>1 DEF SettleInv, CreatorsOK

LEMMA SettleHandler ==
    ASSUME IInv, SettleInv, NEW r \in Request, Handler(r), Faults = {}
    PROVE  SettleInv'
<1>1. req \in [Request -> ReqState] /\ TypeOK
  BY DEF IInv, TypeOK
<1>2. UNCHANGED disp /\ \A q \in Request : q # r => req'[q] = req[q]
  BY <1>1 DEF Handler, InferenceAnswers, Mint, InferenceFails, CreateJobCompleted,
     InferenceCompletesTask, PrepareJob, CreateJob, CancelTaskRow, CancelReadJobs, CancelJob,
     CancelResponds
<1>3. IdleReq.pc = "idle" /\ "idle" \notin CreatingPC
  BY DEF IdleReq, CreatingPC
<1>4. CASE InferenceAnswers(r) \/ InferenceFails(r) \/ PrepareJob(r)
  <2>1. UNCHANGED <<tasks, jobs>> /\ req[r].pc \in CreatingPC
    BY <1>4 DEF InferenceAnswers, InferenceFails, PrepareJob, CreatingPC
  <2>2. req'[r].task = req[r].task
    BY <1>1, <1>4 DEF InferenceAnswers, InferenceFails, PrepareJob, Mint, ReqState
  <2>3. \A q \in Request : \/ req'[q].pc \notin CreatingPC
                           \/ req[q].pc \in CreatingPC /\ req'[q].task = req[q].task
    BY <1>2, <2>1, <2>2
  <2>4. QED
    BY <1>2, <2>1, <2>3, SettleNoWrite
<1>5. CASE CreateJobCompleted(r)
  <2>1. /\ req[r].pc = "inferInsert" /\ UNCHANGED tasks
        /\ InsertJob("ok", req[r].job, req[r].task, "completed", "ok")
        /\ req' = [req EXCEPT ![r].pc = "inferTask"]
    BY <1>5 DEF CreateJobCompleted, Outcome
  <2>2. req'[r].pc = "inferTask"
    BY <1>1, <2>1 DEF ReqState
  <2>3. \A q \in Request : req'[q].pc \notin CreatingPC \/ (q # r /\ req'[q] = req[q])
    BY <1>2, <2>2 DEF CreatingPC
  <2>4. QED
    BY <1>2, <2>1, <2>3, SettleInsert
<1>6. CASE CreateJob(r)
  <2>1. /\ req[r].pc = "insert" /\ UNCHANGED tasks
        /\ InsertJob("ok", req[r].job, req[r].task, "queued", "none")
        /\ req' = [req EXCEPT ![r] = IdleReq]
    BY <1>6 DEF CreateJob, Outcome
  <2>2. \A q \in Request : req'[q].pc \notin CreatingPC \/ (q # r /\ req'[q] = req[q])
    BY <1>1, <1>2, <1>3, <2>1
  <2>3. QED
    BY <1>2, <2>1, <2>2, SettleInsert
<1>7. CASE InferenceCompletesTask(r)
  <2>1. /\ req[r].pc = "inferTask" /\ UNCHANGED jobs
        /\ UpdateTaskStatus("ok", req[r].task, "completed")
        /\ req' = [req EXCEPT ![r] = IdleReq]
    BY <1>7 DEF InferenceCompletesTask, Outcome
  <2>2. PICK j \in JobId, t \in Task : /\ j = req[r].job /\ t = req[r].task /\ jobs[j].task = t
                                       /\ jobs[j].status = "completed" /\ jobs[j].result = "ok"
    BY <2>1, HeldJob DEF IInv, InferenceAnswered, KeepsAnswer
  <2>3. jobs[j].status \in JobClosed
    BY <2>2 DEF JobClosed
  <2>4. /\ \A k \in JobsOf(t) : jobs[k].status \in JobClosed
        /\ \A q \in Request : req[q].pc \in CreatingPC => req[q].task # t
    BY <2>2, <2>3, OnlyJobClosed
  <2>5. \A q \in Request : req'[q].pc \notin CreatingPC \/ req'[q] = req[q]
    BY <1>1, <1>2, <1>3, <2>1
  <2>6. disp.pc \in HoldingPC => jobs[disp.job].task # t
    <3>1. SUFFICES ASSUME disp.pc \in HoldingPC, jobs[disp.job].task = t PROVE FALSE
      OBVIOUS
    <3>2. disp.job \in JobId /\ jobs[disp.job].result = "none"
      BY <3>1, HeldJob DEF HoldingPC, IInv, DispatcherOK
    <3>3. disp.job = j
      BY <2>2, <3>1, <3>2 DEF SettleInv, OneJobPerTask
    <3>4. QED
      BY <2>2, <3>2, <3>3
  <2>7. /\ \A q \in Request : req'[q].pc \in CreatingPC => req[q].task # t
        /\ disp'.pc \in HoldingPC => jobs[disp.job].task # t
    BY <1>2, <2>4, <2>5, <2>6
  <2>8. UpdateTaskStatus("ok", t, "completed")
    BY <2>1, <2>2
  <2>9. QED
    BY <1>2, <2>1, <2>4, <2>5, <2>7, <2>8, SettleTaskWrite
<1>8. CASE CancelTaskRow(r)
  <2>1. /\ req[r].pc = "cancelTask" /\ UNCHANGED jobs
        /\ UpdateTaskStatus("ok", req[r].task, "canceled")
        /\ req' = [req EXCEPT ![r] = ReqAt("cancelRead", req[r].task, {})]
    BY <1>8 DEF CancelTaskRow, Outcome
  <2>2. PICK t \in Task : t = req[r].task
    BY <2>1, HeldJob
  <2>3. req'[r].pc \notin CreatingPC
    BY <1>1, <2>1 DEF ReqAt, CreatingPC
  <2>4. "canceled" \notin Settled
    BY DEF Settled
  <2>5. UpdateTaskStatus("ok", t, "canceled")
    BY <2>1, <2>2
  <2>6. \A q \in Request : req'[q].pc \notin CreatingPC \/ req'[q] = req[q]
    BY <1>2, <2>3
  <2>7. QED
    BY <1>2, <2>1, <2>4, <2>5, <2>6, SettleTaskWrite
<1>9. CASE CancelReadJobs(r) \/ CancelResponds(r)
  <2>1. UNCHANGED <<tasks, jobs>>
    BY <1>9 DEF CancelReadJobs, CancelResponds
  <2>2. req'[r].pc \notin CreatingPC
    BY <1>1, <1>9 DEF CancelReadJobs, CancelResponds, Outcome, ReqAt, IdleReq, CreatingPC
  <2>3. \A q \in Request : \/ req'[q].pc \notin CreatingPC
                           \/ req[q].pc \in CreatingPC /\ req'[q].task = req[q].task
    BY <1>2, <2>2
  <2>4. QED
    BY <1>2, <2>1, <2>3, SettleNoWrite
<1>10. CASE CancelJob(r)
  <2>1. PICK j \in req[r].todo :
           UpdateJobStatus("ok", j, "canceled") /\ req' = [req EXCEPT ![r].todo = @ \ {j}]
    BY <1>10 DEF CancelJob, Outcome
  <2>2. UNCHANGED tasks /\ req[r].pc = "cancelJobs"
    BY <1>10 DEF CancelJob
  <2>3. j \in JobId /\ jobs[j].task \in Task
    BY <1>1, <2>1, <2>2, HeldJob DEF ReqState, IInv, RequestsOK
  <2>4. /\ \A k \in JobId : k # j => jobs'[k] = jobs[k]
        /\ jobs'[j].task = jobs[j].task /\ jobs'[j].status = "canceled"
    <3>1. "canceled" \in JobStatus /\ "none" \in Result
      BY DEF JobStatus, JobClosed, Result
    <3>2. QED
      BY <1>1, <2>1, <2>3, <3>1, JobWriteEffect
  <2>5. jobs'[j].status \in JobClosed
    BY <2>4 DEF JobClosed
  <2>6. req'[r].pc = "cancelJobs"
    BY <1>1, <2>1, <2>2 DEF ReqState
  <2>7. \A q \in Request : req'[q].pc \notin CreatingPC \/ req'[q] = req[q]
    BY <1>2, <2>6 DEF CreatingPC
  <2>8. QED
    BY <1>2, <2>2, <2>3, <2>4, <2>5, <2>7, SettleJobWrite
<1>11. QED
  BY <1>4, <1>5, <1>6, <1>7, <1>8, <1>9, <1>10 DEF Handler

LEMMA SettleDispatcher ==
    ASSUME IInv, SettleInv, Dispatcher, Faults = {}
    PROVE  SettleInv'
<1>1. disp \in DispState /\ TypeOK
  BY DEF IInv, TypeOK
<1>2. UNCHANGED req
  BY DEF Dispatcher, GetNextQueuedJob, PickNode, AssignJob, MarkJobRunning, MarkTaskRunning,
     SendReachesWorker, SendRefused, SendFails, WorkerAnswers, AnswerLost, WorkerRejects,
     ApplyJobResult, SettleTask, MarkJobFailed, MarkTaskFailed
<1>3. /\ \A q \in Request : req'[q].pc \notin CreatingPC \/ req'[q] = req[q]
      /\ \A q \in Request : \/ req'[q].pc \notin CreatingPC
                            \/ req[q].pc \in CreatingPC /\ req'[q].task = req[q].task
  BY <1>2
<1>4. IdleDisp.pc = "idle" /\ "idle" \notin HoldingPC \cup {"settle", "failTask"}
  BY DEF IdleDisp, HoldingPC
<1>5. disp.pc # "idle" => disp.job \in JobId /\ jobs[disp.job].task \in Task
  BY HeldJob
<1>6. CASE GetNextQueuedJob
  <2>1. PICK j \in JobId : /\ jobs[j].status = "queued"
                           /\ disp' = [pc |-> "pick", job |-> j, attempt |-> 0, result |-> "none"]
    BY <1>6 DEF GetNextQueuedJob, IsNextQueuedJob, Queued
  <2>2. UNCHANGED <<tasks, jobs>>
    BY <1>6 DEF GetNextQueuedJob
  <2>3. disp'.pc = "pick" /\ disp'.job \in JobId /\ jobs[disp'.job].status = "queued"
    BY <2>1
  <2>4. QED
    BY <1>3, <2>2, <2>3, SettleNoWrite
<1>7. CASE \/ PickNode \/ SendReachesWorker \/ SendRefused \/ SendFails \/ WorkerAnswers
           \/ AnswerLost \/ WorkerRejects
  <2>1. UNCHANGED <<tasks, jobs>>
    BY <1>7 DEF PickNode, SendReachesWorker, SendRefused, SendFails, WorkerAnswers, AnswerLost,
       WorkerRejects
  <2>2. \/ disp' = IdleDisp
        \/ disp'.pc \in HoldingPC /\ disp.pc \in HoldingPC /\ disp'.job = disp.job
    <3>1. CASE PickNode
      BY <1>1, <3>1 DEF PickNode, DispState, HoldingPC
    <3>2. CASE SendReachesWorker
      BY <1>1, <3>2 DEF SendReachesWorker, DispState, HoldingPC
    <3>3. CASE SendRefused
      BY <1>1, <3>3 DEF SendRefused, AfterTransient, DispState, HoldingPC
    <3>4. CASE SendFails \/ WorkerRejects
      BY <1>1, <3>4 DEF SendFails, WorkerRejects, DispState, HoldingPC
    <3>5. CASE WorkerAnswers
      BY <1>1, <3>5 DEF WorkerAnswers, DispState, HoldingPC
    <3>6. CASE AnswerLost
      BY <1>1, <3>6 DEF AnswerLost, AfterTransient, DispState, HoldingPC
    <3>7. QED
      BY <1>7, <3>1, <3>2, <3>3, <3>4, <3>5, <3>6
  <2>3. QED
    BY <1>3, <1>4, <2>1, <2>2, SettleNoWrite
<1>8. CASE AssignJob \/ MarkJobRunning
  <2>1. /\ disp.pc \in {"assign", "markJob"} /\ UNCHANGED tasks
        /\ UpdateJobStatus("ok", disp.job, "running")
        /\ \E pc \in {"markJob", "markTask"} : disp' = [disp EXCEPT !.pc = pc]
    BY <1>8 DEF AssignJob, MarkJobRunning, AssignJobToNode, Outcome
  <2>2. /\ disp.pc \in HoldingPC /\ disp'.pc \in HoldingPC /\ disp'.job = disp.job
        /\ disp'.pc \notin {"settle", "failTask"}
    BY <1>1, <2>1 DEF DispState, HoldingPC
  <2>3. PICK j \in JobId : j = disp.job /\ jobs[j].task \in Task
    BY <1>5, <2>1
  <2>4. /\ \A k \in JobId : k # j => jobs'[k] = jobs[k]
        /\ jobs'[j].task = jobs[j].task
    <3>1. "running" \in JobStatus /\ "none" \in Result
      BY DEF JobStatus, JobClosed, Result
    <3>2. QED
      BY <1>1, <2>1, <2>3, <3>1, JobWriteEffect
  <2>5. QED
    BY <1>3, <2>1, <2>2, <2>3, <2>4, SettleJobWrite
<1>9. CASE MarkTaskRunning
  <2>1. /\ disp.pc = "markTask" /\ UNCHANGED jobs
        /\ UpdateTaskStatus("ok", jobs[disp.job].task, "running")
        /\ disp' = [disp EXCEPT !.pc = "send"]
    BY <1>9 DEF MarkTaskRunning, Outcome
  <2>2. PICK t \in Task : t = jobs[disp.job].task
    BY <1>5, <2>1
  <2>3. disp'.pc = "send" /\ disp'.job = disp.job
    BY <1>1, <2>1 DEF DispState
  <2>4. UpdateTaskStatus("ok", t, "running") /\ "running" \notin Settled
    BY <2>1, <2>2 DEF Settled
  <2>5. QED
    BY <1>3, <2>1, <2>3, <2>4, SettleTaskWrite
<1>10. CASE ApplyJobResult \/ MarkJobFailed
  <2>1. PICK s \in {"completed", "failed"}, res \in Result, pc \in {"settle", "failTask"} :
           /\ CompleteJob("ok", disp.job, res, s)
           /\ disp' = [disp EXCEPT !.pc = pc]
    <3>1. CASE ApplyJobResult
      <4>1. StatusFor(disp.result) \in {"completed", "failed"} /\ disp.result \in Result
        BY <1>1 DEF StatusFor, DispState
      <4>2. QED
        BY <3>1, <4>1 DEF ApplyJobResult, Outcome
    <3>2. CASE MarkJobFailed
      BY <3>2 DEF MarkJobFailed, Outcome, Result
    <3>3. QED
      BY <1>10, <3>1, <3>2
  <2>2. UNCHANGED tasks /\ disp.pc # "idle"
    BY <1>10 DEF ApplyJobResult, MarkJobFailed
  <2>3. PICK j \in JobId : j = disp.job /\ jobs[j].task \in Task
    BY <1>5, <2>2
  <2>4. disp'.pc = pc /\ disp'.job = j
    BY <1>1, <2>1, <2>3 DEF DispState
  <2>5. /\ \A k \in JobId : k # j => jobs'[k] = jobs[k]
        /\ jobs'[j].task = jobs[j].task /\ jobs'[j].status = s
    <3>1. s \in JobStatus
      BY DEF JobStatus, JobClosed
    <3>2. QED
      BY <1>1, <2>1, <2>3, <3>1, JobWriteEffect
  <2>6. jobs'[j].status \in JobClosed
    BY <2>5 DEF JobClosed
  <2>7. QED
    BY <1>3, <2>1, <2>2, <2>3, <2>4, <2>5, <2>6, SettleJobWrite
<1>11. CASE SettleTask \/ MarkTaskFailed
  <2>1. PICK s \in {"completed", "failed"} : UpdateTaskStatus("ok", jobs[disp.job].task, s)
    BY <1>11 DEF SettleTask, MarkTaskFailed, StatusFor, Outcome
  <2>2. disp.pc \in {"settle", "failTask"} /\ UNCHANGED jobs /\ disp' = IdleDisp
    BY <1>11 DEF SettleTask, MarkTaskFailed
  <2>3. PICK j \in JobId, t \in Task : j = disp.job /\ t = jobs[j].task
    BY <1>5, <2>2
  <2>4. jobs[j].status \in JobClosed
    BY <2>2, <2>3 DEF SettleInv, HeldOK
  <2>5. /\ \A k \in JobsOf(t) : jobs[k].status \in JobClosed
        /\ \A q \in Request : req[q].pc \in CreatingPC => req[q].task # t
    BY <2>3, <2>4, OnlyJobClosed
  <2>6. /\ \A q \in Request : req'[q].pc \in CreatingPC => req[q].task # t
        /\ disp'.pc = "idle" /\ disp'.pc \notin HoldingPC
    BY <1>2, <1>4, <2>2, <2>5
  <2>7. UpdateTaskStatus("ok", t, s)
    BY <2>1, <2>3
  <2>8. QED
    BY <1>3, <2>2, <2>5, <2>6, <2>7, SettleTaskWrite
<1>12. QED
  BY <1>6, <1>7, <1>8, <1>9, <1>10, <1>11 DEF Dispatcher

LEMMA SettleStep ==
    ASSUME IInv, SettleInv, [Next]_vars, Faults = {}
    PROVE  SettleInv'
<1>1. ASSUME NEW r \in Request, CreateTask(r) PROVE SettleInv'
  BY <1>1, SettleCreateTask
<1>2. ASSUME NEW r \in Request, CancelTask(r) PROVE SettleInv'
  <2>1. UNCHANGED <<tasks, jobs, disp>>
    BY <1>2 DEF CancelTask
  <2>2. PICK t \in Task : req' = [req EXCEPT ![r] = ReqAt("cancelTask", t, {})]
    BY <1>2 DEF CancelTask
  <2>3. req'[r].pc \notin CreatingPC /\ \A q \in Request : q # r => req'[q] = req[q]
    BY <2>2 DEF IInv, TypeOK, ReqAt, CreatingPC
  <2>4. \A q \in Request : \/ req'[q].pc \notin CreatingPC
                           \/ req[q].pc \in CreatingPC /\ req'[q].task = req[q].task
    BY <2>3
  <2>5. QED
    BY <2>1, <2>4, SettleNoWrite
<1>3. ASSUME NEW r \in Request, Handler(r) PROVE SettleInv'
  BY <1>3, SettleHandler
<1>4. CASE Dispatcher
  BY <1>4, SettleDispatcher
<1>5. CASE ControlPlaneRestart \/ NodeAvailability \/ UNCHANGED vars
  <2>1. UNCHANGED <<tasks, jobs, req>> /\ disp' \in {disp, IdleDisp}
    BY <1>5 DEF ControlPlaneRestart, NodeAvailability, vars
  <2>2. IdleDisp.pc \notin HoldingPC \cup {"settle", "failTask"}
    BY DEF IdleDisp, HoldingPC
  <2>3. \A q \in Request : \/ req'[q].pc \notin CreatingPC
                           \/ req[q].pc \in CreatingPC /\ req'[q].task = req[q].task
    BY <2>1
  <2>4. QED
    BY <2>1, <2>2, <2>3, SettleNoWrite
<1>6. QED
  BY <1>1, <1>2, <1>3, <1>4, <1>5 DEF Next

(***************************************************************************)
(* With a store that does not fail, any number of handlers, cancellations, *)
(* attempts and restarts leave no job of a completed or failed task open   *)
(* (applyJobResult, markJobAndTaskFailed, createTaskWithOrchestratorInfer- *)
(* ence).                                                                  *)
(***************************************************************************)
THEOREM SettledJobs == Spec => []((Faults = {}) => SettledTaskHasNoOpenJob)
<1>1. Init => SettleInv
  <2> SUFFICES ASSUME Init PROVE SettleInv
    OBVIOUS
  <2>1. /\ \A j \in JobId : jobs[j].task = NoTask
        /\ \A r \in Request : req[r].pc = "idle"
        /\ \A u \in Task : tasks[u].status = "none"
        /\ disp.pc = "idle"
    BY DEF Init, NoJobRow, IdleReq, IdleDisp
  <2>2. OneJobPerTask
    BY <2>1, TaskAssumption DEF OneJobPerTask
  <2>3. CreatorsOK /\ HeldOK /\ SettledTaskHasNoOpenJob
    BY <2>1 DEF CreatorsOK, CreatingPC, HeldOK, HoldingPC, SettledTaskHasNoOpenJob
  <2>4. QED
    BY <2>2, <2>3 DEF SettleInv
<1>. DEFINE Settles == (Faults = {}) => SettleInv
<1>2. Init => Settles
  BY <1>1
<1>3. IInv /\ Settles /\ [Next]_vars => Settles'
  BY SettleStep
<1>4. Settles => ((Faults = {}) => SettledTaskHasNoOpenJob)
  BY DEF SettleInv
<1>. HIDE DEF Settles
<1>5. QED
  BY <1>2, <1>3, <1>4, Invariant, PTL DEF Spec
=============================================================================
