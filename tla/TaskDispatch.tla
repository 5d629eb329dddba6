---------------------------- MODULE TaskDispatch ----------------------------
(***************************************************************************)
(* The task pipeline of the orchestrator: the tasks and jobs tables, the   *)
(* user gateway's CreateTask and CancelTask handlers, and the control      *)
(* plane's dispatcher loop with its calls to a worker.                     *)
(*                                                                         *)
(* Every store call of the code is one step, because each is one SQL       *)
(* statement outside any transaction: handlers and dispatcher interleave   *)
(* between any two of them.                                                *)
(***************************************************************************)
EXTENDS Integers

CONSTANTS
    Task,        \* ids of task rows
    NoTask,      \* the task of a job row that does not exist
    Request,     \* concurrently served user-gateway requests
    MaxJobs,     \* bound: number of job ids the handlers may mint
    MaxAttempts, \* attempts of callWorkerAPI (3 in the code)
    MaxCrashes,  \* bound: crashes or restarts of the control plane
    Faults       \* store faults that may happen: subset of {"fail", "lost"}

ASSUME TaskAssumption == NoTask \notin Task
ASSUME BoundsAssumption ==
    /\ MaxJobs \in Nat
    /\ MaxAttempts \in Nat \ {0}
    /\ MaxCrashes \in Nat
ASSUME FaultsAssumption == Faults \subseteq {"fail", "lost"}

VARIABLES
    tasks,     \* tasks table: status and closed
    jobs,      \* jobs table: owning task, status and result
    minted,    \* job ids handed out so far; ids follow created_at
    req,       \* state of each gateway request
    disp,      \* state of the dispatcher goroutine
    nodeUp,    \* does ListDispatchableNodes return a node?
    runs,      \* executions of each job started on a worker
    crashes    \* control-plane crashes so far

vars == <<tasks, jobs, minted, req, disp, nodeUp, runs, crashes>>

-----------------------------------------------------------------------------
(* Rows and process states *)

JobId == 1 .. MaxJobs

TaskTerminal == {"completed", "failed", "canceled", "superseded"}

TaskStatus == {"none", "pending", "running"} \cup TaskTerminal

JobClosed == {"completed", "failed", "canceled"}

JobStatus == {"none", "queued", "running"} \cup JobClosed

\* "ok": a worker or the inference service answered with status completed;
\* "bad": a worker answered with another status; "error": a dispatch error.
Result == {"none", "ok", "bad", "error"}

TaskRow == [status : TaskStatus, closed : BOOLEAN]

JobRow == [task : Task \cup {NoTask}, status : JobStatus, result : Result]

NoJobRow == [task |-> NoTask, status |-> "none", result |-> "none"]

CreatePC == {"infer", "inferInsert", "inferTask", "mint", "insert"}

CancelPC == {"cancelTask", "cancelRead", "cancelJobs"}

\* todo is CancelTask's snapshot of jobs still to be cancelled.
ReqState == [pc : {"idle"} \cup CreatePC \cup CancelPC,
             task : Task \cup {NoTask},
             job : 0 .. MaxJobs,
             todo : SUBSET JobId]

IdleReq == [pc |-> "idle", task |-> NoTask, job |-> 0, todo |-> {}]

ReqAt(pc, t, todo) == [pc |-> pc, task |-> t, job |-> 0, todo |-> todo]

DispPC == {"idle", "pick", "assign", "markJob", "markTask", "send", "await",
           "complete", "settle", "failJob", "failTask"}

DispState == [pc : DispPC, job : 0 .. MaxJobs, attempt : Nat,
              result : Result]

IdleDisp == [pc |-> "idle", job |-> 0, attempt |-> 0, result |-> "none"]

TypeOK ==
    /\ tasks \in [Task -> TaskRow]
    /\ jobs \in [JobId -> JobRow]
    /\ minted \in 0 .. MaxJobs
    /\ req \in [Request -> ReqState]
    /\ disp \in DispState
    /\ nodeUp \in BOOLEAN
    /\ runs \in [JobId -> Nat]
    /\ crashes \in 0 .. MaxCrashes

-----------------------------------------------------------------------------
(* Store operations.  "fail" is an error with no effect, "lost" an effect  *)
(* whose acknowledgement never arrives (connection dropped after commit).  *)
(* A handler whose client disconnects or whose gateway dies sees every     *)
(* later call of that request fail.                                        *)

Outcome == {"ok"} \cup Faults

Commits(o) == o # "fail"

isTerminalTaskStatus(s) == s \in TaskTerminal

InsertTask(o, t) ==
    tasks' = [tasks EXCEPT ![t] =
                 IF Commits(o) THEN [status |-> "pending", closed |-> FALSE]
                               ELSE @]

\* One UPDATE guarded by "status NOT IN (terminal statuses)".
UpdateTaskStatus(o, t, s) ==
    tasks' = [tasks EXCEPT ![t] =
                 IF Commits(o) /\ ~isTerminalTaskStatus(@.status)
                 THEN [status |-> s, closed |-> isTerminalTaskStatus(s)]
                 ELSE @]

\* CreateJob and CreateJobWithID (queued) and CreateJobCompleted.
InsertJob(o, j, t, s, res) ==
    jobs' = [jobs EXCEPT ![j] =
                IF Commits(o) THEN [task |-> t, status |-> s, result |-> res]
                              ELSE @]

\* Unconditional UPDATE by primary key.
UpdateJobStatus(o, j, s) ==
    jobs' = [jobs EXCEPT ![j].status = IF Commits(o) THEN s ELSE @]

AssignJobToNode(o, j) == UpdateJobStatus(o, j, "running")

\* Mutant: the UPDATE stores the result and forgets the status.
CompleteJobResultOnly(o, j, res, s) ==
    jobs' = [jobs EXCEPT ![j].result = IF Commits(o) THEN res ELSE @]

CompleteJob(o, j, res, s) ==
    jobs' = [jobs EXCEPT ![j] =
                IF Commits(o) THEN [task |-> @.task, status |-> s, result |-> res]
                              ELSE @]

Queued == {j \in JobId : jobs[j].status = "queued"}

\* ORDER BY created_at ASC LIMIT 1 over the queued rows.
IsNextQueuedJob(j) == j \in Queued /\ \A k \in Queued : j <= k

JobsOf(t) == {j \in JobId : jobs[j].task = t}

\* Mutant: the loop skips no job.
AllJobsOf(t) == JobsOf(t)

\* The jobs CancelTask's loop does not skip.
OpenJobsOf(t) == {j \in JobsOf(t) : jobs[j].status \notin JobClosed}

-----------------------------------------------------------------------------
Init ==
    /\ tasks = [t \in Task |-> [status |-> "none", closed |-> FALSE]]
    /\ jobs = [j \in JobId |-> NoJobRow]
    /\ minted = 0
    /\ req = [r \in Request |-> IdleReq]
    /\ disp = IdleDisp
    /\ nodeUp \in BOOLEAN
    /\ runs = [j \in JobId |-> 0]
    /\ crashes = 0

-----------------------------------------------------------------------------
(* CreateTask: POST /v1/tasks *)

\* The task row is inserted; an error ends the request.  In prompt mode with
\* an inference URL the handler goes on to "infer"; SBA, script and command
\* modes, and prompt mode without a URL, go on to create a queued job.
CreateTask(r) ==
    /\ req[r].pc = "idle"
    /\ \E t \in Task, o \in Outcome, next \in {"infer", "mint"} :
          /\ tasks[t].status = "none"
          /\ InsertTask(o, t)
          /\ req' = [req EXCEPT ![r] =
                        IF o = "ok" THEN ReqAt(next, t, {}) ELSE IdleReq]
    /\ UNCHANGED <<jobs, minted, disp, nodeUp, runs, crashes>>

\* A fresh job id: uuid.New and created_at are taken together, one step
\* before the row is inserted, so rows may be inserted out of id order.
Mint(r, next) ==
    /\ minted < MaxJobs
    /\ minted' = minted + 1
    /\ req' = [req EXCEPT ![r].pc = next, ![r].job = minted + 1]

\* The inference call of createTaskWithOrchestratorInference succeeds.
InferenceAnswers(r) ==
    /\ req[r].pc = "infer"
    /\ Mint(r, "inferInsert")
    /\ UNCHANGED <<tasks, jobs, disp, nodeUp, runs, crashes>>

\* The inference call fails: fall back to the sandbox job path.
InferenceFails(r) ==
    /\ req[r].pc = "infer"
    /\ req' = [req EXCEPT ![r].pc = "mint"]
    /\ UNCHANGED <<tasks, jobs, minted, disp, nodeUp, runs, crashes>>

\* CreateJobCompleted; any error falls back to the sandbox job path.
CreateJobCompleted(r) ==
    /\ req[r].pc = "inferInsert"
    /\ \E o \in Outcome :
          /\ InsertJob(o, req[r].job, req[r].task, "completed", "ok")
          /\ req' = [req EXCEPT ![r].pc =
                        IF o = "ok" THEN "inferTask" ELSE "mint"]
    /\ UNCHANGED <<tasks, minted, disp, nodeUp, runs, crashes>>

\* The task is marked completed (error ignored); the response is written.
InferenceCompletesTask(r) ==
    /\ req[r].pc = "inferTask"
    /\ \E o \in Outcome : UpdateTaskStatus(o, req[r].task, "completed")
    /\ req' = [req EXCEPT ![r] = IdleReq]
    /\ UNCHANGED <<jobs, minted, disp, nodeUp, runs, crashes>>

\* The id and payload of the job.  INFERENCE_MODEL is not blank (getEnv gives
\* it a default), so that buildSBAJobPayload does not refuse.
PrepareJob(r) ==
    /\ req[r].pc = "mint"
    /\ Mint(r, "insert")
    /\ UNCHANGED <<tasks, jobs, disp, nodeUp, runs, crashes>>

\* CreateJob or CreateJobWithID; whatever its outcome the request ends.
CreateJob(r) ==
    /\ req[r].pc = "insert"
    /\ \E o \in Outcome : InsertJob(o, req[r].job, req[r].task, "queued", "none")
    /\ req' = [req EXCEPT ![r] = IdleReq]
    /\ UNCHANGED <<tasks, minted, disp, nodeUp, runs, crashes>>

-----------------------------------------------------------------------------
(* CancelTask: POST /v1/tasks/{id}/cancel *)

\* resolveTask finds the row.
CancelTask(r) ==
    /\ req[r].pc = "idle"
    /\ \E t \in Task :
          /\ tasks[t].status # "none"
          /\ req' = [req EXCEPT ![r] = ReqAt("cancelTask", t, {})]
    /\ UNCHANGED <<tasks, jobs, minted, disp, nodeUp, runs, crashes>>

\* The guarded task update: silent on a terminal task, an error ends the
\* request before any job is touched.
CancelTaskRow(r) ==
    /\ req[r].pc = "cancelTask"
    /\ \E o \in Outcome :
          /\ UpdateTaskStatus(o, req[r].task, "canceled")
          /\ req' = [req EXCEPT ![r] =
                        IF o = "ok" THEN ReqAt("cancelRead", req[r].task, {})
                                    ELSE IdleReq]
    /\ UNCHANGED <<jobs, minted, disp, nodeUp, runs, crashes>>

\* GetJobsByTaskID: the handler keeps the jobs that are open in this read.
CancelReadJobs(r) ==
    /\ req[r].pc = "cancelRead"
    /\ \E o \in Outcome :
          req' = [req EXCEPT ![r] =
                     IF o = "ok"
                     THEN ReqAt("cancelJobs", req[r].task, OpenJobsOf(req[r].task))
                     ELSE IdleReq]
    /\ UNCHANGED <<tasks, jobs, minted, disp, nodeUp, runs, crashes>>

\* One iteration of the loop, in created_at order, errors ignored.
CancelJob(r) ==
    /\ req[r].pc = "cancelJobs"
    /\ \E j \in req[r].todo, o \in Outcome :
          /\ \A k \in req[r].todo : j <= k
          /\ UpdateJobStatus(o, j, "canceled")
          /\ req' = [req EXCEPT ![r].todo = @ \ {j}]
    /\ UNCHANGED <<tasks, minted, disp, nodeUp, runs, crashes>>

CancelResponds(r) ==
    /\ req[r].pc = "cancelJobs"
    /\ req[r].todo = {}
    /\ req' = [req EXCEPT ![r] = IdleReq]
    /\ UNCHANGED <<tasks, jobs, minted, disp, nodeUp, runs, crashes>>

-----------------------------------------------------------------------------
(* The dispatcher: RunOnce on every tick *)

\* GetNextQueuedJob; without a queued job the iteration ends at once.
GetNextQueuedJob ==
    /\ disp.pc = "idle"
    /\ \E j \in JobId :
          /\ IsNextQueuedJob(j)
          /\ disp' = [pc |-> "pick", job |-> j, attempt |-> 0, result |-> "none"]
    /\ UNCHANGED <<tasks, jobs, minted, req, nodeUp, runs, crashes>>

\* pickNodeAndCredentials: no node or a failed query ends the iteration and
\* leaves the job queued.
PickNode ==
    /\ disp.pc = "pick"
    /\ \E o \in Outcome :
          disp' = IF o = "ok" /\ nodeUp THEN [disp EXCEPT !.pc = "assign"]
                                        ELSE IdleDisp
    /\ UNCHANGED <<tasks, jobs, minted, req, nodeUp, runs, crashes>>

\* AssignJobToNode sets the row to running whatever its status is by now.
AssignJob ==
    /\ disp.pc = "assign"
    /\ \E o \in Outcome :
          /\ AssignJobToNode(o, disp.job)
          /\ disp' = IF o = "ok" THEN [disp EXCEPT !.pc = "markJob"]
                                 ELSE IdleDisp
    /\ UNCHANGED <<tasks, minted, req, nodeUp, runs, crashes>>

MarkJobRunning ==
    /\ disp.pc = "markJob"
    /\ \E o \in Outcome : UpdateJobStatus(o, disp.job, "running")
    /\ disp' = [disp EXCEPT !.pc = "markTask"]
    /\ UNCHANGED <<tasks, minted, req, nodeUp, runs, crashes>>

\* The task update's error is ignored.  ParseSandboxSpec follows; payloads
\* written by CreateTask always parse.
MarkTaskRunning ==
    /\ disp.pc = "markTask"
    /\ \E o \in Outcome : UpdateTaskStatus(o, jobs[disp.job].task, "running")
    /\ disp' = [disp EXCEPT !.pc = "send"]
    /\ UNCHANGED <<jobs, minted, req, nodeUp, runs, crashes>>

\* Mutant: one attempt too many.
OneMoreTransient(d) ==
    [d EXCEPT !.pc = IF d.attempt > MaxAttempts THEN "failJob" ELSE "send"]

\* What callWorkerAPI does after a transient error: try again, or give up
\* after the last attempt.
AfterTransient(d) ==
    [d EXCEPT !.pc = IF d.attempt = MaxAttempts THEN "failJob" ELSE "send"]

\* One attempt: the request reaches the worker, which starts an execution.
SendReachesWorker ==
    /\ disp.pc = "send"
    /\ disp' = [disp EXCEPT !.pc = "await", !.attempt = @ + 1]
    /\ runs' = [runs EXCEPT ![disp.job] = @ + 1]
    /\ UNCHANGED <<tasks, jobs, minted, req, nodeUp, crashes>>

\* One attempt: the connection is refused.
SendRefused ==
    /\ disp.pc = "send"
    /\ disp' = AfterTransient([disp EXCEPT !.attempt = @ + 1])
    /\ UNCHANGED <<tasks, jobs, minted, req, nodeUp, runs, crashes>>

\* One attempt: an error that is not transient (name lookup, a request the
\* worker refuses) before any execution starts.
SendFails ==
    /\ disp.pc = "send"
    /\ disp' = [disp EXCEPT !.pc = "failJob", !.attempt = @ + 1]
    /\ UNCHANGED <<tasks, jobs, minted, req, nodeUp, runs, crashes>>

WorkerAnswers ==
    /\ disp.pc = "await"
    /\ \E res \in {"ok", "bad"} :
          disp' = [disp EXCEPT !.pc = "complete", !.result = res]
    /\ UNCHANGED <<tasks, jobs, minted, req, nodeUp, runs, crashes>>

\* EOF, reset or timeout while the execution may still be running.
AnswerLost ==
    /\ disp.pc = "await"
    /\ disp' = AfterTransient(disp)
    /\ UNCHANGED <<tasks, jobs, minted, req, nodeUp, runs, crashes>>

\* After an execution: a status other than 200, or a response of an
\* unsupported version.
WorkerRejects ==
    /\ disp.pc = "await"
    /\ disp' = [disp EXCEPT !.pc = "failJob"]
    /\ UNCHANGED <<tasks, jobs, minted, req, nodeUp, runs, crashes>>

StatusFor(res) == IF res = "ok" THEN "completed" ELSE "failed"

\* Mutant: an error of CompleteJob makes the dispatcher fail the job.
ApplyJobResultOrFail ==
    /\ disp.pc = "complete"
    /\ \E o \in Outcome :
          /\ CompleteJob(o, disp.job, disp.result, StatusFor(disp.result))
          /\ disp' = [disp EXCEPT !.pc = IF o = "ok" THEN "settle" ELSE "failJob"]
    /\ UNCHANGED <<tasks, minted, req, nodeUp, runs, crashes>>

\* applyJobResult: if CompleteJob reports an error the task is left alone.
ApplyJobResult ==
    /\ disp.pc = "complete"
    /\ \E o \in Outcome :
          /\ CompleteJob(o, disp.job, disp.result, StatusFor(disp.result))
          /\ disp' = IF o = "ok" THEN [disp EXCEPT !.pc = "settle"]
                                 ELSE IdleDisp
    /\ UNCHANGED <<tasks, minted, req, nodeUp, runs, crashes>>

SettleTask ==
    /\ disp.pc = "settle"
    /\ \E o \in Outcome :
          UpdateTaskStatus(o, jobs[disp.job].task, StatusFor(disp.result))
    /\ disp' = IdleDisp
    /\ UNCHANGED <<jobs, minted, req, nodeUp, runs, crashes>>

\* Mutant: markJobAndTaskFailed forgets the job.
SkipMarkJobFailed ==
    /\ disp.pc = "failJob"
    /\ disp' = [disp EXCEPT !.pc = "failTask"]
    /\ UNCHANGED <<tasks, jobs, minted, req, nodeUp, runs, crashes>>

\* markJobAndTaskFailed ignores the errors of both of its updates.
MarkJobFailed ==
    /\ disp.pc = "failJob"
    /\ \E o \in Outcome : CompleteJob(o, disp.job, "error", "failed")
    /\ disp' = [disp EXCEPT !.pc = "failTask"]
    /\ UNCHANGED <<tasks, minted, req, nodeUp, runs, crashes>>

MarkTaskFailed ==
    /\ disp.pc = "failTask"
    /\ \E o \in Outcome : UpdateTaskStatus(o, jobs[disp.job].task, "failed")
    /\ disp' = IdleDisp
    /\ UNCHANGED <<jobs, minted, req, nodeUp, runs, crashes>>

-----------------------------------------------------------------------------
(* Environment *)

\* Mutant: the restarted control plane puts the task back to pending.
RestartReopensTask ==
    /\ disp.pc # "idle"
    /\ crashes < MaxCrashes
    /\ crashes' = crashes + 1
    /\ UpdateTaskStatus("ok", jobs[disp.job].task, "pending")
    /\ disp' = IdleDisp
    /\ UNCHANGED <<jobs, minted, req, nodeUp, runs>>

\* The control plane stops in the middle of an iteration and starts again.
\* A graceful shutdown does the same: the cancelled context makes the
\* pending call and both updates of markJobAndTaskFailed fail.
ControlPlaneRestart ==
    /\ disp.pc # "idle"
    /\ crashes < MaxCrashes
    /\ crashes' = crashes + 1
    /\ disp' = IdleDisp
    /\ UNCHANGED <<tasks, jobs, minted, req, nodeUp, runs>>

\* Nodes register, acknowledge their configuration, or become inactive.
NodeAvailability ==
    /\ nodeUp' = ~nodeUp
    /\ UNCHANGED <<tasks, jobs, minted, req, disp, runs, crashes>>

-----------------------------------------------------------------------------
\* The steps of a request that has been accepted.
Handler(r) ==
    \/ InferenceAnswers(r)
    \/ InferenceFails(r)
    \/ CreateJobCompleted(r)
    \/ InferenceCompletesTask(r)
    \/ PrepareJob(r)
    \/ CreateJob(r)
    \/ CancelTaskRow(r)
    \/ CancelReadJobs(r)
    \/ CancelJob(r)
    \/ CancelResponds(r)

Dispatcher ==
    \/ GetNextQueuedJob
    \/ PickNode
    \/ AssignJob
    \/ MarkJobRunning
    \/ MarkTaskRunning
    \/ SendReachesWorker
    \/ SendRefused
    \/ SendFails
    \/ WorkerAnswers
    \/ AnswerLost
    \/ WorkerRejects
    \/ ApplyJobResult
    \/ SettleTask
    \/ MarkJobFailed
    \/ MarkTaskFailed

Next ==
    \/ \E r \in Request : CreateTask(r)
    \/ \E r \in Request : CancelTask(r)
    \/ \E r \in Request : Handler(r)
    \/ Dispatcher
    \/ ControlPlaneRestart
    \/ NodeAvailability

Spec == Init /\ [][Next]_vars

\* The dispatcher goroutine keeps ticking and an accepted request is served
\* to its end: every blocking call in either has a timeout.
FairSpec ==
    /\ Spec
    /\ WF_vars(Dispatcher)
    /\ \A r \in Request : WF_vars(Handler(r))

-----------------------------------------------------------------------------
(* The inductive invariant behind the safety properties *)

\* A request works on a task that exists.  Once a cancellation goes on to the
\* jobs its task has ended, and what it still means to cancel are jobs of
\* that task.  An id that is minted but not inserted is a blank row.
RequestsOK ==
    \A r \in Request :
        /\ req[r].pc # "idle" =>
              /\ req[r].task \in Task
              /\ tasks[req[r].task].status # "none"
        /\ req[r].pc \in {"cancelRead", "cancelJobs"} =>
              isTerminalTaskStatus(tasks[req[r].task].status)
        /\ \A j \in req[r].todo :
              /\ req[r].pc = "cancelJobs"
              /\ jobs[j].task = req[r].task
        /\ req[r].pc \in {"inferInsert", "insert"} =>
              /\ req[r].job \in JobId
              /\ req[r].job <= minted
              /\ jobs[req[r].job].status = "none"

\* No two requests hold the same id that is still to be inserted.
MintedOnce ==
    \A r, q \in Request :
        /\ r # q
        /\ req[r].pc \in {"inferInsert", "insert"}
        /\ req[q].pc \in {"inferInsert", "insert"}
        => req[r].job # req[q].job

\* Ids not yet minted are blank, blank rows were never run, a job belongs to
\* a task that exists, and a queued job has neither run nor a result.
JobsOK ==
    \A j \in JobId :
        /\ j > minted => jobs[j].status = "none"
        /\ jobs[j].status \in {"none", "queued"} =>
              jobs[j].result = "none" /\ runs[j] = 0
        /\ jobs[j].status = "none" => jobs[j].task = NoTask
        /\ jobs[j].status # "none" =>
              /\ jobs[j].task \in Task
              /\ tasks[jobs[j].task].status # "none"
        /\ runs[j] <= MaxAttempts

\* What the dispatcher knows about the job in its hands: until it completes
\* the job there is no result, and executions stay within its attempts.
DispatcherOK ==
    /\ disp.pc # "idle" => disp.job \in JobId /\ jobs[disp.job].status # "none"
    /\ disp.pc \in {"pick", "assign", "markJob", "markTask", "send", "await",
                    "complete", "failJob"} =>
          /\ jobs[disp.job].result = "none"
          /\ runs[disp.job] <= disp.attempt
    /\ disp.pc \in {"markJob", "markTask", "send", "await", "complete", "failJob"} =>
          jobs[disp.job].status # "queued"
    /\ disp.pc \in {"pick", "assign", "markJob", "markTask"} => disp.attempt = 0
    /\ disp.attempt <= MaxAttempts
    /\ disp.pc = "send" => disp.attempt < MaxAttempts
    /\ disp.pc \in {"complete", "settle"} => disp.result \in {"ok", "bad"}
    /\ disp.pc = "settle" => jobs[disp.job].result = disp.result

\* A job that carries task t's answer, out of reach of every cancellation.
KeepsAnswer(t, j) ==
    /\ jobs[j].task = t
    /\ jobs[j].status = "completed"
    /\ jobs[j].result = "ok"
    /\ \A r \in Request : j \notin req[r].todo

\* A completed task has such a job, and so has every process that is about
\* to complete a task that is still open.
CompletedAnswered ==
    \A t \in Task : tasks[t].status = "completed" =>
        \E j \in JobId : KeepsAnswer(t, j)

InferenceAnswered ==
    \A r \in Request : req[r].pc = "inferTask" =>
        req[r].job \in JobId /\ KeepsAnswer(req[r].task, req[r].job)

SettleAnswered ==
    disp.pc = "settle" /\ disp.result = "ok" =>
        \/ isTerminalTaskStatus(tasks[jobs[disp.job].task].status)
        \/ KeepsAnswer(jobs[disp.job].task, disp.job)

IInv ==
    /\ TypeOK
    /\ RequestsOK
    /\ MintedOnce
    /\ JobsOK
    /\ DispatcherOK
    /\ CompletedAnswered
    /\ InferenceAnswered
    /\ SettleAnswered

-----------------------------------------------------------------------------
(* Properties *)

(***************************************************************************)
(* A task that reads "completed" has a job row that reads "completed" and  *)
(* carries a successful result, so GetTaskResult has something to return.  *)
(* UpdateJobStatus and AssignJobToNode are unconditional: it is the order  *)
(* of the writes in CancelTask, applyJobResult and                         *)
(* createTaskWithOrchestratorInference that protects the row from a        *)
(* cancellation working on a stale list of jobs.                           *)
(***************************************************************************)
CompletedTaskKeepsResult ==
    \A t \in Task : tasks[t].status = "completed" =>
        \E j \in JobsOf(t) : jobs[j].status = "completed" /\ jobs[j].result = "ok"

(***************************************************************************)
(* callWorkerAPI's retry budget bounds the executions of a job over its    *)
(* whole life, failed assignments, lost replies and control-plane restarts *)
(* included: no path puts a job that was sent to a worker back in the      *)
(* queue.                                                                  *)
(***************************************************************************)
RetryBudget == \A j \in JobId : runs[j] <= MaxAttempts

(***************************************************************************)
(* A stored result is final: CompleteJob has no guard on the row, yet no   *)
(* sequence of ticks, cancellations and restarts writes a result twice.    *)
(***************************************************************************)
ResultWrittenOnce ==
    [][\A j \in JobId : jobs[j].result # "none" =>
          jobs'[j].result = jobs[j].result]_vars

(***************************************************************************)
(* UpdateTaskStatus: "Terminal statuses ... are never overwritten", so the *)
(* dispatcher and a cancellation cannot undo each other.                   *)
(***************************************************************************)
TerminalTaskSticks ==
    [][\A t \in Task : tasks[t].status \in TaskTerminal =>
          tasks'[t] = tasks[t]]_vars

(***************************************************************************)
(* With a store that does not fail, a task whose outcome was reported as   *)
(* completed or failed has no job left queued or running: CompleteJob      *)
(* comes before the task update and a task gets one job.                   *)
(***************************************************************************)
SettledTaskHasNoOpenJob ==
    \A t \in Task : tasks[t].status \in {"completed", "failed"} =>
        \A j \in JobsOf(t) : jobs[j].status \in JobClosed

\* The task view of the tables implements the promise made to users.
TS == INSTANCE TaskService WITH
         status <- [t \in Task |-> tasks[t].status],
         answered <- [t \in Task |-> \E j \in JobsOf(t) : jobs[j].result = "ok"]

(***************************************************************************)
(* Handlers, dispatcher and restarts together implement TaskService: tasks *)
(* only move forward, end once, and complete only after a stored answer.   *)
(***************************************************************************)
ImplementsTaskService == TS!Spec

(***************************************************************************)
(* With a dispatchable node from some time on, an accepted task ends: the  *)
(* handler leaves a job behind, the dispatcher reaches it in created_at    *)
(* order and every way out of RunOnce closes the task.                     *)
(***************************************************************************)
EveryTaskSettles ==
    <>[]nodeUp => \A t \in Task :
        tasks[t].status # "none" ~> isTerminalTaskStatus(tasks[t].status)

(***************************************************************************)
(* With a dispatchable node from some time on, every job row comes to rest *)
(* in a closed status, also when a cancellation and the dispatcher keep    *)
(* overwriting each other's status.                                        *)
(***************************************************************************)
EveryJobSettles ==
    <>[]nodeUp => \A j \in JobId :
        <>[](jobs[j].status \in JobClosed \cup {"none"})

(***************************************************************************)
(* The queue of docs/tech_specs/orchestrator.md survives restarts: work    *)
(* taken from the queue by a control plane that restarts still ends.       *)
(***************************************************************************)
QueueSurvivesRestart == EveryTaskSettles
=============================================================================
