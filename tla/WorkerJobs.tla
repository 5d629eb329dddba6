----------------------------- MODULE WorkerJobs -----------------------------
(***************************************************************************)
(* The job endpoint of the worker API and the executor behind it: calls of *)
(* POST /v1/worker/jobs:run, for the same and for different jobs, that may *)
(* overlap or repeat.  A call makes the workspace that its job id names, a *)
(* job directory of its own and, when the job uses inference, the pod that *)
(* the id names; it waits for the container of SandboxAgent, reads the     *)
(* result, answers, and removes what it made.  One action per command or   *)
(* file operation that other calls can see.                                *)
(*                                                                         *)
(* Any id that is not empty is accepted, and neither name is made of the   *)
(* id one to one.  For the directory '/' becomes '_', so that a/b and a_b  *)
(* share one, and '.' and '..' name directories that hold them all, which  *)
(* Root stands for; for the pod all but letters, digits, '-' and '_'       *)
(* become '-', and 40 characters are kept, so that a/b and a.b share one.  *)
(*                                                                         *)
(* The node has a workspace root.  Directories and pods that are removed   *)
(* are gone: errors of RemoveAll and of "pod rm -f" are not modelled.      *)
(***************************************************************************)
EXTENDS SandboxAgent, FiniteSets

CONSTANTS
    Job,       \* job ids
    Dir,       \* directories that ids name
    Root,      \* the one that holds the others, workspaceRoot
    Name,      \* names of pods
    DirOf,     \* the directory named by each id
    NameOf,    \* the pod named by each id
    Workload,  \* job and kind of each call, as they may be submitted
    NoCall     \* no pod

\* The five ways RunJob executes: a process of the node itself (the "direct"
\* runtime), a container, a pod with an inference proxy, and both of these for
\* the agent's image.
Kind == {"direct", "plain", "pod", "sba", "sbaPod"}

ASSUME NamesAssumption ==
    DirOf \in [Job -> Dir] /\ NameOf \in [Job -> Name] /\ Root \in Dir

ASSUME WorkloadAssumption ==
    Workload \subseteq [Call -> [job : Job, kind : Kind]] /\ NoCall \notin Call

VARIABLES
    call,       \* calls of handleRunJob
    ws,         \* workspace directories that exist
    content,    \* the calls whose containers may have put files in each directory
    pod,        \* the call that created the pod of each name
    raced,      \* calls that overlapped with another one in their directory
    disturbed   \* calls whose container found files of another call in its
                \* workspace, or lost the workspace while it ran

workerVars == <<call, ws, content, pod, raced, disturbed>>
vars == <<agent, file, call, ws, content, pod, raced, disturbed>>

-----------------------------------------------------------------------------
ModeOf == [direct |-> {"command"},
           plain  |-> {"command"},
           pod    |-> {"command"},
           sba    |-> {"direct_steps", "agent_loop", "generation"},
           sbaPod |-> {"agent_loop", "generation"}]

Busy == {"prepare", "pod", "podRemove", "podRetry", "proxy", "launch", "wait",
         "drain", "podCleanup", "respond", "workspaceCleanup"}

CallState == [pc : {"idle"} \cup Busy \cup {"ended"},
              job : Job,
              kind : Kind,
              ctx : {"live", "deadline", "canceled"},
              inPod : Call \cup {NoCall},   \* the pod its container is in
              status : {"", "completed", "failed", "timeout"},
              refused : BOOLEAN]            \* did "pod create" report an error?

TypeOK ==
    /\ AgentTypeOK
    /\ call \in [Call -> CallState]
    /\ ws \subseteq Dir
    /\ content \in [Dir -> SUBSET Call]
    /\ pod \in [Name -> Call \cup {NoCall}]
    /\ raced \subseteq Call
    /\ disturbed \subseteq Call

Init ==
    /\ AgentInit
    /\ \E w \in Workload :
          call = [c \in Call |->
                    [pc |-> "idle", job |-> w[c].job, kind |-> w[c].kind, ctx |-> "live",
                     inPod |-> NoCall, status |-> "", refused |-> FALSE]]
    /\ ws = {}
    /\ content = [x \in Dir |-> {}]
    /\ pod = [n \in Name |-> NoCall]
    /\ raced = {}
    /\ disturbed = {}

-----------------------------------------------------------------------------
Active(c) == call[c].pc \in Busy
Live(c) == call[c].ctx = "live"
InPod(c) == call[c].kind \in {"pod", "sbaPod"}
IsSBA(c) == call[c].kind \in {"sba", "sbaPod"}

\* prepareWorkspace and sanitizePodName.
WorkspaceDir(c) == DirOf[call[c].job]
PodName(c) == NameOf[call[c].job]

\* What goes when a directory is removed, and the directories in which files of
\* its user can be met.
Below(x) == IF x = Root THEN Dir ELSE {x}
Related(x) == IF x = Root THEN Dir ELSE {x, Root}

Goto(c, pc) == call' = [call EXCEPT ![c].pc = pc]

\* os.MkdirAll.
MakeWorkspace(c) == ws' = ws \cup {Root, WorkspaceDir(c)}

\* The call gives up: setSBAError and setPodInferenceError.
Fail(c, pc) == call' = [call EXCEPT ![c].status = "failed", ![c].pc = pc]

-----------------------------------------------------------------------------
\* handleRunJob: requests that fail authentication or validation do nothing.
\* prepareWorkspace makes the directory, which may exist.
Run(c) ==
    /\ call[c].pc = "idle"
    /\ LET rivals == {d \in Call \ {c} :
                         Active(d) /\ WorkspaceDir(d) \in Related(WorkspaceDir(c))}
       IN  raced' = IF rivals = {} THEN raced ELSE raced \cup rivals \cup {c}
    /\ MakeWorkspace(c)
    /\ Goto(c, IF IsSBA(c) THEN "prepare" ELSE IF InPod(c) THEN "pod" ELSE "launch")
    /\ UNCHANGED <<agent, file, content, pod, disturbed>>

\* The workspace cannot be made: the caller gets a problem and no result.
RunRefused(c) ==
    /\ call[c].pc = "idle"
    /\ Goto(c, "ended")
    /\ UNCHANGED <<agent, file, ws, content, pod, raced, disturbed>>

\* runJobSBA up to prepareSBAJobAndWorkspace: a fresh directory with the job
\* and a blank result; an invalid job or an error fails the call.
Prepare(c) ==
    /\ call[c].pc = "prepare"
    /\ \/ /\ file' = [file EXCEPT ![c] = "blank"]
          /\ MakeWorkspace(c)
          /\ Goto(c, IF InPod(c) THEN "pod" ELSE "launch")
       \/ Fail(c, "respond") /\ UNCHANGED <<file, ws>>
    /\ UNCHANGED <<agent, content, pod, raced, disturbed>>

-----------------------------------------------------------------------------
(* Pods *)

\* "pod create": the name may be taken, and a command that is killed may have
\* made the pod all the same.  The call that gets an error does not clean up.
CreatePod(c, taken) ==
    LET n == PodName(c) IN
    \/ /\ Live(c) /\ pod[n] = NoCall
       /\ pod' = [pod EXCEPT ![n] = c]
       /\ Goto(c, "proxy")
    \/ /\ Live(c) /\ pod[n] # NoCall
       /\ taken
       /\ UNCHANGED pod
    \/ /\ pod' = pod \/ (Live(c) /\ pod[n] = NoCall /\ pod' = [pod EXCEPT ![n] = c])
       /\ call' = [call EXCEPT ![c].status = "failed", ![c].pc = "respond",
                               ![c].refused = TRUE]

\* runJobWithPodInference gives up when the name is taken, the agent's variant
\* (createOrReplacePod) removes the pod that has it.
PodCreate(c) ==
    /\ call[c].pc = "pod"
    /\ CreatePod(c, IF IsSBA(c) THEN Goto(c, "podRemove")
                    ELSE call' = [call EXCEPT ![c].status = "failed", ![c].pc = "respond",
                                              ![c].refused = TRUE])
    /\ UNCHANGED <<agent, file, ws, content, raced, disturbed>>

\* The containers in the pod of that name.
Inside(n) == {d \in Call : pod[n] # NoCall /\ call[d].inPod = pod[n]}

RemovePod(n) ==
    /\ pod' = [pod EXCEPT ![n] = NoCall]
    /\ KillAgents(Inside(n))

PodRemove(c) ==
    /\ call[c].pc = "podRemove"
    /\ RemovePod(PodName(c))
    /\ Goto(c, "podRetry")
    /\ UNCHANGED <<file, ws, content, raced, disturbed>>

PodRetry(c) ==
    /\ call[c].pc = "podRetry"
    /\ CreatePod(c, call' = [call EXCEPT ![c].status = "failed", ![c].pc = "respond",
                                         ![c].refused = TRUE])
    /\ UNCHANGED <<agent, file, ws, content, raced, disturbed>>

\* The inference proxy is started in the pod of that name and waited for; the
\* workspace is made again.
Proxy(c) ==
    /\ call[c].pc = "proxy"
    /\ \/ /\ Live(c) /\ pod[PodName(c)] # NoCall
          /\ MakeWorkspace(c)
          /\ Goto(c, "launch")
       \/ Fail(c, "podCleanup") /\ UNCHANGED ws
    /\ UNCHANGED <<agent, file, content, pod, raced, disturbed>>

-----------------------------------------------------------------------------
(* The container *)

\* Where the call goes once its command has returned.
AfterRun(c) == IF InPod(c) THEN "podCleanup" ELSE "respond"

\* The other calls that may have left files where the call's container looks.
Leftovers(c) == {d \in Call \ {c} : \E x \in Related(WorkspaceDir(c)) : d \in content[x]}

\* "run": the runtime needs the pod and the directory it is to mount.
Launch(c) ==
    /\ call[c].pc = "launch"
    /\ Live(c) /\ WorkspaceDir(c) \in ws
    /\ InPod(c) => pod[PodName(c)] # NoCall
    /\ \E m \in ModeOf[call[c].kind] :
          agent' = [agent EXCEPT ![c].pc = IF m = "command" THEN m ELSE "start",
                                 ![c].mode = m]
    /\ call' = [call EXCEPT ![c].pc = "wait",
                            ![c].inPod = IF InPod(c) THEN pod[PodName(c)] ELSE NoCall]
    /\ content' = [content EXCEPT ![WorkspaceDir(c)] = @ \cup {c}]
    /\ disturbed' = IF Leftovers(c) = {} THEN disturbed ELSE disturbed \cup {c}
    /\ UNCHANGED <<file, ws, pod, raced>>

\* The runtime does not start a container, or its context is over.
LaunchFails(c) ==
    /\ call[c].pc = "launch"
    /\ call' = [call EXCEPT ![c].pc = AfterRun(c),
                            ![c].status = IF call[c].ctx = "deadline"
                                          THEN "timeout" ELSE "failed"]
    /\ UNCHANGED <<agent, file, ws, content, pod, raced, disturbed>>

\* Mutant: anything but a failure counts as success.
SbaStatusLax(c, status) ==
    IF file[c] = "failure" THEN "failed" ELSE "completed"

\* applySbaResultFromDir: a result that says success or failure decides, others
\* leave what the exit code said, and an unreadable one fails the job if
\* nothing was said.
SbaStatus(c, status) ==
    CASE file[c] = "success" -> "completed"
      [] file[c] = "failure" -> "failed"
      [] file[c] = "timeout" -> status
      [] OTHER -> IF status = "" THEN "failed" ELSE status

\* What RunJob reports once its command returned, with or without an error.
\* The deadline comes first.
Report(c, error) ==
    IF call[c].ctx = "deadline" THEN "timeout"
    ELSE IF IsSBA(c) THEN SbaStatus(c, IF error THEN "failed" ELSE "")
    ELSE IF error THEN "failed" ELSE "completed"

\* The container has ended and its command returns.
Returned(c) ==
    /\ call[c].pc = "wait"
    /\ agent[c].pc = "exited"
    /\ call' = [call EXCEPT ![c].status = Report(c, agent[c].code # "zero"),
                            ![c].pc = AfterRun(c)]
    /\ UNCHANGED <<agent, file, ws, content, pod, raced, disturbed>>

\* Mutant: the command is started without the context.
KilledLate(c) ==
    /\ call[c].pc = "wait"
    /\ ~Live(c) /\ agent[c].pc = "exited"
    /\ Goto(c, "drain")
    /\ UNCHANGED <<agent, file, ws, content, pod, raced, disturbed>>

\* The command is killed because its context is over.  Whether the container, or
\* a process that the command started, stops with it is not up to the node.
Killed(c) ==
    /\ call[c].pc = "wait"
    /\ ~Live(c)
    /\ Goto(c, "drain")
    /\ KillAgents({c}) \/ UNCHANGED agent
    /\ UNCHANGED <<file, ws, content, pod, raced, disturbed>>

\* cmd.Run returns once nobody holds the output of the command any more: with a
\* container that is the client that was killed, with the "direct" runtime the
\* processes of the job themselves.
Drained(c) ==
    /\ call[c].pc = "drain"
    /\ call[c].kind = "direct" => ~Running(c)
    /\ call' = [call EXCEPT ![c].status = Report(c, TRUE), ![c].pc = AfterRun(c)]
    /\ UNCHANGED <<agent, file, ws, content, pod, raced, disturbed>>

\* The job's timeout passes, or the caller goes away, before the command
\* has returned.
Unreported(c) == Active(c) /\ call[c].status = ""

Expire(c) ==
    /\ Unreported(c) /\ Live(c)
    /\ call' = [call EXCEPT ![c].ctx = "deadline"]
    /\ UNCHANGED <<agent, file, ws, content, pod, raced, disturbed>>

Disconnect(c) ==
    /\ Unreported(c) /\ Live(c)
    /\ call' = [call EXCEPT ![c].ctx = "canceled"]
    /\ UNCHANGED <<agent, file, ws, content, pod, raced, disturbed>>

-----------------------------------------------------------------------------
(* Deferred clean-up *)

\* Mutant: the clean-up uses the context of the job.
PodCleanupWithJobContext(c) ==
    /\ call[c].pc = "podCleanup"
    /\ IF Live(c) THEN RemovePod(PodName(c)) ELSE UNCHANGED <<pod, agent>>
    /\ Goto(c, "respond")
    /\ UNCHANGED <<file, ws, content, raced, disturbed>>

PodCleanup(c) ==
    /\ call[c].pc = "podCleanup"
    /\ RemovePod(PodName(c))
    /\ Goto(c, "respond")
    /\ UNCHANGED <<file, ws, content, raced, disturbed>>

\* RunJob returns, its job directory is removed, and the answer is written.
Respond(c) ==
    /\ call[c].pc = "respond"
    /\ file' = [file EXCEPT ![c] = "none"]
    /\ Goto(c, "workspaceCleanup")
    /\ UNCHANGED <<agent, ws, content, pod, raced, disturbed>>

\* The running containers of other calls that work in the directories of X.
Mounted(c, X) ==
    {d \in Call \ {c} : call[d].pc \in {"wait", "drain"} /\ Running(d) /\ WorkspaceDir(d) \in X \cap ws}

\* os.RemoveAll.
RemoveWorkspace(c) ==
    LET X == Below(WorkspaceDir(c)) IN
    /\ ws' = ws \ X
    /\ content' = [x \in Dir |-> IF x \in X THEN {} ELSE content[x]]
    /\ disturbed' = disturbed \cup Mounted(c, X)

\* Mutant: the root of all workspaces is removed.
WorkspaceCleanupRoot(c) ==
    /\ call[c].pc = "workspaceCleanup"
    /\ ws' = {} /\ content' = [x \in Dir |-> {}]
    /\ disturbed' = disturbed \cup Mounted(c, Dir)
    /\ Goto(c, "ended")
    /\ UNCHANGED <<agent, file, pod, raced>>

\* The deferred clean-up of handleRunJob, after the answer was written.
WorkspaceCleanup(c) ==
    /\ call[c].pc = "workspaceCleanup"
    /\ RemoveWorkspace(c)
    /\ Goto(c, "ended")
    /\ UNCHANGED <<agent, file, pod, raced>>

-----------------------------------------------------------------------------
Executor(c) ==
    \/ Run(c) \/ RunRefused(c) \/ Prepare(c)
    \/ PodCreate(c) \/ PodRemove(c) \/ PodRetry(c) \/ Proxy(c)
    \/ Launch(c) \/ LaunchFails(c) \/ Returned(c) \/ Killed(c) \/ Drained(c)
    \/ PodCleanup(c) \/ Respond(c) \/ WorkspaceCleanup(c)

\* What a container that outlives its call does is not followed.
Container(c) == Active(c) /\ AgentStep(c) /\ UNCHANGED workerVars

Next == \E c \in Call : Executor(c) \/ Expire(c) \/ Disconnect(c) \/ Container(c)

\* The handler's goroutine goes on, and its context ends at the timeout.
\* Nothing makes the processes of a job go on, or close their output.
Fairness ==
    \A c \in Call :
        /\ WF_vars(Active(c) /\ Executor(c))
        /\ WF_vars(Expire(c))

Spec == Init /\ [][Next]_vars /\ Fairness

-----------------------------------------------------------------------------
(* The inductive invariant behind the safety properties *)

Early == {"idle", "prepare", "pod", "podRemove", "podRetry", "proxy", "launch"}
Over == {"respond", "workspaceCleanup", "ended"}

\* Before its container is launched a call has nothing to report, afterwards what
\* it reports as completed is its own; a container in a pod runs in the pod that
\* its job names, and not once its call is over.
RunOK(c) ==
    /\ call[c].pc \in Early \cup {"wait", "drain"} => call[c].status = ""
    /\ call[c].pc \in Early => agent[c] = Off
    /\ call[c].pc \in {"pod", "podRemove", "podRetry", "proxy", "podCleanup"} => InPod(c)
    /\ call[c].status = "completed" =>
          IF IsSBA(c) THEN agent[c].result = "success" ELSE agent[c].code = "zero"
    /\ InPod(c) /\ Running(c) =>
          /\ call[c].inPod # NoCall /\ call[c].inPod = pod[PodName(c)]
          /\ call[c].pc \notin Over

\* Calls in progress at a time whose directories are one, or one in the other,
\* have raced.
RacedOK ==
    \A c, d \in Call :
        /\ c # d /\ Active(c) /\ Active(d)
        /\ WorkspaceDir(d) \in Related(WorkspaceDir(c))
        => c \in raced

\* The call that created a pod will remove it, or was told that it failed.
PodOK ==
    \A n \in Name : pod[n] # NoCall =>
        /\ PodName(pod[n]) = n /\ InPod(pod[n])
        /\ \/ call[pod[n]].refused
           \/ call[pod[n]].pc \in {"proxy", "launch", "wait", "drain", "podCleanup"}

\* Directories, and the files in them, belong to calls in progress.
WorkspaceOK ==
    /\ \A x \in ws \ {Root} : \E c \in Call : Active(c) /\ WorkspaceDir(c) = x
    /\ \A x \in Dir : \A c \in content[x] : Active(c) /\ WorkspaceDir(c) = x

JobsInv ==
    /\ TypeOK
    /\ \A c \in Call : AgentOK(c) /\ RunOK(c)
    /\ RacedOK /\ disturbed \subseteq raced
    /\ PodOK
    /\ WorkspaceOK

-----------------------------------------------------------------------------
(* Properties *)

(***************************************************************************)
(* A job reported completed was completed by this very run: its container  *)
(* ended the command with success, or its agent concluded success, with no *)
(* step on record that failed and, when the job lists steps, all of them   *)
(* done.  No result of another run, no blank file and no unfinished agent  *)
(* is taken for it, whatever pod, deadline or disconnection came between.  *)
(***************************************************************************)
CompletedMeansDone ==
    \A c \in Call :
        call[c].status = "completed" =>
            IF IsSBA(c)
            THEN /\ agent[c].result = "success" /\ ~agent[c].failed
                 /\ agent[c].mode = "direct_steps" => agent[c].done = Steps
            ELSE agent[c].code = "zero"

(***************************************************************************)
(* Runs are kept apart unless they overlap in one directory: a call that   *)
(* no other call overlaps whose id names the same directory, or one in or  *)
(* around it, finds no file of any other run in its workspace, of an       *)
(* earlier try of the same job least of all, and keeps the workspace for   *)
(* as long as its container runs.                                          *)
(***************************************************************************)
RunsAreKeptApart == disturbed \subseteq raced

(***************************************************************************)
(* Nothing outlives the calls, overlapping ones included: a workspace      *)
(* belongs to a call in progress; a pod to a call that is in progress or   *)
(* was told that the pod could not be created; and no container in a pod   *)
(* runs on after its call was answered.                                    *)
(***************************************************************************)
NothingLeftBehind ==
    /\ \A x \in ws \ {Root} : \E c \in Call : Active(c) /\ WorkspaceDir(c) = x
    /\ \A n \in Name : pod[n] # NoCall => Active(pod[n]) \/ call[pod[n]].refused
    /\ \A c \in Call :
          InPod(c) /\ call[c].pc \in {"respond", "workspaceCleanup", "ended"} => ~Running(c)

\* A killed command of the "direct" runtime has left processes that hold its
\* output, and with it the handler.
HeldOpen(c) == call[c].kind = "direct" /\ call[c].pc = "drain" /\ Running(c)

(***************************************************************************)
(* The node always comes back to rest: every call that began is answered   *)
(* and cleaned up, even when the process in its container hangs, because   *)
(* the timeout of the job ends the wait.  The exception is the "direct"    *)
(* runtime: a process that the command started and that outlives the kill  *)
(* keeps the call open for as long as it keeps the output open.            *)
(***************************************************************************)
EveryCallEnds == []<>(\A c \in Call : Active(c) => HeldOpen(c))
=============================================================================
