# CyNodeAI: TLA+ models, model checking and proofs

CyNodeAI runs AI work for a user: an *orchestrator* accepts tasks, keeps them in
PostgreSQL and hands jobs to *worker nodes*, which execute them in containers,
some of them driven by *agents*. This directory models the parts of that code
whose correctness depends on the order of steps of several processes, checks
the models with TLC and proves the main results with TLAPS.

All paths below are relative to `src/`.

## 1. Inventory

| Component | State | Operations | Talks to |
|---|---|---|---|
| Task API (`orchestrator/internal/handlers/tasks.go`) | none of its own | create (inference, sandbox, SBA), cancel, read | task store, inference service |
| Task and job store (`orchestrator/internal/database/tasks.go`) | `tasks`, `jobs` | insert, guarded task update, unconditional job update, complete, next queued | everyone |
| Dispatcher (`orchestrator/internal/dispatcher`, `cmd/control-plane/dispatcher.go`) | one goroutine, one job in hand | `RunOnce` on a tick, retries of the worker call | store, worker API |
| Workflow (`handlers/workflow.go`, `database/workflow.go`, `workflow_gate.go`) | `task_workflow_leases`, `workflow_checkpoints` | start gate, acquire, release, checkpoint, resume | external workflow runners |
| Nodes (`handlers/nodes.go`, `database/nodes.go`) | `nodes`, capability snapshots | register, capability report, configuration, acknowledgement | node manager, dispatcher |
| Node manager (`worker_node/internal/nodeagent`, `cmd/node-manager`) | node configuration, managed services | register, fetch configuration, reconcile services, acknowledge, report | control plane, containers |
| Worker API (`worker_node/cmd/worker-api`) | per-job workspaces, telemetry store | run job, proxy, telemetry | dispatcher, container runtime |
| Secure store (`worker_node/internal/securestore`) | token files, KEM keystore | put, get, list, delete, key resolution | node manager, internal proxy of the worker API |
| Telemetry (`worker_node/internal/telemetry`) | one database per node | boot records, log events, retention, log queries | node manager, worker API, its clients |
| Authentication (`handlers/auth.go`, `internal/auth`, `middleware/auth.go`) | `refresh_sessions`, rate-limiter windows | login, refresh (rotation), logout, bootstrap of the admin user | user gateway |
| Preferences (`database/preferences.go`) | `preference_entries` | create, update with version, list, effective value | MCP gateway |
| Skills (`handlers/skills.go`, `database/skills.go`, `skillscan`) | `skills` | load, list, get, update, delete, default skill | user gateway, MCP gateway |
| API egress and access control (`cmd/api-egress`, `database/access_control.go`) | `access_control_rules`, `api_credentials`, audit log | decide on a call | agents |
| Chat (`handlers/openai_chat.go`, `database/chat.go`, `pmaclient`) | `chat_threads`, `chat_messages` | completion, thread reuse, retries, redaction | PMA agent, inference service |
| Agents (`agents/internal/sba`, `agents/internal/pma`) | job directory, step list | job life cycle, step runner, tool calls | worker API, MCP gateway |
| `cynork` CLI (`cynork/cmd`, `cynork/internal`) | configuration file with the gateway and the tokens | login, refresh, logout, commands that follow a task, one-call commands | user gateway |
| `go_shared_libs`, scripts | none | contracts, development | everyone |

What is hard here, and which tests hardly reach it:

* every store call is one SQL statement and no handler uses a transaction, so
  handlers, the dispatcher and the node manager interleave between any two
  calls, and what was read is stale when it is used;
* a call may fail, or take effect and report an error; errors of many updates
  are ignored by the code;
* workers are called with retries, so a reply that is lost is asked for again;
* the control plane and the nodes restart at any time, the tables stay;
* leases, tokens, credentials and sessions expire while requests that rely on
  them run;
* on a worker node two processes share files and a database, with no lock and
  no message between them, and either may be killed at any step.

`PROJECT.json` lists each of these hazards at its line, with the properties that
would catch it.

## 2. Modules

### TaskService
What a user is promised about a task: accepted once, forward only, ended once,
called completed only after an answer is stored. No jobs, queue or processes.

### TaskDispatch (implements TaskService)
The `tasks` and `jobs` tables, any number of overlapping `CreateTask` and
`CancelTask` requests, the dispatcher loop, the worker as seen over HTTP,
control-plane restarts and the coming and going of dispatchable nodes.

* State: `tasks` and `jobs` are the tables; `req[r]` is the program counter and
  the local variables of one request (`todo` is the list `CancelTask` read);
  `disp` is the dispatcher goroutine; `runs` counts executions started on a
  worker and exists in no table; `minted` orders job ids as `created_at` does.
* One action per store call. Each has an *outcome*: `ok`, `fail` (an error, no
  effect) or `lost` (an effect, but the caller sees an error). What the caller
  does with an error is taken from the code: end the request, fall back to the
  sandbox path, or ignore it.
* A client that disconnects, or a gateway that dies, makes the remaining calls
  of its request fail; that is the outcome `fail` on each of them.
* `callWorkerAPI` is `SendReachesWorker`, `SendRefused`, `SendFails`,
  `WorkerAnswers`, `AnswerLost`, `WorkerRejects`. Errors that contain "timeout",
  "eof", "connection refused" or "connection reset" are transient and retried up
  to `MaxAttempts` (3 in the code).
* Assumed: `INFERENCE_MODEL` is not blank, as its default is not; with a blank one
  `createTaskSBA` answers 400 and leaves a pending task without a job.
* Left out: payload contents, attachments, task names, the job's node id and
  lease columns (written, never read), and the unrouted `Chat` handler.

### TaskClient (extends TaskDispatch)
`cynork` processes that follow a task: `task result` with and without `--wait`,
`task watch`, and the waiting part of `task create --result`. `cli[c]` is one
process: the task it names, how many of the two reads of `GetTaskResult` have been
made for the answer under way, and what they saw. The tables change between the
reads and before the answer is printed. A command without `--wait`, an interrupt
and a lost connection are `Return`; any error ends the command. `Owned` is the
ownership check of `resolveTask`. Printing is left out.

### WorkflowLease
`POST /v1/workflow/start` and `/release`: the gate on plan state and
dependencies, the lease row, idempotency keys, expiry. One action per query.
`granted` records the workflows runners were told to run, until they release
them or the lease expires; it is not in any table. Tasks move as `TaskService`
allows (an INSTANCE of it); plans and dependencies are written outside this
repository and are marked external.

### NodeLifecycle
Every node manager from start-up to its refresh loop, the handlers that serve
it, the `nodes` table and the snapshots they fill, the placement of the Project
Manager Agent (PMA) and the services on the host.

* State: `row` and `snap`/`existing` are the tables as the control plane reads
  them; `nm[n]` is the program counter and configuration of a node manager,
  together with the handler it waits for; `up`, `ollama`, `pma`, `token` are the
  host; `served`, `misled` and `stops` exist in no table. `misled` holds the nodes
  that a refresh made the PMA host only because its query for the active nodes
  failed (`nodes.go:428`), until they store a report without a PMA.
* A node manager may exit (services keep running), crash, lose its PMA
  container, or be rebooted with its host; `MaxStops` bounds all of these.
* `Dispatchable` is the WHERE clause of `ListDispatchableNodes`, `IsPMAHost` the
  choice of `selectPMAHostNodeSlug` (first active slug).
* Assumed: `PMA_HOST_NODE_SLUG` unset, no node labels, worker bearer token and
  advertised URL configured, PMA service id and image configured.

### SessionService
What a user is promised about refresh sessions: opened by a login or in exchange
for one that is over, ended once, never back, never another user's. No requests,
store calls or clock.

### AuthSessions (implements SessionService)
Accounts, `refresh_sessions`, `bootstrapAdminUser`, and overlapping login,
refresh, logout and revoke requests, one action per store call. `parent` and
`root` say where a session came from, `known` whether its token reached the
client; `raced` marks logins whose requests overlapped. Access tokens (they are
not stored) and audit records are left out.

### RateLimiter
`Allow`, `Reset` and the clean-up goroutine of the login limiter. The mutex
makes each of them one step. `granted` remembers what was let through and when.

### SandboxAgent and WorkerJobs
`SandboxAgent` is what runs in a container: a plain command, or `cynode-sba`
with its three ways of working, its steps and tools, and the writing of
`result.json`. `WorkerJobs` extends it with `POST /v1/worker/jobs:run`: the
workspace named after the job, the job directory of a call, the pod named after
the job with its inference proxy, deadlines, callers that go away, the ranking
of deadline, exit code and result, and the deferred clean-up.

* Any job id that is not empty is accepted, and the names made of it are not its
  own. `DirOf` is the conversion of `prepareWorkspace` (`/` becomes `_`, and the
  ids `.` and `..` name directories that hold all workspaces, `Root`), `NameOf` that of `sanitizePodName` (other
  characters become `-`, 40 are kept). The proofs hold for any two functions; the
  run has `a/b`, `a_b`, `a.b` and `.`, which share directories, pods or the root.
* `content` says which calls may have left files in a directory, `raced` which
  overlapped in one, `disturbed` which met files of another run or lost their
  directory while they worked. The last two are in no table.
* A command whose context is over is killed (`Killed`), and `cmd.Run` returns once
  its output is closed (`Drained`). With a container the client that was killed
  held it (this is how the runtimes behave, and external). With the `direct`
  runtime the processes that the command started hold it, whatever the deadline.
* `mcp_call` has outcomes of its own: an answer of the gateway, whatever its
  status, is text, and an error of the tool ends the loop.
* Assumed: `WORKSPACE_ROOT` is set, `RemoveAll` and `pod rm -f` succeed, and the
  worker API itself does not stop, as nothing of a run is found again after it.

### Conversation
What a user is promised about threads: they only grow, a message and its reply are
stored at most once and in one thread, and a reply is to something said there.

### Chat (implements Conversation)
The threads of one user and project, `POST /v1/chat/completions` (by the PMA or
by direct inference) and `POST /v1/chat/threads`. `latest` is the thread with the
latest `updated_at`; `thread` holds the messages; a reply says which message it answers.
An attempt of the agent is one step whose results are collected from the proxy
of the worker node, the PMA's two ways of answering and its second run.
`AppendChatMessage` is one step with four outcomes (done, nothing, message
without thread update, done but reported as an error). Redaction, the audit
record and the choice among several ready agents are left out.

### Preferences
The six `db.preference.*` tools of the MCP gateway over `preference_entries`,
call by call, up to the audit record that ends every call. The unique index does
not cover the scope `system`, whose `scope_id` is NULL. `disturbed` marks calls
during which another one changed an entry: the code's optimistic versions are
only checked against a row read earlier, so the properties are about calls
without a rival, and say so. The effective entries of a task are folded scope
by scope, as a map with one entry per key; `Overrides` says that the most specific
scope with a key wins.

### Skills
The `skills` table with its two doors: the REST endpoints of the user gateway,
where the caller is the authenticated user, and the `skills.*` tools of the MCP
gateway, where it is the creator of the task the agent names. Both read the
skill and decide, then call a store function that reads it again; the statements
of overlapping calls interleave. `EnsureDefaultSkill` is a call of a gateway that
starts. A text is who wrote it and whether `ScanContent` finds something in it;
`took` (a row was changed) is in no table. Names, scopes and list filters are
left out.

### ApiEgress
A call to `POST /v1/call` from its bearer token to its audit record: the task,
the rules and the credential are read one after the other while an
administrator, who is external, changes rules and credentials and time passes.
`EvaluatePolicy` is the loop of the code, which sets one flag for a rule that
denies and one for a rule that allows, over a list in an order that `priority`
leaves partly open. `docs/tech_specs/access_control.md` says two things of
several rules that match: lines 106-108 that any deny denies (`DenyOverrides`),
and line 131 that the higher priority wins (`HigherWins`). They disagree about an
allow above a deny. The code does the first, which permits less; `Permits` is what
is permitted under both, and the property is about it. `permitted` and `funded`
note whether the tables
allowed the call at any time since it arrived.

### SecureStore
The agent tokens of a node: `syncManagedServiceAgentTokens` of the node manager,
file by file, and the internal proxy of the worker API, which reads the file of
the calling service for each request. Both processes make or load the KEM key.

* State: `keystore` (absent, half written, whole) and `tokenFile` are the files;
  `handle` is the `Store` of each process with its master key and cached KEM key;
  `manager` and `proxied` are the program counters.
* A ciphertext is opened by the key that made it. Keys are numbered, tokens are
  named by the start of the node manager that stored them; `Source` says which
  master key an envelope was sealed with, since a broken system credential makes
  `Open` fall back to the key of the environment.
* Token files are replaced by a rename and change at once. The keystore is
  written in place, in two steps, and either process may stop between them.

### Telemetry
The telemetry database that both processes of a node have open: boot records and
the environment variable that keeps the second process from writing one, log
events inserted by goroutines at any later time, hourly retention, the shutdown
event, and a client that follows page tokens. A query orders events by time, in
seconds, and then by a log id that is random: `logged` are the ids taken, any free
one may be next, so that events of one time come in any order, but in the same
one on every page. The container tables, which
nothing in the program fills, and `VACUUM` are left out.

### CliSession
The configuration file of `cynork` and the processes that replace it: `auth login`,
`auth refresh`, `auth logout`. A process reads the file once, calls the gateway
named by the file or by `CYNORK_GATEWAY_URL`, writes a temporary file and renames
it. Of the gateways only the rotation of refresh tokens is here (external to this
component; `AuthSessions` has it in full). `missed` names tokens whose replacement
never reached the file and is stored nowhere.

### MC modules
`MCTaskDispatch`, `MCTaskClient`, `MCWorkflowLease`, `MCNodeLifecycle`,
`MCAuthSessions` and `MCWorkerJobs` give sets and symmetries. `MCGateway` extends `Chat`,
`RateLimiter`, `Preferences`, `Skills`, `ApiEgress` and `CliSession`, and `MCWorkerNode` extends
`NodeLifecycle`, `SecureStore` and `Telemetry`, which share no state: the variable
`part` chooses one of them in the initial state and only its steps are taken, so
that one run is the disjoint union of the state spaces. `NodeLifecycle` has two
parts there: one node with every fault (`OneNode`), and the placement of the PMA
on two nodes whose calls fail while their hosts do not (`RuntimeWorks`).

### Proof modules
Theorems are in modules of their own, one for each program or pair of modules
that belong together: `TaskDispatchProofs` and `CynorkProofs` (`TaskClient` and
`CliSession`), `WorkflowLeaseProofs`, `AuthSessionsProofs` (with `RateLimiter`),
`NodeLifecycleProofs`, `WorkerNodeProofs` (`SecureStore` and `Telemetry`),
`WorkerJobsProofs` (with `SandboxAgent`), and `GatewayProofs` (`Chat`,
`Preferences`, `Skills` and `ApiEgress`). The inductive invariants a reader needs
are defined in the modules they are about, after the properties.

The definitions marked `Mutant` in a comment are faulty variants of the
definition after them. No specification uses them; they are the entries of
`mutants` in `PROJECT.json`, each of which breaks the property named there.

## 3. Runs

| Run | Instance | Question |
|---|---|---|
| `dispatch_faults` | 1 task, 3 requests, 2 jobs, 3 attempts, 1 restart, faults; 1 `cynork` process | are results and terminal statuses ever lost; does the pipeline implement `TaskService`; is the end a user is shown the end? |
| `dispatch_queue` | 2 tasks, 1 request at a time, 2 attempts, no faults, fair; 1 waiting `cynork` process | does a command that waits for a task return, does every job end, with no open job left? |
| `dispatch_restart` | as above with 1 restart; **violation** | does the queue survive a restart? |
| `lease_serial` | 1 task, 2 runners, 4 ticks, requests one at a time | at most one active workflow? |
| `lease_gate` | 2 tasks, one depending on the other, 2 overlapping runners | are dependencies completed first? |
| `lease_race` | 1 task, 2 overlapping runners; **violation** | at most one active workflow? |
| `node_faults` | 1 node, 3 stops, faults; 2 nodes, faults of calls; 2 services, 2 starts, 1 tick; 2 boots, 2 log events, 2 hours, pages of 1 event or 2 bytes, fair retention | is only a node that has served offered to the dispatcher; has a ready PMA its token; do stored tokens keep their key, does a sync leave what was desired, is a used token current; is a boot recorded once, a cut page told, an old event deleted? |
| `node_live` | 2 nodes, 2 stops, fair and supervised | do nodes become dispatchable, and one PMA host emerge, whose PMA comes up? |
| `auth_sessions` | 1 account, 2 overlapping requests, 3 sessions, faults, expiry | are exchanged tokens dead; one live session per login? |
| `worker_jobs` | 2 calls of every kind, for one job id or two that share a name, 1 step | do answers tell the truth, are runs kept apart, is everything cleaned up, does every call end? |
| `gateway_chat` | 3 chat requests, 2 in flight; 2 addresses, limit 2 in a window of 2, 5 ticks; 2 tool calls over any entries of 2 scopes and 2 keys; 2 skill calls of 2 users on 2 skills; 2 operations, 2 rules, 1 tick; 2 `cynork` processes, 2 gateways, 3 tokens, kills | are the right questions answered in the right thread, as `Conversation` promises; what does the limiter let through; are versions, lists and effective entries right; do skills stay with their owners and answers with the table; was an allowed call permitted; does a stored login stay good? |
| `chat_history` | 3 requests, limit of 3 messages; **violation** | is the current turn always sent? |

Why the bounds are enough for the cases in question:

* Three requests on one task are one create and two cancellations, or two
  creates with a cancellation between them (an interference between a stale list
  of jobs, a second cancellation and the dispatcher). Three attempts are the
  code's own number. Two tasks are needed for one to starve behind the other.
* One following client is enough for each question about what it is shown, as
  clients change nothing. In `dispatch_queue` it waits for one of the two tasks,
  the other being what it may starve behind; a wait that ends implies that the
  task it names does (`EveryTaskSettles`). The view of that run leaves out `runs`,
  which is counted for `RetryBudget` and read by no action or property there.
* Three tokens are a login and two exchanges, so that a slow process can put back
  a token that has been exchanged twice; two gateways let the environment name
  another one than the file.
* A lease needs two runners to be contended, and four ticks let a lease of one
  tick expire, be taken again and expire once more while the first runner still
  sends its release. `MaxFresh` bounds the lease ids that the store makes
  up itself.
* Two nodes, numbered in slug order, are the smallest case in which the host
  changes; three stops are a crash in start-up, one after it and a reboot. With
  both nodes and every fault the state space is too large for TLC; the theorems
  about it have no such bound.
* Two calls are enough for each property of `WorkerJobs`, which is about a call
  and one other that meets it in a directory or a pod.
* Three sessions are a login and two rotations, so that an old token, a newer
  and the newest exist at once.
* A history limit of 3 stands for 40: three requests then make up to six
  messages, so that the limit and the character budget both cut, and with sizes
  1 and 2 against a budget of 3 a single exchange is exactly at the budget.
* A limit of one entry per page with two keys puts every page boundary in reach;
  pages beyond the last one are met when entries are deleted meanwhile. The
  properties of `Preferences` were also checked with three calls and one key.
* Two users, one of whose skills there is besides the default skill, and two
  calls at a time, one of which may be a starting gateway, give every pair of
  overlapping operations on own, foreign and system skills.
* Two rules make an allow and a deny for one operation in both orders of
  priority, and one tick makes a credential expire during a call.
* Two starts of the node manager let the second find whatever the first left;
  with two services one is deleted, kept or added while the other is not.
* Two events and a page of one put the page boundary in reach; sizes 1 and 2
  against 2 bytes put that boundary there as well. An event kept one hour is too
  old in the second, also when it is inserted only then.

No deadlock check is made in `gateway_chat`, `chat_history` and `worker_jobs`,
whose requests are numbered and finite. In the other runs some process can
always go on, or a bounded part stutters when it has come to its end.

The type invariants of the modules with proofs are theorems or part of the
inductive invariants (section 5); no passing run lists one.

### Fairness

* `TaskDispatch!FairSpec`: weak fairness of the dispatcher goroutine (a ticker,
  and every call it makes has a timeout) and of each accepted request. Nothing
  is assumed of nodes: `EveryJobSettles` is about behaviours in which some node
  stays dispatchable.
* `TaskClient!FairClientSpec`: the same, and weak fairness of a polling command:
  the gateway answers what it is asked and a command that sleeps wakes up.
* `NodeLifecycle!SupervisedSpec`: weak fairness of each node manager, of PMA
  containers that come up, and of the restart of a stopped node manager, which
  the service manager of the host does and the code does not.
* `WorkerJobs!Fairness`: each call's own steps and its deadline. Nothing is
  assumed of the process in the container: it may hang. Nor is it assumed that
  processes of the `direct` runtime that outlive the kill close their output, so
  `EveryCallEnds` makes an exception of a call that they hold open.
* `Telemetry!TelemetryFairness`: the retention pass of a running node manager,
  which a ticker starts every hour. Nothing is assumed of the goroutines that
  insert events, nor that the node manager keeps running.
* `Chat!Fairness`: some request in progress goes on; each call in it has a
  deadline.

## 4. Findings

Three runs are violations, each against a line of the repository:

1. `dispatch_restart`: `docs/tech_specs/orchestrator.md:77` promises a queue whose
   state survives restarts. A job that was assigned when the control plane stops
   stays `running`; nothing reads `lease_expires_at` and only queued rows are
   picked up.
2. `lease_race`: `docs/requirements/orches.md:177`, at most one active workflow
   per task. `AcquireTaskWorkflowLease` reads, judges and saves without a
   condition, so two overlapping starts on an expired row both win. The theorem
   `OnlyLateSavesRace` shows that such a late save is the only way.
3. `chat_history`: `handlers/openai_chat.go:448`, the current user turn is never
   dropped. The query loads the *oldest* 40 messages; in a longer thread the
   message just stored is not among them.

Behaviour met while modelling that no run is about:

* *Dispatch*: a task cancelled while its job is being assigned is `canceled` and
  its job still runs once (`docs/tech_specs/postgres_schema.md:722` calls the
  status closed); a lost reply makes the worker execute a job again.
* *Nodes*: a host that stays down is never replaced as PMA host; a node that
  registers again keeps its old acknowledgement; a failed query of active nodes
  makes two hosts for a while, the second of them without an agent token, as a
  refresh stores none (`nodemanager.go:512`); the PMA is reported ready after a
  wait of 30
  seconds whether it is or not; a stopped inference container is not restarted;
  the acknowledged configuration version is never compared; a node whose token
  expired does not register again.
* *Sessions*: two overlapping refreshes of one token each get a session; logout
  answers 204 whatever the store says; a control plane that stops between the
  two inserts of the bootstrap leaves an admin without a password for good; a
  limit of 0 lets one attempt per window through.
* *Worker*: a `pod create` killed after it made the pod leaves the pod; a job
  repeated while its first run cleans up may lose its workspace; so may jobs
  whose ids give one directory, and every job on the node when one with the id `.`
  ends (`main.go:1023`); the job directory is removed before the answer is written
  (`executor.go:388`), where `docs/tech_specs/worker_api.md:321` says that it must
  not be; a call of the `direct` runtime may outlast its timeout for as long as a
  process it started keeps the output open; a container without a pod may outlive
  its timeout, contrary to line 311; a timeout above the documented maximum
  is not capped; the agent's own timeout is reported as failed; output of the
  model that cannot be parsed replaces the recorded steps; the agent reports
  completion before `result.json` is there.
* *Chat*: overlapping requests may answer each other's question; a reply that
  comes late makes an old thread the latest one again after `NewThread`; any
  error of the thread query opens a new thread; a request without a user message
  opens one too; the agent's second run goes on after the gateway has given up.
* *Preferences*: of two updates with the same `expected_version` both succeed;
  overlapping creates make two `system` entries; an update of an entry that was
  deleted meanwhile reports success; a change stays when its audit record fails;
  effective values ignore entries beyond the first 100 of a scope.
* *Skills*: two deletes of one skill both answer success; `EnsureDefaultSkill`
  takes any error of its read for an absent row and then fails on the primary
  key; an update of the system skill passes both doors and ends in a 500.
* *API egress*: a decision whose audit record fails is only logged; `priority`
  orders the rules and decides nothing, as any deny denies, where
  `docs/tech_specs/access_control.md:131` lets the higher priority win (lines
  106-108 of it say what the code does).
* *Secure store*: a keystore that was half written is never repaired, so outside
  FIPS mode no later start can store a token; a system credential that cannot be
  decoded is passed over for the key of the environment, without a message; a
  configuration without managed services leaves the old tokens in place
  (`nodemanager.go:215`).
* *Telemetry*: a page cut by bytes has no page token, so the rest cannot be read
  (`logs.go:96`); the shutdown event is written with a context that a signal has
  cancelled, so it is not recorded where `worker_telemetry_api.md:238` says it must
  be; `InsertNodeBoot` is called idempotent per boot id (`node_boot.go:25`) and is a
  plain insert, with an id made anew for every start.
* *cynork*: `auth logout` does not tell the gateway, whose session stays live; a
  refresh that overlaps a logout puts a login back; a gateway named by the
  environment is written into the file by any save; a refresh that is killed
  before it saves loses the login; the poll loops have no limit.
* *Workflow*: saving a checkpoint looks at no lease, so a runner whose lease has
  expired overwrites the checkpoint of the next one.

## 5. Proofs

Every safety property that a passing run checks is a
theorem: it holds for every value of the constants that the named assumptions
allow, and so for any number of tasks, nodes, users, requests and keys, and
whatever calls fail. The exception is `SettledTaskHasNoOpenJob`, whose theorem,
like its run, is about a store that does not fail (`Faults = {}`).

| Module | Theorems | Argument |
|---|---|---|
| `TaskDispatchProofs` | `TypeCorrect`, `ResultKept`, `Budget`, `ResultsAreFinal`, `TerminalTasksStick`, `Refinement`, `SettledJobs` | `IInv` of `TaskDispatch`, and `SettleInv` |
| `CynorkProofs` | `EndShown`; `StoredLogin`, `CliTypes` | `ClientInv`, `CliInv` |
| `WorkflowLeaseProofs` | `GateSound`, `FirstLease`, `SerialExclusion`, `OnlyLateSavesRace` | `IInv` of `WorkflowLease`, `SerialInv` and `OverlapInv` |
| `NodeLifecycleProofs` | `TypeCorrect`, `DispatchableServes`, `ReadyHasToken` | `AckAfterStart`, `TokenInv` |
| `AuthSessionsProofs` | `TypeCorrect`, `ExchangedIsDead`, `OneTokenForEachLogin`, `SessionRefinement`; `LimitHolds`, `LimiterTypes` | `RotationInv`, `LoginInv`; `LimiterInv` |
| `WorkerNodeProofs` | `TokensKeepTheirKey`, `SyncLeavesDesired`, `UsedTokensAreCurrent`, `BootsRecordedOnce`, `ListsToldWhole`, `ListsHaveEachEvent`, `TelemetryTypes` | `StoreInv`; `BootInv`, `QueryInv`, `EventsKept` |
| `WorkerJobsProofs` | `JobsInvariant`, `CompletedRuns`, `RunsKeptApart`, `CleanUp` | `JobsInv` |
| `GatewayProofs` | `OwnTurnsAnswered`, `SerialThreads`, `RepliesInOrder`, `ChatRefinement`, `ChatTypes`; `PrefVersionsHonoured`, `PrefDeletesLast`, `ListsAreComplete`, `PrefTypes`; `SkillsStay`, `SkillWritesAreReal`, `SkillsTypes`; `AllowedCalls`, `EgressTypes` | `ChatInv`, `ContextInv`; `PrefInv`, `ListInv`, `EffectiveInv`, `PrefBounds`; `SkillsInv`; `EgressInv` |

Each proof has the same shape: the initial states satisfy an invariant, every
action preserves it (one step, or one lemma, per action), and it implies the
property. What the invariants add to the properties, and why it is needed:

* *A completed task keeps its result.* The property is not inductive: a
  cancellation holds a list of jobs it read earlier and updates them without a
  condition. `IInv` adds that the job which answers a completed task, or which a
  process is about to complete a task with, is in no such list (`KeepsAnswer`),
  which holds because a list is read only after the task has ended
  (`RequestsOK`), and ended tasks are never settled again. The budget follows
  from `DispatcherOK`: executions never exceed the attempts of the job in hand,
  and a job that has run is no longer queued.
* *A settled task has no open job*, if the store does not fail. `SettleInv` adds
  that a task has one job (`OneJobPerTask`), that no job of it is still to be
  created when it settles (`CreatorsOK`), and that the dispatcher closes a job
  before it settles the task (`HeldOK`). Restarts are allowed.
* *Refinements.* Each action maps to a step of the abstract specification or a
  stutter. For `TaskService` the answer of a task is defined from its jobs, and
  `CompletedAnswered` gives the guard of the abstract completion. For
  `SessionService` a row is its state, user and parent, and `RotationInv` says
  that a refresh which is about to insert a row has seen its parent end. For
  `Conversation` the threads are what they are; `ContextInv` follows what a reply
  is to: what users have said in a thread stays there as it was written
  (`WrittenOK`), a history is loaded from the thread of its request and trimmed,
  and the answer is to a message of it (`ContextOK`).
* *The end that `cynork` shows.* `ClientInv` is `IInv` with what one command has
  read (`WhatIsRead`); the table's part comes from `TerminalTasksStick` and
  `CompletedAnswered`.
* *The stored login.* `SavedIsPrivate`: the token that a process is about to store
  is live, in no other process and not in the file, so that the order in which
  processes rename their files does not matter.
* *Leases.* What the gate read stays true since a completed task stays completed.
  The unique index is modelled by the insert; that only one insert is granted
  needs the rows that were there before. For requests that do not overlap,
  `SerialInv` ties each active workflow to the row that grants it. For requests
  that overlap, `OverlapInv` does the same as long as there is no `LateSave`, the
  save of a row that was taken after it had been found free; it needs that a lease
  id belongs to one runner (`OwnIds`), so that a late release frees nobody else's
  row. The race of `lease_race` is thus the only one.
* *Nodes.* An acknowledgement is only sent behind the start of the worker API,
  and an earlier acknowledgement belongs to an earlier start. A ready PMA has a
  token because an active node that is not the host never becomes it: slugs do
  not change and nodes never leave the active ones. The refresh after a failed
  query is the one exception, and the property names it (`misled`); `TokenInv`
  follows it from the offer through the configuration to the report.
* *Sessions.* A refresh creates the new session only after the old one is
  ended, and nothing revives a row. For a login whose requests did not overlap,
  `LoginOK` adds that a request which is about to create a session has no live
  one beside it, and that requests at work on the login together are revocations.
* *The rate limiter.* The table forgets the windows it has had; `Windows` says
  that there is a set of starting times whose windows do not overlap, each with
  no more than the limit, and with every attempt in one of them. A stretch as
  long as a window that starts with an attempt is a window itself, or it leaves
  out the first attempt of the window it starts in and meets one more, which
  makes less than twice the limit.
* *Agent tokens.* The keystore is written once and never replaced (`KeysKept`),
  every file is sealed by its key (`FilesKept`), and during a sync each file is
  wanted or still to be deleted (`SyncKept`). A request that holds an envelope
  keeps the start it came from (`ProxyKept`).
* *Boots.* While the worker API may record a boot, the node manager has not
  (`BootsKept`).
* *Lists of log events.* While no event comes or goes, a client has seen the
  events up to its offset (`SeenSoFar`); a page is a part of the list that starts
  there, since one event more than the limit is asked for. That the list has
  each event once follows from their log ids (`EventsKept`): the number of events
  that precede one, by time and then by id, is an injection into as many numbers
  as there are events, and so onto. Nothing is said of the order of events of one
  second.
* *Jobs of a worker.* `RunOK` gives each place of a call its container's state,
  `AgentOK` says that success is concluded once and is what the file holds,
  `PodOK` and `WorkspaceOK` name the call that a pod or a workspace, or a file in
  one, belongs to, and `RacedOK` says that calls in progress whose directories are
  one, or one in the other, have raced. That a run is undisturbed follows from the
  clean-up of every earlier one, whatever names the ids give.
* *Chat.* `TurnOK`: the message of a request that overlaps no other one stays the
  last of its thread until it is answered, and the last of what an agent is
  sent, whatever `trimHistoryToCharBudget` drops; `FlightOK`: requests in flight
  together have raced.
* *Preferences.* The entry that an undisturbed update holds is that of the table
  (`PrefCallOK`); the cursor of an undisturbed list is as far as its caller has
  seen (`ListedSoFar`). The property speaks of scopes whose order is unique, as
  two `system` entries of one key may come in either order. For effective entries
  `EffectiveInv` says that the scopes read so far are folded as `Overrides` says.
  The bounds of the table need `PrefBounds`: a call changes the table at most
  once, in the step that makes it ready for its audit record, so ids and versions
  are bounded by the number of calls that are ready (`Ready`).
* *Skills.* `StillOf`: a skill that a call has decided about remains that of its
  user while it is there, since ids are not used again (`SkillRowsOK`).
* *API egress.* What the tables say is noted as long as a call is there to be
  told (`EgressNoted`). `RulesListed` shows that a list of the rules has each of
  them, and `PolicyFollowsRules` that the loop agrees with them in any order.

What the proofs assume is the `ASSUME`s of the modules, which TLC evaluates in
every run: bounds are natural numbers, the values that stand for absence are
none of the others, `CYNORK_GATEWAY_URL` or the file names some gateway, the
list of scopes of an effective value is not empty. Sums and sorts are
used only through what the proofs need of them: whatever `FoldLeft` or
`CHOOSE` yields, the properties follow.

Only model-checked is everything under fairness (`EveryWaitEnds`, `EveryJobSettles`,
`EveryNodeDispatchable`, `OneHostEventually`, `PMAServedEventually`,
`EveryCallEnds`, `EveryRequestAnswered`, `EventsAgeOut`), which is out of the
prover's reach.

Conversely, `ImplementsSessionService` is proved and in no run, as the state space
of `auth_sessions` takes TLC too long together with it.

## 6. Not modelled

* Formats: JSON shapes, prompts, redaction patterns, templates, HTTP details.
* Encryption, hashing and signatures: tokens are named, not computed, and a
  ciphertext is its key and its content.
* Workflow checkpoints and resume: one row per task, saved without a condition
  and read back; there is nothing between the two to get wrong that the
  observation above does not say.
* The external path of readiness, model pulls and the arguments of containers:
  they choose among configurations and keep no state.
* The inference proxy: it forwards requests and keeps nothing.
* The `cynork` commands that make one call and print the answer, its chat loop and
  its input files: they keep nothing between calls and add no order of steps.
* `_bdd` step definitions, mocks and development scripts: test code, not the
  running system.

## 7. Plan

Done: the core of the orchestrator, its nodes, gateways, worker and command
line, their runs, the proofs of their safety properties and of three refinements.
Next, in this order:

1. Lemmas that are now stated once for each module and could be shared: a
   function on `1 .. n` is a sequence, an element of a sequence, a finite part of
   the numbers. They would go into a module of their own.
2. A composition of `TaskDispatch` with `WorkerJobs`, in place of the abstract
   worker of the former.
3. Task names, whose uniqueness is read before it is written.
