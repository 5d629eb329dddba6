---------------------------- MODULE WorkflowLease ---------------------------
(***************************************************************************)
(* Workflow start and release: the start gate on plans and dependencies,   *)
(* and the task workflow lease that is to keep a second workflow of the    *)
(* same task from running.                                                 *)
(*                                                                         *)
(* A start request makes several queries, each one step: the plan, each    *)
(* dependency, the existing lease, the lease again inside                  *)
(* AcquireTaskWorkflowLease, and the write.  Time passes between any two.  *)
(***************************************************************************)
EXTENDS Integers, FiniteSets

CONSTANTS
    Task,      \* ids of task rows
    Deps,      \* Deps[t]: the tasks that t depends on (task_dependencies)
    Planned,   \* tasks with a plan_id; they share one plan
    Holder,    \* workflow runners; a runner's idempotency key is itself
    InFlight,  \* start and release requests that may overlap
    NoHolder,  \* holder_id NULL
    NoTask,    \* the task of an idle request
    TTL,       \* lease durations the runners ask for
    MaxTime,   \* bound: ticks of the clock
    MaxFresh   \* bound: lease ids made by uuid.New

ASSUME HolderAssumption ==
    /\ IsFiniteSet(Holder)
    /\ NoHolder \notin Holder
    /\ Holder \cap Int = {}
ASSUME DepsAssumption ==
    /\ NoTask \notin Task
    /\ Deps \in [Task -> SUBSET Task]
    /\ Planned \subseteq Task
ASSUME TimeAssumption ==
    TTL \subseteq Nat /\ MaxTime \in Nat /\ MaxFresh \in Nat /\ InFlight \in Nat

VARIABLES
    status,   \* tasks table, the status column
    plan,     \* state of the plan of the Planned tasks
    lease,    \* task_workflow_leases: the row of each task, or NoRow
    req,      \* state of each runner's request
    now,      \* the clock of the control plane
    fresh,    \* lease ids made so far by uuid.New
    granted,  \* workflows runners were told to run: not ended, not expired
    told      \* lease ids each runner was ever told, by task

vars == <<status, plan, lease, req, now, fresh, granted, told>>

-----------------------------------------------------------------------------
(* Rows and process states *)

TaskStatus == {"none", "pending", "running", "completed", "failed", "canceled",
               "superseded"}

\* A uuid made for the request (a number) or the runner's idempotency key.
LeaseId == Holder \cup 1 .. MaxFresh

\* Released rows keep their lease id and have neither holder nor expiry.
LeaseRow == [id : LeaseId \cup {0}, holder : Holder \cup {NoHolder}, exp : Nat]

NoRow == [id |-> 0, holder |-> NoHolder, exp |-> 0]

\* via tells an inserted lease row from one that was found in the table.
Grant == [task : Task, id : LeaseId, holder : Holder, exp : Nat,
          via : {"insert", "row"}]

ReqState == [pc : {"idle", "plan", "deps", "check", "acquire", "insert", "save",
                   "release"},
             task : Task \cup {NoTask},
             id : LeaseId \cup {0},      \* 0: no idempotency key
             ttl : TTL \cup {0},
             exp : Nat,
             pma : BOOLEAN,
             todo : SUBSET Task]         \* dependencies still to be read

IdleReq == [pc |-> "idle", task |-> NoTask, id |-> 0,
            ttl |-> 0, exp |-> 0, pma |-> FALSE, todo |-> {}]

TypeOK ==
    /\ status \in [Task -> TaskStatus]
    /\ plan \in {"draft", "active", "archived"}
    /\ lease \in [Task -> LeaseRow]
    /\ req \in [Holder -> ReqState]
    /\ now \in 0 .. MaxTime
    /\ fresh \in 0 .. MaxFresh
    /\ granted \subseteq Grant
    /\ told \subseteq Holder \X Task \X LeaseId

Init ==
    /\ status = [t \in Task |-> "pending"]
    /\ plan \in {"draft", "active"}
    /\ lease = [t \in Task |-> NoRow]
    /\ req = [h \in Holder |-> IdleReq]
    /\ now = 0
    /\ fresh = 0
    /\ granted = {}
    /\ told = {}

-----------------------------------------------------------------------------
(* Start: POST /v1/workflow/start *)

\* A runner has one request in flight; InFlight bounds those of all runners.
MayCall(h) ==
    /\ req[h].pc = "idle"
    /\ Cardinality({k \in Holder : req[k].pc # "idle"}) < InFlight

\* The request is parsed and its task found.  A task without a plan passes
\* the gate.
Start(h) ==
    /\ MayCall(h)
    /\ \E t \in Task, ttl \in TTL, pma \in BOOLEAN, id \in {0, h} :
          /\ pma => t \in Planned   \* the gate alone reads this header
          /\ req' = [req EXCEPT ![h] =
                        [pc |-> IF t \in Planned THEN "plan" ELSE "check",
                         task |-> t, id |-> id, ttl |-> ttl,
                         exp |-> 0, pma |-> pma, todo |-> {}]]
    /\ UNCHANGED <<status, plan, lease, now, fresh, granted, told>>

\* workflowGateCheckPlan, then the list of dependencies.
WorkflowGateCheckPlan(h) ==
    /\ req[h].pc = "plan"
    /\ req' = [req EXCEPT ![h] =
                  IF plan = "archived" \/ (plan # "active" /\ ~req[h].pma)
                  THEN IdleReq
                  ELSE [req[h] EXCEPT !.pc = "deps", !.todo = Deps[req[h].task]]]
    /\ UNCHANGED <<status, plan, lease, now, fresh, granted, told>>

\* Mutant: a dependency that has ended in any way is satisfied.
CheckDepEnded(h) ==
    /\ req[h].pc = "deps"
    /\ \E d \in req[h].todo :
          req' = [req EXCEPT ![h] =
                     IF status[d] \in {"completed", "failed", "canceled"}
                     THEN [req[h] EXCEPT !.todo = @ \ {d}] ELSE IdleReq]
    /\ UNCHANGED <<status, plan, lease, now, fresh, granted, told>>

\* workflowGateCheckDeps reads the dependencies one by one.
WorkflowGateCheckDep(h) ==
    /\ req[h].pc = "deps"
    /\ \E d \in req[h].todo :
          req' = [req EXCEPT ![h] =
                     IF status[d] = "completed"
                     THEN [req[h] EXCEPT !.todo = @ \ {d}] ELSE IdleReq]
    /\ UNCHANGED <<status, plan, lease, now, fresh, granted, told>>

GatePassed(h) ==
    /\ req[h].pc = "deps"
    /\ req[h].todo = {}
    /\ req' = [req EXCEPT ![h].pc = "check"]
    /\ UNCHANGED <<status, plan, lease, now, fresh, granted, told>>

\* The answer "started" or "already_running".  It may get lost: then the row
\* stands but the runner does not run.
Respond(h, row, via) ==
    /\ req' = [req EXCEPT ![h] = IdleReq]
    /\ \/ /\ granted' = granted \cup {[task |-> req[h].task, id |-> row.id,
                                       holder |-> h, exp |-> row.exp,
                                       via |-> via]}
          /\ told' = told \cup {<<h, req[h].task, row.id>>}
       \/ UNCHANGED <<granted, told>>

\* The idempotency key, or a uuid made for this request.
LeaseIdFor(h) == IF req[h].id = 0 THEN fresh + 1 ELSE req[h].id

\* startAcquireAndRespond takes expiry and lease id, and answers at once when
\* the runner already holds the lease under its idempotency key.
CheckExisting(h) ==
    /\ req[h].pc = "check"
    /\ LET row == lease[req[h].task]
           new == req[h].id = 0
           id  == LeaseIdFor(h)
       IN  /\ new => fresh < MaxFresh
           /\ fresh' = IF new THEN fresh + 1 ELSE fresh
           /\ IF row.holder = h /\ row.id = id /\ row.exp > now
              THEN Respond(h, row, "row")
              ELSE /\ req' = [req EXCEPT ![h] =
                                 [req[h] EXCEPT !.pc = "acquire", !.id = id,
                                                !.exp = now + req[h].ttl]]
                   /\ UNCHANGED <<granted, told>>
    /\ UNCHANGED <<status, plan, lease, now>>

\* The lease is free when it was released or when its expiry has passed.
Free(row) == row.holder = NoHolder \/ row.exp < now

\* AcquireTaskWorkflowLease reads the row and decides what to do.
AcquireRead(h) ==
    /\ req[h].pc = "acquire"
    /\ LET row == lease[req[h].task]
       IN  \/ /\ row = NoRow
              /\ req' = [req EXCEPT ![h].pc = "insert"]
              /\ UNCHANGED <<granted, told>>
           \/ /\ row # NoRow /\ Free(row)
              /\ req' = [req EXCEPT ![h].pc = "save"]
              /\ UNCHANGED <<granted, told>>
           \/ /\ ~Free(row) /\ row.holder = h /\ row.id = req[h].id
              /\ Respond(h, row, "row")
           \/ /\ ~Free(row)
              /\ row.holder # h \/ row.id # req[h].id
              /\ req' = [req EXCEPT ![h] = IdleReq]   \* ErrLeaseHeld: 409
              /\ UNCHANGED <<granted, told>>
    /\ UNCHANGED <<status, plan, lease, now, fresh>>

NewRow(h) == [id |-> req[h].id, holder |-> h, exp |-> req[h].exp]

\* The unique index on task_id refuses a second row: 500.
AcquireInsert(h) ==
    /\ req[h].pc = "insert"
    /\ \/ /\ lease[req[h].task] = NoRow
          /\ lease' = [lease EXCEPT ![req[h].task] = NewRow(h)]
          /\ Respond(h, NewRow(h), "insert")
       \/ /\ lease[req[h].task] # NoRow
          /\ req' = [req EXCEPT ![h] = IdleReq]
          /\ UNCHANGED <<lease, granted, told>>
    /\ UNCHANGED <<status, plan, now, fresh>>

\* Save overwrites the row by primary key, whatever it holds by now.
AcquireSave(h) ==
    /\ req[h].pc = "save"
    /\ lease' = [lease EXCEPT ![req[h].task] = NewRow(h)]
    /\ Respond(h, NewRow(h), "row")
    /\ UNCHANGED <<status, plan, now, fresh>>

\* A store error or a client that gives up ends the request where it is.
Abort(h) ==
    /\ req[h].pc # "idle"
    /\ req' = [req EXCEPT ![h] = IdleReq]
    /\ UNCHANGED <<status, plan, lease, now, fresh, granted, told>>

-----------------------------------------------------------------------------
(* Release: POST /v1/workflow/release *)

\* A runner that ends a workflow, in time or after its lease expired, sends
\* the lease id it was told, and may send it again later.
Release(h) ==
    /\ MayCall(h)
    /\ \E t \in Task, id \in LeaseId :
          /\ <<h, t, id>> \in told
          /\ req' = [req EXCEPT ![h] = [IdleReq EXCEPT !.pc = "release",
                                           !.task = t, !.id = id]]
          /\ granted' = {g \in granted : g.task # t \/ g.id # id}
    /\ UNCHANGED <<status, plan, lease, now, fresh, told>>

\* Mutant: the row is released whatever lease id the runner sends.
ReleaseAnyLease(h) ==
    /\ req[h].pc = "release"
    /\ lease' = [lease EXCEPT ![req[h].task] =
                    [@ EXCEPT !.holder = NoHolder, !.exp = 0]]
    /\ req' = [req EXCEPT ![h] = IdleReq]
    /\ UNCHANGED <<status, plan, now, fresh, granted, told>>

\* One UPDATE guarded by task_id and lease_id.
ReleaseTaskWorkflowLease(h) ==
    /\ req[h].pc = "release"
    /\ lease' = [lease EXCEPT ![req[h].task] =
                    IF @.id = req[h].id
                    THEN [@ EXCEPT !.holder = NoHolder, !.exp = 0] ELSE @]
    /\ req' = [req EXCEPT ![h] = IdleReq]
    /\ UNCHANGED <<status, plan, now, fresh, granted, told>>

-----------------------------------------------------------------------------
(* Environment *)

\* The rows of the tasks that others depend on, the only ones the gate reads,
\* change as TaskService promises; who has an answer is left open.
TS == INSTANCE TaskService WITH answered <- [t \in Task |-> TRUE]

TaskProgress ==
    /\ \E t \in UNION {Deps[u] : u \in Task} :
          TS!Start(t) \/ TS!Complete(t) \/ TS!Fail(t) \/ TS!Cancel(t)
    /\ UNCHANGED <<plan, lease, req, now, fresh, granted, told>>

\* Plans are approved, edited (back to draft) and archived outside this code.
PlanProgress ==
    /\ Planned # {}
    /\ plan # "archived"
    /\ plan' \in {"draft", "active", "archived"} \ {plan}
    /\ UNCHANGED <<status, lease, req, now, fresh, granted, told>>

Tick ==
    /\ now < MaxTime
    /\ now' = now + 1
    /\ granted' = {g \in granted : g.exp >= now'}
    /\ UNCHANGED <<status, plan, lease, req, fresh, told>>

-----------------------------------------------------------------------------
Serve(h) ==
    \/ Start(h)
    \/ WorkflowGateCheckPlan(h)
    \/ WorkflowGateCheckDep(h)
    \/ GatePassed(h)
    \/ CheckExisting(h)
    \/ AcquireRead(h)
    \/ AcquireInsert(h)
    \/ AcquireSave(h)
    \/ Abort(h)
    \/ Release(h)
    \/ ReleaseTaskWorkflowLease(h)

Next ==
    \/ \E h \in Holder : Serve(h)
    \/ TaskProgress
    \/ PlanProgress
    \/ Tick

Spec == Init /\ [][Next]_vars

-----------------------------------------------------------------------------
(* The inductive invariant behind the safety properties *)

\* A request that got past a dependency found it completed, and completed
\* tasks stay completed.
PastGate(h) ==
    /\ req[h].pc = "deps" =>
          \A d \in Deps[req[h].task] \ req[h].todo : status[d] = "completed"
    /\ req[h].pc \in {"check", "acquire", "insert", "save"} /\ req[h].task \in Planned =>
          \A d \in Deps[req[h].task] : status[d] = "completed"

\* A request has a task and, once past "check", a lease id.
RequestOK(h) ==
    /\ req[h].pc # "idle" => req[h].task \in Task
    /\ req[h].pc \in {"acquire", "insert", "save", "release"} => req[h].id \in LeaseId

RequestsOK == \A h \in Holder : PastGate(h) /\ RequestOK(h)

\* A lease row that was inserted stays, held by a runner or released.
RowsOK ==
    \A t \in Task :
        /\ lease[t] = NoRow <=> lease[t].id = 0
        /\ (\E g \in granted : g.task = t) => lease[t] # NoRow

\* Among the racing inserts of a task's first lease one is granted.
OneInsertGranted ==
    \A g, h \in granted :
        g.task = h.task /\ g.via = "insert" /\ h.via = "insert" => g = h

(***************************************************************************)
(* The start gate: no runner is told to run a planned task before all of   *)
(* its dependencies are completed, although plan, dependencies and lease   *)
(* are read one after the other and tasks move on meanwhile.               *)
(***************************************************************************)
DependenciesFirst ==
    \A g \in granted : g.task \in Planned =>
        \A d \in Deps[g.task] : status[d] = "completed"

IInv ==
    /\ TypeOK
    /\ RequestsOK
    /\ RowsOK
    /\ OneInsertGranted
    /\ DependenciesFirst

-----------------------------------------------------------------------------
(* Properties *)

(***************************************************************************)
(* REQ-ORCHES-0145: at most one active workflow per task.  A workflow is   *)
(* active from the answer to its start until its runner releases it or its *)
(* lease expires.                                                          *)
(***************************************************************************)
AtMostOneActive ==
    \A g, h \in granted :
        /\ g.task = h.task
        /\ g.exp >= now
        /\ h.exp >= now
        => g.holder = h.holder /\ g.id = h.id

(***************************************************************************)
(* However many start requests race for a task that never had a lease, the *)
(* unique index lets one of them insert the row and start.                 *)
(***************************************************************************)
FirstLeaseUnique == OneInsertGranted
=============================================================================
