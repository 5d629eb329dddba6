------------------------ MODULE WorkflowLeaseProofs -------------------------
(***************************************************************************)
(* Proofs about the workflow lease for every number of tasks, runners,     *)
(* overlapping requests and ticks of the clock.                            *)
(***************************************************************************)
EXTENDS WorkflowLease, FiniteSetTheorems, TLAPS

\* No lease id is the 0 that stands for "no id".
LEMMA ZeroIsNoLeaseId == 0 \notin LeaseId
BY HolderAssumption, TimeAssumption DEF LeaseId

\* Empty tables and idle requests satisfy the invariant.
LEMMA InitIInv == Init => IInv
<1> SUFFICES ASSUME Init PROVE IInv
  OBVIOUS
<1>1. TypeOK
  BY TimeAssumption DEF Init, TypeOK, TaskStatus, LeaseRow, NoRow, ReqState, IdleReq
<1>2. RequestsOK
  BY DEF Init, RequestsOK, PastGate, RequestOK, IdleReq
<1>3. RowsOK /\ OneInsertGranted /\ DependenciesFirst
  BY DEF Init, RowsOK, OneInsertGranted, DependenciesFirst, NoRow
<1>4. QED
  BY <1>1, <1>2, <1>3 DEF IInv

\* A step that only moves one request, or ends workflows, keeps the invariant
\* if the new state of the request is in order.
LEMMA RequestMoves ==
    ASSUME IInv, NEW h \in Holder, req' = [req EXCEPT ![h] = req'[h]],
           req'[h] \in ReqState, PastGate(h)', RequestOK(h)',
           granted' \subseteq granted, told' = told, fresh' \in 0 .. MaxFresh,
           UNCHANGED <<status, plan, lease, now>>
    PROVE  IInv'
<1>1. \A k \in Holder : k # h => req'[k] = req[k]
  BY DEF IInv, TypeOK
<1>2. TypeOK'
  BY DEF IInv, TypeOK
<1>3. RequestsOK'
  BY <1>1 DEF IInv, RequestsOK, PastGate, RequestOK
<1>4. RowsOK' /\ OneInsertGranted' /\ DependenciesFirst'
  BY DEF IInv, RowsOK, OneInsertGranted, DependenciesFirst
<1>5. QED
  BY <1>2, <1>3, <1>4 DEF IInv

\* An idle request is always in order.
LEMMA IdleOK ==
    ASSUME NEW h \in Holder, req'[h] = IdleReq
    PROVE  PastGate(h)' /\ RequestOK(h)' /\ req'[h] \in ReqState
BY DEF PastGate, RequestOK, IdleReq, ReqState

\* Answering a start request with the row of the lease keeps the invariant.
LEMMA RespondStep ==
    ASSUME IInv, NEW h \in Holder, req[h].pc \in {"check", "acquire", "insert", "save"},
           NEW row \in LeaseRow, row.id \in LeaseId,
           NEW via \in {"insert", "row"}, Respond(h, row, via),
           lease' \in [Task -> LeaseRow],
           lease'[req[h].task] = row,
           \A t \in Task : t # req[h].task => lease'[t] = lease[t],
           via = "insert" => \A g \in granted : g.task # req[h].task,
           fresh' \in 0 .. MaxFresh,
           UNCHANGED <<status, plan, now>>
    PROVE  IInv'
<1> DEFINE t == req[h].task
           new == [task |-> t, id |-> row.id, holder |-> h, exp |-> row.exp, via |-> via]
<1>1. /\ req' = [req EXCEPT ![h] = IdleReq]
      /\ \/ granted' = granted \cup {new} /\ told' = told \cup {<<h, t, row.id>>}
         \/ granted' = granted /\ told' = told
  BY DEF Respond
<1>2. t \in Task /\ new \in Grant /\ row.id # 0
  BY ZeroIsNoLeaseId DEF IInv, RequestsOK, RequestOK, Grant, LeaseRow
<1>3. /\ \A k \in Holder : k # h => req'[k] = req[k]
      /\ req'[h] = IdleReq
  BY <1>1 DEF IInv, TypeOK
<1>4. TypeOK'
  <2>1. req' \in [Holder -> ReqState]
    BY <1>1, <1>3, IdleOK DEF IInv, TypeOK
  <2>2. granted' \subseteq Grant
    BY <1>1, <1>2 DEF IInv, TypeOK
  <2>3. told' \subseteq Holder \X Task \X LeaseId
    BY <1>1, <1>2 DEF IInv, TypeOK
  <2>4. QED
    BY <2>1, <2>2, <2>3 DEF IInv, TypeOK
<1>5. RequestsOK'
  BY <1>3, IdleOK DEF IInv, RequestsOK, PastGate, RequestOK
<1>6. RowsOK'
  BY <1>1, <1>2 DEF IInv, RowsOK, NoRow
<1>7. OneInsertGranted'
  BY <1>1 DEF IInv, OneInsertGranted
<1>8. DependenciesFirst'
  BY <1>1, <1>2 DEF IInv, DependenciesFirst, RequestsOK, PastGate
<1>9. QED
  BY <1>4, <1>5, <1>6, <1>7, <1>8 DEF IInv

\* Every step of a start or release request keeps the invariant.
LEMMA ServeStep ==
    ASSUME IInv, NEW h \in Holder, Serve(h)
    PROVE  IInv'
<1>1. /\ req \in [Holder -> ReqState] /\ req[h] \in ReqState
      /\ lease \in [Task -> LeaseRow]
      /\ fresh \in 0 .. MaxFresh /\ now \in Nat /\ MaxFresh \in Nat
      /\ PastGate(h) /\ RequestOK(h)
  BY TimeAssumption DEF IInv, TypeOK, RequestsOK
<1>2. ASSUME req' = [req EXCEPT ![h] = IdleReq], UNCHANGED <<granted, told, fresh>>,
             UNCHANGED <<status, plan, lease, now>>
      PROVE  IInv'
  <2>1. req'[h] = IdleReq /\ req' = [req EXCEPT ![h] = req'[h]]
    BY <1>1, <1>2
  <2>2. QED
    BY <1>1, <1>2, <2>1, IdleOK, RequestMoves
<1>3. CASE Start(h)
  <2>1. PICK t \in Task, ttl \in TTL, pma \in BOOLEAN, id \in {0, h} :
          req' = [req EXCEPT ![h] =
                     [pc |-> IF t \in Planned THEN "plan" ELSE "check",
                      task |-> t, id |-> id, ttl |-> ttl,
                      exp |-> 0, pma |-> pma, todo |-> {}]]
    BY <1>3 DEF Start
  <2>2. /\ req' = [req EXCEPT ![h] = req'[h]]
        /\ req'[h] = [pc |-> IF t \in Planned THEN "plan" ELSE "check",
                      task |-> t, id |-> id, ttl |-> ttl,
                      exp |-> 0, pma |-> pma, todo |-> {}]
    BY <1>1, <2>1
  <2>3. req'[h] \in ReqState
    BY <2>2 DEF ReqState, LeaseId
  <2>4. PastGate(h)' /\ RequestOK(h)'
    BY <2>2 DEF PastGate, RequestOK
  <2>5. QED
    BY <1>1, <1>3, <2>2, <2>3, <2>4, RequestMoves DEF Start
<1>4. CASE WorkflowGateCheckPlan(h)
  <2>1. CASE req' = [req EXCEPT ![h] = IdleReq]
    BY <1>2, <1>4, <2>1 DEF WorkflowGateCheckPlan
  <2>2. CASE req' = [req EXCEPT ![h] =
                        [req[h] EXCEPT !.pc = "deps", !.todo = Deps[req[h].task]]]
    <3>1. req[h].pc = "plan" /\ UNCHANGED <<status, plan, lease, now, fresh, granted, told>>
      BY <1>4 DEF WorkflowGateCheckPlan
    <3>2. req[h].task \in Task /\ Deps[req[h].task] \subseteq Task
      BY <1>1, <3>1, DepsAssumption DEF RequestOK
    <3>3. /\ req' = [req EXCEPT ![h] = req'[h]]
          /\ req'[h] = [req[h] EXCEPT !.pc = "deps", !.todo = Deps[req[h].task]]
      BY <1>1, <2>2
    <3>4. /\ req'[h] \in ReqState /\ req'[h].pc = "deps"
          /\ req'[h].task = req[h].task /\ req'[h].todo = Deps[req[h].task]
      BY <1>1, <3>2, <3>3 DEF ReqState
    <3>5. PastGate(h)' /\ RequestOK(h)'
      BY <3>2, <3>4 DEF PastGate, RequestOK
    <3>6. QED
      BY <1>1, <3>1, <3>3, <3>4, <3>5, RequestMoves
  <2>3. QED
    BY <1>4, <2>1, <2>2 DEF WorkflowGateCheckPlan
<1>5. CASE WorkflowGateCheckDep(h)
  <2>1. PICK d \in req[h].todo :
          req' = [req EXCEPT ![h] =
                     IF status[d] = "completed"
                     THEN [req[h] EXCEPT !.todo = @ \ {d}] ELSE IdleReq]
    BY <1>5 DEF WorkflowGateCheckDep
  <2>2. req[h].pc = "deps" /\ UNCHANGED <<status, plan, lease, now, fresh, granted, told>>
    BY <1>5 DEF WorkflowGateCheckDep
  <2>3. CASE status[d] # "completed"
    BY <1>2, <2>1, <2>2, <2>3
  <2>4. CASE status[d] = "completed"
    <3>1. /\ req' = [req EXCEPT ![h] = req'[h]]
          /\ req'[h] = [req[h] EXCEPT !.todo = req[h].todo \ {d}]
      BY <1>1, <2>1, <2>4
    <3>2. /\ req'[h] \in ReqState /\ req'[h].pc = "deps"
          /\ req'[h].task = req[h].task /\ req'[h].todo = req[h].todo \ {d}
      BY <1>1, <2>2, <3>1 DEF ReqState
    <3>3. PastGate(h)' /\ RequestOK(h)'
      BY <1>1, <2>2, <2>4, <3>2 DEF PastGate, RequestOK
    <3>4. QED
      BY <1>1, <2>2, <3>1, <3>2, <3>3, RequestMoves
  <2>5. QED
    BY <2>3, <2>4
<1>6. CASE GatePassed(h)
  <2>1. /\ req[h].pc = "deps" /\ req[h].todo = {}
        /\ UNCHANGED <<status, plan, lease, now, fresh, granted, told>>
    BY <1>6 DEF GatePassed
  <2>2. /\ req' = [req EXCEPT ![h] = req'[h]]
        /\ req'[h] = [req[h] EXCEPT !.pc = "check"]
    BY <1>1, <1>6 DEF GatePassed
  <2>3. /\ req'[h] \in ReqState /\ req'[h].pc = "check"
        /\ req'[h].task = req[h].task
    BY <1>1, <2>2 DEF ReqState
  <2>4. PastGate(h)' /\ RequestOK(h)'
    BY <1>1, <2>1, <2>3 DEF PastGate, RequestOK
  <2>5. QED
    BY <1>1, <2>1, <2>2, <2>3, <2>4, RequestMoves
<1>7. CASE CheckExisting(h)
  <2> DEFINE row == lease[req[h].task]
             new == req[h].id = 0
             id  == IF new THEN fresh + 1 ELSE req[h].id
  <2>1. /\ req[h].pc = "check" /\ req[h].task \in Task
        /\ UNCHANGED <<status, plan, lease, now>>
        /\ row \in LeaseRow
    BY <1>1, <1>7 DEF CheckExisting, LeaseIdFor, RequestOK
  <2>2. fresh' \in 0 .. MaxFresh /\ id \in LeaseId
    BY <1>1, <1>7 DEF CheckExisting, LeaseIdFor, LeaseId, ReqState
  <2>3. CASE row.holder = h /\ row.id = id /\ row.exp > now
    <3>1. Respond(h, row, "row")
      BY <1>7, <2>3 DEF CheckExisting, LeaseIdFor
    <3>2. QED
      BY <1>1, <2>1, <2>2, <2>3, <3>1, RespondStep
  <2>4. CASE ~(row.holder = h /\ row.id = id /\ row.exp > now)
    <3>1. /\ req' = [req EXCEPT ![h] = [req[h] EXCEPT !.pc = "acquire", !.id = id,
                                                      !.exp = now + req[h].ttl]]
          /\ UNCHANGED <<granted, told>>
      BY <1>7, <2>4 DEF CheckExisting, LeaseIdFor
    <3>2. now + req[h].ttl \in Nat
      <4>1. req[h].ttl \in TTL \cup {0}
        BY <1>1 DEF ReqState
      <4>2. req[h].ttl \in Nat
        BY <4>1, TimeAssumption
      <4>3. QED
        BY <1>1, <4>2
    <3>3. /\ req' = [req EXCEPT ![h] = req'[h]]
          /\ req'[h] = [req[h] EXCEPT !.pc = "acquire", !.id = id,
                                      !.exp = now + req[h].ttl]
      BY <1>1, <3>1
    <3>4. /\ req'[h] \in ReqState /\ req'[h].pc = "acquire"
          /\ req'[h].task = req[h].task /\ req'[h].id = id
      BY <1>1, <2>2, <3>2, <3>3 DEF ReqState
    <3>5. PastGate(h)' /\ RequestOK(h)'
      BY <1>1, <2>1, <2>2, <3>4 DEF PastGate, RequestOK
    <3>6. QED
      BY <2>1, <2>2, <3>1, <3>3, <3>4, <3>5, RequestMoves
  <2>5. QED
    BY <2>3, <2>4
<1>8. CASE AcquireRead(h)
  <2> DEFINE row == lease[req[h].task]
  <2>1. /\ req[h].pc = "acquire" /\ req[h].task \in Task /\ req[h].id \in LeaseId
        /\ UNCHANGED <<status, plan, lease, now, fresh>>
        /\ row \in LeaseRow
    BY <1>1, <1>8 DEF AcquireRead, RequestOK
  <2>2. ASSUME NEW next \in {"insert", "save"}, req' = [req EXCEPT ![h].pc = next],
               UNCHANGED <<granted, told>>
        PROVE  IInv'
    <3>1. /\ req' = [req EXCEPT ![h] = req'[h]]
          /\ req'[h] = [req[h] EXCEPT !.pc = next]
      BY <1>1, <2>2
    <3>2. /\ req'[h] \in ReqState /\ req'[h].pc = next
          /\ req'[h].task = req[h].task /\ req'[h].id = req[h].id
      BY <1>1, <3>1 DEF ReqState
    <3>3. PastGate(h)' /\ RequestOK(h)'
      BY <1>1, <2>1, <3>2 DEF PastGate, RequestOK
    <3>4. QED
      BY <1>1, <2>1, <2>2, <3>1, <3>2, <3>3, RequestMoves
  <2>3. ASSUME row.id = req[h].id, Respond(h, row, "row") PROVE IInv'
    BY <1>1, <2>1, <2>3, RespondStep
  <2>4. QED
    BY <1>2, <1>8, <2>1, <2>2, <2>3 DEF AcquireRead
<1>9. CASE AcquireInsert(h)
  <2>1. /\ req[h].pc = "insert" /\ req[h].task \in Task /\ req[h].id \in LeaseId
        /\ UNCHANGED <<status, plan, now, fresh>>
        /\ NewRow(h) \in LeaseRow /\ NewRow(h).id \in LeaseId
    BY <1>1, <1>9 DEF AcquireInsert, RequestOK, NewRow, LeaseRow, ReqState
  <2>2. CASE /\ lease[req[h].task] = NoRow
             /\ lease' = [lease EXCEPT ![req[h].task] = NewRow(h)]
             /\ Respond(h, NewRow(h), "insert")
    <3>1. \A g \in granted : g.task # req[h].task
      BY <2>1, <2>2 DEF IInv, RowsOK
    <3>2. /\ lease' \in [Task -> LeaseRow]
          /\ lease'[req[h].task] = NewRow(h)
          /\ \A t \in Task : t # req[h].task => lease'[t] = lease[t]
      BY <1>1, <2>1, <2>2
    <3>3. Respond(h, NewRow(h), "insert")
      BY <2>2
    <3>4. QED
      BY <1>1, <2>1, <3>1, <3>2, <3>3, RespondStep
  <2>3. CASE /\ req' = [req EXCEPT ![h] = IdleReq]
             /\ UNCHANGED <<lease, granted, told>>
    BY <1>2, <2>1, <2>3
  <2>4. QED
    BY <1>9, <2>2, <2>3 DEF AcquireInsert
<1>10. CASE AcquireSave(h)
  <2>1. /\ req[h].pc = "save" /\ req[h].task \in Task /\ req[h].id \in LeaseId
        /\ UNCHANGED <<status, plan, now, fresh>>
        /\ NewRow(h) \in LeaseRow /\ NewRow(h).id \in LeaseId
    BY <1>1, <1>10 DEF AcquireSave, RequestOK, NewRow, LeaseRow, ReqState
  <2>2. /\ lease' \in [Task -> LeaseRow]
        /\ lease'[req[h].task] = NewRow(h)
        /\ \A t \in Task : t # req[h].task => lease'[t] = lease[t]
    BY <1>1, <1>10, <2>1 DEF AcquireSave
  <2>3. Respond(h, NewRow(h), "row")
    BY <1>10 DEF AcquireSave
  <2>4. QED
    BY <1>1, <2>1, <2>2, <2>3, RespondStep
<1>11. CASE Abort(h)
  BY <1>2, <1>11 DEF Abort
<1>12. CASE Release(h)
  <2>1. PICK t \in Task, id \in LeaseId :
          /\ req' = [req EXCEPT ![h] = [IdleReq EXCEPT !.pc = "release",
                                           !.task = t, !.id = id]]
          /\ granted' \subseteq granted
    BY <1>12 DEF Release
  <2>2. /\ req' = [req EXCEPT ![h] = req'[h]]
        /\ req'[h] = [IdleReq EXCEPT !.pc = "release", !.task = t, !.id = id]
    BY <1>1, <2>1
  <2>3. req'[h] = [pc |-> "release", task |-> t, id |-> id, ttl |-> 0, exp |-> 0,
                   pma |-> FALSE, todo |-> {}]
    BY <2>2 DEF IdleReq
  <2>4. req'[h] \in ReqState /\ PastGate(h)' /\ RequestOK(h)'
    BY <2>3 DEF ReqState, PastGate, RequestOK
  <2>5. QED
    BY <1>1, <1>12, <2>1, <2>2, <2>4, RequestMoves DEF Release
<1>13. CASE ReleaseTaskWorkflowLease(h)
  <2>1. /\ req[h].pc = "release" /\ req[h].task \in Task /\ req[h].id \in LeaseId
        /\ UNCHANGED <<status, plan, now, fresh, granted, told>>
        /\ req' = [req EXCEPT ![h] = IdleReq]
    BY <1>1, <1>13 DEF ReleaseTaskWorkflowLease, RequestOK
  <2>2. \A t \in Task : \/ lease'[t] = lease[t]
                        \/ /\ lease'[t] \in LeaseRow
                           /\ lease'[t].id = req[h].id /\ lease[t].id = req[h].id
    <3>1. SUFFICES ASSUME NEW t \in Task, lease'[t] # lease[t]
                   PROVE  /\ lease'[t] \in LeaseRow
                          /\ lease'[t].id = req[h].id /\ lease[t].id = req[h].id
      OBVIOUS
    <3>2. lease[t].id = req[h].id /\ lease'[t] = [lease[t] EXCEPT !.holder = NoHolder, !.exp = 0]
      BY <1>1, <1>13, <2>1, <3>1 DEF ReleaseTaskWorkflowLease
    <3>3. lease[t] \in LeaseRow
      BY <1>1
    <3>4. ASSUME NEW r \in LeaseRow
          PROVE  LET x == [r EXCEPT !.holder = NoHolder, !.exp = 0]
                 IN  x \in LeaseRow /\ x.id = r.id
      BY DEF LeaseRow
    <3>5. QED
      BY <3>2, <3>3, <3>4
  <2>3. lease' \in [Task -> LeaseRow]
    BY <1>1, <1>13, <2>2 DEF ReleaseTaskWorkflowLease
  <2>4. /\ \A k \in Holder : k # h => req'[k] = req[k]
        /\ req'[h] = IdleReq
    BY <1>1, <2>1
  <2>5. TypeOK'
    BY <2>1, <2>3, <2>4, IdleOK DEF IInv, TypeOK
  <2>6. RequestsOK'
    BY <2>1, <2>4, IdleOK DEF IInv, RequestsOK, PastGate, RequestOK
  <2>7. RowsOK'
    BY <2>1, <2>2, ZeroIsNoLeaseId DEF IInv, RowsOK, NoRow
  <2>8. QED
    BY <2>1, <2>5, <2>6, <2>7 DEF IInv, OneInsertGranted, DependenciesFirst
<1>14. QED
  BY <1>3, <1>4, <1>5, <1>6, <1>7, <1>8, <1>9, <1>10, <1>11, <1>12, <1>13 DEF Serve

\* The invariant is inductive.  Task progress never takes a completed task
\* back, so what the gate read stays true.
LEMMA NextIInv == IInv /\ [Next]_vars => IInv'
<1> SUFFICES ASSUME IInv, [Next]_vars PROVE IInv'
  OBVIOUS
<1>1. ASSUME NEW h \in Holder, Serve(h) PROVE IInv'
  BY <1>1, ServeStep
<1>2. CASE TaskProgress
  <2>1. /\ status' \in [Task -> TaskStatus]
        /\ \A t \in Task : status[t] = "completed" => status'[t] = "completed"
    BY <1>2, DepsAssumption DEF TaskProgress, TS!Start, TS!Complete, TS!Fail, TS!Cancel,
       TS!Open, IInv, TypeOK, TaskStatus
  <2>2. UNCHANGED <<plan, lease, req, now, fresh, granted, told>>
    BY <1>2 DEF TaskProgress
  <2>3. TypeOK' /\ RowsOK' /\ OneInsertGranted'
    BY <2>1, <2>2 DEF IInv, TypeOK, RowsOK, OneInsertGranted
  <2>4. RequestsOK'
    BY <2>1, <2>2, DepsAssumption DEF IInv, RequestsOK, PastGate, RequestOK
  <2>5. DependenciesFirst'
    BY <2>1, <2>2, DepsAssumption DEF IInv, DependenciesFirst
  <2>6. QED
    BY <2>3, <2>4, <2>5 DEF IInv
<1>3. CASE PlanProgress \/ Tick \/ UNCHANGED vars
  <2>1. /\ UNCHANGED <<status, lease, req, fresh, told>>
        /\ granted' \subseteq granted
        /\ plan' \in {"draft", "active", "archived"}
        /\ now' \in 0 .. MaxTime
    BY <1>3, TimeAssumption DEF PlanProgress, Tick, vars, IInv, TypeOK
  <2>2. TypeOK' /\ RowsOK' /\ OneInsertGranted'
    BY <2>1 DEF IInv, TypeOK, RowsOK, OneInsertGranted
  <2>3. RequestsOK' /\ DependenciesFirst'
    BY <2>1 DEF IInv, RequestsOK, PastGate, RequestOK, DependenciesFirst
  <2>4. QED
    BY <2>2, <2>3 DEF IInv
<1>4. QED
  BY <1>1, <1>2, <1>3 DEF Next

\* The inductive invariant holds in every reachable state.
THEOREM Invariant == Spec => []IInv
BY InitIInv, NextIInv, PTL DEF Spec

(***************************************************************************)
(* The start gate is sound: whatever the interleaving of the gate's        *)
(* queries, task progress and lease acquisition, a runner that was told to *)
(* run a planned task finds its dependencies completed.                    *)
(***************************************************************************)
THEOREM GateSound == Spec => []DependenciesFirst
BY Invariant, PTL DEF IInv

(***************************************************************************)
(* Racing start requests insert a task's first lease once.                 *)
(***************************************************************************)
THEOREM FirstLease == Spec => []FirstLeaseUnique
BY Invariant, PTL DEF IInv, FirstLeaseUnique
-----------------------------------------------------------------------------
(* Exclusion when requests do not overlap *)

\* The lease row of a workflow that is still active is the one it was granted.
RowOfActive ==
    \A g \in granted : g.exp >= now =>
        lease[g.task] = [id |-> g.id, holder |-> g.holder, exp |-> g.exp]

\* A request that is about to write found no active workflow.
WriteIsSafe ==
    \A h \in Holder : req[h].pc \in {"insert", "save"} =>
        \A g \in granted : g.task = req[h].task => g.exp < now

\* One request at a time.
OneRequest == \A h, k \in Holder : req[h].pc # "idle" /\ req[k].pc # "idle" => h = k

\* A release has stopped the workflow it releases.
ReleaseStopped ==
    \A h \in Holder : req[h].pc = "release" =>
        \A g \in granted : g.task # req[h].task \/ g.id # req[h].id

SerialInv == IInv /\ RowOfActive /\ WriteIsSafe /\ OneRequest /\ ReleaseStopped

\* With one request in flight no other runner is busy when one calls.
LEMMA CallsAlone ==
    ASSUME InFlight = 1, NEW h \in Holder, MayCall(h)
    PROVE  \A k \in Holder : req[k].pc = "idle"
<1> DEFINE B == {k \in Holder : req[k].pc # "idle"}
<1>1. IsFiniteSet(B)
  BY HolderAssumption, FS_Subset
<1>2. Cardinality(B) \in Nat /\ Cardinality(B) < 1
  BY <1>1, FS_CardinalityType DEF MayCall
<1>3. B = {}
  BY <1>1, <1>2, FS_EmptySet
<1>4. QED
  BY <1>3

\* A step of the only request in flight.
LEMMA SerialServe ==
    ASSUME InFlight = 1, SerialInv, IInv', NEW h \in Holder, Serve(h)
    PROVE  RowOfActive' /\ WriteIsSafe' /\ OneRequest' /\ ReleaseStopped'
<1>1. /\ TypeOK /\ req \in [Holder -> ReqState] /\ lease \in [Task -> LeaseRow]
      /\ granted \subseteq Grant /\ now \in Int
      /\ RequestOK(h) /\ req[h] \in ReqState
  BY DEF SerialInv, IInv, TypeOK, RequestsOK
<1>2. \A k \in Holder : k # h => req[k].pc = "idle" /\ req'[k] = req[k]
  <2>1. \A k \in Holder : k # h => req'[k] = req[k]
    BY <1>1 DEF Serve, Start, WorkflowGateCheckPlan, WorkflowGateCheckDep, GatePassed,
       CheckExisting, AcquireRead, AcquireInsert, AcquireSave, Abort, Release,
       ReleaseTaskWorkflowLease, Respond
  <2>2. MayCall(h) \/ req[h].pc # "idle"
    BY DEF Serve, Start, WorkflowGateCheckPlan, WorkflowGateCheckDep, GatePassed,
       CheckExisting, AcquireRead, AcquireInsert, AcquireSave, Abort, Release,
       ReleaseTaskWorkflowLease
  <2>3. \A k \in Holder : k # h => req[k].pc = "idle"
    BY <2>2, CallsAlone DEF SerialInv, OneRequest
  <2>4. QED
    BY <2>1, <2>3
<1>3. OneRequest'
  BY <1>2 DEF OneRequest
<1>4. ASSUME UNCHANGED <<lease, now>>, granted' \subseteq granted PROVE RowOfActive'
  BY <1>4 DEF SerialInv, RowOfActive
<1>5. ASSUME req'[h].pc \notin {"insert", "save"} PROVE WriteIsSafe'
  BY <1>2, <1>5 DEF WriteIsSafe
<1>6. ASSUME req'[h].pc # "release" PROVE ReleaseStopped'
  BY <1>2, <1>6 DEF ReleaseStopped
<1>7. ASSUME NEW row, NEW via, Respond(h, row, via), row \in LeaseRow,
             UNCHANGED now, req[h].task \in Task, lease'[req[h].task] = row,
             row.holder = h,
             \A t \in Task : t # req[h].task => lease'[t] = lease[t],
             \/ row = lease[req[h].task]
             \/ \A g \in granted : g.task = req[h].task => g.exp < now
      PROVE  RowOfActive' /\ WriteIsSafe' /\ ReleaseStopped'
  <2>1. req'[h].pc = "idle"
    BY <1>1, <1>7 DEF Respond, IdleReq
  <2>2. row = [id |-> row.id, holder |-> row.holder, exp |-> row.exp]
    BY <1>7 DEF LeaseRow
  <2>3. \A g \in granted' : \/ g \in granted
                            \/ /\ g.task = req[h].task /\ g.id = row.id
                               /\ g.holder = row.holder /\ g.exp = row.exp
    BY <1>7 DEF Respond
  <2>4. SUFFICES ASSUME NEW g \in granted', g.exp >= now
                 PROVE  lease'[g.task] = [id |-> g.id, holder |-> g.holder, exp |-> g.exp]
    BY <1>5, <1>6, <1>7, <2>1, <2>4 DEF RowOfActive
  <2>5. CASE g \in granted
    <3>1. /\ lease[g.task] = [id |-> g.id, holder |-> g.holder, exp |-> g.exp]
          /\ g.task \in Task /\ g.exp \in Nat
      BY <1>1, <2>4, <2>5 DEF SerialInv, RowOfActive, Grant
    <3>2. CASE g.task = req[h].task
      BY <1>1, <1>7, <2>4, <2>5, <3>1, <3>2
    <3>3. CASE g.task # req[h].task
      BY <1>7, <3>1, <3>3
    <3>4. QED
      BY <3>2, <3>3
  <2>6. CASE g \notin granted
    BY <1>7, <2>2, <2>3, <2>6
  <2>7. QED
    BY <2>5, <2>6
<1>8. CASE Start(h)
  BY <1>1, <1>4, <1>5, <1>6, <1>8, <1>3 DEF Start
<1>9. CASE WorkflowGateCheckPlan(h)
  <2>1. req'[h].pc \in {"idle", "deps"}
    BY <1>1, <1>9 DEF WorkflowGateCheckPlan, IdleReq, ReqState
  <2>2. QED
    BY <1>3, <1>4, <1>5, <1>6, <1>9, <2>1 DEF WorkflowGateCheckPlan
<1>10. CASE WorkflowGateCheckDep(h)
  <2>1. req'[h].pc \in {"idle", "deps"}
    BY <1>1, <1>10 DEF WorkflowGateCheckDep, IdleReq, ReqState
  <2>2. QED
    BY <1>3, <1>4, <1>5, <1>6, <1>10, <2>1 DEF WorkflowGateCheckDep
<1>11. CASE GatePassed(h)
  <2>1. req'[h].pc = "check"
    BY <1>1, <1>11 DEF GatePassed, ReqState
  <2>2. QED
    BY <1>3, <1>4, <1>5, <1>6, <1>11, <2>1 DEF GatePassed
<1>12. CASE CheckExisting(h)
  <2> DEFINE row == lease[req[h].task]
             id  == IF req[h].id = 0 THEN fresh + 1 ELSE req[h].id
  <2>1. req[h].task \in Task /\ row \in LeaseRow /\ UNCHANGED <<lease, now>>
    BY <1>1, <1>12 DEF CheckExisting, LeaseIdFor, RequestOK
  <2>2. CASE row.holder = h /\ row.id = id /\ row.exp > now
    <3>1. Respond(h, row, "row")
      BY <1>12, <2>2 DEF CheckExisting, LeaseIdFor
    <3>2. QED
      BY <1>3, <1>7, <2>1, <2>2, <3>1
  <2>3. CASE ~(row.holder = h /\ row.id = id /\ row.exp > now)
    <3>1. /\ req' = [req EXCEPT ![h] = [req[h] EXCEPT !.pc = "acquire", !.id = id,
                                                      !.exp = now + req[h].ttl]]
          /\ UNCHANGED <<granted, told>>
      BY <1>12, <2>3 DEF CheckExisting, LeaseIdFor
    <3>2. req'[h].pc = "acquire"
      BY <1>1, <3>1 DEF ReqState
    <3>3. QED
      BY <1>3, <1>4, <1>5, <1>6, <2>1, <3>1, <3>2
  <2>4. QED
    BY <2>2, <2>3
<1>13. CASE AcquireRead(h)
  <2> DEFINE row == lease[req[h].task]
  <2>1. /\ req[h].pc = "acquire" /\ req[h].task \in Task /\ row \in LeaseRow
        /\ UNCHANGED <<lease, now>>
    BY <1>1, <1>13 DEF AcquireRead, RequestOK
  <2>2. ASSUME NEW next \in {"insert", "save"}, row = NoRow \/ Free(row),
               req' = [req EXCEPT ![h].pc = next], UNCHANGED <<granted, told>>
        PROVE  RowOfActive' /\ WriteIsSafe' /\ ReleaseStopped'
    <3>1. req'[h].pc = next /\ req'[h].task = req[h].task
      BY <1>1, <2>2 DEF ReqState
    <3>2. row.holder = NoHolder \/ row.exp < now
      BY <2>2 DEF Free, NoRow
    <3>3. \A g \in granted : g.task = req[h].task => g.exp < now
      <4>1. SUFFICES ASSUME NEW g \in granted, g.task = req[h].task, ~(g.exp < now)
                     PROVE  FALSE
        OBVIOUS
      <4>2. g.exp \in Nat /\ g.holder \in Holder
        BY <1>1, <4>1 DEF Grant
      <4>3. row = [id |-> g.id, holder |-> g.holder, exp |-> g.exp]
        BY <1>1, <4>1, <4>2 DEF SerialInv, RowOfActive
      <4>4. QED
        BY <3>2, <4>1, <4>2, <4>3, HolderAssumption
    <3>4. WriteIsSafe'
      BY <1>2, <2>1, <2>2, <3>1, <3>3 DEF WriteIsSafe
    <3>5. QED
      BY <1>4, <1>6, <2>1, <2>2, <3>1, <3>4
  <2>3. ASSUME row.holder = h, Respond(h, row, "row")
        PROVE  RowOfActive' /\ WriteIsSafe' /\ ReleaseStopped'
    BY <1>7, <2>1, <2>3
  <2>4. ASSUME req' = [req EXCEPT ![h] = IdleReq], UNCHANGED <<granted, told>>
        PROVE  RowOfActive' /\ WriteIsSafe' /\ ReleaseStopped'
    <3>1. req'[h].pc = "idle"
      BY <1>1, <2>4 DEF IdleReq
    <3>2. QED
      BY <1>4, <1>5, <1>6, <2>1, <2>4, <3>1
  <2>5. QED
    BY <1>3, <1>13, <2>2, <2>3, <2>4 DEF AcquireRead
<1>14. CASE AcquireInsert(h)
  <2>1. req[h].pc = "insert" /\ req[h].task \in Task /\ UNCHANGED now
    BY <1>1, <1>14 DEF AcquireInsert, RequestOK
  <2>2. CASE /\ lease' = [lease EXCEPT ![req[h].task] = NewRow(h)]
             /\ Respond(h, NewRow(h), "insert")
    <3>1. /\ lease'[req[h].task] = NewRow(h)
          /\ \A t \in Task : t # req[h].task => lease'[t] = lease[t]
      BY <1>1, <2>1, <2>2
    <3>2. NewRow(h) \in LeaseRow /\ NewRow(h).holder = h
      BY <1>1 DEF NewRow, LeaseRow, ReqState
    <3>3. \A g \in granted : g.task = req[h].task => g.exp < now
      BY <2>1 DEF SerialInv, WriteIsSafe
    <3>4. Respond(h, NewRow(h), "insert")
      BY <2>2
    <3>5. QED
      BY <1>3, <1>7, <2>1, <3>1, <3>2, <3>3, <3>4
  <2>3. CASE /\ req' = [req EXCEPT ![h] = IdleReq]
             /\ UNCHANGED <<lease, granted, told>>
    <3>1. req'[h].pc = "idle"
      BY <1>1, <2>3 DEF IdleReq
    <3>2. QED
      BY <1>3, <1>4, <1>5, <1>6, <2>1, <2>3, <3>1
  <2>4. QED
    BY <1>14, <2>2, <2>3 DEF AcquireInsert
<1>15. CASE AcquireSave(h)
  <2>1. req[h].pc = "save" /\ req[h].task \in Task /\ UNCHANGED now
    BY <1>1, <1>15 DEF AcquireSave, RequestOK
  <2>2. /\ lease'[req[h].task] = NewRow(h)
        /\ \A t \in Task : t # req[h].task => lease'[t] = lease[t]
    BY <1>1, <1>15, <2>1 DEF AcquireSave
  <2>3. NewRow(h) \in LeaseRow /\ NewRow(h).holder = h
    BY <1>1 DEF NewRow, LeaseRow, ReqState
  <2>4. \A g \in granted : g.task = req[h].task => g.exp < now
    BY <2>1 DEF SerialInv, WriteIsSafe
  <2>5. Respond(h, NewRow(h), "row")
    BY <1>15 DEF AcquireSave
  <2>6. QED
    BY <1>3, <1>7, <2>1, <2>2, <2>3, <2>4, <2>5
<1>16. CASE Abort(h)
  <2>1. req'[h].pc = "idle"
    BY <1>1, <1>16 DEF Abort, IdleReq
  <2>2. QED
    BY <1>3, <1>4, <1>5, <1>6, <1>16, <2>1 DEF Abort
<1>17. CASE Release(h)
  <2>1. PICK t \in Task, id \in LeaseId :
          /\ req' = [req EXCEPT ![h] = [IdleReq EXCEPT !.pc = "release",
                                           !.task = t, !.id = id]]
          /\ granted' = {g \in granted : g.task # t \/ g.id # id}
    BY <1>17 DEF Release
  <2>2. UNCHANGED <<lease, now>> /\ granted' \subseteq granted
    BY <1>17, <2>1 DEF Release
  <2>3. req'[h].pc = "release" /\ req'[h].task = t /\ req'[h].id = id
    BY <1>1, <2>1 DEF IdleReq
  <2>4. ReleaseStopped'
    BY <1>2, <2>1, <2>3 DEF ReleaseStopped
  <2>5. QED
    BY <1>3, <1>4, <1>5, <2>2, <2>3, <2>4
<1>18. CASE ReleaseTaskWorkflowLease(h)
  <2>1. /\ req[h].pc = "release" /\ req[h].task \in Task
        /\ UNCHANGED <<now, granted>>
    BY <1>1, <1>18 DEF ReleaseTaskWorkflowLease, RequestOK
  <2>2. req'[h].pc = "idle"
    BY <1>1, <1>18 DEF ReleaseTaskWorkflowLease, IdleReq
  <2>3. \A t \in Task : lease'[t] = lease[t]
                        \/ (t = req[h].task /\ lease[t].id = req[h].id)
    BY <1>1, <1>18, <2>1 DEF ReleaseTaskWorkflowLease
  <2>4. RowOfActive'
    <3>1. SUFFICES ASSUME NEW g \in granted, g.exp >= now
                   PROVE  lease'[g.task] = lease[g.task]
      BY <2>1, <3>1 DEF SerialInv, RowOfActive
    <3>2. g.task \in Task /\ lease[g.task].id = g.id
      <4>1. lease[g.task] = [id |-> g.id, holder |-> g.holder, exp |-> g.exp]
        BY <3>1 DEF SerialInv, RowOfActive
      <4>2. QED
        BY <1>1, <4>1 DEF Grant
    <3>3. g.task # req[h].task \/ g.id # req[h].id
      BY <2>1, <3>1 DEF SerialInv, ReleaseStopped
    <3>4. QED
      BY <2>3, <3>2, <3>3
  <2>5. QED
    BY <1>3, <1>5, <1>6, <2>2, <2>4
<1>19. QED
  BY <1>8, <1>9, <1>10, <1>11, <1>12, <1>13, <1>14, <1>15, <1>16, <1>17, <1>18
     DEF Serve

(***************************************************************************)
(* REQ-ORCHES-0145 for requests that do not overlap: however starts,       *)
(* releases, lost answers and expiry follow each other, a task has at most *)
(* one active workflow.                                                    *)
(***************************************************************************)
THEOREM SerialExclusion ==
    ASSUME InFlight = 1
    PROVE  Spec => []AtMostOneActive
<1>1. Init => SerialInv
  <2>1. SUFFICES ASSUME Init PROVE SerialInv
    OBVIOUS
  <2>2. IInv
    BY <2>1, InitIInv
  <2>3. QED
    BY <2>1, <2>2 DEF Init, SerialInv, RowOfActive, WriteIsSafe, OneRequest,
       ReleaseStopped, IdleReq
<1>2. SerialInv /\ [Next]_vars => SerialInv'
  <2>1. SUFFICES ASSUME SerialInv, [Next]_vars PROVE SerialInv'
    OBVIOUS
  <2>2. IInv'
    BY <2>1, NextIInv DEF SerialInv
  <2>3. ASSUME NEW h \in Holder, Serve(h) PROVE SerialInv'
    BY <2>1, <2>2, <2>3, SerialServe DEF SerialInv
  <2>4. CASE TaskProgress \/ PlanProgress \/ UNCHANGED vars
    <3>1. UNCHANGED <<lease, req, now, granted>>
      BY <2>4 DEF TaskProgress, PlanProgress, vars
    <3>2. QED
      BY <2>1, <2>2, <3>1 DEF SerialInv, RowOfActive, WriteIsSafe, OneRequest,
         ReleaseStopped
  <2>5. CASE Tick
    <3>1. /\ UNCHANGED <<lease, req>> /\ now \in Int /\ now' = now + 1
          /\ granted' \subseteq granted
          /\ \A g \in granted : g.exp \in Int
      BY <2>1, <2>5 DEF Tick, SerialInv, IInv, TypeOK, Grant
    <3>2. QED
      BY <2>1, <2>2, <3>1 DEF SerialInv, RowOfActive, WriteIsSafe, OneRequest,
         ReleaseStopped
  <2>6. QED
    BY <2>1, <2>3, <2>4, <2>5 DEF Next
<1>3. SerialInv => AtMostOneActive
  <2>1. SUFFICES ASSUME SerialInv, NEW g \in granted, NEW k \in granted,
                        g.task = k.task, g.exp >= now, k.exp >= now
                 PROVE  g.holder = k.holder /\ g.id = k.id
    BY DEF AtMostOneActive
  <2>2. /\ lease[g.task] = [id |-> g.id, holder |-> g.holder, exp |-> g.exp]
        /\ lease[k.task] = [id |-> k.id, holder |-> k.holder, exp |-> k.exp]
    BY <2>1 DEF SerialInv, RowOfActive
  <2>3. QED
    BY <2>1, <2>2
<1>4. QED
  BY <1>1, <1>2, <1>3, PTL DEF Spec

-----------------------------------------------------------------------------
(* Exclusion when requests overlap: the one race there is *)

\* The save of a row that somebody has taken since it was found free.
LateSave(h) == AcquireSave(h) /\ ~Free(lease[req[h].task])

\* Is i the lease id of a request or a lease of runner h, or one it was told?
Uses(h, i) ==
    \/ req[h].pc \in {"acquire", "insert", "save", "release"} /\ req[h].id = i
    \/ \E t \in Task : <<h, t, i>> \in told
    \/ \E t \in Task : lease[t].holder = h /\ lease[t].id = i

\* A lease id is the key of its runner or a uuid made before, and no other
\* runner's.
OwnIds ==
    /\ \A h \in Holder : req[h].pc \in {"plan", "deps", "check"} => req[h].id \in {0, h}
    /\ \A h \in Holder, i \in LeaseId : Uses(h, i) => i = h \/ i \in 1 .. fresh
    /\ \A h, k \in Holder, i \in LeaseId : Uses(h, i) /\ Uses(k, i) => h = k

OverlapInv == IInv /\ RowOfActive /\ ReleaseStopped /\ OwnIds

\* A step of a request changes no other one.
LEMMA ServeOthers ==
    ASSUME TypeOK, NEW h \in Holder, Serve(h), NEW k \in Holder, k # h
    PROVE  req'[k] = req[k]
BY DEF TypeOK, Serve, Start, WorkflowGateCheckPlan, WorkflowGateCheckDep, GatePassed,
   CheckExisting, AcquireRead, AcquireInsert, AcquireSave, Abort, Release,
   ReleaseTaskWorkflowLease, Respond

\* The answer tells a runner an id it uses.
LEMMA RespondUses ==
    ASSUME TypeOK, NEW h \in Holder, NEW row, NEW via, Respond(h, row, via),
           NEW k \in Holder, NEW i \in LeaseId, NEW t \in Task, <<k, t, i>> \in told'
    PROVE  <<k, t, i>> \in told \/ (k = h /\ i = row.id)
BY DEF Respond

\* Of the steps of a request only CheckExisting brings an id into use.
LEMMA ServeUses ==
    ASSUME IInv, NEW h \in Holder, Serve(h), NEW k \in Holder, NEW i \in LeaseId, Uses(k, i)'
    PROVE  Uses(k, i) \/ (k = h /\ i = LeaseIdFor(h) /\ CheckExisting(h))
<1>1. /\ TypeOK /\ req \in [Holder -> ReqState] /\ lease \in [Task -> LeaseRow]
      /\ RequestOK(h) /\ req[h] \in ReqState
  BY DEF IInv, TypeOK, RequestsOK
<1>2. k # h => req'[k] = req[k]
  BY <1>1, ServeOthers
<1>3. ASSUME UNCHANGED <<lease, told>>,
             k = h => req'[h].pc \notin {"acquire", "insert", "save", "release"}
                      \/ Uses(h, req'[h].id)
      PROVE  Uses(k, i)
  BY <1>2, <1>3 DEF Uses
<1>4. ASSUME NEW row, NEW via, Respond(h, row, via), Uses(h, row.id),
             \A t \in Task : lease'[t] = lease[t] \/ (lease'[t].holder = h /\ lease'[t].id = row.id)
      PROVE  Uses(k, i)
  <2>1. req'[h].pc = "idle"
    BY <1>1, <1>4 DEF Respond, IdleReq
  <2>2. CASE \E t \in Task : <<k, t, i>> \in told'
    BY <1>1, <1>4, <2>2, RespondUses DEF Uses
  <2>3. CASE \E t \in Task : lease'[t].holder = k /\ lease'[t].id = i
    BY <1>4, <2>3 DEF Uses
  <2>4. CASE req'[k].pc \in {"acquire", "insert", "save", "release"} /\ req'[k].id = i
    BY <1>2, <2>1, <2>4 DEF Uses
  <2>5. QED
    BY <2>2, <2>3, <2>4 DEF Uses
<1>5. CASE Start(h)
  <2>1. req'[h].pc \in {"plan", "check"}
    BY <1>1, <1>5 DEF Start
  <2>2. QED
    BY <1>3, <1>5, <2>1 DEF Start
<1>6. CASE WorkflowGateCheckPlan(h) \/ WorkflowGateCheckDep(h) \/ GatePassed(h) \/ Abort(h)
  <2>1. req'[h].pc \in {"idle", "deps", "check"}
    <3>1. CASE WorkflowGateCheckPlan(h)
      BY <1>1, <3>1 DEF WorkflowGateCheckPlan, IdleReq, ReqState
    <3>2. CASE WorkflowGateCheckDep(h)
      BY <1>1, <3>2 DEF WorkflowGateCheckDep, IdleReq, ReqState
    <3>3. CASE GatePassed(h) \/ Abort(h)
      BY <1>1, <3>3 DEF GatePassed, Abort, IdleReq, ReqState
    <3>4. QED
      BY <1>6, <3>1, <3>2, <3>3
  <2>2. QED
    BY <1>3, <1>6, <2>1 DEF WorkflowGateCheckPlan, WorkflowGateCheckDep, GatePassed, Abort
<1>7. CASE CheckExisting(h)
  <2> DEFINE row == lease[req[h].task]
  <2>1. CASE row.holder = h /\ row.id = LeaseIdFor(h) /\ row.exp > now
    <3>1. Respond(h, row, "row") /\ UNCHANGED lease /\ req[h].task \in Task
      BY <1>1, <1>7, <2>1 DEF CheckExisting, RequestOK
    <3>2. Uses(h, row.id)
      BY <2>1, <3>1 DEF Uses
    <3>3. QED
      BY <1>4, <3>1, <3>2
  <2>2. CASE ~(row.holder = h /\ row.id = LeaseIdFor(h) /\ row.exp > now)
    <3>1. /\ req' = [req EXCEPT ![h] = [req[h] EXCEPT !.pc = "acquire", !.id = LeaseIdFor(h),
                                                      !.exp = now + req[h].ttl]]
          /\ UNCHANGED <<lease, told>>
      BY <1>7, <2>2 DEF CheckExisting
    <3>2. req'[h].id = LeaseIdFor(h)
      BY <1>1, <3>1 DEF ReqState
    <3>3. QED
      BY <1>2, <1>7, <3>1, <3>2 DEF Uses
  <2>3. QED
    BY <2>1, <2>2
<1>8. CASE AcquireRead(h)
  <2> DEFINE row == lease[req[h].task]
  <2>1. req[h].pc = "acquire" /\ req[h].task \in Task /\ UNCHANGED lease
    BY <1>1, <1>8 DEF AcquireRead, RequestOK
  <2>2. CASE row.holder = h /\ Respond(h, row, "row")
    <3>1. Uses(h, row.id)
      BY <2>1, <2>2 DEF Uses
    <3>2. QED
      BY <1>4, <2>1, <2>2, <3>1
  <2>3. CASE /\ \E pc \in {"insert", "save"} : req' = [req EXCEPT ![h].pc = pc]
             /\ UNCHANGED told
    <3>1. req'[h].id = req[h].id
      BY <1>1, <2>3 DEF ReqState
    <3>2. Uses(h, req'[h].id)
      BY <2>1, <3>1 DEF Uses
    <3>3. QED
      BY <1>3, <2>1, <2>3, <3>2
  <2>4. CASE req' = [req EXCEPT ![h] = IdleReq] /\ UNCHANGED told
    <3>1. req'[h].pc = "idle"
      BY <1>1, <2>4 DEF IdleReq
    <3>2. QED
      BY <1>3, <2>1, <2>4, <3>1
  <2>5. QED
    BY <1>8, <2>2, <2>3, <2>4 DEF AcquireRead
<1>9. CASE AcquireInsert(h) \/ AcquireSave(h)
  <2>1. req[h].pc \in {"insert", "save"} /\ req[h].task \in Task
    BY <1>1, <1>9 DEF AcquireInsert, AcquireSave, RequestOK
  <2>2. CASE \E via \in {"insert", "row"} :
                /\ lease' = [lease EXCEPT ![req[h].task] = NewRow(h)]
                /\ Respond(h, NewRow(h), via)
    <3>1. NewRow(h).id = req[h].id /\ NewRow(h).holder = h
      BY DEF NewRow
    <3>2. Uses(h, NewRow(h).id)
      BY <2>1, <3>1 DEF Uses
    <3>3. \A t \in Task : lease'[t] = lease[t] \/ lease'[t] = NewRow(h)
      BY <1>1, <2>2
    <3>4. QED
      BY <1>4, <2>2, <3>1, <3>2, <3>3
  <2>3. CASE req' = [req EXCEPT ![h] = IdleReq] /\ UNCHANGED <<lease, told>>
    <3>1. req'[h].pc = "idle"
      BY <1>1, <2>3 DEF IdleReq
    <3>2. QED
      BY <1>3, <2>3, <3>1
  <2>4. QED
    BY <1>9, <2>2, <2>3 DEF AcquireInsert, AcquireSave
<1>10. CASE Release(h)
  <2>1. PICK t \in Task, id \in LeaseId :
          /\ <<h, t, id>> \in told
          /\ req' = [req EXCEPT ![h] = [IdleReq EXCEPT !.pc = "release",
                                           !.task = t, !.id = id]]
    BY <1>10 DEF Release
  <2>2. req'[h].id = id
    BY <1>1, <2>1 DEF IdleReq
  <2>3. Uses(h, req'[h].id)
    BY <2>1, <2>2 DEF Uses
  <2>4. QED
    BY <1>3, <1>10, <2>3 DEF Release
<1>11. CASE ReleaseTaskWorkflowLease(h)
  <2>1. req[h].task \in Task /\ UNCHANGED told
    BY <1>1, <1>11 DEF ReleaseTaskWorkflowLease, RequestOK
  <2>2. req'[h].pc = "idle"
    BY <1>1, <1>11 DEF ReleaseTaskWorkflowLease, IdleReq
  <2>3. \A t \in Task : lease'[t] = lease[t] \/ lease'[t].holder = NoHolder
    BY <1>1, <1>11, <2>1 DEF ReleaseTaskWorkflowLease, LeaseRow
  <2>4. QED
    BY <1>2, <2>1, <2>2, <2>3, HolderAssumption DEF Uses
<1>12. QED
  BY <1>5, <1>6, <1>7, <1>8, <1>9, <1>10, <1>11 DEF Serve

\* Ids that come into use are nobody's yet.
LEMMA OwnIdsServe ==
    ASSUME OverlapInv, NEW h \in Holder, Serve(h)
    PROVE  OwnIds'
<1>1. /\ IInv /\ TypeOK /\ req \in [Holder -> ReqState] /\ req[h] \in ReqState
      /\ fresh \in Nat /\ OwnIds
  BY DEF OverlapInv, IInv, TypeOK
<1>2. \A k \in Holder : req'[k].pc \in {"plan", "deps", "check"} => req'[k].id \in {0, k}
  <2>1. SUFFICES ASSUME NEW k \in Holder, req'[k].pc \in {"plan", "deps", "check"}
                 PROVE  req'[k].id \in {0, k}
    OBVIOUS
  <2>2. CASE k # h
    BY <1>1, <2>1, <2>2, ServeOthers DEF OwnIds
  <2>3. CASE k = h
    <3>1. req'[h].pc \in {"plan", "deps", "check"}
      BY <2>1, <2>3
    <3>2. CASE Start(h)
      BY <1>1, <2>3, <3>2 DEF Start
    <3>3. CASE ~Start(h)
      <4>1. req[h].pc \in {"plan", "deps", "check"} /\ req'[h].id = req[h].id
        <5>1. CASE WorkflowGateCheckPlan(h)
          BY <1>1, <3>1, <5>1 DEF WorkflowGateCheckPlan, IdleReq, ReqState
        <5>2. CASE WorkflowGateCheckDep(h)
          BY <1>1, <3>1, <5>2 DEF WorkflowGateCheckDep, IdleReq, ReqState
        <5>3. CASE GatePassed(h)
          BY <1>1, <5>3 DEF GatePassed, ReqState
        <5>4. ASSUME NEW row, NEW via, Respond(h, row, via) PROVE FALSE
          BY <1>1, <3>1, <5>4 DEF Respond, IdleReq
        <5>5. ASSUME req' = [req EXCEPT ![h] = IdleReq] PROVE FALSE
          BY <1>1, <3>1, <5>5 DEF IdleReq
        <5>6. ~CheckExisting(h)
          <6>1. SUFFICES ASSUME CheckExisting(h),
                                req' = [req EXCEPT ![h] =
                                   [req[h] EXCEPT !.pc = "acquire", !.id = LeaseIdFor(h),
                                                  !.exp = now + req[h].ttl]]
                         PROVE  FALSE
            BY <5>4 DEF CheckExisting
          <6>2. QED
            BY <1>1, <3>1, <6>1 DEF ReqState
        <5>7. ~AcquireRead(h)
          <6>1. SUFFICES ASSUME NEW pc \in {"insert", "save"}, req' = [req EXCEPT ![h].pc = pc]
                         PROVE  FALSE
            BY <5>4, <5>5 DEF AcquireRead
          <6>2. QED
            BY <1>1, <3>1, <6>1 DEF ReqState
        <5>8. ~AcquireInsert(h) /\ ~AcquireSave(h) /\ ~Abort(h) /\ ~ReleaseTaskWorkflowLease(h)
          BY <5>4, <5>5 DEF AcquireInsert, AcquireSave, Abort, ReleaseTaskWorkflowLease
        <5>9. ~Release(h)
          <6>1. SUFFICES ASSUME NEW t \in Task, NEW id \in LeaseId,
                                req' = [req EXCEPT ![h] = [IdleReq EXCEPT !.pc = "release",
                                                             !.task = t, !.id = id]]
                         PROVE  FALSE
            BY DEF Release
          <6>2. req'[h].pc = "release"
            BY <1>1, <6>1 DEF IdleReq
          <6>3. QED
            BY <3>1, <6>2
        <5>10. QED
          BY <3>3, <5>1, <5>2, <5>3, <5>6, <5>7, <5>8, <5>9 DEF Serve
      <4>2. QED
        BY <1>1, <2>3, <4>1 DEF OwnIds
    <3>4. QED
      BY <3>2, <3>3
  <2>4. QED
    BY <2>2, <2>3
<1>3. fresh' = fresh \/ (CheckExisting(h) /\ fresh' = fresh + 1)
  BY DEF Serve, Start, WorkflowGateCheckPlan, WorkflowGateCheckDep, GatePassed,
     CheckExisting, AcquireRead, AcquireInsert, AcquireSave, Abort, Release,
     ReleaseTaskWorkflowLease
<1>4. CheckExisting(h) => \/ LeaseIdFor(h) = h
                          \/ LeaseIdFor(h) = fresh + 1 /\ fresh' = fresh + 1
  BY <1>1 DEF CheckExisting, LeaseIdFor, OwnIds
<1>5. \A k \in Holder, i \in LeaseId : Uses(k, i)' => i = k \/ i \in 1 .. fresh'
  <2>1. SUFFICES ASSUME NEW k \in Holder, NEW i \in LeaseId, Uses(k, i)'
                 PROVE  i = k \/ i \in 1 .. fresh'
    OBVIOUS
  <2>2. CASE Uses(k, i)
    <3>1. i = k \/ i \in 1 .. fresh
      BY <1>1, <2>2 DEF OwnIds
    <3>2. QED
      BY <1>1, <1>3, <3>1
  <2>3. CASE k = h /\ i = LeaseIdFor(h) /\ CheckExisting(h)
    BY <1>1, <1>4, <2>3
  <2>4. QED
    BY <1>1, <2>1, <2>2, <2>3, ServeUses
<1>6. ASSUME CheckExisting(h), NEW k \in Holder, NEW i \in LeaseId, i = LeaseIdFor(h), Uses(k, i)
      PROVE  k = h
  <2>1. i = k \/ i \in 1 .. fresh
    BY <1>1, <1>6 DEF OwnIds
  <2>2. CASE i = h
    BY <2>1, <2>2, HolderAssumption
  <2>3. CASE i = fresh + 1
    BY <1>1, <2>1, <2>3, HolderAssumption
  <2>4. QED
    BY <1>4, <1>6, <2>2, <2>3
<1>7. \A j, k \in Holder, i \in LeaseId : Uses(j, i)' /\ Uses(k, i)' => j = k
  <2>1. SUFFICES ASSUME NEW j \in Holder, NEW k \in Holder, NEW i \in LeaseId,
                        Uses(j, i)', Uses(k, i)'
                 PROVE  j = k
    OBVIOUS
  <2>2. /\ Uses(j, i) \/ (j = h /\ i = LeaseIdFor(h) /\ CheckExisting(h))
        /\ Uses(k, i) \/ (k = h /\ i = LeaseIdFor(h) /\ CheckExisting(h))
    BY <1>1, <2>1, ServeUses
  <2>3. Uses(j, i) /\ Uses(k, i) => j = k
    BY <1>1 DEF OwnIds
  <2>4. QED
    BY <1>6, <2>2, <2>3
<1>8. QED
  BY <1>2, <1>5, <1>7 DEF OwnIds

\* Active workflows keep their rows, unless a request saves too late.
LEMMA OverlapServe ==
    ASSUME OverlapInv, NEW h \in Holder, Serve(h), ~LateSave(h)
    PROVE  RowOfActive' /\ ReleaseStopped'
<1>1. /\ IInv /\ TypeOK /\ req \in [Holder -> ReqState] /\ lease \in [Task -> LeaseRow]
      /\ granted \subseteq Grant /\ now \in Int
      /\ RequestOK(h) /\ req[h] \in ReqState
      /\ RowOfActive /\ ReleaseStopped /\ OwnIds
  BY DEF OverlapInv, IInv, TypeOK, RequestsOK
<1>2. \A k \in Holder : k # h => req'[k] = req[k]
  BY <1>1, ServeOthers
<1>3. ASSUME UNCHANGED <<lease, now>>, granted' \subseteq granted PROVE RowOfActive'
  BY <1>1, <1>3 DEF RowOfActive
<1>4. ASSUME granted' \subseteq granted, req'[h].pc # "release" PROVE ReleaseStopped'
  BY <1>1, <1>2, <1>4 DEF ReleaseStopped
<1>5. ASSUME NEW row, NEW via, Respond(h, row, via), row \in LeaseRow, UNCHANGED now,
             req[h].pc # "release", req[h].task \in Task, lease'[req[h].task] = row,
             row.holder = h, row.id \in LeaseId, Uses(h, row.id),
             \A t \in Task : t # req[h].task => lease'[t] = lease[t],
             \/ row = lease[req[h].task]
             \/ \A g \in granted : g.task = req[h].task => g.exp < now
      PROVE  RowOfActive' /\ ReleaseStopped'
  <2>1. req'[h].pc = "idle"
    BY <1>1, <1>5 DEF Respond, IdleReq
  <2>2. row = [id |-> row.id, holder |-> row.holder, exp |-> row.exp]
    BY <1>5 DEF LeaseRow
  <2>3. \A g \in granted' : \/ g \in granted
                            \/ /\ g.task = req[h].task /\ g.id = row.id
                               /\ g.holder = row.holder /\ g.exp = row.exp
    BY <1>5 DEF Respond
  <2>4. ASSUME NEW g \in granted', g.exp >= now
        PROVE  lease'[g.task] = [id |-> g.id, holder |-> g.holder, exp |-> g.exp]
    <3>1. CASE g \in granted
      <4>1. /\ lease[g.task] = [id |-> g.id, holder |-> g.holder, exp |-> g.exp]
            /\ g.task \in Task /\ g.exp \in Nat
        BY <1>1, <2>4, <3>1 DEF RowOfActive, Grant
      <4>2. CASE g.task = req[h].task
        BY <1>1, <1>5, <2>4, <3>1, <4>1, <4>2
      <4>3. CASE g.task # req[h].task
        BY <1>5, <4>1, <4>3
      <4>4. QED
        BY <4>2, <4>3
    <3>2. CASE g \notin granted
      BY <1>5, <2>2, <2>3, <3>2
    <3>3. QED
      BY <3>1, <3>2
  <2>5. ASSUME NEW k \in Holder, req'[k].pc = "release", NEW g \in granted'
        PROVE  g.task # req'[k].task \/ g.id # req'[k].id
    <3>1. k # h /\ req'[k] = req[k] /\ req[k].pc = "release"
      BY <1>2, <2>1, <2>5
    <3>2. Uses(k, req[k].id)
      BY <3>1 DEF Uses
    <3>3. row.id # req[k].id
      BY <1>1, <1>5, <3>1, <3>2 DEF OwnIds
    <3>4. QED
      BY <1>1, <2>3, <2>5, <3>1, <3>3 DEF ReleaseStopped
  <2>6. QED
    BY <1>5, <2>4, <2>5 DEF RowOfActive, ReleaseStopped
<1>6. ASSUME NEW t \in Task, Free(lease[t]), NEW g \in granted, g.task = t
      PROVE  g.exp < now
  <2>1. SUFFICES ASSUME ~(g.exp < now) PROVE FALSE
    OBVIOUS
  <2>2. g.exp \in Nat /\ g.holder \in Holder
    BY <1>1, <1>6 DEF Grant
  <2>3. g.exp >= now
    BY <1>1, <2>1, <2>2
  <2>4. lease[g.task] = [id |-> g.id, holder |-> g.holder, exp |-> g.exp]
    BY <1>1, <2>3 DEF RowOfActive
  <2>5. lease[t].holder = g.holder /\ lease[t].exp = g.exp
    BY <1>6, <2>4
  <2>6. QED
    BY <1>6, <2>1, <2>2, <2>5, HolderAssumption DEF Free
<1>7. ASSUME req' = [req EXCEPT ![h] = IdleReq], UNCHANGED <<lease, now, granted>>
      PROVE  RowOfActive' /\ ReleaseStopped'
  <2>1. req'[h].pc = "idle"
    BY <1>1, <1>7 DEF IdleReq
  <2>2. QED
    BY <1>3, <1>4, <1>7, <2>1
<1>8. CASE Start(h)
  <2>1. req'[h].pc \in {"plan", "check"}
    BY <1>1, <1>8 DEF Start
  <2>2. QED
    BY <1>3, <1>4, <1>8, <2>1 DEF Start
<1>9. CASE WorkflowGateCheckPlan(h)
  <2>1. req'[h].pc \in {"idle", "deps"}
    BY <1>1, <1>9 DEF WorkflowGateCheckPlan, IdleReq, ReqState
  <2>2. QED
    BY <1>3, <1>4, <1>9, <2>1 DEF WorkflowGateCheckPlan
<1>10. CASE WorkflowGateCheckDep(h)
  <2>1. req'[h].pc \in {"idle", "deps"}
    BY <1>1, <1>10 DEF WorkflowGateCheckDep, IdleReq, ReqState
  <2>2. QED
    BY <1>3, <1>4, <1>10, <2>1 DEF WorkflowGateCheckDep
<1>11. CASE GatePassed(h)
  <2>1. req'[h].pc = "check"
    BY <1>1, <1>11 DEF GatePassed, ReqState
  <2>2. QED
    BY <1>3, <1>4, <1>11, <2>1 DEF GatePassed
<1>12. CASE CheckExisting(h)
  <2> DEFINE row == lease[req[h].task]
  <2>1. /\ req[h].pc = "check" /\ req[h].task \in Task /\ row \in LeaseRow
        /\ UNCHANGED <<lease, now>>
    BY <1>1, <1>12 DEF CheckExisting, RequestOK
  <2>2. CASE row.holder = h /\ row.id = LeaseIdFor(h) /\ row.exp > now
    <3>1. Respond(h, row, "row")
      BY <1>12, <2>2 DEF CheckExisting
    <3>2. row.id \in LeaseId /\ Uses(h, row.id)
      <4>1. row # NoRow
        BY <2>2, HolderAssumption DEF NoRow
      <4>2. row.id # 0
        BY <1>1, <2>1, <4>1 DEF IInv, RowsOK
      <4>3. QED
        BY <2>1, <2>2, <4>2 DEF LeaseRow, Uses
    <3>3. QED
      BY <1>5, <2>1, <2>2, <3>1, <3>2
  <2>3. CASE ~(row.holder = h /\ row.id = LeaseIdFor(h) /\ row.exp > now)
    <3>1. /\ req' = [req EXCEPT ![h] = [req[h] EXCEPT !.pc = "acquire", !.id = LeaseIdFor(h),
                                                      !.exp = now + req[h].ttl]]
          /\ UNCHANGED <<granted, told>>
      BY <1>12, <2>3 DEF CheckExisting
    <3>2. req'[h].pc = "acquire"
      BY <1>1, <3>1 DEF ReqState
    <3>3. QED
      BY <1>3, <1>4, <2>1, <3>1, <3>2
  <2>4. QED
    BY <2>2, <2>3
<1>13. CASE AcquireRead(h)
  <2> DEFINE row == lease[req[h].task]
  <2>1. /\ req[h].pc = "acquire" /\ req[h].task \in Task /\ row \in LeaseRow
        /\ UNCHANGED <<lease, now>>
    BY <1>1, <1>13 DEF AcquireRead, RequestOK
  <2>2. ASSUME NEW next \in {"insert", "save"}, req' = [req EXCEPT ![h].pc = next],
               UNCHANGED granted
        PROVE  RowOfActive' /\ ReleaseStopped'
    <3>1. req'[h].pc = next
      BY <1>1, <2>2 DEF ReqState
    <3>2. QED
      BY <1>3, <1>4, <2>1, <2>2, <3>1
  <2>3. ASSUME row.holder = h, row.id = req[h].id, Respond(h, row, "row")
        PROVE  RowOfActive' /\ ReleaseStopped'
    <3>1. row.id \in LeaseId /\ Uses(h, row.id)
      BY <1>1, <2>1, <2>3 DEF RequestOK, Uses
    <3>2. QED
      BY <1>5, <2>1, <2>3, <3>1
  <2>4. QED
    BY <1>7, <1>13, <2>1, <2>2, <2>3 DEF AcquireRead
<1>14. ASSUME req[h].pc \in {"insert", "save"}, NEW via,
              lease' = [lease EXCEPT ![req[h].task] = NewRow(h)],
              Respond(h, NewRow(h), via), UNCHANGED now,
              \A g \in granted : g.task = req[h].task => g.exp < now
       PROVE  RowOfActive' /\ ReleaseStopped'
  <2>1. req[h].task \in Task /\ req[h].id \in LeaseId
    BY <1>1, <1>14 DEF RequestOK
  <2>2. /\ lease'[req[h].task] = NewRow(h)
        /\ \A t \in Task : t # req[h].task => lease'[t] = lease[t]
    BY <1>1, <1>14, <2>1
  <2>3. NewRow(h) \in LeaseRow /\ NewRow(h).holder = h /\ NewRow(h).id = req[h].id
    BY <1>1 DEF NewRow, LeaseRow, ReqState
  <2>4. Uses(h, NewRow(h).id)
    BY <1>14, <2>3 DEF Uses
  <2>5. QED
    BY <1>5, <1>14, <2>1, <2>2, <2>3, <2>4
<1>15. CASE AcquireInsert(h)
  <2>1. req[h].pc = "insert" /\ req[h].task \in Task /\ UNCHANGED now
    BY <1>1, <1>15 DEF AcquireInsert, RequestOK
  <2>2. lease[req[h].task] = NoRow => \A g \in granted : g.task # req[h].task
    BY <1>1, <2>1 DEF IInv, RowsOK
  <2>3. QED
    BY <1>7, <1>14, <1>15, <2>1, <2>2 DEF AcquireInsert
<1>16. CASE AcquireSave(h)
  <2>1. req[h].pc = "save" /\ req[h].task \in Task /\ UNCHANGED now
    BY <1>1, <1>16 DEF AcquireSave, RequestOK
  <2>2. Free(lease[req[h].task])
    BY <1>16 DEF LateSave
  <2>3. \A g \in granted : g.task = req[h].task => g.exp < now
    BY <1>6, <2>1, <2>2
  <2>4. QED
    BY <1>14, <1>16, <2>1, <2>3 DEF AcquireSave
<1>17. CASE Abort(h)
  BY <1>7, <1>17 DEF Abort
<1>18. CASE Release(h)
  <2>1. PICK t \in Task, id \in LeaseId :
          /\ req' = [req EXCEPT ![h] = [IdleReq EXCEPT !.pc = "release",
                                           !.task = t, !.id = id]]
          /\ granted' = {g \in granted : g.task # t \/ g.id # id}
    BY <1>18 DEF Release
  <2>2. UNCHANGED <<lease, now>> /\ granted' \subseteq granted
    BY <1>18, <2>1 DEF Release
  <2>3. req'[h].pc = "release" /\ req'[h].task = t /\ req'[h].id = id
    BY <1>1, <2>1 DEF IdleReq
  <2>4. ReleaseStopped'
    BY <1>1, <1>2, <2>1, <2>3 DEF ReleaseStopped
  <2>5. QED
    BY <1>3, <2>2, <2>4
<1>19. CASE ReleaseTaskWorkflowLease(h)
  <2>1. /\ req[h].pc = "release" /\ req[h].task \in Task
        /\ UNCHANGED <<now, granted>>
    BY <1>1, <1>19 DEF ReleaseTaskWorkflowLease, RequestOK
  <2>2. req'[h].pc = "idle"
    BY <1>1, <1>19 DEF ReleaseTaskWorkflowLease, IdleReq
  <2>3. \A t \in Task : lease'[t] = lease[t]
                        \/ (t = req[h].task /\ lease[t].id = req[h].id)
    BY <1>1, <1>19, <2>1 DEF ReleaseTaskWorkflowLease
  <2>4. RowOfActive'
    <3>1. SUFFICES ASSUME NEW g \in granted, g.exp >= now
                   PROVE  lease'[g.task] = lease[g.task]
      BY <1>1, <2>1, <3>1 DEF RowOfActive
    <3>2. g.task \in Task /\ lease[g.task].id = g.id
      <4>1. lease[g.task] = [id |-> g.id, holder |-> g.holder, exp |-> g.exp]
        BY <1>1, <3>1 DEF RowOfActive
      <4>2. QED
        BY <1>1, <4>1 DEF Grant
    <3>3. g.task # req[h].task \/ g.id # req[h].id
      BY <1>1, <2>1, <3>1 DEF ReleaseStopped
    <3>4. QED
      BY <2>3, <3>2, <3>3
  <2>5. QED
    BY <1>4, <2>1, <2>2, <2>4
<1>20. QED
  BY <1>8, <1>9, <1>10, <1>11, <1>12, <1>13, <1>15, <1>16, <1>17, <1>18, <1>19 DEF Serve

(***************************************************************************)
(* REQ-ORCHES-0145 for requests that overlap in any way: a task has at     *)
(* most one active workflow unless a request saves the lease row that it   *)
(* had found free after another one has taken it.  That save, which names  *)
(* the primary key and no other condition (database/workflow.go), is the   *)
(* only way to a second workflow; idempotency keys, releases that come     *)
(* late or twice, lost answers and expiry never lead to one.               *)
(***************************************************************************)
THEOREM OnlyLateSavesRace ==
    Spec /\ [][\A h \in Holder : ~LateSave(h)]_vars => []AtMostOneActive
<1>1. Init => OverlapInv
  <2>1. SUFFICES ASSUME Init PROVE OverlapInv
    OBVIOUS
  <2>2. IInv
    BY <2>1, InitIInv
  <2>3. OwnIds
    <3>1. \A h \in Holder : req[h].pc = "idle"
      BY <2>1 DEF Init, IdleReq
    <3>2. \A h \in Holder, i \in LeaseId : ~Uses(h, i)
      BY <2>1, <3>1, HolderAssumption DEF Init, Uses, NoRow
    <3>3. QED
      BY <3>1, <3>2 DEF OwnIds
  <2>4. QED
    BY <2>1, <2>2, <2>3 DEF Init, OverlapInv, RowOfActive, ReleaseStopped, IdleReq
<1>2. OverlapInv /\ [Next]_vars /\ [\A h \in Holder : ~LateSave(h)]_vars => OverlapInv'
  <2>1. SUFFICES ASSUME OverlapInv, [Next]_vars, [\A h \in Holder : ~LateSave(h)]_vars
                 PROVE  OverlapInv'
    OBVIOUS
  <2>2. IInv'
    BY <2>1, NextIInv DEF OverlapInv
  <2>3. CASE TaskProgress \/ PlanProgress \/ UNCHANGED vars
    <3>1. UNCHANGED <<lease, req, now, fresh, granted, told>>
      BY <2>3 DEF TaskProgress, PlanProgress, vars
    <3>2. QED
      BY <2>1, <2>2, <3>1 DEF OverlapInv, RowOfActive, ReleaseStopped, OwnIds, Uses
  <2>4. CASE Tick
    <3>1. /\ UNCHANGED <<lease, req, fresh, told>> /\ now \in Int /\ now' = now + 1
          /\ granted' \subseteq granted
          /\ \A g \in granted : g.exp \in Int
      BY <2>1, <2>4 DEF Tick, OverlapInv, IInv, TypeOK, Grant
    <3>2. RowOfActive' /\ ReleaseStopped'
      BY <2>1, <3>1 DEF OverlapInv, RowOfActive, ReleaseStopped
    <3>3. OwnIds'
      BY <2>1, <3>1 DEF OverlapInv, OwnIds, Uses
    <3>4. QED
      BY <2>2, <3>2, <3>3 DEF OverlapInv
  <2>5. ASSUME NEW h \in Holder, Serve(h) PROVE OverlapInv'
    <3>1. CASE UNCHANGED vars
      BY <2>3, <3>1
    <3>2. CASE ~LateSave(h)
      BY <2>1, <2>2, <2>5, <3>2, OwnIdsServe, OverlapServe DEF OverlapInv
    <3>3. QED
      BY <2>1, <3>1, <3>2
  <2>6. QED
    BY <2>1, <2>3, <2>4, <2>5 DEF Next
<1>3. OverlapInv => AtMostOneActive
  <2>1. SUFFICES ASSUME OverlapInv, NEW g \in granted, NEW k \in granted,
                        g.task = k.task, g.exp >= now, k.exp >= now
                 PROVE  g.holder = k.holder /\ g.id = k.id
    BY DEF AtMostOneActive
  <2>2. /\ lease[g.task] = [id |-> g.id, holder |-> g.holder, exp |-> g.exp]
        /\ lease[k.task] = [id |-> k.id, holder |-> k.holder, exp |-> k.exp]
    BY <2>1 DEF OverlapInv, RowOfActive
  <2>3. QED
    BY <2>1, <2>2
<1>4. QED
  BY <1>1, <1>2, <1>3, PTL DEF Spec
=============================================================================
