------------------------ MODULE NodeLifecycleProofs -------------------------
(***************************************************************************)
(* Proofs about node registration and configuration for every set of nodes *)
(* and every number of exits, crashes and reboots.                         *)
(***************************************************************************)
EXTENDS NodeLifecycle, TLAPS

-----------------------------------------------------------------------------
(* Type correctness *)

\* Moving a node manager to another step keeps its state well typed.
LEMMA GotoType ==
    ASSUME TypeOK, NEW n \in Node, NEW pc,
           pc \in {"down", "idle", "fetch", "fetchApi", "services", "waitPMA",
                   "report", "reportApi"} \cup Registering \cup Applying,
           Goto(n, pc)
    PROVE  nm' \in [Node -> ManagerState]
BY DEF TypeOK, Goto, ManagerState

\* An exit keeps the process state and the host well typed.
LEMMA LeaveType ==
    ASSUME TypeOK, NEW n \in Node, Leave(n)
    PROVE  /\ nm' \in [Node -> ManagerState]
           /\ up' \in [Node -> BOOLEAN]
           /\ pma' \in [Node -> {"absent", "stopped", "starting", "healthy"}]
<1>1. DownState \in ManagerState
  BY DEF DownState, ManagerState, NoConfig, Config
<1>2. PICK p \in Removed(pma[n]) : pma' = [pma EXCEPT ![n] = p]
  BY DEF Leave
<1>3. p \in {"absent", "stopped", "starting", "healthy"}
  BY <1>2 DEF TypeOK, Removed
<1>4. nm' \in [Node -> ManagerState] /\ up' \in [Node -> BOOLEAN]
  BY <1>1 DEF TypeOK, Leave
<1>5. QED
  BY <1>2, <1>3, <1>4 DEF TypeOK

\* Both ends of a start-up call keep the process state and host well typed.
LEMMA GotoOrLeaveType ==
    ASSUME TypeOK, NEW n \in Node, NEW o, NEW pc,
           pc \in {"down", "idle", "fetch", "fetchApi", "services", "waitPMA",
                   "report", "reportApi"} \cup Registering \cup Applying,
           GotoOrLeave(n, o, pc)
    PROVE  /\ nm' \in [Node -> ManagerState]
           /\ up' \in [Node -> BOOLEAN]
           /\ pma' \in [Node -> {"absent", "stopped", "starting", "healthy"}]
<1>1. CASE Goto(n, pc) /\ UNCHANGED <<up, pma>>
  BY <1>1, GotoType DEF TypeOK
<1>2. CASE Leave(n)
  BY <1>2, LeaveType
<1>3. QED
  BY <1>1, <1>2 DEF GotoOrLeave

\* The step after a capability report keeps the process state well typed.
LEMMA AfterReportType ==
    ASSUME TypeOK, NEW n \in Node, AfterReport(n)
    PROVE  nm' \in [Node -> ManagerState]
<1>1. nm[n] \in ManagerState
  BY DEF TypeOK
<1>2. PICK pc \in {"fetch", "idle"} :
        nm' = [nm EXCEPT ![n].pc = pc, ![n].loop = TRUE]
  BY DEF AfterReport
<1>3. QED
  BY <1>1, <1>2 DEF TypeOK, ManagerState

\* A stored report keeps both parts of the snapshot well typed.
LEMMA SaveSnapshotType ==
    ASSUME TypeOK, NEW n \in Node, NEW o, NEW status \in {"plain", "ready"},
           SaveSnapshot(n, o, status)
    PROVE  /\ snap' \in [Node -> {"none", "plain", "ready"}]
           /\ existing' \in [Node -> BOOLEAN]
           /\ misled' \subseteq Node
<1>1. CASE Commits(o)
  <2>1. snap' = [snap EXCEPT ![n] = status]
    BY <1>1 DEF SaveSnapshot
  <2>2. PICK found \in Detected(n) : existing' = [existing EXCEPT ![n] = found]
    BY <1>1 DEF SaveSnapshot
  <2>3. found \in BOOLEAN
    BY DEF Detected
  <2>4. misled' \subseteq Node
    BY <1>1 DEF SaveSnapshot, TypeOK
  <2>5. QED
    BY <2>1, <2>2, <2>3, <2>4 DEF TypeOK
<1>2. CASE ~Commits(o)
  BY <1>2 DEF SaveSnapshot, TypeOK
<1>3. QED
  BY <1>1, <1>2

\* The empty tables and stopped node managers are well typed.
LEMMA InitType == Init => TypeOK
<1> SUFFICES ASSUME Init PROVE TypeOK
  OBVIOUS
<1>1. DownState \in ManagerState
  BY DEF DownState, ManagerState, NoConfig, Config
<1>2. /\ existing \in [Node -> BOOLEAN]
      /\ up \in [Node -> BOOLEAN]
      /\ ollama \in [Node -> {"absent", "stopped", "running"}]
  BY DEF Init
<1>3. QED
  <2>1. [status |-> "none", ack |-> "none", api |-> FALSE] \in NodeRow
    BY DEF NodeRow
  <2>2. row \in [Node -> NodeRow]
    BY <2>1 DEF Init
  <2>3. /\ nm \in [Node -> ManagerState]
        /\ snap \in [Node -> {"none", "plain", "ready"}]
        /\ pma \in [Node -> {"absent", "stopped", "starting", "healthy"}]
    BY <1>1 DEF Init
  <2>4. /\ token \in [Node -> BOOLEAN]
        /\ served \in [Node -> BOOLEAN]
        /\ misled \subseteq Node
    BY DEF Init
  <2>5. stops \in 0 .. MaxStops
    BY SettingsAssumption DEF Init
  <2>6. QED
    BY <1>2, <2>2, <2>3, <2>4, <2>5 DEF TypeOK

\* No step of a node manager breaks a type.
LEMMA ManagerType ==
    ASSUME TypeOK, NEW n \in Node, Manager(n) PROVE TypeOK'
<1> USE SettingsAssumption
<1>1. nm[n] \in ManagerState /\ row[n] \in NodeRow
  BY DEF TypeOK
<1>2. CASE RegisterFind(n)
  <2>1. CASE Leave(n)
    BY <1>2, <2>1, LeaveType DEF RegisterFind, TypeOK
  <2>2. CASE ~Leave(n)
    BY <1>2, <2>2 DEF RegisterFind, TypeOK, ManagerState, Registering
  <2>3. QED
    BY <2>1, <2>2
<1>3. CASE CreateNode(n)
  <2>1. row' \in [Node -> NodeRow]
    BY <1>3, SMTT(30) DEF CreateNode, TypeOK, NodeRow
  <2>2. QED
    BY <1>3, <2>1, GotoOrLeaveType DEF CreateNode, TypeOK, Registering
<1>4. CASE ActivateNode(n)
  <2>1. row' \in [Node -> NodeRow]
    BY <1>4, SMTT(30) DEF ActivateNode, TypeOK, NodeRow
  <2>2. QED
    BY <1>4, <2>1, GotoOrLeaveType DEF ActivateNode, TypeOK, Registering
<1>5. CASE RegisterSnapshot(n)
  BY <1>5, GotoType, SaveSnapshotType DEF RegisterSnapshot, TypeOK, host, Registering
<1>6. CASE RegisterApi(n)
  <2>1. PICK o \in Outcome : row' = [row EXCEPT ![n].api = @ \/ Commits(o)]
    BY <1>6 DEF RegisterApi
  <2>2. row' \in [Node -> NodeRow]
    BY <1>1, <2>1 DEF TypeOK, NodeRow, Commits
  <2>3. CASE Leave(n)
    BY <1>6, <2>2, <2>3, LeaveType DEF RegisterApi, TypeOK
  <2>4. CASE ~Leave(n)
    <3>1. nm' = [nm EXCEPT ![n].pc = "fetch", ![n].isNew = FALSE]
      BY <1>6, <2>4 DEF RegisterApi
    <3>2. nm' \in [Node -> ManagerState]
      BY <1>1, <3>1 DEF TypeOK, ManagerState
    <3>3. QED
      BY <1>6, <2>2, <2>4, <3>2 DEF RegisterApi, TypeOK
  <2>5. QED
    BY <2>3, <2>4
<1>7. CASE GetConfig(n)
  <2> misled' \subseteq Node
    BY <1>7 DEF GetConfig, TypeOK
  <2>1. CASE Leave(n)
    BY <1>7, <2>1, LeaveType DEF GetConfig, TypeOK
  <2>2. CASE Goto(n, "services") /\ UNCHANGED <<up, pma>>
    BY <1>7, <2>2, GotoType DEF GetConfig, TypeOK
  <2>3. CASE \E list, cap \in Outcome :
               /\ nm' = [nm EXCEPT ![n].pc = "fetchApi",
                     ![n].offer = [pma |-> DesiredPMA(n, list),
                                   backend |-> BackendEnabled(n, cap)]]
               /\ misled' = IF Misleads(n, list) THEN misled \cup {n} ELSE misled
               /\ UNCHANGED <<up, pma>>
    <3>1. PICK list, cap \in Outcome :
               /\ nm' = [nm EXCEPT ![n].pc = "fetchApi",
                     ![n].offer = [pma |-> DesiredPMA(n, list),
                                   backend |-> BackendEnabled(n, cap)]]
               /\ misled' = IF Misleads(n, list) THEN misled \cup {n} ELSE misled
               /\ UNCHANGED <<up, pma>>
      BY <2>3
    <3>2. [pma |-> DesiredPMA(n, list),
           backend |-> BackendEnabled(n, cap)] \in Config
      BY DEF Config, DesiredPMA, BackendEnabled, IsPMAHost
    <3>3. nm' \in [Node -> ManagerState]
      <4> DEFINE built == [pma |-> DesiredPMA(n, list),
                           backend |-> BackendEnabled(n, cap)]
      <4>1. nm' = [nm EXCEPT ![n].pc = "fetchApi", ![n].offer = built]
        BY <3>1
      <4>2. built \in Config
        BY <3>2
      <4> HIDE DEF built
      <4>3. QED
        BY <1>1, <4>1, <4>2 DEF TypeOK, ManagerState
    <3>4. QED
      BY <1>7, <3>1, <3>3 DEF GetConfig, TypeOK
  <2>4. QED
    BY <1>7, <2>1, <2>2, <2>3 DEF GetConfig
<1>8. CASE ConfigAnswered(n)
  <2>1. row' \in [Node -> NodeRow]
    BY <1>8, <1>1 DEF ConfigAnswered, TypeOK, NodeRow
  <2>2. NoConfig \in Config /\ nm[n].offer \in Config
    BY <1>1 DEF NoConfig, Config, ManagerState
  <2>3. nm' \in [Node -> ManagerState]
    BY <1>1, <1>8, <2>2, ZenonT(60) DEF ConfigAnswered, RefreshedConfig, TypeOK, ManagerState, Applying
  <2>4. QED
    BY <1>8, <2>1, <2>3 DEF ConfigAnswered, TypeOK, host
<1>9. CASE SyncAgentTokens(n)
  <2>1. token' \in [Node -> BOOLEAN]
    BY <1>9 DEF SyncAgentTokens, TypeOK
  <2>2. QED
    BY <1>9, <2>1, GotoOrLeaveType DEF SyncAgentTokens, TypeOK, Applying
<1>10. CASE StartWorkerAPI(n)
  <2>1. CASE Leave(n) /\ UNCHANGED served
    BY <1>10, <2>1, LeaveType DEF StartWorkerAPI, TypeOK
  <2>2. CASE ~(Leave(n) /\ UNCHANGED served)
    <3>1. nm' \in [Node -> ManagerState]
      BY <1>10, <2>2, GotoType DEF StartWorkerAPI, Applying
    <3>2. UNCHANGED <<row, snap, existing, ollama, pma, token, misled, stops>>
      BY <1>10, <2>2 DEF StartWorkerAPI
    <3>3. /\ up' \in [Node -> BOOLEAN]
          /\ served' \in [Node -> BOOLEAN]
      <4>1. /\ up' = [up EXCEPT ![n] = TRUE]
            /\ served' = [served EXCEPT ![n] = TRUE]
        BY <1>10, <2>2 DEF StartWorkerAPI
      <4>2. QED
        BY <4>1 DEF TypeOK
    <3>4. QED
      BY <3>1, <3>2, <3>3 DEF TypeOK
  <2>3. QED
    BY <2>1, <2>2
<1>11. CASE StartOllama(n)
  <2>1. CASE Leave(n)
    BY <1>11, <2>1, LeaveType DEF StartOllama, TypeOK
  <2>2. CASE ~Leave(n)
    <3>1. nm' \in [Node -> ManagerState]
      BY <1>11, <2>2, GotoType DEF StartOllama, Applying
    <3>2. QED
      BY <1>11, <2>2, <3>1 DEF StartOllama, TypeOK
  <2>3. QED
    BY <2>1, <2>2
<1>12. CASE ConfigAck(n)
  <2>1. row' \in [Node -> NodeRow]
    BY <1>12 DEF ConfigAck, TypeOK, NodeRow
  <2>2. QED
    BY <1>12, <2>1, GotoOrLeaveType DEF ConfigAck, TypeOK
<1>13. CASE StartManagedServices(n)
  <2>1. CASE Leave(n)
    BY <1>13, <2>1, LeaveType DEF StartManagedServices, TypeOK
  <2>2. CASE ~Leave(n)
    <3>1. nm' \in [Node -> ManagerState]
      <4>1. AfterServices(n) \in {"idle", "report"}
        BY DEF AfterServices
      <4>2. PICK pc \in {"idle", "report", "waitPMA"} : Goto(n, pc)
        BY <1>13, <2>2, <4>1 DEF StartManagedServices
      <4>3. QED
        BY <4>2, GotoType
    <3>2. QED
      BY <1>13, <2>2, <3>1 DEF StartManagedServices, Started, TypeOK
  <2>3. QED
    BY <2>1, <2>2
<1>14. CASE WaitForPMAReady(n)
  BY <1>14, GotoType DEF WaitForPMAReady, AfterServices, TypeOK, host
<1>15. CASE ReportCapability(n)
  <2>1. nm' \in [Node -> ManagerState]
    <3>1. CASE Goto(n, "reportApi")
      BY <3>1, GotoType
    <3>2. CASE AfterReport(n)
      BY <3>2, AfterReportType
    <3>3. QED
      BY <1>15, <3>1, <3>2 DEF ReportCapability
  <2>2. ManagedServicesStatus(n) \in {"plain", "ready"}
    BY DEF ManagedServicesStatus
  <2>3. QED
    BY <1>15, <2>1, <2>2, SaveSnapshotType DEF ReportCapability, TypeOK, host
<1>16. CASE ReportApi(n)
  <2>1. nm' \in [Node -> ManagerState]
    BY <1>16, AfterReportType DEF ReportApi
  <2>2. PICK o \in Outcome : row' = [row EXCEPT ![n].api = @ \/ Commits(o)]
    BY <1>16 DEF ReportApi
  <2>3. row' \in [Node -> NodeRow]
    BY <1>1, <2>2 DEF TypeOK, NodeRow, Commits
  <2>4. QED
    BY <1>16, <2>1, <2>3 DEF ReportApi, TypeOK, host
<1>17. CASE Tick(n)
  BY <1>17, GotoType DEF Tick, TypeOK, host
<1>18. QED
  BY <1>2, <1>3, <1>4, <1>5, <1>6, <1>7, <1>8, <1>9, <1>10, <1>11, <1>12,
     <1>13, <1>14, <1>15, <1>16, <1>17 DEF Manager

\* No step breaks a type.
LEMMA NextType == TypeOK /\ [Next]_vars => TypeOK'
<1> SUFFICES ASSUME TypeOK, [Next]_vars PROVE TypeOK'
  OBVIOUS
<1> USE SettingsAssumption
<1>1. DownState \in ManagerState
  BY DEF DownState, ManagerState, NoConfig, Config
<1>2. ASSUME NEW n \in Node, Boot(n) PROVE TypeOK'
  BY <1>2, GotoType DEF Boot, TypeOK, host, Registering
<1>3. ASSUME NEW n \in Node, PMAHealthy(n) PROVE TypeOK'
  BY <1>3 DEF PMAHealthy, TypeOK
<1>4. ASSUME NEW n \in Node, PMADies(n) PROVE TypeOK'
  BY <1>4 DEF PMADies, MayStop, TypeOK
<1>5. ASSUME NEW n \in Node, Exit(n) PROVE TypeOK'
  BY <1>5, LeaveType DEF Exit, MayStop, TypeOK
<1>6. ASSUME NEW n \in Node, Crash(n) PROVE TypeOK'
  BY <1>1, <1>6 DEF Crash, MayStop, TypeOK, host
<1>7. ASSUME NEW n \in Node, Reboot(n) PROVE TypeOK'
  BY <1>1, <1>7 DEF Reboot, MayStop, TypeOK
<1>8. CASE UNCHANGED vars
  BY <1>8 DEF vars, TypeOK
<1>9. QED
  BY <1>2, <1>3, <1>4, <1>5, <1>6, <1>7, <1>8, ManagerType DEF Next

(***************************************************************************)
(* Rows, snapshots, process states and hosts keep their types, whatever    *)
(* fails and stops.                                                        *)
(***************************************************************************)
THEOREM TypeCorrect == Spec => []TypeOK
BY InitType, NextType, PTL DEF Spec

-----------------------------------------------------------------------------
(* Dispatchable nodes have served *)

(***************************************************************************)
(* The acknowledgement stored in the table and the two steps before it is  *)
(* sent come after the start of the worker API.                            *)
(***************************************************************************)
AckAfterStart ==
    \A n \in Node :
        /\ row[n].ack = "applied" => served[n]
        /\ nm[n].pc \in {"infer", "ack"} => served[n]

\* A step that leaves acknowledgements and served alone, and puts no node
\* manager just before the acknowledgement, keeps AckAfterStart.
LEMMA AckAfterStartFrame ==
    ASSUME TypeOK, AckAfterStart, UNCHANGED served,
           \A m \in Node : row'[m].ack = row[m].ack,
           \A m \in Node : \/ nm'[m].pc = nm[m].pc
                          \/ nm'[m].pc \notin {"infer", "ack"}
    PROVE  AckAfterStart'
BY DEF AckAfterStart

\* An exit leaves no node manager just before the acknowledgement.
LEMMA LeavePC ==
    ASSUME TypeOK, NEW n \in Node, Leave(n)
    PROVE  \A m \in Node : \/ nm'[m].pc = nm[m].pc
                          \/ nm'[m].pc \notin {"infer", "ack"}
BY DEF TypeOK, Leave, DownState

\* A start-up call that ends elsewhere does not either.
LEMMA GotoOrLeavePC ==
    ASSUME TypeOK, NEW n \in Node, NEW o, NEW pc, pc \notin {"infer", "ack"},
           GotoOrLeave(n, o, pc)
    PROVE  \A m \in Node : \/ nm'[m].pc = nm[m].pc
                          \/ nm'[m].pc \notin {"infer", "ack"}
<1>1. CASE Goto(n, pc)
  BY <1>1 DEF Goto, TypeOK
<1>2. CASE Leave(n)
  BY <1>2, LeavePC
<1>3. QED
  BY <1>1, <1>2 DEF GotoOrLeave

\* No step of a node manager breaks AckAfterStart.
LEMMA ManagerAck ==
    ASSUME TypeOK, AckAfterStart, NEW n \in Node, Manager(n)
    PROVE  AckAfterStart'
<1>1. nm[n] \in ManagerState /\ row[n] \in NodeRow
  BY DEF TypeOK
<1>2. CASE RegisterFind(n)
  <2>1. CASE Leave(n)
    BY <1>2, <2>1, LeavePC, AckAfterStartFrame DEF RegisterFind
  <2>2. CASE ~Leave(n)
    <3>1. PICK pc \in {"regCreate", "regActivate"}, new \in BOOLEAN :
            nm' = [nm EXCEPT ![n].isNew = new, ![n].pc = pc]
      BY <1>2, <2>2 DEF RegisterFind
    <3>2. nm'[n].pc \in {"regCreate", "regActivate"}
          /\ \A m \in Node \ {n} : nm'[m] = nm[m]
      BY <1>1, <3>1 DEF TypeOK, ManagerState
    <3>3. QED
      BY <1>2, <3>2, AckAfterStartFrame DEF RegisterFind
  <2>3. QED
    BY <2>1, <2>2
<1>3. CASE CreateNode(n)
  <2>1. \A m \in Node : row'[m].ack = row[m].ack
    BY <1>3 DEF CreateNode, TypeOK, NodeRow
  <2>2. QED
    BY <1>3, <2>1, GotoOrLeavePC, AckAfterStartFrame DEF CreateNode
<1>4. CASE ActivateNode(n)
  <2>1. \A m \in Node : row'[m].ack = row[m].ack
    BY <1>4 DEF ActivateNode, TypeOK, NodeRow
  <2>2. QED
    BY <1>4, <2>1, GotoOrLeavePC, AckAfterStartFrame DEF ActivateNode
<1>5. CASE RegisterSnapshot(n)
  BY <1>5, AckAfterStartFrame DEF RegisterSnapshot, Goto, host, TypeOK
<1>6. CASE RegisterApi(n)
  <2>1. \A m \in Node : row'[m].ack = row[m].ack
    BY <1>6 DEF RegisterApi, TypeOK, NodeRow
  <2>2. CASE Leave(n)
    BY <1>6, <2>1, <2>2, LeavePC, AckAfterStartFrame DEF RegisterApi
  <2>3. CASE ~Leave(n)
    <3>1. nm' = [nm EXCEPT ![n].pc = "fetch", ![n].isNew = FALSE]
      BY <1>6, <2>3 DEF RegisterApi
    <3>2. nm'[n].pc = "fetch" /\ \A m \in Node \ {n} : nm'[m] = nm[m]
      BY <1>1, <3>1 DEF TypeOK, ManagerState
    <3>3. QED
      BY <1>6, <2>1, <3>2, AckAfterStartFrame DEF RegisterApi
  <2>4. QED
    BY <2>2, <2>3
<1>7. CASE GetConfig(n)
  <2>1. CASE Leave(n)
    BY <1>7, <2>1, LeavePC, AckAfterStartFrame DEF GetConfig
  <2>2. CASE ~Leave(n)
    <3>1. nm'[n].pc \in {"services", "fetchApi"}
          /\ \A m \in Node \ {n} : nm'[m] = nm[m]
      <4>1. CASE Goto(n, "services")
        BY <4>1 DEF Goto, TypeOK
      <4>2. CASE \E offer : nm' = [nm EXCEPT ![n].pc = "fetchApi", ![n].offer = offer]
        BY <1>1, <4>2 DEF TypeOK, ManagerState
      <4>3. QED
        BY <1>7, <2>2, <4>1, <4>2 DEF GetConfig
    <3>2. QED
      BY <1>7, <3>1, AckAfterStartFrame DEF GetConfig
  <2>3. QED
    BY <2>1, <2>2
<1>8. CASE ConfigAnswered(n)
  <2>1. \A m \in Node : row'[m].ack = row[m].ack
    BY <1>8 DEF ConfigAnswered, TypeOK, NodeRow
  <2>2. nm'[n].pc \in {"services", "sync"}
        /\ \A m \in Node \ {n} : nm'[m] = nm[m]
    BY <1>8, <1>1 DEF ConfigAnswered, TypeOK, ManagerState
  <2>3. QED
    BY <1>8, <2>1, <2>2, AckAfterStartFrame DEF ConfigAnswered, host
<1>9. CASE SyncAgentTokens(n)
  BY <1>9, GotoOrLeavePC, AckAfterStartFrame DEF SyncAgentTokens
<1>10. CASE StartWorkerAPI(n)
  <2>1. CASE Leave(n) /\ UNCHANGED served
    BY <1>10, <2>1, LeavePC, AckAfterStartFrame DEF StartWorkerAPI
  <2>2. CASE served' = [served EXCEPT ![n] = TRUE] /\ Goto(n, "infer")
    BY <1>10, <2>2 DEF StartWorkerAPI, Goto, TypeOK, AckAfterStart
  <2>3. QED
    BY <1>10, <2>1, <2>2 DEF StartWorkerAPI
<1>11. CASE StartOllama(n)
  <2>1. CASE Leave(n)
    BY <1>11, <2>1, LeavePC, AckAfterStartFrame DEF StartOllama
  <2>2. CASE Goto(n, "ack")
    BY <1>11, <2>2 DEF StartOllama, Goto, TypeOK, AckAfterStart
  <2>3. QED
    BY <1>11, <2>1, <2>2 DEF StartOllama
<1>12. CASE ConfigAck(n)
  <2>1. served[n] /\ UNCHANGED served
    BY <1>12 DEF ConfigAck, AckAfterStart
  <2>2. \A m \in Node \ {n} : row'[m].ack = row[m].ack
    BY <1>12 DEF ConfigAck, TypeOK
  <2>3. \A m \in Node : \/ nm'[m].pc = nm[m].pc
                       \/ nm'[m].pc \notin {"infer", "ack"}
    BY <1>12, GotoOrLeavePC DEF ConfigAck
  <2>4. QED
    BY <2>1, <2>2, <2>3 DEF AckAfterStart
<1>13. CASE StartManagedServices(n)
  <2>1. CASE Leave(n)
    BY <1>13, <2>1, LeavePC, AckAfterStartFrame DEF StartManagedServices
  <2>2. CASE ~Leave(n)
    <3>1. AfterServices(n) \in {"idle", "report"}
      BY DEF AfterServices
    <3>2. PICK pc \in {"idle", "report", "waitPMA"} : Goto(n, pc)
      BY <1>13, <2>2, <3>1 DEF StartManagedServices
    <3>3. QED
      BY <1>13, <3>2, AckAfterStartFrame DEF StartManagedServices, Goto, TypeOK
  <2>3. QED
    BY <2>1, <2>2
<1>14. CASE WaitForPMAReady(n)
  <2>1. AfterServices(n) \in {"idle", "report"}
    BY DEF AfterServices
  <2>2. QED
    BY <1>14, <2>1, AckAfterStartFrame DEF WaitForPMAReady, Goto, host, TypeOK
<1>15. CASE ReportCapability(n)
  <2>1. nm'[n].pc \in {"reportApi", "fetch", "idle"}
        /\ \A m \in Node \ {n} : nm'[m] = nm[m]
    BY <1>15 DEF ReportCapability, Goto, AfterReport, TypeOK, ManagerState
  <2>2. QED
    BY <1>15, <2>1, AckAfterStartFrame DEF ReportCapability, host
<1>16. CASE ReportApi(n)
  <2>1. \A m \in Node : row'[m].ack = row[m].ack
    BY <1>16 DEF ReportApi, TypeOK, NodeRow
  <2>2. nm'[n].pc \in {"fetch", "idle"}
        /\ \A m \in Node \ {n} : nm'[m] = nm[m]
    BY <1>16 DEF ReportApi, AfterReport, TypeOK, ManagerState
  <2>3. QED
    BY <1>16, <2>1, <2>2, AckAfterStartFrame DEF ReportApi, host
<1>17. CASE Tick(n)
  BY <1>17, AckAfterStartFrame DEF Tick, Goto, host, TypeOK
<1>18. QED
  BY <1>2, <1>3, <1>4, <1>5, <1>6, <1>7, <1>8, <1>9, <1>10, <1>11, <1>12,
     <1>13, <1>14, <1>15, <1>16, <1>17 DEF Manager

\* No step breaks AckAfterStart.
LEMMA NextAck == TypeOK /\ AckAfterStart /\ [Next]_vars => AckAfterStart'
<1> SUFFICES ASSUME TypeOK, AckAfterStart, [Next]_vars PROVE AckAfterStart'
  OBVIOUS
<1>1. ASSUME NEW n \in Node, Boot(n) PROVE AckAfterStart'
  BY <1>1, AckAfterStartFrame DEF Boot, Goto, host, TypeOK
<1>2. ASSUME NEW n \in Node, PMAHealthy(n) \/ PMADies(n) PROVE AckAfterStart'
  BY <1>2, AckAfterStartFrame DEF PMAHealthy, PMADies
<1>3. ASSUME NEW n \in Node, Exit(n) PROVE AckAfterStart'
  BY <1>3, LeavePC, AckAfterStartFrame DEF Exit
<1>4. ASSUME NEW n \in Node, Crash(n) \/ Reboot(n) PROVE AckAfterStart'
  BY <1>4, AckAfterStartFrame DEF Crash, Reboot, host, DownState, TypeOK
<1>5. CASE UNCHANGED vars
  BY <1>5, AckAfterStartFrame DEF vars
<1>6. QED
  BY <1>1, <1>2, <1>3, <1>4, <1>5, ManagerAck DEF Next

(***************************************************************************)
(* The dispatcher is only offered nodes whose worker API has been started, *)
(* for any number of nodes, faults, exits, crashes and reboots.            *)
(***************************************************************************)
THEOREM DispatchableServes == Spec => []DispatchableWasServing
<1>1. Init => AckAfterStart
  <2> SUFFICES ASSUME Init PROVE AckAfterStart
    OBVIOUS
  <2>1. /\ nm = [n \in Node |-> DownState]
        /\ row = [n \in Node |-> [status |-> "none", ack |-> "none", api |-> FALSE]]
    BY DEF Init
  <2>2. \A n \in Node : nm[n].pc = "down" /\ row[n].ack = "none"
    BY <2>1 DEF DownState
  <2>3. QED
    BY <2>2 DEF AckAfterStart
<1>2. AckAfterStart => DispatchableWasServing
  BY DEF AckAfterStart, DispatchableWasServing, Dispatchable
<1>3. QED
  BY <1>1, <1>2, TypeCorrect, NextAck, PTL DEF Spec

-----------------------------------------------------------------------------
(* A PMA taken for ready has its token *)

\* Node managers that hold a configuration.
Configured(n) ==
    nm[n].loop \/ nm[n].pc \notin {"down", "fetch", "fetchApi"} \cup Registering

(***************************************************************************)
(* The inductive invariant, for one node.  A node manager that was told to *)
(* run the PMA has stored the token or was misled; one that was told not   *)
(* to is not the host and stays so, because active nodes stay active and   *)
(* its own row becomes active before it asks, or not in this life, so that *)
(* a refresh whose query succeeds cannot tell it otherwise.                *)
(***************************************************************************)
TokenPart(n) ==
    /\ nm[n].loop => nm[n].pc \notin {"down"} \cup Registering \cup Applying
    /\ nm[n].pc = "regCreate" => row[n].status # "active"
    /\ Configured(n) /\ nm[n].cfg.pma
          => nm[n].pc = "sync" \/ token[n] \/ n \in misled
    /\ Configured(n) /\ ~nm[n].cfg.pma => ~IsPMAHost(n)
    /\ nm[n].pc = "fetchApi" /\ nm[n].loop /\ nm[n].offer.pma
          => token[n] \/ n \in misled
    /\ nm[n].pc = "fetchApi" /\ ~nm[n].offer.pma => ~IsPMAHost(n)
    /\ snap[n] = "ready" => token[n] \/ n \in misled

TokenInv == \A n \in Node : TokenPart(n)

\* No step takes a node out of the active ones.
ActiveStays == \A m \in Node : row[m].status = "active" => row'[m].status = "active"

\* A node that is not the host does not become it by what happens to others.
LEMMA HostStable ==
    ASSUME NEW n \in Node, ActiveStays, row'[n].status = row[n].status, ~IsPMAHost(n)
    PROVE  ~IsPMAHost(n)'
<1>1. CASE row[n].status = "active"
  <2>1. PICK m \in Active : ~(n <= m)
    BY <1>1 DEF IsPMAHost, Active
  <2>2. n \in Active' /\ m \in Active'
    BY <1>1 DEF Active, ActiveStays
  <2>3. QED
    BY <2>1, <2>2 DEF IsPMAHost
<1>2. CASE row[n].status # "active"
  <2>1. n \notin Active' /\ Active' # {}
    BY <1>2 DEF IsPMAHost, Active, ActiveStays
  <2>2. QED
    BY <2>1 DEF IsPMAHost
<1>3. QED
  BY <1>1, <1>2

\* What a step keeps for a node: its row's status, its snapshot and what lets
\* it serve a PMA.
KeepsToken(m) ==
    /\ row'[m].status = row[m].status
    /\ snap'[m] = snap[m]
    /\ token[m] \/ m \in misled => token'[m] \/ m \in misled'

\* A node manager that does not move keeps its part.
LEMMA TokenStay ==
    ASSUME NEW m \in Node, TokenPart(m), ActiveStays, nm'[m] = nm[m], KeepsToken(m)
    PROVE  TokenPart(m)'
<1>1. Configured(m)' <=> Configured(m)
  BY DEF Configured
<1>2. ~IsPMAHost(m) => ~IsPMAHost(m)'
  BY HostStable DEF KeepsToken
<1>3. QED
  BY <1>1, <1>2 DEF TokenPart, KeepsToken

\* A step of one node manager concerns its own part only.
LEMMA TokenFrame ==
    ASSUME TokenInv, NEW n \in Node, ActiveStays, TokenPart(n)',
           \A m \in Node \ {n} : nm'[m] = nm[m] /\ KeepsToken(m)
    PROVE  TokenInv'
<1>1. ASSUME NEW m \in Node PROVE TokenPart(m)'
  <2>1. CASE m = n
    BY <2>1 DEF TokenPart, Configured, IsPMAHost, Active
  <2>2. CASE m # n
    BY <2>2, TokenStay DEF TokenInv
  <2>3. QED
    BY <2>1, <2>2
<1>2. QED
  BY <1>1 DEF TokenInv

\* A node manager that stops keeps its part.
LEMMA TokenDown ==
    ASSUME NEW n \in Node, TokenPart(n), nm'[n] = DownState,
           snap'[n] = snap[n],
           token[n] \/ n \in misled => token'[n] \/ n \in misled'
    PROVE  TokenPart(n)'
<1>1. nm'[n].pc = "down" /\ nm'[n].loop = FALSE
  BY DEF DownState
<1>2. ~Configured(n)'
  BY <1>1 DEF Configured
<1>3. QED
  BY <1>1, <1>2 DEF TokenPart

\* So does everyone else when it exits.
LEMMA TokenLeave ==
    ASSUME TypeOK, TokenInv, NEW n \in Node, Leave(n), ActiveStays,
           snap' = snap, misled' = misled,
           \A m \in Node : token[m] => token'[m],
           \A m \in Node \ {n} : row'[m].status = row[m].status
    PROVE  TokenInv'
<1>1. nm'[n] = DownState /\ \A m \in Node \ {n} : nm'[m] = nm[m]
  BY DEF Leave, TypeOK
<1>2. TokenPart(n)'
  BY <1>1, TokenDown DEF TokenInv
<1>3. QED
  BY <1>1, <1>2, TokenFrame DEF KeepsToken

\* A node manager that moves on inside a configured stretch keeps its part.
LEMMA TokenMove ==
    ASSUME NEW n \in Node, TokenPart(n), nm[n] \in ManagerState, ActiveStays,
           Configured(n), nm[n].pc # "sync" \/ token'[n] \/ ~nm[n].cfg.pma,
           NEW pc, nm'[n] = [nm[n] EXCEPT !.pc = pc],
           pc \notin {"down", "sync", "fetchApi"} \cup Registering,
           nm[n].loop => pc \notin Applying,
           pc = "fetch" => nm[n].loop,
           KeepsToken(n)
    PROVE  TokenPart(n)'
<1>1. /\ nm'[n].pc = pc
      /\ nm'[n].loop = nm[n].loop
      /\ nm'[n].cfg = nm[n].cfg
  BY DEF ManagerState
<1>2. ~nm[n].cfg.pma => ~IsPMAHost(n)'
  BY HostStable DEF TokenPart, KeepsToken
<1>3. nm[n].cfg.pma => token'[n] \/ n \in misled'
  BY DEF TokenPart, KeepsToken
<1>4. QED
  BY <1>1, <1>2, <1>3 DEF TokenPart, Registering, KeepsToken

\* No step of a node manager breaks the invariant.
LEMMA ManagerToken ==
    ASSUME TypeOK, TokenInv, NEW n \in Node, Manager(n)
    PROVE  TokenInv'
<1>1. nm[n] \in ManagerState /\ row[n] \in NodeRow /\ TokenPart(n)
  BY DEF TypeOK, TokenInv
<1>2. CASE RegisterFind(n)
  <2>1. ActiveStays
    BY <1>2 DEF RegisterFind, ActiveStays
  <2>2. CASE Leave(n)
    BY <1>2, <2>1, <2>2, TokenLeave DEF RegisterFind
  <2>3. CASE ~Leave(n)
    <3>1. PICK pc \in {"regCreate", "regActivate"}, new \in BOOLEAN :
            nm' = [nm EXCEPT ![n].isNew = new, ![n].pc = pc]
      BY <1>2, <2>3 DEF RegisterFind
    <3>2. /\ nm'[n].pc = pc /\ nm'[n].loop = nm[n].loop
          /\ \A m \in Node \ {n} : nm'[m] = nm[m]
      BY <1>1, <3>1 DEF TypeOK, ManagerState
    <3>3. pc = "regCreate" => row[n].status = "none"
      BY <1>1, <1>2, <2>3, <3>2 DEF RegisterFind, TypeOK, ManagerState
    <3>4. TokenPart(n)'
      BY <1>1, <1>2, <3>1, <3>2, <3>3
         DEF RegisterFind, TokenPart, Configured, Registering
    <3>5. QED
      BY <1>2, <2>1, <3>2, <3>4, TokenFrame DEF RegisterFind, KeepsToken
  <2>4. QED
    BY <2>2, <2>3
<1>3. CASE CreateNode(n)
  <2>1. /\ nm[n].pc = "regCreate"
        /\ UNCHANGED <<snap, token, misled>>
        /\ \A m \in Node \ {n} : row'[m] = row[m]
    BY <1>3 DEF CreateNode, TypeOK
  <2>2. ActiveStays
    BY <1>1, <2>1 DEF ActiveStays, TokenPart
  <2>3. CASE Leave(n)
    BY <2>1, <2>2, <2>3, TokenLeave
  <2>4. CASE Goto(n, "regActivate")
    <3>1. /\ nm'[n].pc = "regActivate" /\ nm'[n].loop = nm[n].loop
          /\ \A m \in Node \ {n} : nm'[m] = nm[m]
      BY <1>1, <2>4 DEF Goto, TypeOK, ManagerState
    <3>2. TokenPart(n)'
      BY <1>1, <2>1, <3>1 DEF TokenPart, Configured, Registering
    <3>3. QED
      BY <2>1, <2>2, <3>1, <3>2, TokenFrame DEF KeepsToken
  <2>5. QED
    BY <1>3, <2>3, <2>4 DEF CreateNode, GotoOrLeave
<1>4. CASE ActivateNode(n)
  <2>1. /\ nm[n].pc = "regActivate"
        /\ UNCHANGED <<snap, token, misled>>
        /\ \A m \in Node \ {n} : row'[m] = row[m]
    BY <1>4 DEF ActivateNode, TypeOK
  <2>2. ActiveStays
    BY <1>4 DEF ActivateNode, ActiveStays, TypeOK, NodeRow
  <2>3. CASE Leave(n)
    BY <2>1, <2>2, <2>3, TokenLeave
  <2>4. CASE Goto(n, "regSnapshot")
    <3>1. /\ nm'[n].pc = "regSnapshot" /\ nm'[n].loop = nm[n].loop
          /\ \A m \in Node \ {n} : nm'[m] = nm[m]
      BY <1>1, <2>4 DEF Goto, TypeOK, ManagerState
    <3>2. TokenPart(n)'
      BY <1>1, <2>1, <3>1 DEF TokenPart, Configured, Registering
    <3>3. QED
      BY <2>1, <2>2, <3>1, <3>2, TokenFrame DEF KeepsToken
  <2>5. QED
    BY <1>4, <2>3, <2>4 DEF ActivateNode, GotoOrLeave
<1>5. CASE RegisterSnapshot(n)
  <2>1. /\ nm[n].pc = "regSnapshot"
        /\ Goto(n, "regApi")
        /\ UNCHANGED <<row, token>>
    BY <1>5 DEF RegisterSnapshot, host
  <2>2. \/ /\ snap' = [snap EXCEPT ![n] = "plain"]
           /\ misled' = misled \ {n}
        \/ UNCHANGED <<snap, misled>>
    BY <1>5 DEF RegisterSnapshot, SaveSnapshot
  <2>3. /\ \A m \in Node \ {n} : KeepsToken(m)
        /\ snap'[n] = "plain" \/ (snap'[n] = snap[n] /\ misled' = misled)
    BY <2>1, <2>2 DEF KeepsToken, TypeOK
  <2>4. ActiveStays
    BY <2>1 DEF ActiveStays
  <2>5. /\ nm'[n].pc = "regApi" /\ nm'[n].loop = nm[n].loop
        /\ \A m \in Node \ {n} : nm'[m] = nm[m]
    BY <1>1, <2>1 DEF Goto, TypeOK, ManagerState
  <2>6. TokenPart(n)'
    BY <1>1, <2>1, <2>3, <2>5 DEF TokenPart, Configured, Registering
  <2>7. QED
    BY <2>3, <2>4, <2>5, <2>6, TokenFrame
<1>6. CASE RegisterApi(n)
  <2>1. nm[n].pc = "regApi" /\ UNCHANGED <<snap, token, misled>>
    BY <1>6 DEF RegisterApi
  <2>2. \A m \in Node : row'[m].status = row[m].status
    BY <1>6 DEF RegisterApi, TypeOK, NodeRow
  <2>3. ActiveStays
    BY <2>2 DEF ActiveStays
  <2>4. CASE Leave(n)
    BY <2>1, <2>2, <2>3, <2>4, TokenLeave
  <2>5. CASE ~Leave(n)
    <3>1. nm' = [nm EXCEPT ![n].pc = "fetch", ![n].isNew = FALSE]
      BY <1>6, <2>5 DEF RegisterApi
    <3>2. /\ nm'[n].pc = "fetch" /\ nm'[n].loop = nm[n].loop
          /\ \A m \in Node \ {n} : nm'[m] = nm[m]
      BY <1>1, <3>1 DEF TypeOK, ManagerState
    <3>3. TokenPart(n)'
      BY <1>1, <2>1, <2>2, <3>2 DEF TokenPart, Configured, Registering
    <3>4. QED
      BY <2>1, <2>2, <2>3, <3>2, <3>3, TokenFrame DEF KeepsToken
  <2>6. QED
    BY <2>4, <2>5
<1>7. CASE GetConfig(n)
  <2>1. nm[n].pc = "fetch" /\ UNCHANGED <<row, snap, token>>
    BY <1>7 DEF GetConfig
  <2>2. ActiveStays
    BY <2>1 DEF ActiveStays
  <2>3. CASE Leave(n) /\ UNCHANGED misled
    BY <2>1, <2>2, <2>3, TokenLeave
  <2>4. CASE nm[n].loop /\ Goto(n, "services") /\ UNCHANGED misled
    <3>1. /\ nm'[n] = [nm[n] EXCEPT !.pc = "services"]
          /\ \A m \in Node \ {n} : nm'[m] = nm[m]
      BY <2>4 DEF Goto, TypeOK
    <3>2. \A m \in Node : KeepsToken(m)
      BY <2>1, <2>4 DEF KeepsToken
    <3>3. Configured(n)
      BY <2>4 DEF Configured
    <3>4. TokenPart(n)'
      BY <1>1, <2>1, <2>2, <3>1, <3>2, <3>3, TokenMove DEF Registering, Applying
    <3>5. QED
      BY <2>2, <3>1, <3>2, <3>4, TokenFrame
  <2>5. CASE \E list, cap \in Outcome :
               /\ nm' = [nm EXCEPT ![n].pc = "fetchApi",
                     ![n].offer = [pma |-> DesiredPMA(n, list),
                                   backend |-> BackendEnabled(n, cap)]]
               /\ misled' = IF Misleads(n, list) THEN misled \cup {n} ELSE misled
    <3>1. PICK list, cap \in Outcome :
               /\ nm' = [nm EXCEPT ![n].pc = "fetchApi",
                     ![n].offer = [pma |-> DesiredPMA(n, list),
                                   backend |-> BackendEnabled(n, cap)]]
               /\ misled' = IF Misleads(n, list) THEN misled \cup {n} ELSE misled
      BY <2>5
    <3>2. /\ nm'[n].pc = "fetchApi"
          /\ nm'[n].loop = nm[n].loop
          /\ nm'[n].cfg = nm[n].cfg
          /\ \A m \in Node \ {n} : nm'[m] = nm[m]
      BY <1>1, <3>1, ZenonT(60) DEF TypeOK, ManagerState
    <3>3. nm'[n].offer.pma <=> DesiredPMA(n, list)
      BY <1>1, <3>1, ZenonT(60) DEF TypeOK, ManagerState
    <3>4. misled \subseteq misled'
      BY <3>1
    <3>5. nm[n].loop /\ DesiredPMA(n, list) => IsPMAHost(n) \/ n \in misled'
      BY <3>1 DEF DesiredPMA, Misleads
    <3>6. ~DesiredPMA(n, list) => ~IsPMAHost(n)
      BY DEF DesiredPMA
    <3>7. ~IsPMAHost(n) => ~IsPMAHost(n)'
      BY <2>1, <2>2, HostStable
    <3>8. Configured(n)' <=> nm[n].loop
      BY <3>2 DEF Configured
    <3>9. Configured(n) <=> nm[n].loop
      BY <2>1 DEF Configured
    <3>10. TokenPart(n)'
      BY <1>1, <2>1, <3>2, <3>3, <3>4, <3>5, <3>6, <3>7, <3>8, <3>9
         DEF TokenPart, Registering, Applying
    <3>11. \A m \in Node : KeepsToken(m)
      BY <2>1, <3>4 DEF KeepsToken
    <3>12. QED
      BY <2>2, <3>2, <3>10, <3>11, TokenFrame
  <2>6. QED
    BY <1>7, <2>3, <2>4, <2>5 DEF GetConfig
<1>8. CASE ConfigAnswered(n)
  <2>1. /\ nm[n].pc = "fetchApi"
        /\ UNCHANGED <<snap, token, misled>>
    BY <1>8 DEF ConfigAnswered, host
  <2>2. \A m \in Node : row'[m].status = row[m].status
    BY <1>8 DEF ConfigAnswered, TypeOK, NodeRow
  <2>3. ActiveStays
    BY <2>2 DEF ActiveStays
  <2>4. /\ nm'[n].pc = IF nm[n].loop THEN "services" ELSE "sync"
        /\ nm'[n].loop = nm[n].loop
        /\ nm'[n].cfg.pma = nm[n].offer.pma
        /\ \A m \in Node \ {n} : nm'[m] = nm[m]
    BY <1>1, <1>8 DEF ConfigAnswered, RefreshedConfig, TypeOK, ManagerState, Config
  <2>5. ~nm[n].offer.pma => ~IsPMAHost(n)'
    BY <1>1, <2>1, <2>2, <2>3, HostStable DEF TokenPart
  <2>6. TokenPart(n)'
    BY <1>1, <2>1, <2>4, <2>5 DEF TokenPart, Configured, Registering, Applying
  <2>7. QED
    BY <2>1, <2>2, <2>3, <2>4, <2>6, TokenFrame DEF KeepsToken
<1>9. CASE SyncAgentTokens(n)
  <2>1. nm[n].pc = "sync" /\ UNCHANGED <<row, snap, misled>>
    BY <1>9 DEF SyncAgentTokens
  <2>2. \A m \in Node : token[m] => token'[m]
    BY <1>9 DEF SyncAgentTokens, TypeOK
  <2>3. ActiveStays
    BY <2>1 DEF ActiveStays
  <2>4. CASE Leave(n)
    BY <2>1, <2>2, <2>3, <2>4, TokenLeave
  <2>5. CASE ~Leave(n)
    <3>1. Goto(n, "worker")
      BY <1>9, <2>5 DEF SyncAgentTokens, GotoOrLeave
    <3>2. nm[n].cfg.pma => token'[n]
      BY <1>9, <2>5 DEF SyncAgentTokens, GotoOrLeave, Commits, TypeOK
    <3>3. /\ nm'[n] = [nm[n] EXCEPT !.pc = "worker"]
          /\ \A m \in Node \ {n} : nm'[m] = nm[m]
      BY <3>1 DEF Goto, TypeOK
    <3>4. Configured(n) /\ ~nm[n].loop
      BY <1>1, <2>1 DEF Configured, TokenPart, Registering, Applying
    <3>5. \A m \in Node : KeepsToken(m)
      BY <2>1, <2>2 DEF KeepsToken
    <3>6. TokenPart(n)'
      BY <1>1, <2>1, <2>3, <3>2, <3>3, <3>4, <3>5, TokenMove DEF Registering
    <3>7. QED
      BY <2>3, <3>3, <3>5, <3>6, TokenFrame
  <2>6. QED
    BY <2>4, <2>5
<1>10. ASSUME NEW pc, nm[n].pc \notin {"sync", "fetch", "fetchApi", "down"} \cup Registering,
              Goto(n, pc), pc \notin {"down", "sync", "fetch", "fetchApi"} \cup Registering,
              nm[n].loop => pc \notin Applying,
              UNCHANGED <<snap, token, misled>>,
              \A m \in Node : row'[m].status = row[m].status
       PROVE  TokenInv'
  <2>1. /\ nm'[n] = [nm[n] EXCEPT !.pc = pc]
        /\ \A m \in Node \ {n} : nm'[m] = nm[m]
    BY <1>10 DEF Goto, TypeOK
  <2>2. Configured(n)
    BY <1>10 DEF Configured
  <2>3. ActiveStays /\ \A m \in Node : KeepsToken(m)
    BY <1>10 DEF ActiveStays, KeepsToken
  <2>4. TokenPart(n)'
    BY <1>1, <1>10, <2>1, <2>2, <2>3, TokenMove
  <2>5. QED
    BY <2>1, <2>3, <2>4, TokenFrame
<1>11. ASSUME Leave(n), UNCHANGED <<row, snap, token, misled>> PROVE TokenInv'
  BY <1>11, TokenLeave DEF ActiveStays
<1>12. CASE StartWorkerAPI(n)
  <2>1. nm[n].pc = "worker" /\ UNCHANGED <<row, snap, token, misled>>
    BY <1>12 DEF StartWorkerAPI
  <2>2. Goto(n, "infer") \/ Leave(n)
    BY <1>12 DEF StartWorkerAPI
  <2>3. QED
    BY <1>1, <2>1, <2>2, <1>10, <1>11 DEF TokenPart, Registering, Applying
<1>13. CASE StartOllama(n)
  <2>1. nm[n].pc = "infer" /\ UNCHANGED <<row, snap, token, misled>>
    BY <1>13 DEF StartOllama
  <2>2. Goto(n, "ack") \/ Leave(n)
    BY <1>13 DEF StartOllama
  <2>3. QED
    BY <1>1, <2>1, <2>2, <1>10, <1>11 DEF TokenPart, Registering, Applying
<1>14. CASE ConfigAck(n)
  <2>1. nm[n].pc = "ack" /\ UNCHANGED <<snap, token, misled>>
    BY <1>14 DEF ConfigAck
  <2>2. \A m \in Node : row'[m].status = row[m].status
    BY <1>14 DEF ConfigAck, TypeOK, NodeRow
  <2>3. CASE Goto(n, "services")
    BY <1>1, <2>1, <2>2, <2>3, <1>10 DEF TokenPart, Registering, Applying
  <2>4. CASE Leave(n)
    BY <2>1, <2>2, <2>4, TokenLeave DEF ActiveStays
  <2>5. QED
    BY <1>14, <2>3, <2>4 DEF ConfigAck, GotoOrLeave
<1>15. CASE StartManagedServices(n) \/ WaitForPMAReady(n)
  <2>1. AfterServices(n) \in {"idle", "report"}
    BY DEF AfterServices
  <2>2. nm[n].pc \in {"services", "waitPMA"} /\ UNCHANGED <<row, snap, token, misled>>
    BY <1>15 DEF StartManagedServices, WaitForPMAReady, host
  <2>3. CASE Leave(n)
    BY <2>2, <2>3, <1>11
  <2>4. CASE ~Leave(n)
    <3>1. PICK pc \in {"idle", "report", "waitPMA"} : Goto(n, pc)
      BY <1>15, <2>1, <2>4 DEF StartManagedServices, WaitForPMAReady
    <3>2. QED
      BY <2>2, <3>1, <1>10 DEF Registering, Applying
  <2>5. QED
    BY <2>3, <2>4
<1>16. ASSUME nm[n].pc \in {"report", "reportApi"},
              NEW pc \in {"reportApi", "fetch", "idle"}, nm'[n].pc = pc,
              nm'[n].loop = nm[n].loop \/ nm'[n].loop = TRUE,
              pc = "fetch" => nm'[n].loop = TRUE,
              nm'[n].cfg = nm[n].cfg,
              \A m \in Node \ {n} : nm'[m] = nm[m] /\ KeepsToken(m),
              \A m \in Node : row'[m].status = row[m].status,
              token' = token, n \in misled /\ nm[n].cfg.pma => n \in misled',
              \/ snap'[n] = snap[n] /\ misled' = misled
              \/ snap'[n] = "ready" /\ nm[n].cfg.pma
              \/ snap'[n] = "plain"
       PROVE  TokenInv'
  <2>1. ActiveStays
    BY <1>16 DEF ActiveStays
  <2>2. Configured(n) /\ Configured(n)'
    BY <1>16 DEF Configured, Registering
  <2>3. ~nm[n].cfg.pma => ~IsPMAHost(n)'
    BY <1>1, <1>16, <2>1, <2>2, HostStable DEF TokenPart
  <2>4. nm[n].cfg.pma => token'[n] \/ n \in misled'
    BY <1>1, <1>16, <2>2 DEF TokenPart
  <2>5. snap'[n] = "ready" => token'[n] \/ n \in misled'
    BY <1>1, <1>16, <2>4 DEF TokenPart
  <2>6. TokenPart(n)'
    BY <1>16, <2>2, <2>3, <2>4, <2>5 DEF TokenPart, Registering, Applying
  <2>7. QED
    BY <1>16, <2>1, <2>6, TokenFrame
<1>17. CASE ReportCapability(n)
  <2>1. nm[n].pc = "report" /\ UNCHANGED <<row, token>>
    BY <1>17 DEF ReportCapability, host
  <2>2. \/ /\ nm[n].cfg.pma /\ snap' = [snap EXCEPT ![n] = "ready"]
           /\ misled' = misled
        \/ /\ ~nm[n].cfg.pma /\ snap' = [snap EXCEPT ![n] = "plain"]
           /\ misled' = misled \ {n}
        \/ UNCHANGED <<snap, misled>>
    BY <1>17 DEF ReportCapability, SaveSnapshot, ManagedServicesStatus
  <2>3. /\ \A m \in Node \ {n} : KeepsToken(m)
        /\ n \in misled /\ nm[n].cfg.pma => n \in misled'
        /\ \/ snap'[n] = snap[n] /\ misled' = misled
           \/ snap'[n] = "ready" /\ nm[n].cfg.pma
           \/ snap'[n] = "plain"
    BY <2>1, <2>2 DEF KeepsToken, TypeOK
  <2>4. PICK pc \in {"reportApi", "fetch", "idle"} :
          /\ nm'[n].pc = pc
          /\ nm'[n].loop = nm[n].loop \/ nm'[n].loop = TRUE
          /\ pc = "fetch" => nm'[n].loop = TRUE
          /\ nm'[n].cfg = nm[n].cfg
          /\ \A m \in Node \ {n} : nm'[m] = nm[m]
    <3>1. CASE Goto(n, "reportApi")
      BY <1>1, <3>1 DEF Goto, TypeOK, ManagerState
    <3>2. CASE AfterReport(n)
      BY <1>1, <3>2 DEF AfterReport, TypeOK, ManagerState
    <3>3. QED
      BY <1>17, <3>1, <3>2 DEF ReportCapability
  <2>5. QED
    BY <2>1, <2>3, <2>4, <1>16
<1>18. CASE ReportApi(n)
  <2>1. /\ nm[n].pc = "reportApi" /\ AfterReport(n) /\ UNCHANGED <<snap, token, misled>>
    BY <1>18 DEF ReportApi, host
  <2>2. \A m \in Node : row'[m].status = row[m].status
    BY <1>18 DEF ReportApi, TypeOK, NodeRow
  <2>3. PICK pc \in {"fetch", "idle"} :
          nm' = [nm EXCEPT ![n].pc = pc, ![n].loop = TRUE]
    BY <2>1 DEF AfterReport
  <2>4. /\ nm'[n].pc = pc
        /\ nm'[n].loop = TRUE
        /\ nm'[n].cfg = nm[n].cfg
        /\ \A m \in Node \ {n} : nm'[m] = nm[m]
    BY <1>1, <2>3 DEF TypeOK, ManagerState
  <2>5. \A m \in Node : KeepsToken(m)
    BY <2>1, <2>2 DEF KeepsToken
  <2>6. QED
    BY <2>1, <2>2, <2>4, <2>5, <1>16
<1>19. CASE Tick(n)
  <2>1. /\ nm[n].pc = "idle" /\ Goto(n, "report")
        /\ UNCHANGED <<row, snap, token, misled>>
    BY <1>19 DEF Tick, host
  <2>2. QED
    BY <2>1, <1>10 DEF Registering, Applying
<1>20. QED
  BY <1>2, <1>3, <1>4, <1>5, <1>6, <1>7, <1>8, <1>9, <1>12,
     <1>13, <1>14, <1>15, <1>17, <1>18, <1>19 DEF Manager

\* No step breaks the invariant.
LEMMA NextToken == TypeOK /\ TokenInv /\ [Next]_vars => TokenInv'
<1> SUFFICES ASSUME TypeOK, TokenInv, [Next]_vars PROVE TokenInv'
  OBVIOUS
<1>1. ASSUME NEW n \in Node, Boot(n) PROVE TokenInv'
  <2>1. /\ nm[n].pc = "down" /\ Goto(n, "regFind")
        /\ UNCHANGED <<row, snap, token, misled>>
    BY <1>1 DEF Boot, host
  <2>2. /\ nm'[n].pc = "regFind" /\ nm'[n].loop = nm[n].loop
        /\ \A m \in Node \ {n} : nm'[m] = nm[m]
    BY <2>1 DEF Goto, TypeOK, ManagerState
  <2>3. TokenPart(n)' /\ ActiveStays
    BY <2>1, <2>2 DEF TokenInv, TokenPart, Configured, Registering, ActiveStays
  <2>4. QED
    BY <2>1, <2>2, <2>3, TokenFrame DEF KeepsToken
<1>2. ASSUME UNCHANGED <<row, snap, nm, token, misled>> PROVE TokenInv'
  BY <1>2, TokenStay DEF TokenInv, ActiveStays, KeepsToken
<1>3. ASSUME NEW n \in Node, PMAHealthy(n) \/ PMADies(n) PROVE TokenInv'
  BY <1>2, <1>3 DEF PMAHealthy, PMADies
<1>4. ASSUME NEW n \in Node, Exit(n) \/ Crash(n) \/ Reboot(n) PROVE TokenInv'
  <2>1. nm' = [nm EXCEPT ![n] = DownState] /\ UNCHANGED <<row, snap, token, misled>>
    BY <1>4 DEF Exit, Crash, Reboot, Leave, host
  <2>2. nm'[n] = DownState /\ \A m \in Node \ {n} : nm'[m] = nm[m]
    BY <2>1 DEF TypeOK
  <2>3. TokenPart(n)'
    BY <2>1, <2>2, TokenDown DEF TokenInv
  <2>4. ActiveStays /\ \A m \in Node : KeepsToken(m)
    BY <2>1 DEF ActiveStays, KeepsToken
  <2>5. QED
    BY <2>2, <2>3, <2>4, TokenFrame
<1>5. CASE UNCHANGED vars
  BY <1>2, <1>5 DEF vars
<1>6. QED
  BY <1>1, <1>3, <1>4, <1>5, ManagerToken DEF Next

(***************************************************************************)
(* A PMA reported ready is one whose host holds its agent token, unless a  *)
(* failed query made a running node the host, for any number of nodes and  *)
(* stops, any order of registration, and failing or unacknowledged calls.  *)
(***************************************************************************)
THEOREM ReadyHasToken == Spec => []ReadyPMAHasToken
<1>1. Init => TokenInv
  <2> SUFFICES ASSUME Init, NEW n \in Node PROVE TokenPart(n)
    BY DEF TokenInv
  <2>1. /\ nm = [m \in Node |-> DownState]
        /\ snap = [m \in Node |-> "none"]
    BY DEF Init
  <2>2. nm[n].pc = "down" /\ ~nm[n].loop /\ snap[n] = "none"
    BY <2>1 DEF DownState
  <2>3. QED
    BY <2>2 DEF TokenPart, Configured
<1>2. TokenInv => ReadyPMAHasToken
  BY DEF TokenInv, TokenPart, ReadyPMAHasToken
<1>3. QED
  BY <1>1, <1>2, NextToken, TypeCorrect, PTL DEF Spec
=============================================================================
