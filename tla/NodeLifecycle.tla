--------------------------- MODULE NodeLifecycle ----------------------------
(***************************************************************************)
(* Worker nodes and the control plane's view of them: registration,        *)
(* configuration, acknowledgement and capability reports of every node     *)
(* manager, the nodes table they fill, the placement of the Project        *)
(* Manager Agent (PMA), and the services a node manager starts on its host.*)
(*                                                                         *)
(* A node manager waits for the answer of each call, so one process state  *)
(* per node holds both its own position and that of the handler serving    *)
(* it.  When it dies the handler's context is cancelled with it.           *)
(***************************************************************************)
EXTENDS Integers

CONSTANTS
    Node,      \* nodes, numbered in the order of their slugs
    Override,  \* is WORKER_API_TARGET_URL set on the control plane?
    Faults,    \* faults that may happen: subset of {"fail", "lost"}
    MaxStops   \* bound: exits, crashes, reboots and PMA crashes

ASSUME NodeAssumption == Node \subseteq Nat
ASSUME SettingsAssumption ==
    Override \in BOOLEAN /\ Faults \subseteq {"fail", "lost"} /\ MaxStops \in Nat

VARIABLES
    row,     \* nodes table
    snap,    \* latest capability snapshot of each node: does it show a ready PMA?
    existing,  \* ... and an existing inference service?
    nm,      \* state of each node manager
    up,      \* is the worker API of each host running?
    ollama,  \* inference container of each host
    pma,     \* PMA container of each host
    token,   \* is the PMA's agent token in the host's secure store?
    served,  \* has this host ever started its worker API?
    misled,  \* nodes that became the PMA host in a refresh, by a failed query
    stops    \* stops so far

vars == <<row, snap, existing, nm, up, ollama, pma, token, served, misled, stops>>

host == <<up, ollama, pma, token, served>>

-----------------------------------------------------------------------------
(* Rows and process states *)

NodeRow == [status : {"none", "registered", "active"},
            ack : {"none", "applied"},   \* config_ack_status
            api : BOOLEAN]               \* worker API URL and token stored

\* The parts of a configuration payload that the node manager acts on.
Config == [pma : BOOLEAN,       \* managed_services names the PMA
           backend : BOOLEAN]   \* inference_backend is present and enabled

NoConfig == [pma |-> FALSE, backend |-> FALSE]

Registering == {"regFind", "regCreate", "regActivate", "regSnapshot", "regApi"}

\* Steps of applyConfigAndStartServices before the acknowledgement.
Applying == {"sync", "worker", "infer", "ack"}

ManagerState == [pc : {"down", "idle", "fetch", "fetchApi", "services", "waitPMA",
                       "report", "reportApi"} \cup Registering \cup Applying,
                 isNew : BOOLEAN,   \* handleNewNodeRegistration
                 loop : BOOLEAN,    \* inside runCapabilityLoop's ticks
                 offer : Config,    \* payload being built by GetConfig
                 cfg : Config]      \* configuration in use

DownState == [pc |-> "down", isNew |-> FALSE, loop |-> FALSE,
              offer |-> NoConfig, cfg |-> NoConfig]

TypeOK ==
    /\ row \in [Node -> NodeRow]
    /\ snap \in [Node -> {"none", "plain", "ready"}]
    /\ nm \in [Node -> ManagerState]
    /\ existing \in [Node -> BOOLEAN]
    /\ up \in [Node -> BOOLEAN]
    /\ ollama \in [Node -> {"absent", "stopped", "running"}]
    /\ pma \in [Node -> {"absent", "stopped", "starting", "healthy"}]
    /\ token \in [Node -> BOOLEAN]
    /\ served \in [Node -> BOOLEAN]
    /\ misled \subseteq Node
    /\ stops \in 0 .. MaxStops

Init ==
    /\ row = [n \in Node |-> [status |-> "none", ack |-> "none", api |-> FALSE]]
    /\ snap = [n \in Node |-> "none"]
    /\ nm = [n \in Node |-> DownState]
    /\ existing = [n \in Node |-> FALSE]
    /\ up = [n \in Node |-> FALSE]
    /\ ollama \in [Node -> {"absent", "running"}]   \* may be run by others
    /\ pma = [n \in Node |-> "absent"]
    /\ token = [n \in Node |-> FALSE]
    /\ served = [n \in Node |-> FALSE]
    /\ misled = {}
    /\ stops = 0

-----------------------------------------------------------------------------
(* Outcomes of calls, and what a node manager does after them *)

Outcome == {"ok"} \cup Faults

Commits(o) == o # "fail"

Goto(n, pc) == nm' = [nm EXCEPT ![n].pc = pc]

\* stopAndRemoveContainer, whose errors are only logged.
Removed(p) ==
    {"absent"} \cup (IF "fail" \in Faults /\ p # "absent" THEN {p, "stopped"} ELSE {})

\* RunWithOptions returns an error: the node manager removes its managed
\* containers (and the worker API, if that is a container) and exits.
Leave(n) ==
    /\ nm' = [nm EXCEPT ![n] = DownState]
    /\ \E p \in Removed(pma[n]) : pma' = [pma EXCEPT ![n] = p]
    /\ up' \in {up, [up EXCEPT ![n] = FALSE]}

\* An error ends the start-up.
GotoOrLeave(n, o, pc) ==
    \/ o = "ok" /\ Goto(n, pc) /\ UNCHANGED <<up, pma>>
    \/ o # "ok" /\ Leave(n)

-----------------------------------------------------------------------------
(* Start and registration *)

\* waitForOrchestratorReadiness and runStartupChecks pass.
Boot(n) ==
    /\ nm[n].pc = "down"
    /\ Goto(n, "regFind")
    /\ UNCHANGED <<row, snap, existing, host, misled, stops>>

RegisterFind(n) ==
    /\ nm[n].pc = "regFind"
    /\ \E o \in Outcome :
          \/ /\ o = "ok"
             /\ nm' = [nm EXCEPT
                   ![n].isNew = row[n].status = "none",
                   ![n].pc = IF row[n].status = "none" THEN "regCreate"
                                                       ELSE "regActivate"]
             /\ UNCHANGED <<up, pma>>
          \/ o # "ok" /\ Leave(n)
    /\ UNCHANGED <<row, snap, existing, ollama, token, served, misled, stops>>

CreateNode(n) ==
    /\ nm[n].pc = "regCreate"
    /\ \E o \in Outcome :
          /\ row' = [row EXCEPT ![n].status = IF Commits(o) THEN "registered" ELSE @]
          /\ GotoOrLeave(n, o, "regActivate")
    /\ UNCHANGED <<snap, existing, ollama, token, served, misled, stops>>

\* An error is reported for a known node and only logged for a new one.
\* Neither path touches the acknowledgement of an earlier life of the node.
ActivateNode(n) ==
    /\ nm[n].pc = "regActivate"
    /\ \E o \in Outcome :
          /\ row' = [row EXCEPT ![n].status = IF Commits(o) THEN "active" ELSE @]
          /\ GotoOrLeave(n, IF nm[n].isNew THEN "ok" ELSE o, "regSnapshot")
    /\ UNCHANGED <<snap, existing, ollama, token, served, misled, stops>>

\* detectExistingInference counts a stopped container; a failing "ps" hides it.
Detected(n) ==
    {ollama[n] # "absent"} \cup (IF "fail" \in Faults THEN {FALSE} ELSE {})

\* saveCapabilitySnapshotAndHash of a report built by buildCapability.
SaveSnapshot(n, o, status) ==
    \/ /\ Commits(o)
       /\ snap' = [snap EXCEPT ![n] = status]
       /\ \E found \in Detected(n) : existing' = [existing EXCEPT ![n] = found]
       /\ misled' = IF status = "plain" THEN misled \ {n} ELSE misled
    \/ ~Commits(o) /\ UNCHANGED <<snap, existing, misled>>

\* The report sent with a registration names no managed service.
RegisterSnapshot(n) ==
    /\ nm[n].pc = "regSnapshot"
    /\ \E o \in Outcome : SaveSnapshot(n, o, "plain")
    /\ Goto(n, "regApi")
    /\ UNCHANGED <<row, host, stops>>

\* applyWorkerAPIURLFromCapability; then the bootstrap payload is returned,
\* unless GenerateNodeToken fails.
RegisterApi(n) ==
    /\ nm[n].pc = "regApi"
    /\ \E o \in Outcome : row' = [row EXCEPT ![n].api = @ \/ Commits(o)]
    /\ \/ /\ nm' = [nm EXCEPT ![n].pc = "fetch", ![n].isNew = FALSE]
          /\ UNCHANGED <<up, pma>>
       \/ Faults # {} /\ Leave(n)
    /\ UNCHANGED <<snap, existing, ollama, token, served, misled, stops>>

-----------------------------------------------------------------------------
(* Configuration *)

\* Mutant: only nodes that have acknowledged a configuration are candidates.
AcknowledgedActive == {m \in Node : row[m].status = "active" /\ row[m].ack = "applied"}

Active == {m \in Node : row[m].status = "active"}

\* selectPMAHostNodeSlug: the first active slug, or the asking node itself.
\* No node manager reports labels, so the preferred label never matches.
IsPMAHost(n) ==
    \/ Active = {}
    \/ n \in Active /\ \A m \in Active : n <= m

\* buildManagedServicesDesiredState; list is the outcome of ListActiveNodes.
DesiredPMA(n, list) == list # "ok" \/ IsPMAHost(n)

\* deriveInferenceBackend: no second service beside an existing one.
BackendEnabled(n, cap) == cap = "ok" /\ snap[n] # "none" /\ ~existing[n]

\* Does a refresh make n the host only because its query for active nodes failed?
Misleads(n, list) == nm[n].loop /\ list # "ok" /\ ~IsPMAHost(n)

\* GetConfig builds the payload.  A failed query for the active nodes makes
\* the asking node the host, a failed one for the snapshot drops the backend;
\* a failed call ends the start-up or leaves the loop its old configuration.
GetConfig(n) ==
    /\ nm[n].pc = "fetch"
    /\ \/ \E list, cap \in Outcome :
             /\ nm' = [nm EXCEPT ![n].pc = "fetchApi",
                   ![n].offer = [pma |-> DesiredPMA(n, list),
                                 backend |-> BackendEnabled(n, cap)]]
             /\ misled' = IF Misleads(n, list) THEN misled \cup {n} ELSE misled
             /\ UNCHANGED <<up, pma>>
       \/ /\ Faults # {}
          /\ UNCHANGED misled
          /\ IF nm[n].loop THEN Goto(n, "services") /\ UNCHANGED <<up, pma>>
                           ELSE Leave(n)
    /\ UNCHANGED <<row, snap, existing, ollama, token, served, stops>>

\* Mutant: the loop never takes over a changed configuration.
KeepConfig(old, new) == old

\* refreshNodeConfig replaces the configuration when managed services differ.
RefreshedConfig(old, new) == IF old.pma # new.pma THEN new ELSE old

\* GetConfig stores the worker API data and answers.
ConfigAnswered(n) ==
    /\ nm[n].pc = "fetchApi"
    /\ \E o \in Outcome :
          row' = [row EXCEPT ![n].api = @ \/ (Override /\ Commits(o))]
    /\ nm' = [nm EXCEPT
          ![n].pc = IF nm[n].loop THEN "services" ELSE "sync",
          ![n].cfg = IF nm[n].loop THEN RefreshedConfig(@, nm[n].offer)
                                   ELSE nm[n].offer,
          ![n].offer = NoConfig]
    /\ UNCHANGED <<snap, existing, host, misled, stops>>

-----------------------------------------------------------------------------
(* applyConfigAndStartServices *)

\* syncManagedServiceAgentTokens; without managed services it returns at once
\* and leaves a stored token where it is.
SyncAgentTokens(n) ==
    /\ nm[n].pc = "sync"
    /\ \E o \in Outcome :
          /\ token' = [token EXCEPT ![n] = @ \/ (nm[n].cfg.pma /\ Commits(o))]
          /\ GotoOrLeave(n, IF nm[n].cfg.pma THEN o ELSE "ok", "worker")
    /\ UNCHANGED <<row, snap, existing, ollama, served, misled, stops>>

\* Mutant: a worker API that does not start is only logged.
StartWorkerAPIBestEffort(n) ==
    /\ nm[n].pc = "worker"
    /\ \E o \in Outcome :
          /\ up' = [up EXCEPT ![n] = @ \/ Commits(o)]
          /\ served' = [served EXCEPT ![n] = @ \/ Commits(o)]
    /\ Goto(n, "infer")
    /\ UNCHANGED <<row, snap, existing, pma, ollama, token, misled, stops>>

StartWorkerAPI(n) ==
    /\ nm[n].pc = "worker"
    /\ \/ /\ up' = [up EXCEPT ![n] = TRUE]
          /\ served' = [served EXCEPT ![n] = TRUE]
          /\ Goto(n, "infer")
          /\ UNCHANGED pma
       \/ "fail" \in Faults /\ Leave(n) /\ UNCHANGED served
    /\ UNCHANGED <<row, snap, existing, ollama, token, misled, stops>>

\* maybeStartOllama and startOllama, which starts a container it finds and
\* ignores the error of that.  Pulling the model goes on in the background and
\* is left out.
StartOllama(n) ==
    /\ nm[n].pc = "infer"
    /\ \E found \in Detected(n) :
          IF found \/ ~nm[n].cfg.backend
          THEN Goto(n, "ack") /\ UNCHANGED <<up, ollama, pma>>
          ELSE \/ /\ ollama' = [ollama EXCEPT ![n] = "running"]
                  /\ Goto(n, "ack")
                  /\ UNCHANGED <<up, pma>>
               \/ /\ "fail" \in Faults /\ ollama[n] = "stopped"
                  /\ Goto(n, "ack")
                  /\ UNCHANGED <<up, ollama, pma>>
               \/ "fail" \in Faults /\ Leave(n) /\ UNCHANGED ollama
    /\ UNCHANGED <<row, snap, existing, token, served, misled, stops>>

\* Mutant: the handler answers without storing the acknowledgement.
AnswerConfigAck(n) ==
    /\ nm[n].pc = "ack"
    /\ \E o \in Outcome : GotoOrLeave(n, o, "services")
    /\ UNCHANGED <<row, snap, existing, ollama, token, served, misled, stops>>

\* SendConfigAck and ConfigAck, which ignores the acknowledged version.
ConfigAck(n) ==
    /\ nm[n].pc = "ack"
    /\ \E o \in Outcome :
          /\ row' = [row EXCEPT ![n].ack = IF Commits(o) THEN "applied" ELSE @]
          /\ GotoOrLeave(n, o, "services")
    /\ UNCHANGED <<snap, existing, ollama, token, served, misled, stops>>

AfterServices(n) == IF nm[n].loop THEN "idle" ELSE "report"

\* Mutant: a container that exists is taken for one that runs.
StartedIfAbsent(p) == IF p = "absent" THEN "starting" ELSE p

\* startOneManagedService: run the container, or start it if it exists.
Started(p) == IF p \in {"absent", "stopped"} THEN "starting" ELSE p

\* maybeStartManagedServices, and reconcileManagedServices in the loop, which
\* only logs an error.  Without a desired service nothing is stopped.
StartManagedServices(n) ==
    /\ nm[n].pc = "services"
    /\ \/ /\ nm[n].cfg.pma
          /\ pma' = [pma EXCEPT ![n] = Started(@)]
          /\ Goto(n, "waitPMA")
          /\ UNCHANGED up
       \/ /\ ~nm[n].cfg.pma
          /\ Goto(n, AfterServices(n))
          /\ UNCHANGED <<up, pma>>
       \/ /\ "fail" \in Faults /\ nm[n].cfg.pma /\ pma[n] = "stopped"
          /\ Goto(n, "waitPMA")   \* the error of "start" is ignored
          /\ UNCHANGED <<up, pma>>
       \/ /\ "fail" \in Faults /\ nm[n].cfg.pma
          /\ IF nm[n].loop THEN Goto(n, "idle") /\ UNCHANGED <<up, pma>>
                           ELSE Leave(n)
    /\ UNCHANGED <<row, snap, existing, ollama, token, served, misled, stops>>

\* waitForPMAReadyUDS returns when the PMA answers and when time is up.
WaitForPMAReady(n) ==
    /\ nm[n].pc = "waitPMA"
    /\ Goto(n, AfterServices(n))
    /\ UNCHANGED <<row, snap, existing, host, misled, stops>>

-----------------------------------------------------------------------------
(* runCapabilityLoop *)

\* The first report is followed by the ticker, later ones by a refresh.
AfterReport(n) ==
    nm' = [nm EXCEPT ![n].pc = IF nm[n].loop THEN "fetch" ELSE "idle",
                     ![n].loop = TRUE]

\* buildManagedServicesStatus calls a configured PMA ready without asking it.
ManagedServicesStatus(n) == IF nm[n].cfg.pma THEN "ready" ELSE "plain"

\* ReportCapability stores the snapshot.
ReportCapability(n) ==
    /\ nm[n].pc = "report"
    /\ \E o \in Outcome :
          /\ SaveSnapshot(n, o, ManagedServicesStatus(n))
          /\ IF o = "ok" THEN Goto(n, "reportApi") ELSE AfterReport(n)
    /\ UNCHANGED <<row, host, stops>>

ReportApi(n) ==
    /\ nm[n].pc = "reportApi"
    /\ \E o \in Outcome : row' = [row EXCEPT ![n].api = @ \/ Commits(o)]
    /\ AfterReport(n)
    /\ UNCHANGED <<snap, existing, host, misled, stops>>

Tick(n) ==
    /\ nm[n].pc = "idle"
    /\ Goto(n, "report")
    /\ UNCHANGED <<row, snap, existing, host, misled, stops>>

-----------------------------------------------------------------------------
(* Environment *)

PMAHealthy(n) ==
    /\ pma[n] = "starting"
    /\ pma' = [pma EXCEPT ![n] = "healthy"]
    /\ UNCHANGED <<row, snap, existing, nm, up, ollama, token, served, misled, stops>>

MayStop ==
    /\ stops < MaxStops
    /\ stops' = stops + 1

PMADies(n) ==
    /\ MayStop
    /\ pma[n] \in {"starting", "healthy"}
    /\ pma' = [pma EXCEPT ![n] = "stopped"]
    /\ UNCHANGED <<row, snap, existing, nm, up, ollama, token, served, misled>>

\* SIGTERM, or an error that ends the start-up.
Exit(n) ==
    /\ MayStop
    /\ nm[n].pc # "down"
    /\ Leave(n)
    /\ UNCHANGED <<row, snap, existing, ollama, token, served, misled>>

\* The node manager is killed; its services go on.
Crash(n) ==
    /\ MayStop
    /\ nm[n].pc # "down"
    /\ nm' = [nm EXCEPT ![n] = DownState]
    /\ UNCHANGED <<row, snap, existing, host, misled>>

Reboot(n) ==
    /\ MayStop
    /\ nm' = [nm EXCEPT ![n] = DownState]
    /\ up' = [up EXCEPT ![n] = FALSE]
    /\ ollama' = [ollama EXCEPT ![n] = IF @ = "absent" THEN @ ELSE "stopped"]
    /\ pma' = [pma EXCEPT ![n] = IF @ = "absent" THEN @ ELSE "stopped"]
    /\ UNCHANGED <<row, snap, existing, token, served, misled>>

-----------------------------------------------------------------------------
\* The steps of a node manager that is running.
Manager(n) ==
    \/ RegisterFind(n)
    \/ CreateNode(n)
    \/ ActivateNode(n)
    \/ RegisterSnapshot(n)
    \/ RegisterApi(n)
    \/ GetConfig(n)
    \/ ConfigAnswered(n)
    \/ SyncAgentTokens(n)
    \/ StartWorkerAPI(n)
    \/ StartOllama(n)
    \/ ConfigAck(n)
    \/ StartManagedServices(n)
    \/ WaitForPMAReady(n)
    \/ ReportCapability(n)
    \/ ReportApi(n)
    \/ Tick(n)

Next ==
    \E n \in Node :
        \/ Boot(n)
        \/ Manager(n)
        \/ PMAHealthy(n)
        \/ PMADies(n)
        \/ Exit(n)
        \/ Crash(n)
        \/ Reboot(n)

Spec == Init /\ [][Next]_vars

\* A running node manager goes on (its calls have timeouts, its ticker ticks)
\* and a started PMA container comes up.
FairSpec ==
    /\ Spec
    /\ \A n \in Node : WF_vars(Manager(n)) /\ WF_vars(PMAHealthy(n))

\* In addition every node manager is started again when it stops.
SupervisedSpec == FairSpec /\ \A n \in Node : WF_vars(Boot(n))

-----------------------------------------------------------------------------
(* The control plane's conclusions *)

\* ListDispatchableNodes.
Dispatchable(n) ==
    row[n].status = "active" /\ row[n].ack = "applied" /\ row[n].api

\* HasWorkerReportedPMAReady looks for such a node.
PMAReportedReady(n) == Dispatchable(n) /\ snap[n] = "ready"

-----------------------------------------------------------------------------
(* Properties *)

(***************************************************************************)
(* The dispatcher is offered only nodes whose worker API was started with  *)
(* the token it will present: acknowledgement comes after StartWorkerAPI   *)
(* on every path, lost replies, exits and reboots included.                *)
(***************************************************************************)
DispatchableWasServing == \A n \in Node : Dispatchable(n) => served[n]

(***************************************************************************)
(* When a node's latest report shows a ready PMA, its host holds the agent *)
(* token the PMA's proxy needs, or the node became the host in a refresh   *)
(* whose query for the active nodes failed, and no report without a PMA    *)
(* has been stored since.  Tokens are stored at start-up only, so nothing  *)
(* else may make a running node the host: not nodes that register, fail    *)
(* to become active, stop or come back, in any order.                      *)
(***************************************************************************)
ReadyPMAHasToken ==
    \A n \in Node : snap[n] = "ready" => token[n] \/ n \in misled

(***************************************************************************)
(* Once nodes stop failing, every one of them becomes dispatchable for     *)
(* good.                                                                   *)
(***************************************************************************)
EveryNodeDispatchable == \A n \in Node : <>[]Dispatchable(n)

(***************************************************************************)
(* Once nodes stop failing, exactly the first slug is told to run the PMA, *)
(* in whatever order nodes registered.                                     *)
(***************************************************************************)
OneHostEventually ==
    <>[](\A n \in Node : nm[n].cfg.pma <=> \A m \in Node : n <= m)

(***************************************************************************)
(* Once nodes stop failing, a PMA is reported ready and is up, also after  *)
(* its container died or its host rebooted.                                *)
(***************************************************************************)
PMAServedEventually ==
    <>[](\E n \in Node : PMAReportedReady(n) /\ pma[n] = "healthy")
=============================================================================
