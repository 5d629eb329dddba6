---------------------------- MODULE MCWorkerNode ----------------------------
(***************************************************************************)
(* The instance for TLC of what runs on a worker node besides jobs:        *)
(* NodeLifecycle, its agent tokens (SecureStore) and its telemetry.  They  *)
(* share no state: a behaviour is one of a single part, chosen in the      *)
(* initial state.  The life cycle has two: one node whose host and calls   *)
(* fail in every way, and the placement of the PMA on several nodes, whose *)
(* calls may fail while their container runtime works.                     *)
(***************************************************************************)
EXTENDS NodeLifecycle, SecureStore, Telemetry

VARIABLE part

nodeVars == <<vars, storeVars, telemetryVars, part>>

MCInit ==
    /\ part \in {"lifecycle", "placement", "store", "telemetry"}
    /\ Init /\ StoreInit /\ TelemetryInit
    /\ \A n \in Node : part = "placement" => ollama[n] = "running"
    /\ \A n \in Node : part # "placement" /\ (n > 1 \/ part # "lifecycle")
                         => ollama[n] = "absent"

\* Only the first node is ever started.
OneNode == \A n \in Node : n > 1 => nm'[n].pc = "down"

\* Containers are found and removed, though the PMA need not come up, worker API
\* data is stored, and exits are those that other failing calls cause.
RuntimeWorks ==
    /\ stops' = 0
    /\ \A n \in Node :
          /\ pma'[n] # "healthy"
          /\ existing'[n] = (snap'[n] # "none")
          /\ nm[n].pc = "regApi" /\ nm'[n].pc # "regApi" => row'[n].api
          /\ nm[n].pc # "down" /\ nm'[n].pc = "down" => pma'[n] = "absent" /\ ~up'[n]

\* The bounded parts may come to their end; the life cycle goes on.
MCNext ==
    \/ /\ part = "lifecycle" /\ Next /\ OneNode
       /\ UNCHANGED <<part, storeVars, telemetryVars>>
    \/ /\ part = "placement" /\ Next /\ RuntimeWorks
       /\ UNCHANGED <<part, storeVars, telemetryVars>>
    \/ part = "store" /\ StoreNext /\ UNCHANGED <<part, vars, telemetryVars>>
    \/ part = "telemetry" /\ TelemetryNext /\ UNCHANGED <<part, vars, storeVars>>
    \/ part \in {"store", "telemetry"} /\ UNCHANGED nodeVars

MCSpec == MCInit /\ [][MCNext]_nodeVars /\ TelemetryFairness
=============================================================================
