------------------------------ MODULE MCGateway ------------------------------
(***************************************************************************)
(* The instance for TLC of the parts of the gateways: Chat and RateLimiter *)
(* of the user gateway, Preferences of the MCP gateway, Skills of both,    *)
(* ApiEgress, and the logins that cynork processes keep (CliSession).      *)
(* They share no state, so a behaviour is one of a single part, chosen in  *)
(* the initial state.                                                      *)
(***************************************************************************)
EXTENDS Chat, RateLimiter, Preferences, Skills, ApiEgress, CliSession

CONSTANTS k1, k2

VARIABLE part

TwoKeys == {k1, k2}
TwoScopes == <<"system", "task">>

gatewayVars == <<vars, limiterVars, prefVars, skillVars, egressVars, cliVars, part>>

\* No preference is stored in the behaviours of the other parts, and the egress
\* server has its database.
MCInit ==
    /\ part \in {"chat", "limiter", "preferences", "skills", "egress", "cli"}
    /\ Init /\ LimiterInit /\ PrefInit /\ SkillsInit /\ EgressInit /\ CliInit
    /\ part # "preferences" => prefs = {}
    /\ part # "egress" => withStore

MCNext ==
    /\ UNCHANGED part
    /\ \/ part = "chat" /\ Next
             /\ UNCHANGED <<limiterVars, prefVars, skillVars, egressVars, cliVars>>
       \/ part = "limiter" /\ LimiterNext
             /\ UNCHANGED <<vars, prefVars, skillVars, egressVars, cliVars>>
       \/ part = "preferences" /\ PrefNext
             /\ UNCHANGED <<vars, limiterVars, skillVars, egressVars, cliVars>>
       \/ part = "skills" /\ SkillsNext
             /\ UNCHANGED <<vars, limiterVars, prefVars, egressVars, cliVars>>
       \/ part = "egress" /\ EgressNext
             /\ UNCHANGED <<vars, limiterVars, prefVars, skillVars, cliVars>>
       \/ part = "cli" /\ CliNext
             /\ UNCHANGED <<vars, limiterVars, prefVars, skillVars, egressVars>>

MCSpec == MCInit /\ [][MCNext]_gatewayVars /\ Fairness
=============================================================================
