----------------------------- MODULE CliSession -----------------------------
(***************************************************************************)
(* The login that cynork keeps in its configuration file: auth login, auth *)
(* refresh and auth logout as processes that share the file and the        *)
(* gateways they talk to.  A process reads the file once, when it starts,  *)
(* and replaces it as a whole at its end.  Of a gateway only the rotation  *)
(* of refresh tokens is here; AuthSessions has it in full.                 *)
(***************************************************************************)
EXTENDS Naturals

CONSTANTS
    Process,     \* cynork processes
    GatewayURL,  \* base URLs; CYNORK_GATEWAY_URL may override the file's
    MaxTokens,   \* bound: refresh tokens issued
    CliFaults    \* what may go wrong: subset of {"fail", "lost", "killed"}

ASSUME CliAssumption ==
    /\ GatewayURL # {}
    /\ MaxTokens \in Nat
    /\ CliFaults \subseteq {"fail", "lost", "killed"}

VARIABLES
    configFile,  \* gateway and refresh token stored
    tokens,      \* what the gateways know of the tokens they issued
    issued,      \* tokens issued so far
    procs,       \* the processes
    missed       \* tokens exchanged for one that will never be stored

cliVars == <<configFile, tokens, issued, procs, missed>>

-----------------------------------------------------------------------------
Token == 1 .. MaxTokens

\* An access token comes and goes with its refresh token; 0 is none.
Config == [url : GatewayURL, refresh : {0} \cup Token]

TokenRow == [state : {"none", "live", "spent"}, by : GatewayURL]

\* old: the token that was exchanged for the one in cfg, if any.
ProcState == [pc : {"idle", "login", "refresh", "exchange", "save", "rename"},
              cfg : Config, old : {0} \cup Token]

CliSessionTypeOK ==
    /\ configFile \in Config
    /\ tokens \in [Token -> TokenRow]
    /\ issued \in 0 .. MaxTokens
    /\ procs \in [Process -> ProcState]
    /\ missed \subseteq Token

DefaultConfig == [url |-> CHOOSE u \in GatewayURL : TRUE, refresh |-> 0]

IdleProc == [pc |-> "idle", cfg |-> DefaultConfig, old |-> 0]

\* No file yet.
CliInit ==
    /\ configFile = DefaultConfig
    /\ tokens = [t \in Token |-> [state |-> "none", by |-> DefaultConfig.url]]
    /\ issued = 0
    /\ procs = [p \in Process |-> IdleProc]
    /\ missed = {}

-----------------------------------------------------------------------------
\* config.Load: the file, with the gateway of the environment if it names one.
LoadConfig(u) == [configFile EXCEPT !.url = u]

\* The process returns; what it was to store for p.old is gone.
Exits(p) ==
    /\ procs' = [procs EXCEPT ![p] = IdleProc]
    /\ missed' = missed \cup ({procs[p].old} \ {0})

AuthLogin(p) ==
    /\ procs[p].pc = "idle"
    /\ \E u \in GatewayURL :
          procs' = [procs EXCEPT ![p] = [pc |-> "login", cfg |-> LoadConfig(u), old |-> 0]]
    /\ UNCHANGED <<configFile, tokens, issued, missed>>

\* Without a refresh token the command ends at once.
AuthRefresh(p) ==
    /\ procs[p].pc = "idle"
    /\ configFile.refresh # 0
    /\ \E u \in GatewayURL :
          procs' = [procs EXCEPT ![p] = [pc |-> "refresh", cfg |-> LoadConfig(u), old |-> 0]]
    /\ UNCHANGED <<configFile, tokens, issued, missed>>

\* Purely local: the gateway is not told.
AuthLogout(p) ==
    /\ procs[p].pc = "idle"
    /\ \E u \in GatewayURL :
          procs' = [procs EXCEPT ![p] =
                      [pc |-> "save", cfg |-> [LoadConfig(u) EXCEPT !.refresh = 0], old |-> 0]]
    /\ UNCHANGED <<configFile, tokens, issued, missed>>

-----------------------------------------------------------------------------
(* The gateways *)

\* Gateway u issues a token, and the one given to it, if any, is spent.
Issue(u, spent) ==
    /\ issued < MaxTokens
    /\ issued' = issued + 1
    /\ tokens' = [t \in Token |->
                    IF t = issued + 1 THEN [state |-> "live", by |-> u]
                    ELSE IF t = spent THEN [tokens[t] EXCEPT !.state = "spent"]
                    ELSE tokens[t]]

\* Mutant: of a later response only the access token is taken over.
KeepRefreshToken(c, t) == IF c.refresh = 0 THEN [c EXCEPT !.refresh = t] ELSE c

\* cfg.Token and cfg.RefreshToken are set from the response.
TakeOver(c, t) == [c EXCEPT !.refresh = t]

\* The response reached the process, which goes on to save it.
Received(p, spent) ==
    procs' = [procs EXCEPT ![p] =
                [pc |-> "save", cfg |-> TakeOver(@.cfg, issued + 1), old |-> spent]]

LoginAnswered(p) ==
    /\ procs[p].pc = "login"
    /\ Issue(procs[p].cfg.url, 0)
    /\ Received(p, 0)
    /\ UNCHANGED <<configFile, missed>>

\* The gateway looks the token up; another one's, and a spent one, is refused.
RefreshLookup(p) ==
    /\ procs[p].pc = "refresh"
    /\ LET c == procs[p].cfg
       IN  IF tokens[c.refresh] = [state |-> "live", by |-> c.url]
           THEN procs' = [procs EXCEPT ![p].pc = "exchange"] /\ UNCHANGED missed
           ELSE Exits(p)
    /\ UNCHANGED <<configFile, tokens, issued>>

\* Found live, it is exchanged, also when an overlapping request was faster.
\* The answer may be lost on its way to the process; a gateway that fails
\* after it has spent the token leaves the process the same.
RefreshAnswered(p) ==
    /\ procs[p].pc = "exchange"
    /\ LET c == procs[p].cfg
       IN  /\ Issue(c.url, c.refresh)
           /\ \/ Received(p, c.refresh) /\ UNCHANGED missed
              \/ /\ "lost" \in CliFaults
                 /\ procs' = [procs EXCEPT ![p] = IdleProc]
                 /\ missed' = missed \cup {c.refresh}
    /\ UNCHANGED configFile

-----------------------------------------------------------------------------
(* config.Save and the end of a process *)

\* The temporary file, which nobody else opens, is written.
SaveTemp(p) ==
    /\ procs[p].pc = "save"
    /\ procs' = [procs EXCEPT ![p].pc = "rename"]
    /\ UNCHANGED <<configFile, tokens, issued, missed>>

SaveRename(p) ==
    /\ procs[p].pc = "rename"
    /\ configFile' = procs[p].cfg
    /\ procs' = [procs EXCEPT ![p] = IdleProc]
    /\ UNCHANGED <<tokens, issued, missed>>

\* An error of the call or of a file operation, or the end of the process.
GivesUp(p) ==
    /\ procs[p].pc # "idle"
    /\ \/ "fail" \in CliFaults /\ procs[p].pc \in {"login", "refresh", "save", "rename"}
       \/ "killed" \in CliFaults
    /\ Exits(p)
    /\ UNCHANGED <<configFile, tokens, issued>>

-----------------------------------------------------------------------------
CliNext ==
    \E p \in Process :
        \/ AuthLogin(p) \/ AuthRefresh(p) \/ AuthLogout(p)
        \/ LoginAnswered(p) \/ RefreshLookup(p) \/ RefreshAnswered(p)
        \/ SaveTemp(p) \/ SaveRename(p) \/ GivesUp(p)

CliSpec == CliInit /\ [][CliNext]_cliVars

(***************************************************************************)
(* The login in the file stays good: the refresh token stored comes from   *)
(* the gateway stored beside it, and it is spent only while its            *)
(* replacement is on its way to the file or when that replacement was lost *)
(* with an answer, a failed save or a killed process.  However refresh,    *)
(* login and logout overlap, and whatever gateway the environment names,   *)
(* no process puts a token back that another has exchanged.                *)
(***************************************************************************)
StoredLoginIsGood ==
    LET t == configFile.refresh
    IN  t # 0 =>
          /\ tokens[t].by = configFile.url
          /\ tokens[t].state = "spent" =>
                t \in missed \/ \E p \in Process : procs[p].old = t

-----------------------------------------------------------------------------
(* The inductive invariant behind it *)

\* A process that has something to store.
Saving(p) == procs[p].pc \in {"save", "rename"}

\* No token is held or stored before it is issued, only a process that found a
\* token in the file goes to refresh it, and a process that has exchanged one
\* is about to store the other.
OnlyIssued ==
    /\ configFile.refresh <= issued
    /\ \A p \in Process : procs[p].cfg.refresh <= issued
    /\ \A p \in Process : procs[p].pc \in {"refresh", "exchange"} => procs[p].cfg.refresh # 0
    /\ \A p \in Process : procs[p].old # 0 => Saving(p)

\* The token that a process is about to store is nobody else's: it is live, it
\* is not in the file, and it comes from the gateway stored with it.
SavedIsPrivate ==
    \A p \in Process :
        LET t == procs[p].cfg.refresh
        IN  Saving(p) /\ t # 0 =>
              /\ tokens[t] = [state |-> "live", by |-> procs[p].cfg.url]
              /\ configFile.refresh # t
              /\ \A q \in Process \ {p} : procs[q].cfg.refresh # t

CliInv ==
    /\ CliSessionTypeOK
    /\ OnlyIssued
    /\ SavedIsPrivate
    /\ StoredLoginIsGood
=============================================================================
