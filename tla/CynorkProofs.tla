---------------------------- MODULE CynorkProofs ----------------------------
(***************************************************************************)
(* Proofs about cynork, for every number of processes, gateways, tokens    *)
(* and kills, and for the task pipeline of TaskDispatchProofs behind it.   *)
(***************************************************************************)
EXTENDS TaskClient, TaskDispatchProofs, CliSession, TLAPS

-----------------------------------------------------------------------------
(* The login in the configuration file *)

\* An absent file is a configuration without a login.
LEMMA DefaultConfigType == DefaultConfig \in Config /\ DefaultConfig.refresh = 0
BY CliAssumption DEF DefaultConfig, Config

\* A process that does nothing is well typed.
LEMMA IdleProcType == IdleProc \in ProcState
BY DefaultConfigType DEF IdleProc, ProcState

\* Without a file and without tokens the invariant holds.
LEMMA CliInitInv == CliInit => CliInv
<1> SUFFICES ASSUME CliInit PROVE CliInv
  OBVIOUS
<1>1. CliSessionTypeOK
  <2>1. [state |-> "none", by |-> DefaultConfig.url] \in TokenRow
    BY DefaultConfigType DEF TokenRow, Config
  <2>2. QED
    BY <2>1, DefaultConfigType, IdleProcType, CliAssumption DEF CliInit, CliSessionTypeOK
<1>2. \A p \in Process :
          procs[p].pc = "idle" /\ procs[p].cfg.refresh = 0 /\ procs[p].old = 0
  BY DefaultConfigType DEF CliInit, IdleProc
<1>3. configFile.refresh = 0 /\ issued = 0
  BY DefaultConfigType DEF CliInit
<1>4. QED
  BY <1>1, <1>2, <1>3 DEF CliInv, OnlyIssued, SavedIsPrivate, Saving, StoredLoginIsGood

\* A process that starts reads the file; what it holds is what the file holds.
LEMMA LoadKeepsInv ==
    ASSUME CliInv, NEW p \in Process, procs[p].pc = "idle", NEW u \in GatewayURL,
           NEW pc \in {"login", "refresh", "save"}, NEW t \in {0, configFile.refresh},
           pc = "save" => t = 0,
           pc = "refresh" => t # 0,
           procs' = [procs EXCEPT ![p] = [pc |-> pc, cfg |-> [LoadConfig(u) EXCEPT !.refresh = t],
                                          old |-> 0]],
           UNCHANGED <<configFile, tokens, issued, missed>>
    PROVE  CliInv'
<1> DEFINE new == [pc |-> pc, cfg |-> [LoadConfig(u) EXCEPT !.refresh = t], old |-> 0]
<1>1. LoadConfig(u) \in Config /\ [LoadConfig(u) EXCEPT !.refresh = t] \in Config
  BY DEF CliInv, CliSessionTypeOK, LoadConfig, Config
<1>2. /\ new \in ProcState /\ new.pc = pc /\ new.old = 0
      /\ new.cfg.refresh = t
  BY <1>1 DEF ProcState, Config
<1> HIDE DEF new
<1>3. procs' = [procs EXCEPT ![p] = new] /\ procs \in [Process -> ProcState]
  BY DEF new, CliInv, CliSessionTypeOK
<1>4. CliSessionTypeOK'
  BY <1>2, <1>3 DEF CliInv, CliSessionTypeOK
<1>5. procs'[p] = new /\ \A q \in Process \ {p} : procs'[q] = procs[q]
  BY <1>3
<1>6. OnlyIssued'
  <2>1. 0 <= issued
    BY CliAssumption DEF CliInv, CliSessionTypeOK
  <2>2. QED
    BY <1>2, <1>5, <2>1 DEF CliInv, OnlyIssued, Saving
<1>7. SavedIsPrivate'
  BY <1>2, <1>5 DEF CliInv, SavedIsPrivate, Saving
<1>8. StoredLoginIsGood'
  <2>1. \A q \in Process : procs[q].old # 0 => procs'[q].old = procs[q].old
    BY <1>5 DEF CliInv, OnlyIssued, Saving
  <2>2. QED
    BY <1>5, <2>1 DEF CliInv, StoredLoginIsGood
<1>9. QED
  BY <1>4, <1>6, <1>7, <1>8 DEF CliInv

\* A process that returns may leave a token without its replacement, which is
\* then among the missed ones.
LEMMA ExitKeepsInv ==
    ASSUME CliInv, NEW p \in Process, Exits(p), UNCHANGED <<configFile, tokens, issued>>
    PROVE  CliInv'
<1>1. /\ procs' = [procs EXCEPT ![p] = IdleProc] /\ procs \in [Process -> ProcState]
      /\ missed' = missed \cup ({procs[p].old} \ {0})
  BY DEF Exits, CliInv, CliSessionTypeOK
<1>2. procs'[p] = IdleProc /\ \A q \in Process \ {p} : procs'[q] = procs[q]
  BY <1>1
<1>3. IdleProc.pc = "idle" /\ IdleProc.cfg.refresh = 0 /\ IdleProc.old = 0
  BY DefaultConfigType DEF IdleProc
<1>4. CliSessionTypeOK'
  <2>1. procs[p].old \in {0} \cup Token
    BY <1>1 DEF ProcState
  <2>2. QED
    BY <1>1, <2>1, IdleProcType DEF CliInv, CliSessionTypeOK
<1>5. OnlyIssued'
  <2>1. 0 <= issued
    BY CliAssumption DEF CliInv, CliSessionTypeOK
  <2>2. QED
    BY <1>2, <1>3, <2>1 DEF CliInv, OnlyIssued, Saving
<1>6. SavedIsPrivate'
  BY <1>2, <1>3 DEF CliInv, SavedIsPrivate, Saving
<1>7. StoredLoginIsGood'
  BY <1>1, <1>2, <1>3 DEF CliInv, StoredLoginIsGood
<1>8. QED
  BY <1>4, <1>5, <1>6, <1>7 DEF CliInv

\* Tokens that are held or stored are still no later than the last one issued
\* when one more has been.
LEMMA IssuedGrows ==
    ASSUME CliInv
    PROVE  /\ configFile.refresh <= issued + 1 /\ configFile.refresh # issued + 1
           /\ \A q \in Process : /\ procs[q].cfg.refresh <= issued + 1
                                 /\ procs[q].cfg.refresh # issued + 1
<1>1. issued \in Nat /\ configFile.refresh \in Nat
  BY CliAssumption DEF CliInv, CliSessionTypeOK, Config, Token
<1>2. \A q \in Process : procs[q].cfg.refresh \in Nat
  BY CliAssumption DEF CliInv, CliSessionTypeOK, ProcState, Config, Token
<1>3. QED
  BY <1>1, <1>2 DEF CliInv, OnlyIssued

\* A gateway's new token is fresh; the token given for it is spent.
LEMMA IssueFacts ==
    ASSUME CliInv, NEW u \in GatewayURL, NEW spent \in {0} \cup Token, spent <= issued,
           Issue(u, spent)
    PROVE  /\ issued \in Nat /\ issued' = issued + 1 /\ issued' \in 0 .. MaxTokens
           /\ issued + 1 \in Token
           /\ tokens' \in [Token -> TokenRow]
           /\ tokens'[issued + 1] = [state |-> "live", by |-> u]
           /\ \A t \in Token : t <= issued =>
                 /\ tokens'[t].by = tokens[t].by
                 /\ t # spent => tokens'[t] = tokens[t]
           /\ \A t \in Token : tokens'[t].state = "spent" =>
                 t = spent \/ tokens[t].state = "spent"
<1>1. /\ issued \in Nat /\ issued' = issued + 1 /\ issued' \in 0 .. MaxTokens
      /\ issued + 1 \in Token
  BY CliAssumption DEF CliInv, CliSessionTypeOK, Issue, Token
<1>2. tokens \in [Token -> TokenRow]
  BY DEF CliInv, CliSessionTypeOK
<1>3. \A t \in Token : tokens'[t] =
          IF t = issued + 1 THEN [state |-> "live", by |-> u]
          ELSE IF t = spent THEN [tokens[t] EXCEPT !.state = "spent"] ELSE tokens[t]
  BY DEF Issue
<1>4. \A t \in Token : /\ [tokens[t] EXCEPT !.state = "spent"] \in TokenRow
                       /\ [tokens[t] EXCEPT !.state = "spent"].by = tokens[t].by
                       /\ [tokens[t] EXCEPT !.state = "spent"].state = "spent"
  BY <1>2 DEF TokenRow
<1>5. [state |-> "live", by |-> u] \in TokenRow
  BY DEF TokenRow
<1>6. tokens' \in [Token -> TokenRow]
  <2>1. \A t \in Token : tokens'[t] \in TokenRow
    BY <1>2, <1>3, <1>4, <1>5
  <2>2. tokens' = [t \in Token |-> tokens'[t]]
    BY DEF Issue
  <2>3. QED
    BY <2>1, <2>2
<1>7. \A t \in Token : t <= issued => t # issued + 1
  BY <1>1 DEF Token
<1>8. /\ tokens'[issued + 1] = [state |-> "live", by |-> u]
      /\ tokens'[issued + 1].state = "live"
  <2>1. tokens'[issued + 1] = [state |-> "live", by |-> u]
    BY <1>1, <1>3
  <2>2. QED
    BY <2>1
<1>9. QED
  BY <1>1, <1>3, <1>4, <1>6, <1>7, <1>8

\* The process that receives a token goes on to store it beside its gateway.
LEMMA ReceiveKeepsInv ==
    ASSUME CliInv, NEW p \in Process, procs[p].pc \in {"login", "exchange"},
           NEW spent \in {0, procs[p].cfg.refresh},
           Issue(procs[p].cfg.url, spent), Received(p, spent), UNCHANGED <<configFile, missed>>
    PROVE  CliInv'
<1> DEFINE new == [pc |-> "save", cfg |-> TakeOver(procs[p].cfg, issued + 1), old |-> spent]
<1>1. /\ procs \in [Process -> ProcState] /\ procs[p].cfg \in Config
      /\ procs[p].cfg.url \in GatewayURL /\ spent \in {0} \cup Token
      /\ procs[p].old \in {0} \cup Token
  BY DEF CliInv, CliSessionTypeOK, ProcState, Config
<1>2. spent <= issued
  BY CliAssumption DEF CliInv, CliSessionTypeOK, OnlyIssued
<1>3. /\ issued \in Nat /\ issued' = issued + 1 /\ issued' \in 0 .. MaxTokens
      /\ issued + 1 \in Token
      /\ tokens' \in [Token -> TokenRow]
      /\ tokens'[issued + 1] = [state |-> "live", by |-> procs[p].cfg.url]
      /\ \A t \in Token : t <= issued =>
            /\ tokens'[t].by = tokens[t].by
            /\ t # spent => tokens'[t] = tokens[t]
      /\ \A t \in Token : tokens'[t].state = "spent" =>
            t = spent \/ tokens[t].state = "spent"
  BY <1>1, <1>2, IssueFacts
<1>4. /\ TakeOver(procs[p].cfg, issued + 1) \in Config
      /\ TakeOver(procs[p].cfg, issued + 1).url = procs[p].cfg.url
      /\ TakeOver(procs[p].cfg, issued + 1).refresh = issued + 1
  BY <1>1, <1>3 DEF TakeOver, Config
<1>5. /\ new \in ProcState /\ new.pc = "save" /\ new.old = spent
      /\ new.cfg.url = procs[p].cfg.url /\ new.cfg.refresh = issued + 1
  BY <1>1, <1>4 DEF ProcState
<1>6. procs' = [procs EXCEPT ![p] = new]
  BY DEF Received
<1> HIDE DEF new
<1>7. procs'[p] = new /\ \A q \in Process \ {p} : procs'[q] = procs[q]
  BY <1>1, <1>6
<1>8. CliSessionTypeOK'
  BY <1>1, <1>3, <1>5, <1>6 DEF CliInv, CliSessionTypeOK
<1>9. OnlyIssued'
  <2>1. configFile.refresh <= issued + 1 /\ \A q \in Process : procs[q].cfg.refresh <= issued + 1
    BY IssuedGrows
  <2>2. QED
    BY <1>3, <1>5, <1>7, <2>1 DEF CliInv, OnlyIssued, Saving
<1>10. SavedIsPrivate'
  <2>1. /\ configFile.refresh # issued + 1
        /\ \A q \in Process : procs[q].cfg.refresh # issued + 1
    BY IssuedGrows
  <2>2. ASSUME NEW q \in Process \ {p}, Saving(q), procs[q].cfg.refresh # 0
        PROVE  tokens'[procs[q].cfg.refresh] = tokens[procs[q].cfg.refresh]
    <3>1. procs[q].cfg.refresh \in Token /\ procs[q].cfg.refresh <= issued
      BY <2>2 DEF CliInv, CliSessionTypeOK, OnlyIssued, ProcState, Config
    <3>2. procs[q].cfg.refresh # spent
      BY <2>2 DEF CliInv, SavedIsPrivate
    <3>3. QED
      BY <1>3, <3>1, <3>2
  <2>3. ASSUME NEW q \in Process, Saving(q)', procs'[q].cfg.refresh # 0
        PROVE  /\ tokens'[procs'[q].cfg.refresh] = [state |-> "live", by |-> procs'[q].cfg.url]
               /\ configFile.refresh # procs'[q].cfg.refresh
               /\ \A r \in Process \ {q} : procs'[r].cfg.refresh # procs'[q].cfg.refresh
    <3>1. CASE q = p
      BY <1>3, <1>5, <1>7, <2>1, <3>1
    <3>2. CASE q # p
      <4>1. procs'[q] = procs[q] /\ Saving(q)
        BY <1>7, <2>3, <3>2 DEF Saving
      <4>2. procs'[p].cfg.refresh # procs[q].cfg.refresh
        BY <1>5, <1>7, <2>1
      <4>3. QED
        BY <1>7, <2>2, <2>3, <3>2, <4>1, <4>2 DEF CliInv, SavedIsPrivate
    <3>3. QED
      BY <3>1, <3>2
  <2>4. QED
    BY <2>3 DEF SavedIsPrivate
<1>11. StoredLoginIsGood'
  <2> SUFFICES ASSUME configFile.refresh # 0
               PROVE  LET t == configFile.refresh
                      IN  /\ tokens'[t].by = configFile.url
                          /\ tokens'[t].state = "spent" =>
                                t \in missed \/ \E q \in Process : procs'[q].old = t
    BY DEF StoredLoginIsGood
  <2>1. configFile.refresh \in Token /\ configFile.refresh <= issued
    BY DEF CliInv, CliSessionTypeOK, OnlyIssued, Config
  <2>2. procs[p].old = 0
    BY DEF CliInv, OnlyIssued, Saving
  <2>3. QED
    BY <1>3, <1>5, <1>7, <2>1, <2>2 DEF CliInv, StoredLoginIsGood
<1>12. QED
  BY <1>8, <1>9, <1>10, <1>11 DEF CliInv

\* An exchange whose answer is lost leaves the token it spent behind, missed.
LEMMA LostKeepsInv ==
    ASSUME CliInv, NEW p \in Process, procs[p].pc = "exchange",
           Issue(procs[p].cfg.url, procs[p].cfg.refresh),
           procs' = [procs EXCEPT ![p] = IdleProc],
           missed' = missed \cup {procs[p].cfg.refresh}, UNCHANGED configFile
    PROVE  CliInv'
<1> DEFINE spent == procs[p].cfg.refresh
<1>1. /\ procs \in [Process -> ProcState] /\ procs[p].cfg.url \in GatewayURL
      /\ spent \in Token /\ spent \in {0} \cup Token /\ spent <= issued /\ procs[p].old = 0
  BY DEF CliInv, CliSessionTypeOK, OnlyIssued, Saving, ProcState, Config
<1> HIDE DEF spent
<1>2. Issue(procs[p].cfg.url, spent) /\ missed' = missed \cup {spent}
  BY DEF spent
<1>3. /\ issued \in Nat /\ issued' = issued + 1 /\ issued' \in 0 .. MaxTokens
      /\ issued + 1 \in Token
      /\ tokens' \in [Token -> TokenRow]
      /\ tokens'[issued + 1] = [state |-> "live", by |-> procs[p].cfg.url]
      /\ \A t \in Token : t <= issued =>
            /\ tokens'[t].by = tokens[t].by
            /\ t # spent => tokens'[t] = tokens[t]
      /\ \A t \in Token : tokens'[t].state = "spent" =>
            t = spent \/ tokens[t].state = "spent"
  BY <1>1, <1>2, IssueFacts
<1>4. procs'[p] = IdleProc /\ \A q \in Process \ {p} : procs'[q] = procs[q]
  BY <1>1
<1>5. IdleProc.pc = "idle" /\ IdleProc.cfg.refresh = 0 /\ IdleProc.old = 0
  BY DefaultConfigType DEF IdleProc
<1>6. CliSessionTypeOK'
  BY <1>1, <1>2, <1>3, IdleProcType DEF CliInv, CliSessionTypeOK
<1>7. OnlyIssued'
  <2>1. configFile.refresh <= issued + 1 /\ \A q \in Process : procs[q].cfg.refresh <= issued + 1
    BY IssuedGrows
  <2>2. QED
    BY <1>3, <1>4, <1>5, <2>1 DEF CliInv, OnlyIssued, Saving
<1>8. SavedIsPrivate'
  <2>1. ASSUME NEW q \in Process, Saving(q)', procs'[q].cfg.refresh # 0
        PROVE  /\ tokens'[procs'[q].cfg.refresh] = [state |-> "live", by |-> procs'[q].cfg.url]
               /\ configFile.refresh # procs'[q].cfg.refresh
               /\ \A r \in Process \ {q} : procs'[r].cfg.refresh # procs'[q].cfg.refresh
    <3>1. q # p /\ procs'[q] = procs[q] /\ Saving(q)
      BY <1>4, <1>5, <2>1 DEF Saving
    <3>2. /\ tokens[procs[q].cfg.refresh] = [state |-> "live", by |-> procs[q].cfg.url]
          /\ configFile.refresh # procs[q].cfg.refresh
          /\ \A r \in Process \ {q} : procs[r].cfg.refresh # procs[q].cfg.refresh
      BY <2>1, <3>1 DEF CliInv, SavedIsPrivate
    <3>3. /\ procs[q].cfg.refresh \in Token /\ procs[q].cfg.refresh <= issued
          /\ procs[q].cfg.refresh # spent
      BY <2>1, <3>1, <3>2 DEF CliInv, CliSessionTypeOK, OnlyIssued, ProcState, Config, spent
    <3>4. QED
      BY <1>3, <1>4, <1>5, <2>1, <3>1, <3>2, <3>3
  <2>2. QED
    BY <2>1 DEF SavedIsPrivate
<1>9. StoredLoginIsGood'
  <2> SUFFICES ASSUME configFile.refresh # 0
               PROVE  LET t == configFile.refresh
                      IN  /\ tokens'[t].by = configFile.url
                          /\ tokens'[t].state = "spent" =>
                                t \in missed' \/ \E q \in Process : procs'[q].old = t
    BY DEF StoredLoginIsGood
  <2>1. configFile.refresh \in Token /\ configFile.refresh <= issued
    BY DEF CliInv, CliSessionTypeOK, OnlyIssued, Config
  <2>2. QED
    BY <1>1, <1>2, <1>3, <1>4, <2>1 DEF CliInv, StoredLoginIsGood
<1>10. QED
  BY <1>6, <1>7, <1>8, <1>9 DEF CliInv

\* A process that only moves on, and has not begun or ended its save, keeps the
\* invariant.
LEMMA MoveKeepsInv ==
    ASSUME CliInv, NEW p \in Process,
           NEW pc \in {"exchange", "rename"},
           pc = "exchange" => procs[p].pc = "refresh",
           pc = "rename" => procs[p].pc = "save",
           procs' = [procs EXCEPT ![p].pc = pc],
           UNCHANGED <<configFile, tokens, issued, missed>>
    PROVE  CliInv'
<1>1. procs \in [Process -> ProcState]
  BY DEF CliInv, CliSessionTypeOK
<1>2. /\ procs'[p].pc = pc /\ procs'[p].cfg = procs[p].cfg /\ procs'[p].old = procs[p].old
      /\ \A q \in Process \ {p} : procs'[q] = procs[q]
  BY <1>1 DEF ProcState
<1>3. CliSessionTypeOK'
  BY <1>1 DEF CliInv, CliSessionTypeOK, ProcState
<1>4. OnlyIssued'
  BY <1>2 DEF CliInv, OnlyIssued, Saving
<1>5. SavedIsPrivate'
  BY <1>2 DEF CliInv, SavedIsPrivate, Saving
<1>6. StoredLoginIsGood'
  BY <1>2 DEF CliInv, StoredLoginIsGood
<1>7. QED
  BY <1>3, <1>4, <1>5, <1>6 DEF CliInv

\* The rename puts a token into the file that nobody else has had.
LEMMA RenameKeepsInv == ASSUME CliInv, NEW p \in Process, SaveRename(p) PROVE CliInv'
<1> DEFINE t == procs[p].cfg.refresh
<1>1. /\ procs \in [Process -> ProcState] /\ procs[p].cfg \in Config
      /\ configFile' = procs[p].cfg /\ Saving(p) /\ t <= issued
      /\ UNCHANGED <<tokens, issued, missed>>
  BY DEF CliInv, CliSessionTypeOK, OnlyIssued, ProcState, SaveRename, Saving
<1>2. procs'[p] = IdleProc /\ \A q \in Process \ {p} : procs'[q] = procs[q]
  BY <1>1 DEF SaveRename
<1>3. IdleProc.pc = "idle" /\ IdleProc.cfg.refresh = 0 /\ IdleProc.old = 0
  BY DefaultConfigType DEF IdleProc
<1>4. CliSessionTypeOK'
  BY <1>1, IdleProcType DEF CliInv, CliSessionTypeOK, SaveRename
<1>5. OnlyIssued'
  <2>1. 0 <= issued
    BY CliAssumption DEF CliInv, CliSessionTypeOK
  <2>2. QED
    BY <1>1, <1>2, <1>3, <2>1 DEF CliInv, OnlyIssued, Saving
<1>6. ASSUME t # 0
      PROVE  /\ tokens[t] = [state |-> "live", by |-> procs[p].cfg.url]
             /\ \A q \in Process \ {p} : procs[q].cfg.refresh # t
  BY <1>1, <1>6 DEF CliInv, SavedIsPrivate
<1>7. SavedIsPrivate'
  BY <1>1, <1>2, <1>3, <1>6 DEF CliInv, SavedIsPrivate, Saving
<1>8. StoredLoginIsGood'
  BY <1>1, <1>6 DEF StoredLoginIsGood
<1>9. QED
  BY <1>4, <1>5, <1>7, <1>8 DEF CliInv

\* Every step of a cynork process keeps the invariant.
LEMMA CliStepInv == ASSUME CliInv, [CliNext]_cliVars PROVE CliInv'
<1>1. configFile \in Config /\ procs \in [Process -> ProcState]
  BY DEF CliInv, CliSessionTypeOK
<1>2. ASSUME NEW u \in GatewayURL
      PROVE  [LoadConfig(u) EXCEPT !.refresh = configFile.refresh] = LoadConfig(u)
  BY <1>1 DEF LoadConfig, Config
<1>3. ASSUME NEW p \in Process, AuthLogin(p) \/ AuthRefresh(p) \/ AuthLogout(p) PROVE CliInv'
  <2>1. CASE AuthLogin(p)
    <3>1. PICK u \in GatewayURL :
              procs' = [procs EXCEPT ![p] = [pc |-> "login", cfg |-> LoadConfig(u), old |-> 0]]
      BY <2>1 DEF AuthLogin
    <3>2. procs' = [procs EXCEPT ![p] =
              [pc |-> "login", cfg |-> [LoadConfig(u) EXCEPT !.refresh = configFile.refresh],
               old |-> 0]]
      BY <1>2, <3>1
    <3>3. QED
      BY <2>1, <3>2, LoadKeepsInv DEF AuthLogin
  <2>2. CASE AuthRefresh(p)
    <3>1. PICK u \in GatewayURL :
              procs' = [procs EXCEPT ![p] = [pc |-> "refresh", cfg |-> LoadConfig(u), old |-> 0]]
      BY <2>2 DEF AuthRefresh
    <3>2. procs' = [procs EXCEPT ![p] =
              [pc |-> "refresh", cfg |-> [LoadConfig(u) EXCEPT !.refresh = configFile.refresh],
               old |-> 0]]
      BY <1>2, <3>1
    <3>3. QED
      BY <2>2, <3>2, LoadKeepsInv DEF AuthRefresh
  <2>3. CASE AuthLogout(p)
    BY <2>3, LoadKeepsInv DEF AuthLogout
  <2>4. QED
    BY <1>3, <2>1, <2>2, <2>3
<1>4. ASSUME NEW p \in Process, LoginAnswered(p) PROVE CliInv'
  BY <1>4, ReceiveKeepsInv DEF LoginAnswered
<1>5. ASSUME NEW p \in Process, RefreshLookup(p) PROVE CliInv'
  <2>1. CASE procs' = [procs EXCEPT ![p].pc = "exchange"] /\ UNCHANGED missed
    BY <1>5, <2>1, MoveKeepsInv DEF RefreshLookup
  <2>2. CASE Exits(p)
    BY <1>5, <2>2, ExitKeepsInv DEF RefreshLookup
  <2>3. QED
    BY <1>5, <2>1, <2>2 DEF RefreshLookup
<1>6. ASSUME NEW p \in Process, RefreshAnswered(p) PROVE CliInv'
  BY <1>6, ReceiveKeepsInv, LostKeepsInv DEF RefreshAnswered
<1>7. ASSUME NEW p \in Process, SaveTemp(p) PROVE CliInv'
  BY <1>7, MoveKeepsInv DEF SaveTemp
<1>8. ASSUME NEW p \in Process, GivesUp(p) PROVE CliInv'
  BY <1>8, ExitKeepsInv DEF GivesUp
<1>9. CASE UNCHANGED cliVars
  BY <1>9 DEF cliVars, CliInv, CliSessionTypeOK, OnlyIssued, SavedIsPrivate, Saving,
     StoredLoginIsGood
<1>10. QED
  BY <1>3, <1>4, <1>5, <1>6, <1>7, <1>8, <1>9, RenameKeepsInv DEF CliNext

(***************************************************************************)
(* However many cynork processes log in, refresh and log out at once, with *)
(* whatever gateways and at whatever step they are killed: the stored      *)
(* token belongs to the stored gateway and was exchanged only by a process *)
(* that is about to store its replacement, or that lost it.                *)
(***************************************************************************)
THEOREM StoredLogin == CliSpec => []StoredLoginIsGood
<1>1. CliInv => StoredLoginIsGood
  BY DEF CliInv
<1>2. QED
  BY <1>1, CliInitInv, CliStepInv, PTL DEF CliSpec

(***************************************************************************)
(* The configuration file, the tokens of the gateways and the processes    *)
(* that use them keep their types, at whatever step a process is killed.   *)
(***************************************************************************)
THEOREM CliTypes == CliSpec => []CliSessionTypeOK
<1>1. CliInv => CliSessionTypeOK
  BY DEF CliInv
<1>2. QED
  BY <1>1, CliInitInv, CliStepInv, PTL DEF CliSpec

-----------------------------------------------------------------------------
(* Following a task *)

\* The reads of a result by their number.
LEMMA ReadsAre ==
  /\ Len(GetTaskResultReads) = 2
  /\ GetTaskResultReads[1] = "task"
  /\ GetTaskResultReads[2] = "jobs"
BY DEF GetTaskResultReads

LEMMA IdleCliType == IdleCli \in CliState
BY ReadsAre DEF IdleCli, CliState, SpecStatus, taskStatusToSpec, TaskStatus

LEMMA ClientInitInv == ClientInit => ClientInv
<1>1. ClientInit => cli \in [Client -> CliState]
  BY IdleCliType DEF ClientInit
<1>2. ClientInit => \A c \in Client : WhatIsRead(c)
  BY ReadsAre DEF ClientInit, WhatIsRead, IdleCli, terminalTaskStatuses
<1>3. QED
  BY <1>1, <1>2, InitIInv DEF ClientInit, ClientInv

\* While the pipeline moves, a status that was read and is an end stays that
\* of the row.
LEMMA PipelineStep ==
  ASSUME ClientInv, [Next]_vars, UNCHANGED cli
  PROVE  ClientInv'
<1>1. IInv' /\ (cli \in [Client -> CliState])'
  BY NextIInv DEF ClientInv
<1>2. ASSUME NEW c \in Client
      PROVE  WhatIsRead(c)'
  <2>1. WhatIsRead(c) /\ IInv /\ cli[c] \in CliState
    BY DEF ClientInv
  <2>2. ASSUME cli[c].status \in terminalTaskStatuses
        PROVE  tasks'[cli[c].task].status = cli[c].status
    <3>1. /\ cli[c].task \in Task
          /\ tasks[cli[c].task].status = cli[c].status
      BY <2>1, <2>2, ReadsAre DEF WhatIsRead, CliState, terminalTaskStatuses
    <3>2. isTerminalTaskStatus(tasks[cli[c].task].status)
      BY <2>2, <3>1 DEF terminalTaskStatuses, isTerminalTaskStatus, TaskTerminal
    <3>3. tasks'[cli[c].task] = tasks[cli[c].task]
      BY <2>1, <3>1, <3>2, TerminalRowStays
    <3>4. QED
      BY <3>1, <3>3
  <2>3. QED
    BY <2>1, <2>2 DEF WhatIsRead
<1>3. QED
  BY <1>1, <1>2 DEF ClientInv

\* A command step keeps the invariant if it does for the command it is of.
LEMMA CommandStep ==
  ASSUME ClientInv, UNCHANGED vars, NEW c \in Client, NEW x \in CliState,
         cli' = [cli EXCEPT ![c] = x],
         x.pc = "asked" => x.task \in Task,
         x.pc = "idle" => x.read = 0,
         x.read = 0 => x.status = "none",
         x.status \in terminalTaskStatuses => tasks[x.task].status = x.status,
         x.read = 2 /\ x.status = "completed" => x.answer
  PROVE  ClientInv'
<1>1. IInv'
  BY NextIInv DEF ClientInv
<1>2. cli' \in [Client -> CliState]
  BY DEF ClientInv
<1>3. ASSUME NEW d \in Client
      PROVE  WhatIsRead(d)'
  <2>1. tasks' = tasks /\ cli \in [Client -> CliState] /\ WhatIsRead(d)
    BY DEF vars, ClientInv
  <2>2. CASE d = c
    BY <2>1, <2>2, ReadsAre DEF WhatIsRead
  <2>3. CASE d # c
    BY <2>1, <2>3 DEF WhatIsRead
  <2>4. QED
    BY <2>2, <2>3
<1>4. QED
  BY <1>1, <1>2, <1>3 DEF ClientInv

LEMMA AskFacts ==
  ASSUME NEW t \in Task
  PROVE  /\ Ask(t) \in CliState
         /\ Ask(t).pc = "asked" /\ Ask(t).task = t
         /\ Ask(t).read = 0 /\ Ask(t).status = "none"
BY IdleCliType DEF Ask, IdleCli, CliState

LEMMA IdleFacts ==
  IdleCli \in CliState /\ IdleCli.pc = "idle" /\ IdleCli.read = 0 /\ IdleCli.status = "none"
BY IdleCliType DEF IdleCli

LEMMA EndCommandKeeps ==
  ASSUME ClientInv, UNCHANGED vars, NEW c \in Client, EndCommand(c)
  PROVE  ClientInv'
<1> DEFINE x == IdleCli
<1>1. /\ x \in CliState /\ x.pc = "idle" /\ x.read = 0 /\ x.status = "none"
      /\ cli' = [cli EXCEPT ![c] = x]
  BY IdleFacts DEF EndCommand
<1> HIDE DEF x
<1>2. QED
  BY <1>1, CommandStep DEF terminalTaskStatuses

LEMMA AskKeeps ==
  ASSUME ClientInv, UNCHANGED vars, NEW c \in Client, NEW t \in Task,
         cli' = [cli EXCEPT ![c] = Ask(t)]
  PROVE  ClientInv'
<1> DEFINE x == Ask(t)
<1>1. /\ x \in CliState /\ x.pc = "asked" /\ x.task = t /\ x.read = 0 /\ x.status = "none"
      /\ cli' = [cli EXCEPT ![c] = x]
  BY AskFacts
<1> HIDE DEF x
<1>2. QED
  BY <1>1, CommandStep DEF terminalTaskStatuses

\* The task is read: what is held of an end is the row's status.  The jobs are
\* read: the row has completed before, so the answer is among them.
LEMMA ReadKeeps ==
  ASSUME ClientInv, NEW c \in Client, GetTaskResult(c)
  PROVE  ClientInv'
<1> DEFINE n == cli[c].read + 1
           a == Fetch(GetTaskResultReads[n], cli[c])
           x == [a EXCEPT !.read = n]
           t == cli[c].task
<1>1. /\ cli[c] \in CliState /\ cli[c].pc = "asked" /\ t \in Task
      /\ cli[c].read \in {0, 1} /\ UNCHANGED vars
      /\ WhatIsRead(c)
  BY ReadsAre DEF ClientInv, GetTaskResult, CliState, WhatIsRead
<1>2. CASE EndCommand(c)
  BY <1>1, <1>2, EndCommandKeeps
<1>3. CASE cli' = [cli EXCEPT ![c] = x] /\ cli[c].read = 0
  <2>1. x = [pc |-> "asked", task |-> t, read |-> 1,
             status |-> taskStatusToSpec(tasks[t].status), answer |-> cli[c].answer]
    <3>0. n = 1
      BY <1>3
    <3>1. a = [cli[c] EXCEPT !.status = taskStatusToSpec(tasks[t].status)]
      BY <1>3, ReadsAre DEF Fetch
    <3>2. a = [pc |-> "asked", task |-> t, read |-> 0,
               status |-> taskStatusToSpec(tasks[t].status), answer |-> cli[c].answer]
      BY <1>1, <1>3, <3>1 DEF CliState
    <3> HIDE DEF a, n
    <3>3. QED
      BY <3>0, <3>2
  <2>2. tasks[t].status \in TaskStatus
    BY <1>1 DEF ClientInv, IInv, TypeOK, TaskRow
  <2>3. x \in CliState
    BY <1>1, <2>1, <2>2, ReadsAre DEF CliState, SpecStatus
  <2>4. x.status \in terminalTaskStatuses => tasks[x.task].status = x.status
    BY <2>1, <2>2 DEF taskStatusToSpec, terminalTaskStatuses
  <2>5. /\ x.pc = "asked" /\ x.task \in Task /\ x.read = 1 /\ cli' = [cli EXCEPT ![c] = x]
    BY <1>1, <1>3, <2>1
  <2>6. /\ x.pc = "asked" => x.task \in Task
        /\ x.pc = "idle" => x.read = 0
        /\ x.read = 0 => x.status = "none"
        /\ x.status \in terminalTaskStatuses => tasks[x.task].status = x.status
        /\ x.read = 2 /\ x.status = "completed" => x.answer
    BY <2>4, <2>5
  <2> HIDE DEF x
  <2>7. QED
    BY <1>1, <2>3, <2>5, <2>6, CommandStep
<1>4. CASE cli' = [cli EXCEPT ![c] = x] /\ cli[c].read = 1
  <2>1. x = [pc |-> "asked", task |-> t, read |-> 2,
             status |-> cli[c].status, answer |-> ListsAnswer(t)]
    <3>0. n = 2
      BY <1>4
    <3>1. a = [cli[c] EXCEPT !.answer = ListsAnswer(t)]
      BY <1>4, ReadsAre DEF Fetch
    <3>2. a = [pc |-> "asked", task |-> t, read |-> 1,
               status |-> cli[c].status, answer |-> ListsAnswer(t)]
      BY <1>1, <1>4, <3>1 DEF CliState
    <3> HIDE DEF a, n
    <3>3. QED
      BY <3>0, <3>2
  <2>2. x \in CliState
    <3>1. ListsAnswer(t) \in BOOLEAN
      BY DEF ListsAnswer
    <3>2. QED
      BY <1>1, <2>1, <3>1, ReadsAre DEF CliState
  <2>3. x.status \in terminalTaskStatuses => tasks[x.task].status = x.status
    BY <1>1, <2>1 DEF WhatIsRead
  <2>4. x.status = "completed" => x.answer
    <3>1. ASSUME cli[c].status = "completed" PROVE ListsAnswer(t)
      <4>1. tasks[t].status = "completed"
        BY <1>1, <3>1 DEF WhatIsRead, terminalTaskStatuses
      <4>2. PICK j \in JobId : KeepsAnswer(t, j)
        BY <1>1, <4>1 DEF ClientInv, IInv, CompletedAnswered
      <4>3. QED
        BY <4>2 DEF KeepsAnswer, ListsAnswer, JobsOf
    <3>2. QED
      BY <2>1, <3>1
  <2>5. /\ x.pc = "asked" /\ x.task \in Task /\ x.read = 2 /\ cli' = [cli EXCEPT ![c] = x]
    BY <1>1, <1>4, <2>1
  <2>6. /\ x.pc = "asked" => x.task \in Task
        /\ x.pc = "idle" => x.read = 0
        /\ x.read = 0 => x.status = "none"
        /\ x.status \in terminalTaskStatuses => tasks[x.task].status = x.status
        /\ x.read = 2 /\ x.status = "completed" => x.answer
    BY <2>3, <2>4, <2>5
  <2> HIDE DEF x
  <2>7. QED
    BY <1>1, <2>2, <2>5, <2>6, CommandStep
<1>5. EndCommand(c) \/ cli' = [cli EXCEPT ![c] = x]
  BY DEF GetTaskResult
<1>6. QED
  BY <1>1, <1>2, <1>3, <1>4, <1>5

LEMMA ClientStepInv == ClientInv /\ [ClientNext]_clientVars => ClientInv'
<1> SUFFICES ASSUME ClientInv, [ClientNext]_clientVars PROVE ClientInv'
  OBVIOUS
<1>1. CASE [Next]_vars /\ UNCHANGED cli
  BY <1>1, PipelineStep
<1>2. ASSUME NEW c \in Client, StartCommand(c) PROVE ClientInv'
  BY <1>2, AskKeeps, OwnedAssumption DEF StartCommand
<1>3. ASSUME NEW c \in Client, GetTaskResult(c) PROVE ClientInv'
  BY <1>3, ReadKeeps
<1>4. ASSUME NEW c \in Client, Poll(c) PROVE ClientInv'
  <2>1. cli[c].task \in Task /\ UNCHANGED vars
    BY <1>4 DEF Poll, ClientInv, WhatIsRead
  <2>2. CASE cli' = [cli EXCEPT ![c] = IdleCli]
    BY <1>4, <2>1, <2>2, EndCommandKeeps DEF EndCommand
  <2>3. CASE cli' = [cli EXCEPT ![c] = Ask(cli[c].task)]
    BY <1>4, <2>1, <2>3, AskKeeps
  <2>4. QED
    BY <1>4, <2>2, <2>3 DEF Poll
<1>5. ASSUME NEW c \in Client, Return(c) PROVE ClientInv'
  BY <1>5, EndCommandKeeps DEF Return
<1>6. QED
  BY <1>1, <1>2, <1>3, <1>4, <1>5 DEF ClientNext, Follow, clientVars

(***************************************************************************)
(* Whatever dispatcher, cancellations, restarts and store faults do        *)
(* between the two reads of GetTaskResult and until its answer is printed: *)
(* an end that a command shows is the end of the task, and a completed     *)
(* task is shown with its answer.                                          *)
(***************************************************************************)
THEOREM EndShown == ClientSpec => []EndShownIsTheEnd
<1>1. ClientInv => EndShownIsTheEnd
  BY DEF ClientInv, WhatIsRead, EndShownIsTheEnd
<1>2. QED
  BY <1>1, ClientInitInv, ClientStepInv, PTL DEF ClientSpec
=============================================================================
