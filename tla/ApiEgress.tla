------------------------------ MODULE ApiEgress -----------------------------
(***************************************************************************)
(* The API egress server: may the agent that works on a task call an       *)
(* operation of an external provider for the user who created the task?    *)
(* The answer comes from three reads, of the task, of the access control   *)
(* rules and of the credentials, with other writers between them.  Nothing *)
(* in the program writes rules or credentials; an administrator does.      *)
(* An allowed operation is not implemented yet and answered 501.           *)
(*                                                                         *)
(* One user and one provider matter to a call; two operations make rules   *)
(* that match and rules that do not.                                       *)
(***************************************************************************)
EXTENDS Integers, Sequences, FiniteSets, SequencesExt

CONSTANTS
    Operation,       \* operations of the provider
    MaxRules,        \* bound: rules at a time
    MaxExpiry,       \* bound: the clock
    EgressFaults     \* faults of a statement: subset of {"fail"}

ASSUME EgressAssumption ==
    MaxRules \in Nat /\ MaxExpiry \in Nat /\ EgressFaults \subseteq {"fail"}

VARIABLES
    rules,       \* access_control_rules of the user, resource type and action
    credential,  \* the user's api_credentials row for the provider
    egress,      \* the call being served
    audited,     \* was a decision recorded in access_control_audit_log for it?
    withStore,   \* is the server connected to the database?
    today        \* the clock

egressVars == <<rules, credential, egress, audited, withStore, today>>

-----------------------------------------------------------------------------
Effect == {"allow", "deny"}

\* Two rules may be for the same operation; the one of higher priority is
\* listed first.
Rule == [resource : Operation, effect : Effect, priority : 1 .. 2]

\* expires 0: expires_at is NULL.
Credential == [isActive : BOOLEAN, expires : 0 .. MaxExpiry]
NoCredential == [isActive |-> FALSE, expires |-> 0]

EgressCall ==
    [pc : {"idle", "task", "rules", "credential", "audit", "answered"},
     operation : Operation \cup {"none"}, decision : {"none", "allow", "deny"},
     permitted : BOOLEAN,   \* did the rules permit it at a time since it arrived?
     funded : BOOLEAN]      \* ... and was there a valid credential?

NoEgress == [pc |-> "idle", operation |-> "none", decision |-> "none",
             permitted |-> FALSE, funded |-> FALSE]

EgressTypeOK ==
    /\ rules \subseteq Rule
    /\ credential \in Credential
    /\ egress \in EgressCall
    /\ audited \in BOOLEAN
    /\ withStore \in BOOLEAN
    /\ today \in 0 .. MaxExpiry

EgressInit ==
    /\ rules = {} /\ credential = NoCredential
    /\ egress = NoEgress
    /\ audited = FALSE
    /\ withStore \in BOOLEAN
    /\ today = 0

-----------------------------------------------------------------------------
(* What the tables mean *)

\* access_control.md:106-108: deny overrides, and what no rule allows is denied.
DenyOverrides(rs, operation) ==
    /\ \E r \in rs : r.resource = operation /\ r.effect = "allow"
    /\ \A r \in rs : r.resource = operation => r.effect # "deny"

\* access_control.md:131 says otherwise: the higher priority wins when several
\* rules match.
HigherWins(rs, operation) ==
    \E r \in rs :
        /\ r.resource = operation /\ r.effect = "allow"
        /\ \A d \in rs : d.resource = operation /\ d.priority > r.priority
                            => d.effect # "deny"

\* What the document permits whichever of the two it means.  The first permits
\* less: rules without a deny are permitted by either.
Permits(rs, operation) == DenyOverrides(rs, operation) /\ HigherWins(rs, operation)

Valid(cred, day) == cred.isActive /\ (cred.expires = 0 \/ cred.expires > day)

\* What the call in progress could have been told since it arrived.
Note(call, rs, cred, day) ==
    IF call.pc = "idle" THEN call
    ELSE [call EXCEPT !.permitted = @ \/ Permits(rs, call.operation),
                      !.funded = @ \/ Valid(cred, day)]

-----------------------------------------------------------------------------
(* The handler *)

EgressEnd(decision) == egress' = [egress EXCEPT !.pc = "audit", !.decision = decision]

\* ServeHTTP: a call without the bearer token or with a body that does not parse
\* is refused.  Without a database only the allowlist of providers counts.
EgressArrive ==
    /\ egress.pc = "idle"
    /\ \E operation \in Operation :
          LET call == [NoEgress EXCEPT !.pc = "task", !.operation = operation]
          IN  IF withStore THEN egress' = Note(call, rules, credential, today)
              ELSE \E decision \in Effect :
                      egress' = [call EXCEPT !.pc = "answered", !.decision = decision]
    /\ audited' = FALSE
    /\ UNCHANGED <<rules, credential, withStore, today>>

\* resolveSubjectFromTask: no task, an unknown one, or one without a creator.
ResolveSubject ==
    /\ egress.pc = "task"
    /\ \/ egress' = [egress EXCEPT !.pc = "rules"]
       \/ EgressEnd("deny")
    /\ UNCHANGED <<rules, credential, audited, withStore, today>>

\* Mutant: one rule that allows the operation is enough.
AnyAllowDecides(listed, operation) ==
    \E i \in DOMAIN listed : listed[i].resource = operation /\ listed[i].effect = "allow"

\* evaluatePolicy: denyMatch and allowMatch are set by any rule of the list, so
\* that a deny overrides.
EvaluatePolicy(listed, operation) ==
    LET match(effect) == \E i \in DOMAIN listed :
                            listed[i].resource = operation /\ listed[i].effect = effect
    IN  ~match("deny") /\ match("allow")

\* ListAccessControlRulesForApiCall, by priority, which leaves the order of
\* equals open, and the decision on the list.
ListRules ==
    /\ egress.pc = "rules"
    /\ \/ \E listed \in SetToSeqs(rules) :
             /\ \A i, j \in DOMAIN listed : i < j => listed[i].priority >= listed[j].priority
             /\ IF EvaluatePolicy(listed, egress.operation)
                THEN egress' = [egress EXCEPT !.pc = "credential"]
                ELSE EgressEnd("deny")
       \/ EgressFaults # {} /\ EgressEnd("deny")
    /\ UNCHANGED <<rules, credential, audited, withStore, today>>

\* HasActiveApiCredentialForUserAndProvider.
HasActiveCredential == credential.isActive /\ (credential.expires = 0 \/ credential.expires > today)

CheckCredential ==
    /\ egress.pc = "credential"
    /\ \/ EgressEnd(IF HasActiveCredential THEN "allow" ELSE "deny")
       \/ EgressFaults # {} /\ EgressEnd("deny")
    /\ UNCHANGED <<rules, credential, audited, withStore, today>>

\* auditLog, whose failure is only logged, and the answer.
AuditDecision ==
    /\ egress.pc = "audit"
    /\ egress' = [egress EXCEPT !.pc = "answered"]
    /\ audited' \in {TRUE} \cup (IF EgressFaults # {} THEN {FALSE} ELSE {})
    /\ UNCHANGED <<rules, credential, withStore, today>>

EgressGone ==
    /\ egress.pc = "answered"
    /\ egress' = NoEgress
    /\ audited' = FALSE
    /\ UNCHANGED <<rules, credential, withStore, today>>

-----------------------------------------------------------------------------
(* The administrator and the clock *)

ChangeRule ==
    /\ \E r \in Rule : rules' \in {rules \cup {r}, rules \ {r}} /\ rules' # rules
    /\ Cardinality(rules') <= MaxRules
    /\ egress' = Note(egress, rules', credential, today)
    /\ UNCHANGED <<credential, audited, withStore, today>>

ChangeCredential ==
    /\ \E cred \in Credential : credential' = cred /\ cred # credential
    /\ egress' = Note(egress, rules, credential', today)
    /\ UNCHANGED <<rules, audited, withStore, today>>

EgressTick ==
    /\ today < MaxExpiry /\ today' = today + 1
    /\ UNCHANGED <<rules, credential, egress, audited, withStore>>

EgressNext ==
    \/ EgressArrive \/ ResolveSubject \/ ListRules \/ CheckCredential
    \/ AuditDecision \/ EgressGone
    \/ ChangeRule \/ ChangeCredential \/ EgressTick

EgressSpec == EgressInit /\ [][EgressNext]_egressVars

-----------------------------------------------------------------------------
(* Properties *)

(***************************************************************************)
(* A call that is allowed was permitted by the rules, in both senses of    *)
(* access_control.md, and had a valid credential, each at some time after  *)
(* it arrived: what was revoked or expired before a call never lets it     *)
(* pass, in whatever order the rules are listed and whatever changes       *)
(* between the reads.                                                      *)
(***************************************************************************)
AllowedWasPermitted ==
    (withStore /\ egress.decision = "allow") => egress.permitted /\ egress.funded

-----------------------------------------------------------------------------
(* The inductive invariant behind it *)

\* What the tables say now was noted, if a call is there to be told.
EgressNoted ==
    (withStore /\ egress.pc # "idle") =>
        /\ Permits(rules, egress.operation) => egress.permitted
        /\ Valid(credential, today) => egress.funded

EgressInv ==
    /\ EgressTypeOK
    /\ IsFiniteSet(rules)
    /\ egress.pc \in {"idle", "task", "rules", "credential"} => egress.decision = "none"
    /\ withStore /\ egress.pc = "credential" => egress.permitted
    /\ EgressNoted
    /\ AllowedWasPermitted
=============================================================================
