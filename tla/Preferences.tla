----------------------------- MODULE Preferences -----------------------------
(***************************************************************************)
(* The db.preference.* tools of the MCP gateway over the table             *)
(* preference_entries: tool calls that overlap, one action per store call, *)
(* and the audit record that ends every call.  A value is named by the     *)
(* call that wrote it; the entries there are at the start were written by  *)
(* call 0.                                                                 *)
(***************************************************************************)
EXTENDS Integers, Sequences, FiniteSets, SequencesExt

CONSTANTS
    PrefScopes,   \* scopes of one task, from the least to the most specific
    PrefKeys,     \* number of keys; keys are ordered
    ListLimit,    \* MaxPreferenceListLimit
    PrefFaults,   \* faults that may happen: subset of {"fail", "lost"}
    MaxCalls,     \* bound: tool calls, numbered in the order they arrive
    MaxOpenCalls  \* bound: calls in flight at once

ASSUME PrefAssumption ==
    /\ PrefScopes \in Seq(STRING) \ {<<>>} /\ Head(PrefScopes) = "system"
    /\ PrefKeys \in Nat /\ ListLimit \in Nat \ {0}
    /\ PrefFaults \subseteq {"fail", "lost"}
    /\ MaxCalls \in Nat /\ MaxOpenCalls \in Nat

VARIABLES
    prefs,      \* preference_entries
    lastId,     \* number of entries ever made; an id is never used again
    call,       \* tool calls
    called,     \* calls that have arrived
    audit,      \* mcp_tool_call_audit_log: calls with a record, by status
    disturbed   \* calls during which another one changed an entry

prefVars == <<prefs, lastId, call, called, audit, disturbed>>

-----------------------------------------------------------------------------
CallId == 1 .. MaxCalls
Scope == ToSet(PrefScopes)
PrefKey == 1 .. PrefKeys
MaxId == Len(PrefScopes) * PrefKeys + MaxCalls

Entry == [id : 1 .. MaxId, scope : Scope, key : PrefKey,
          version : 1 .. MaxCalls + 1, value : {0} \cup CallId]

NoPref == [id |-> 0, scope |-> "system", key |-> 0, version |-> 0, value |-> 0]

CallState == [pc : {"idle", "read", "insert", "update", "delete",
                    "count", "find", "scopes", "audit", "done"},
              tool : {"get", "create", "update", "delete", "list", "effective"},
              scope : Scope, key : {0} \cup PrefKey,
              expected : 0 .. MaxCalls + 1,     \* expected_version; 0: none
              held : Entry \cup {NoPref},      \* entry the call has read
              total : Nat, offset : Nat,        \* count and cursor of a list
              seen : Seq(Entry),                \* entries listed, or effective ones
              status : {"none", "success", "error"}]

IdleCall == [pc |-> "idle", tool |-> "get", scope |-> "system", key |-> 0, expected |-> 0,
             held |-> NoPref, total |-> 0, offset |-> 0, seen |-> <<>>, status |-> "none"]

PrefTypeOK ==
    /\ prefs \subseteq Entry
    /\ lastId \in 0 .. MaxId
    /\ call \in [CallId -> CallState]
    /\ called \in 0 .. MaxCalls
    /\ audit \subseteq CallId \X {"success", "error"}
    /\ disturbed \subseteq CallId

\* The calls before the first one have left entries under any of the keys.
PrefInit ==
    /\ \E given \in SUBSET (Scope \X PrefKey) :
          LET order == SetToSeq(given)
          IN  /\ prefs = {[id |-> i, scope |-> order[i][1], key |-> order[i][2],
                             version |-> 1, value |-> 0] : i \in DOMAIN order}
              /\ lastId = Len(order)
    /\ call = [c \in CallId |-> IdleCall]
    /\ called = 0
    /\ audit = {}
    /\ disturbed = {}

-----------------------------------------------------------------------------
PrefOutcome == {"ok"} \cup PrefFaults

OpenCalls == {c \in CallId : call[c].pc \notin {"idle", "done"}}

Go(c, pc) == call' = [call EXCEPT ![c].pc = pc]

\* The tool is done; its audit record is next.
Finish(c, status) ==
    call' = [call EXCEPT ![c] = [(IF status = "error" THEN IdleCall ELSE @) EXCEPT
                                   !.pc = "audit", !.status = status]]

\* prefs becomes new, at the hands of call c.
Change(c, new) ==
    /\ prefs' = new
    /\ disturbed' = IF new = prefs THEN disturbed ELSE disturbed \cup (OpenCalls \ {c})

Under(scope, key) == {e \in prefs : e.scope = scope /\ e.key = key}

\* The handler of a tool has its arguments and makes its first store call next.
Start(c, pc, tool, scope, key, expected) ==
    call' = [call EXCEPT ![c].pc = pc, ![c].tool = tool, ![c].scope = scope,
                         ![c].key = key, ![c].expected = expected]

PreferenceGet(c) == \E scope \in Scope, key \in PrefKey : Start(c, "read", "get", scope, key, 0)

PreferenceCreate(c) ==
    \E scope \in Scope, key \in PrefKey : Start(c, "read", "create", scope, key, 0)

PreferenceUpdate(c) ==
    \E scope \in Scope, key \in PrefKey, expected \in 0 .. 2 :
        Start(c, "read", "update", scope, key, expected)

PreferenceDelete(c) ==
    \E scope \in Scope, key \in PrefKey, expected \in 0 .. 2 :
        Start(c, "read", "delete", scope, key, expected)

PreferenceList(c) == \E scope \in Scope : Start(c, "count", "list", scope, 0, 0)

PreferenceEffective(c) == Start(c, "scopes", "effective", "system", 0, 0)

\* Calls with missing arguments are denied, with an audit record and no change.
ToolCall(c) ==
    /\ c = called + 1 /\ Cardinality(OpenCalls) < MaxOpenCalls
    /\ called' = c
    /\ \/ PreferenceGet(c) \/ PreferenceCreate(c) \/ PreferenceUpdate(c) \/ PreferenceDelete(c)
       \/ PreferenceList(c) \/ PreferenceEffective(c)
       \/ Finish(c, "error")
    /\ UNCHANGED <<prefs, lastId, audit, disturbed>>

\* Mutant: any version will do.
AnyVersion(c, e) == TRUE

\* expected_version is optional.
VersionMatches(c, e) == call[c].expected \in {0, e.version}

\* GetPreference, the first store call of get, create, update and delete.
PrefRead(c) ==
    /\ call[c].pc = "read"
    /\ LET found == Under(call[c].scope, call[c].key)
       IN  \/ PrefFaults # {} /\ Finish(c, "error")
           \/ /\ found = {}
              /\ IF call[c].tool = "create" THEN Go(c, "insert") ELSE Finish(c, "error")
           \/ \E e \in found :
                 CASE call[c].tool = "get" -> Finish(c, "success")
                   [] call[c].tool = "create" -> Finish(c, "error")
                   [] OTHER -> IF VersionMatches(c, e)
                               THEN call' = [call EXCEPT ![c].pc = call[c].tool, ![c].held = e]
                               ELSE Finish(c, "error")
    /\ UNCHANGED <<prefs, lastId, called, audit, disturbed>>

\* The unique index does not see a scope_id that is NULL, as it is for "system".
Indexed(scope, key) == scope # "system" /\ Under(scope, key) # {}

PrefInsert(c) ==
    /\ call[c].pc = "insert"
    /\ \E o \in PrefOutcome :
          IF o = "fail" \/ Indexed(call[c].scope, call[c].key)
          THEN Finish(c, "error") /\ UNCHANGED <<prefs, lastId, disturbed>>
          ELSE /\ lastId' = lastId + 1
               /\ Change(c, prefs \cup {[id |-> lastId + 1, scope |-> call[c].scope,
                                           key |-> call[c].key, version |-> 1, value |-> c]})
               /\ Finish(c, IF o = "ok" THEN "success" ELSE "error")
    /\ UNCHANGED <<called, audit>>

\* Mutant: the row is saved, and inserted if it is not there.
SaveHeld(c) ==
    LET e == call[c].held
    IN  {x \in prefs : x.id # e.id} \cup {[e EXCEPT !.version = @ + 1, !.value = c]}

\* By primary key, with the version that was read plus one.  An entry that is
\* gone is not updated, and nobody notices.
UpdateHeld(c) ==
    LET e == call[c].held
    IN  {IF x.id = e.id THEN [x EXCEPT !.version = e.version + 1, !.value = c] ELSE x :
           x \in prefs}

PrefWrite(c) ==
    /\ call[c].pc \in {"update", "delete"}
    /\ \E o \in PrefOutcome :
          /\ Change(c, IF o = "fail" THEN prefs
                       ELSE IF call[c].pc = "update" THEN UpdateHeld(c)
                       ELSE {x \in prefs : x.id # call[c].held.id})
          /\ Finish(c, IF o = "ok" THEN "success" ELSE "error")
    /\ UNCHANGED <<lastId, called, audit>>

-----------------------------------------------------------------------------
(* Lists *)

InScope(scope) == {e \in prefs : e.scope = scope}

\* Entries of a scope in the order of their keys; entries of one key, in any.
Sorted(scope) ==
    {s \in SetToSeqs(InScope(scope)) : \A i, j \in DOMAIN s : i < j => s[i].key <= s[j].key}

\* At most n entries from an offset on, as the query may return them.
Pages(scope, offset, n) ==
    {SubSeq(s, offset + 1, IF offset + n < Len(s) THEN offset + n ELSE Len(s)) :
        s \in Sorted(scope)}

ListCount(c) ==
    /\ call[c].pc = "count"
    /\ \/ PrefFaults # {} /\ Finish(c, "error")
       \/ call' = [call EXCEPT ![c].pc = "find", ![c].total = Cardinality(InScope(call[c].scope))]
    /\ UNCHANGED <<prefs, lastId, called, audit, disturbed>>

\* Mutant: the cursor skips the entry that showed that there are more.
CursorPastExtra(c, page) == call[c].offset + Len(page)

NextCursor(c, page) ==
    call[c].offset + (IF Len(page) > ListLimit THEN ListLimit ELSE Len(page))

\* One more entry than the limit is asked for.  The client follows the cursor
\* with its next call, which is not told apart from this one, until there is
\* none or nothing comes.
ListFind(c) ==
    /\ call[c].pc = "find"
    /\ \E page \in Pages(call[c].scope, call[c].offset, ListLimit + 1) :
       LET shown == IF Len(page) > ListLimit THEN Front(page) ELSE page
           next == NextCursor(c, page)
           more == page # <<>> /\ (Len(page) > ListLimit \/ next < call[c].total)
       IN  \/ PrefFaults # {} /\ Finish(c, "error")
           \/ call' = [call EXCEPT ![c].seen = @ \o shown, ![c].offset = next, ![c].total = 0,
                                   ![c].pc = IF more THEN "count" ELSE "audit",
                                   ![c].status = IF more THEN "none" ELSE "success"]
    /\ UNCHANGED <<prefs, lastId, called, audit, disturbed>>

\* The last entry of each key of a page.
LastOfKeys(page) ==
    {page[i] : i \in {i \in DOMAIN page : \A j \in DOMAIN page : page[j].key = page[i].key => j <= i}}

\* The effective entries are a map: each entry of the page replaces the one that
\* its key has so far, and the keys have no order.  The column is jsonb: a value parses.
FoldScope(seen, page) ==
    SetToSeq({x \in ToSet(seen) : \A e \in LastOfKeys(page) : e.key # x.key}
               \cup LastOfKeys(page))

\* GetEffectivePreferencesForTask, one scope per step; offset counts the scopes.
\* A task that is not there ends the call like a missing argument.
EffectiveScope(c) ==
    /\ call[c].pc = "scopes"
    /\ LET n == call[c].offset + 1
       IN  \/ PrefFaults # {} /\ Finish(c, "error")
           \/ \E page \in Pages(PrefScopes[n], 0, ListLimit) : call' = [call EXCEPT ![c].offset = n,
                                   ![c].seen = FoldScope(@, page),
                                   ![c].pc = IF n = Len(PrefScopes) THEN "audit" ELSE "scopes",
                                   ![c].status = IF n = Len(PrefScopes) THEN "success" ELSE "none"]
    /\ UNCHANGED <<prefs, lastId, called, audit, disturbed>>

-----------------------------------------------------------------------------
\* The call is answered, and what it held is gone.
Respond(c, status) == call' = [call EXCEPT ![c] = [IdleCall EXCEPT !.pc = "done", !.status = status]]

\* Without its record no call succeeds; what it has changed stays.
WriteAudit(c) ==
    /\ call[c].pc = "audit"
    /\ \E o \in PrefOutcome :
          /\ audit' = IF o = "fail" THEN audit ELSE audit \cup {<<c, call[c].status>>}
          /\ Respond(c, IF o = "ok" THEN call[c].status ELSE "error")
    /\ UNCHANGED <<prefs, lastId, called, disturbed>>

PrefNext ==
    \E c \in CallId :
        \/ ToolCall(c) \/ PrefRead(c) \/ PrefInsert(c) \/ PrefWrite(c)
        \/ ListCount(c) \/ ListFind(c) \/ EffectiveScope(c) \/ WriteAudit(c)

PrefSpec == PrefInit /\ [][PrefNext]_prefVars

-----------------------------------------------------------------------------
(* The inductive invariant behind the properties of updates and deletes *)

Quiet(c) == call[c].pc = "audit" /\ call[c].status = "success" /\ c \notin disturbed

\* What an update makes of the entry it has read.
Raised(e, c) == [e EXCEPT !.version = @ + 1, !.value = c]

\* The change that call c held an entry for was to the version its caller
\* expected, and is there to be seen.
MadeToExpected(c) ==
    LET held == call[c].held
        now == {e \in prefs : e.id = held.id}
    IN  /\ call[c].expected \in {0, held.version}
        /\ now = IF call[c].tool = "delete" THEN {} ELSE {Raised(held, c)}

\* An entry without the bounds of Entry.
Row == [id : Nat, scope : Scope, key : PrefKey, version : Nat, value : {0} \cup CallId]

\* An id has one entry, and ids are given out in order.
RowsOK ==
    /\ prefs \subseteq Row /\ lastId \in Nat
    /\ \A e \in prefs : e.id <= lastId
    /\ \A d, e \in prefs : d.id = e.id => d = e

\* Calls, with whatever they have counted and listed.
PrefCalls(counts, lists) ==
    [pc : {"idle", "read", "insert", "update", "delete",
           "count", "find", "scopes", "audit", "done"},
     tool : {"get", "create", "update", "delete", "list", "effective"},
     scope : Scope, key : {0} \cup PrefKey, expected : Nat,
     held : Row \cup {NoPref},
     total : counts, offset : counts, seen : lists,
     status : {"none", "success", "error"}]

\* Where a call is tells its tool; until another call changes something, the
\* entry that an update or a delete holds is the one in the table.
PrefCallOK(c) ==
    /\ call[c].pc = "read" => call[c].tool \in {"get", "create", "update", "delete"}
    /\ call[c].pc = "insert" => call[c].tool = "create"
    /\ call[c].pc \in {"read", "insert"} => call[c].key \in PrefKey
    /\ call[c].pc \in {"count", "find"} => call[c].tool = "list"
    /\ call[c].pc = "scopes" => call[c].tool = "effective"
    /\ call[c].pc \in {"update", "delete"} =>
          /\ call[c].tool = call[c].pc
          /\ c \notin disturbed => /\ call[c].held \in prefs
                                   /\ call[c].expected \in {0, call[c].held.version}
    /\ Quiet(c) /\ call[c].tool \in {"update", "delete"} => MadeToExpected(c)

PrefInv ==
    /\ RowsOK
    /\ call \in [CallId -> PrefCalls({call[c].total : c \in CallId} \cup {call[c].offset : c \in CallId},
                                     {call[c].seen : c \in CallId})]
    /\ \A c \in CallId : PrefCallOK(c)

-----------------------------------------------------------------------------
(* Properties *)

(***************************************************************************)
(* An update or delete that says it succeeded, and that no other change    *)
(* came in the way of, was made to the version its caller expected and is  *)
(* there to be seen.                                                       *)
(***************************************************************************)
ExpectedVersionHonoured ==
    \A c \in CallId :
        Quiet(c) /\ call[c].tool \in {"update", "delete"} => MadeToExpected(c)

(***************************************************************************)
(* A deleted entry never comes back, whatever late update has read it: a   *)
(* step that adds an entry adds one with a new id.                         *)
(***************************************************************************)
DeletedStaysDeleted ==
    [][\A e \in prefs' : e.id > lastId \/ \E d \in prefs : d.id = e.id]_prefVars

\* A map has one entry per key: of the first k scopes, one from the most specific
\* that has the key.  A scope of more than ListLimit entries is not read to its end.
Overrides(seen, k) ==
    /\ ToSet(seen) \subseteq prefs
    /\ \A d, e \in ToSet(seen) : d.key = e.key => d = e
    /\ \A i \in 1 .. k : Cardinality(InScope(PrefScopes[i])) <= ListLimit =>
          \A e \in InScope(PrefScopes[i]) :
              \E d \in ToSet(seen), j \in i .. k : d.key = e.key /\ d.scope = PrefScopes[j]

(***************************************************************************)
(* If nothing was changed on the way, following the cursors of a list      *)
(* shows every entry of the scope once, in order, unless a key has two of  *)
(* them; and the effective preferences of a task have, for every key, an   *)
(* entry that no entry of a more specific scope overrides.                 *)
(***************************************************************************)
ListIsComplete ==
    \A c \in CallId :
        /\ (Quiet(c) /\ call[c].tool = "list") =>
              \A s \in Sorted(call[c].scope) : Sorted(call[c].scope) = {s} => call[c].seen = s
        /\ (Quiet(c) /\ call[c].tool = "effective") => Overrides(call[c].seen, Len(PrefScopes))

-----------------------------------------------------------------------------
(* The inductive invariants behind ListIsComplete, together with PrefInv *)

Listing(c) == call[c].pc \in {"count", "find"}

\* Until another call changes something, the cursor of a list is as far in the
\* scope as its client has seen.
ListedSoFar(c, s) ==
    /\ call[c].offset <= Len(s)
    /\ call[c].seen = SubSeq(s, 1, call[c].offset)
    /\ call[c].pc = "find" => call[c].total = Len(s)

ListOK(c) ==
    /\ Listing(c) => call[c].offset \in Nat
    /\ Listing(c) /\ c \notin disturbed =>
          \A s \in Sorted(call[c].scope) : Sorted(call[c].scope) = {s} => ListedSoFar(c, s)
    /\ Quiet(c) /\ call[c].tool = "list" =>
          \A s \in Sorted(call[c].scope) : Sorted(call[c].scope) = {s} => call[c].seen = s

ListInv ==
    /\ IsFiniteSet(prefs)
    /\ called \in Nat
    /\ \A c \in CallId : (c > called => call[c] = IdleCall) /\ ListOK(c)

\* The same for the scopes that a call for the effective entries has read.
EffectiveOK(c) ==
    /\ call[c].pc = "scopes" /\ c \notin disturbed => Overrides(call[c].seen, call[c].offset)
    /\ Quiet(c) /\ call[c].tool = "effective" => Overrides(call[c].seen, Len(PrefScopes))

EffectiveInv == \A c \in CallId : EffectiveOK(c)

-----------------------------------------------------------------------------
(* The inductive invariant behind PrefTypeOK, together with PrefInv and ListInv *)

\* A call changes the table once at most, as its tool is done.
Ready == {c \in CallId : call[c].pc \in {"audit", "done"}}

\* Rows as n calls may leave them: each of them makes or raises one at most.
RowsWithin(n) ==
    {e \in Row : /\ e.id \in 1 .. Len(PrefScopes) * PrefKeys + n
                 /\ e.version \in 1 .. n + 1}

CallWithin(r, n) ==
    /\ r.expected <= MaxCalls + 1
    /\ r.held \in RowsWithin(n) \cup {NoPref}
    /\ r.total \in Nat /\ r.offset \in Nat
    /\ r.seen \in Seq(RowsWithin(n))
    /\ r.pc = "scopes" => r.offset < Len(PrefScopes)
    /\ r.pc = "audit" => r.status \in {"success", "error"}

PrefBounds ==
    /\ called <= MaxCalls
    /\ lastId <= Len(PrefScopes) * PrefKeys + Cardinality(Ready)
    /\ prefs \subseteq RowsWithin(Cardinality(Ready))
    /\ \A c \in CallId : CallWithin(call[c], Cardinality(Ready))
    /\ audit \subseteq CallId \X {"success", "error"}
    /\ disturbed \subseteq CallId
=============================================================================
