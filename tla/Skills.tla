------------------------------- MODULE Skills -------------------------------
(***************************************************************************)
(* The skills table of the orchestrator and the two doors to it: the REST  *)
(* endpoints of the user gateway, where the caller is the authenticated    *)
(* user, and the skills tools of the MCP gateway, where the caller is the  *)
(* creator of the task that the agent names.  Each door reads the skill    *)
(* and decides, then calls a store function that reads it once more, and   *)
(* every read and write is a statement of its own.                         *)
(*                                                                         *)
(* A text is who wrote it and whether ScanContent finds a forbidden phrase *)
(* in it.  Names, scopes and the filters of List are left out: a request   *)
(* to change only them is an update without content.                       *)
(***************************************************************************)
EXTENDS Integers, FiniteSets

CONSTANTS
    User,        \* users
    MaxSkills,   \* bound: skills ever created, besides the default skill
    SkillSlot,   \* bound: calls at a time
    SkillFaults  \* faults of a statement: subset of {"fail", "lost"}

ASSUME SkillsAssumption ==
    /\ MaxSkills \in Nat /\ IsFiniteSet(SkillSlot)
    /\ SkillFaults \subseteq {"fail", "lost"}
    /\ User \cap {"gateway", "none"} = {}

VARIABLES
    skills,     \* skills table
    created,    \* number of skills created so far
    skillCall   \* the calls being served

skillVars == <<skills, created, skillCall>>

-----------------------------------------------------------------------------
DefaultSkillID == 0
SkillId == 0 .. MaxSkills

\* owner "gateway": owner_id is NULL, in the default skill.
Skill == [owner : User \cup {"gateway"}, isSystem : BOOLEAN,
          by : User \cup {"gateway"}, flagged : BOOLEAN]
NoSkill == [owner |-> "none", isSystem |-> FALSE, by |-> "none", flagged |-> FALSE]
SystemSkill == [owner |-> "gateway", isSystem |-> TRUE, by |-> "gateway", flagged |-> FALSE]

SkillCall ==
    [pc : {"idle", "task", "insert", "list", "get", "read", "dbRead", "dbWrite", "reread",
           "ensureWrite", "audit", "answered"},
     op : {"none", "load", "list", "get", "update", "delete", "ensure"},
     door : {"rest", "mcp"},
     user : User \cup {"gateway"},
     id : SkillId,
     content : {"none", "clean", "flagged"},   \* "none": content is not to be changed
     found : BOOLEAN,                          \* what EnsureDefaultSkill read
     took : BOOLEAN,                           \* has this call changed a row?
     shown : SUBSET SkillId,
     out : {"none", "ok", "notFound", "rejected", "error"}]

NoSkillCall ==
    [pc |-> "idle", op |-> "none", door |-> "rest", user |-> "gateway", id |-> 0,
     content |-> "none", found |-> FALSE, took |-> FALSE, shown |-> {}, out |-> "none"]

SkillsTypeOK ==
    /\ skills \in [SkillId -> Skill \cup {NoSkill}]
    /\ created \in 0 .. MaxSkills
    /\ skillCall \in [SkillSlot -> SkillCall]

SkillsInit ==
    /\ skills = [s \in SkillId |-> NoSkill]
    /\ created = 0
    /\ skillCall = [c \in SkillSlot |-> NoSkillCall]

-----------------------------------------------------------------------------
(* Steps of a call *)

SkillOutcome == {"ok"} \cup SkillFaults

SkillGo(c, pc) == skillCall' = [skillCall EXCEPT ![c].pc = pc]

\* A call that ends with out; through the MCP gateway it writes its audit
\* record before it answers.
EndOf(call, out) ==
    [NoSkillCall EXCEPT !.pc = IF call.door = "mcp" THEN "audit" ELSE "answered",
                        !.out = out, !.op = call.op, !.user = call.user, !.id = call.id,
                        !.took = call.took, !.shown = call.shown]

EndAs(c, out) == EndOf(skillCall[c], out)

SkillEnd(c, out) == skillCall' = [skillCall EXCEPT ![c] = EndAs(c, out)]

SkillExists(s) == skills[s] # NoSkill

\* The test of both doors, before a skill is shown, changed or deleted.
MayTouch(user, s) == skills[s].isSystem \/ skills[s].owner = user

\* Where the handler of a call does its first store call after the subject is
\* known.  New content of a load is scanned before.
FirstStep(op) == CASE op = "load" -> "insert" [] op = "list" -> "list" [] op = "get" -> "get"
                   [] OTHER -> "read"

AfterSubject(call) ==
    IF call.op = "load" /\ call.content = "flagged"
    THEN EndOf(call, "rejected")
    ELSE [call EXCEPT !.pc = FirstStep(call.op)]

\* Loads that may still create a skill.
Loads == {c \in SkillSlot : skillCall[c].op = "load" /\ skillCall[c].out = "none"}
Loading == Cardinality(Loads)

\* List, Get, Load, Update and Delete at either door.  A request that does not
\* parse, or has no content to load, is refused before the store is called.
SkillArrive(c) ==
    /\ skillCall[c].pc = "idle"
    /\ \E op \in {"load", "list", "get", "update", "delete"}, door \in {"rest", "mcp"},
          user \in User, id \in 0 .. created, content \in {"none", "clean", "flagged"} :
          /\ op \in {"load", "list"} => id = DefaultSkillID
          /\ op = "load" => content # "none" /\ created + Loading < MaxSkills
          /\ op \notin {"load", "update"} => content = "none"
          /\ LET call == [NoSkillCall EXCEPT !.op = op, !.door = door, !.user = user,
                                             !.id = id, !.content = content]
             IN  skillCall' = [skillCall EXCEPT
                                 ![c] = IF door = "mcp" THEN [call EXCEPT !.pc = "task"]
                                        ELSE AfterSubject(call)]
    /\ UNCHANGED <<skills, created>>

\* GetTaskByID: the subject is task.CreatedBy; the task may be unknown or have
\* no creator.
SubjectOfTask(c) ==
    /\ skillCall[c].pc = "task"
    /\ \/ skillCall' = [skillCall EXCEPT ![c] = AfterSubject(skillCall[c])]
       \/ \E out \in {"notFound", "error"} : SkillEnd(c, out)
    /\ UNCHANGED <<skills, created>>

\* CreateSkill.
CreateSkill(c) ==
    /\ skillCall[c].pc = "insert"
    /\ \E o \in SkillOutcome :
          /\ IF o = "fail" THEN UNCHANGED <<skills, created>>
             ELSE /\ created' = created + 1
                  /\ skills' = [skills EXCEPT ![created'] =
                        [owner |-> skillCall[c].user, isSystem |-> FALSE,
                         by |-> skillCall[c].user, flagged |-> skillCall[c].content = "flagged"]]
          /\ skillCall' = [skillCall EXCEPT ![c] =
                [EndAs(c, IF o = "ok" THEN "ok" ELSE "error") EXCEPT !.took = (o # "fail")]]

\* The system skill and those of the user.
Visible(user) == {s \in SkillId : SkillExists(s) /\ (skills[s].isSystem \/ skills[s].owner = user)}

ListSkillsForUser(c) ==
    /\ skillCall[c].pc = "list"
    /\ \/ skillCall' = [skillCall EXCEPT ![c] =
             [EndAs(c, "ok") EXCEPT !.shown = Visible(skillCall[c].user)]]
       \/ "fail" \in SkillFaults /\ SkillEnd(c, "error")
    /\ UNCHANGED <<skills, created>>

\* Get: a skill of somebody else is not found.
GetSkill(c) ==
    /\ skillCall[c].pc = "get"
    /\ LET s == skillCall[c].id IN
       \/ /\ SkillExists(s) /\ MayTouch(skillCall[c].user, s)
          /\ skillCall' = [skillCall EXCEPT ![c] = [EndAs(c, "ok") EXCEPT !.shown = {s}]]
       \/ ~(SkillExists(s) /\ MayTouch(skillCall[c].user, s)) /\ SkillEnd(c, "notFound")
       \/ "fail" \in SkillFaults /\ SkillEnd(c, "error")
    /\ UNCHANGED <<skills, created>>

\* ScanContent of the new content of an update.
ScanRejects(content) == content = "flagged"

\* Update up to its store call: getSkillForWrite, which everybody gets past with
\* the system skill, and the scan.
GetSkillForWrite(c) ==
    /\ skillCall[c].pc = "read" /\ skillCall[c].op = "update"
    /\ LET s == skillCall[c].id
           mayWrite == SkillExists(s) /\ MayTouch(skillCall[c].user, s)
       IN  \/ ~mayWrite /\ SkillEnd(c, "notFound")
           \/ mayWrite /\ ScanRejects(skillCall[c].content) /\ SkillEnd(c, "rejected")
           \/ mayWrite /\ ~ScanRejects(skillCall[c].content) /\ SkillGo(c, "dbRead")
           \/ "fail" \in SkillFaults /\ SkillEnd(c, "error")
    /\ UNCHANGED <<skills, created>>

\* Delete up to its store call, with the same test.
GetSkillForDelete(c) ==
    /\ skillCall[c].pc = "read" /\ skillCall[c].op = "delete"
    /\ LET s == skillCall[c].id
           mayDelete == SkillExists(s) /\ MayTouch(skillCall[c].user, s)
       IN  \/ ~mayDelete /\ SkillEnd(c, "notFound")
           \/ mayDelete /\ SkillGo(c, "dbRead")
           \/ "fail" \in SkillFaults /\ SkillEnd(c, "error")
    /\ UNCHANGED <<skills, created>>

\* Mutant: the store relies on its callers.
AnyRowWritable(s) == TRUE

\* UpdateSkill and DeleteSkill refuse the system skill.
RowWritable(s) == ~skills[s].isSystem

\* UpdateSkill and DeleteSkill read the row.
DbRead(c) ==
    /\ skillCall[c].pc = "dbRead"
    /\ LET s == skillCall[c].id IN
       \/ ~SkillExists(s) /\ SkillEnd(c, "notFound")
       \/ SkillExists(s) /\ ~RowWritable(s) /\ SkillEnd(c, "error")
       \/ SkillExists(s) /\ RowWritable(s) /\ SkillGo(c, "dbWrite")
       \/ "fail" \in SkillFaults /\ SkillEnd(c, "error")
    /\ UNCHANGED <<skills, created>>

\* The row after the UPDATE of the given columns; a row that is gone stays gone.
Updated(c) ==
    LET s == skillCall[c].id IN
    IF ~SkillExists(s) \/ skillCall[c].content = "none" THEN skills[s]
    ELSE [skills[s] EXCEPT !.by = skillCall[c].user,
                           !.flagged = skillCall[c].content = "flagged"]

\* Mutant: the update answers with the row it read at first.
EndWithoutReread(c, existed) == SkillEnd(c, "ok")

\* The end of UpdateSkill reads the row once more.
RereadAfter(c, existed) ==
    skillCall' = [skillCall EXCEPT ![c].pc = "reread", ![c].took = existed]

\* The UPDATE statement.
DbUpdate(c) ==
    /\ skillCall[c].pc = "dbWrite" /\ skillCall[c].op = "update"
    /\ \E o \in SkillOutcome :
          /\ skills' = IF o = "fail" THEN skills
                       ELSE [skills EXCEPT ![skillCall[c].id] = Updated(c)]
          /\ IF o = "ok" THEN RereadAfter(c, SkillExists(skillCall[c].id)) ELSE SkillEnd(c, "error")
    /\ UNCHANGED created

Reread(c) ==
    /\ skillCall[c].pc = "reread"
    /\ \/ SkillEnd(c, IF SkillExists(skillCall[c].id) THEN "ok" ELSE "notFound")
       \/ "fail" \in SkillFaults /\ SkillEnd(c, "error")
    /\ UNCHANGED <<skills, created>>

\* The DELETE statement; one that finds no row is no error.
DbDelete(c) ==
    /\ skillCall[c].pc = "dbWrite" /\ skillCall[c].op = "delete"
    /\ \E o \in SkillOutcome :
          /\ skills' = IF o = "fail" THEN skills
                       ELSE [skills EXCEPT ![skillCall[c].id] = NoSkill]
          /\ SkillEnd(c, IF o = "ok" THEN "ok" ELSE "error")
    /\ UNCHANGED created

\* A user gateway starts; EnsureDefaultSkill takes any error of its read for
\* "not there".
EnsureRead(c) ==
    /\ skillCall[c].pc = "idle"
    /\ \E found \in {SkillExists(DefaultSkillID)}
                      \cup (IF "fail" \in SkillFaults THEN {FALSE} ELSE {}) :
          skillCall' = [skillCall EXCEPT ![c] = [NoSkillCall EXCEPT !.pc = "ensureWrite",
                                                    !.op = "ensure", !.found = found]]
    /\ UNCHANGED <<skills, created>>

\* The INSERT fails on the primary key when the skill is there; the UPDATE sets
\* the content.
EnsureWrite(c) ==
    /\ skillCall[c].pc = "ensureWrite"
    /\ \E o \in SkillOutcome :
       LET conflict == ~skillCall[c].found /\ SkillExists(DefaultSkillID) IN
          /\ skills' = IF o = "fail" \/ conflict THEN skills
                       ELSE [skills EXCEPT ![DefaultSkillID] = SystemSkill]
          /\ SkillEnd(c, IF o = "ok" /\ ~conflict THEN "ok" ELSE "error")
    /\ UNCHANGED created

\* routeAndWriteAudit: without its record a call is answered with an error.
SkillAudit(c) ==
    /\ skillCall[c].pc = "audit"
    /\ \/ SkillEnd(c, skillCall[c].out)
       \/ SkillFaults # {} /\ SkillEnd(c, "error")
    /\ UNCHANGED <<skills, created>>

SkillGone(c) ==
    /\ skillCall[c].pc = "answered"
    /\ skillCall' = [skillCall EXCEPT ![c] = NoSkillCall]
    /\ UNCHANGED <<skills, created>>

SkillsNext ==
    \E c \in SkillSlot :
        \/ SkillArrive(c) \/ SubjectOfTask(c)
        \/ CreateSkill(c) \/ ListSkillsForUser(c) \/ GetSkill(c)
        \/ GetSkillForWrite(c) \/ GetSkillForDelete(c) \/ DbRead(c) \/ DbUpdate(c) \/ Reread(c) \/ DbDelete(c)
        \/ EnsureRead(c) \/ EnsureWrite(c) \/ SkillAudit(c) \/ SkillGone(c)

SkillsSpec == SkillsInit /\ [][SkillsNext]_skillVars

-----------------------------------------------------------------------------
(* The inductive invariant behind the safety properties *)

\* Ids are given out in order, the default skill is the system skill, and a
\* text was written by the owner and passed the scan.
SkillRowsOK ==
    \A s \in SkillId : SkillExists(s) =>
        /\ s <= created
        /\ skills[s].by = skills[s].owner /\ ~skills[s].flagged
        /\ (s = DefaultSkillID) <=> skills[s].isSystem

\* A skill that a call decided about is, while it is there, that of its user:
\* an id is not used again.
StillOf(user, s) == s = DefaultSkillID \/ (SkillExists(s) => skills[s].owner = user)

\* How far a call has come and what it may rely on.  Past the store's own read
\* it is not about the default skill; one that was told of success has changed
\* a row, or the row is gone.
SkillCallOK(call) ==
    /\ call.id <= created
    /\ \A s \in call.shown : s <= created /\ StillOf(call.user, s)
    /\ call.pc \in {"audit", "answered"} <=> call.out # "none"
    /\ call.pc = "task" => call.op \in {"load", "list", "get", "update", "delete"}
    /\ call.pc = "task" /\ call.op = "load" => call.content # "none"
    /\ call.pc = "insert" => call.op = "load" /\ call.content = "clean"
    /\ call.pc \in {"list", "get"} => call.op = call.pc
    /\ call.pc = "ensureWrite" => call.op = "ensure"
    /\ call.pc \in {"read", "dbRead", "dbWrite"} => call.op \in {"update", "delete"}
    /\ call.pc \in {"dbRead", "dbWrite"} =>
          /\ call.op = "update" => call.content # "flagged"
          /\ StillOf(call.user, call.id)
    /\ call.pc \in {"dbWrite", "reread"} => call.id # DefaultSkillID
    /\ call.pc = "reread" => call.op = "update" /\ (call.took \/ ~SkillExists(call.id))
    /\ call.out = "ok" =>
          /\ call.op \in {"load", "update"} => call.took
          /\ call.op = "delete" => call.id # DefaultSkillID /\ ~SkillExists(call.id)

SkillsInv ==
    /\ SkillsTypeOK
    /\ created + Loading <= MaxSkills
    /\ SkillRowsOK
    /\ \A c \in SkillSlot : SkillCallOK(skillCall[c])

-----------------------------------------------------------------------------
(* Properties *)

(***************************************************************************)
(* Whatever calls overlap at the two doors: the text of a skill was        *)
(* written by its owner and has passed the scan; the default skill, which  *)
(* the doors let everybody through to, has the text of the gateway; and    *)
(* nobody is shown the skill of another user.                              *)
(***************************************************************************)
SkillsStayWithOwners ==
    /\ \A s \in SkillId : SkillExists(s) =>
          /\ skills[s].by = skills[s].owner /\ ~skills[s].flagged
          /\ (s = DefaultSkillID) <=> skills[s].isSystem
    /\ \A c \in SkillSlot, s \in SkillId :
          (s \in skillCall[c].shown /\ SkillExists(s)) =>
              s = DefaultSkillID \/ skills[s].owner = skillCall[c].user

(***************************************************************************)
(* A caller who is told that his skill was updated has changed a row that  *)
(* was there, even if another call deleted it between his reads; one who   *)
(* is told that it was deleted will not find it again.                     *)
(***************************************************************************)
OkMeansWritten ==
    \A c \in SkillSlot :
        (skillCall[c].pc = "answered" /\ skillCall[c].out = "ok") =>
            /\ skillCall[c].op \in {"load", "update"} => skillCall[c].took
            /\ skillCall[c].op = "delete" => ~SkillExists(skillCall[c].id)
=============================================================================
