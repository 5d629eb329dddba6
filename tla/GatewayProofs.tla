---------------------------- MODULE GatewayProofs ---------------------------
(***************************************************************************)
(* Proofs about the parts of the gateways: skills, preferences, API egress *)
(* and chat, for every number of users, skills, entries, rules, requests   *)
(* and calls at a time and every combination of store faults.              *)
(***************************************************************************)
EXTENDS Skills, Preferences, ApiEgress, Chat, FiniteSetTheorems, SequenceTheorems,
        WellFoundedInduction, TLAPS

-----------------------------------------------------------------------------
(* Skills: what the helpers return *)

LEMMA NoSkillFacts ==
  /\ NoSkill \notin Skill
  /\ SystemSkill \in Skill
  /\ NoSkillCall \in SkillCall
<1>1. NoSkill \notin Skill
  BY SkillsAssumption DEF NoSkill, Skill
<1>2. SystemSkill \in Skill
  BY DEF SystemSkill, Skill
<1>3. NoSkillCall \in SkillCall
  BY SkillsAssumption DEF NoSkillCall, SkillCall, SkillId
<1>4. QED
  BY <1>1, <1>2, <1>3

\* What is left of a call that ends.
LEMMA EndOfFacts ==
  ASSUME NEW cl \in SkillCall, NEW out \in {"ok", "notFound", "rejected", "error"}
  PROVE  /\ EndOf(cl, out) \in SkillCall
         /\ EndOf(cl, out).pc \in {"audit", "answered"}
         /\ EndOf(cl, out).out = out
         /\ EndOf(cl, out).op = cl.op
         /\ EndOf(cl, out).user = cl.user
         /\ EndOf(cl, out).id = cl.id
         /\ EndOf(cl, out).took = cl.took
         /\ EndOf(cl, out).shown = cl.shown
<1> DEFINE pc == IF cl.door = "mcp" THEN "audit" ELSE "answered"
<1>0. pc \in {"audit", "answered"}
  OBVIOUS
<1>1. EndOf(cl, out) =
        [NoSkillCall EXCEPT !.pc = pc, !.out = out, !.op = cl.op, !.user = cl.user,
                            !.id = cl.id, !.took = cl.took, !.shown = cl.shown]
  BY DEF EndOf
<1> HIDE DEF pc
<1>2. /\ EndOf(cl, out).pc = pc
      /\ EndOf(cl, out).out = out
      /\ EndOf(cl, out).op = cl.op
      /\ EndOf(cl, out).user = cl.user
      /\ EndOf(cl, out).id = cl.id
      /\ EndOf(cl, out).took = cl.took
      /\ EndOf(cl, out).shown = cl.shown
  BY <1>1 DEF NoSkillCall
<1>3. EndOf(cl, out) \in SkillCall
  <2>1. /\ cl.op \in {"none", "load", "list", "get", "update", "delete", "ensure"}
        /\ cl.user \in User \cup {"gateway"} /\ cl.id \in SkillId
        /\ cl.took \in BOOLEAN /\ cl.shown \in SUBSET SkillId
    BY DEF SkillCall
  <2> DEFINE e == [pc |-> pc, op |-> cl.op, door |-> "rest", user |-> cl.user,
                   id |-> cl.id, content |-> "none", found |-> FALSE, took |-> cl.took,
                   shown |-> cl.shown, out |-> out]
  <2>2. EndOf(cl, out) = e
    BY <1>1 DEF NoSkillCall
  <2>3. e \in SkillCall
    BY <1>0, <2>1 DEF SkillCall
  <2>4. QED
    BY <2>2, <2>3
<1>4. QED
  BY <1>0, <1>2, <1>3

-----------------------------------------------------------------------------
(* Skills: a call that moves and the rows that move under the others *)

\* No row of an id that was given out gets another owner or comes back, but
\* for the default skill.
RowsStay ==
    /\ created <= created'
    /\ \A s \in SkillId \ {DefaultSkillID} : s <= created /\ SkillExists(s)' =>
          SkillExists(s) /\ skills'[s].owner = skills[s].owner

LEMMA StillOfStays ==
  ASSUME NEW s \in SkillId, NEW user, s <= created, StillOf(user, s), RowsStay
  PROVE  StillOf(user, s)'
BY DEF StillOf, RowsStay

\* A call that keeps its place keeps what it relies on.
LEMMA CallStays ==
  ASSUME NEW cl \in SkillCall, SkillCallOK(cl), RowsStay, created \in Nat, created' \in Nat
  PROVE  SkillCallOK(cl)'
<1>1. cl.id \in SkillId /\ cl.shown \subseteq SkillId /\ \A s \in SkillId : s \in Nat
  BY SkillsAssumption DEF SkillCall, SkillId
<1>2. \A s \in cl.shown : s <= created' /\ StillOf(cl.user, s)'
  <2>1. ASSUME NEW s \in cl.shown PROVE s <= created' /\ StillOf(cl.user, s)'
    <3>1. s \in SkillId /\ s \in Nat /\ s <= created /\ StillOf(cl.user, s)
      BY <1>1 DEF SkillCallOK
    <3>2. s <= created'
      BY <1>1, <3>1 DEF RowsStay
    <3>3. QED
      BY <3>1, <3>2, StillOfStays
  <2>2. QED
    BY <2>1
<1>3. cl.id <= created'
  BY <1>1 DEF SkillCallOK, RowsStay
<1>4. cl.pc \in {"dbRead", "dbWrite"} => StillOf(cl.user, cl.id)'
  BY <1>1, StillOfStays DEF SkillCallOK
<1>5. cl.id # DefaultSkillID /\ ~SkillExists(cl.id) => ~SkillExists(cl.id)'
  BY <1>1 DEF SkillCallOK, RowsStay
<1>6. QED
  BY <1>1, <1>2, <1>3, <1>4, <1>5 DEF SkillCallOK

\* The invariant after a step of call c that makes it x.
LEMMA SkillStep ==
  ASSUME SkillsInv, NEW c \in SkillSlot, NEW x \in SkillCall,
         skillCall' = [skillCall EXCEPT ![c] = x],
         RowsStay, skills' \in [SkillId -> Skill \cup {NoSkill}],
         created' \in 0 .. MaxSkills, created' + Loading' <= MaxSkills,
         SkillRowsOK', SkillCallOK(x)'
  PROVE  SkillsInv'
<1>1. SkillsTypeOK'
  BY DEF SkillsInv, SkillsTypeOK
<1>2. ASSUME NEW d \in SkillSlot PROVE SkillCallOK(skillCall[d])'
  <2>1. CASE d = c
    <3>1. skillCall'[d] = x
      BY <2>1 DEF SkillsInv, SkillsTypeOK
    <3>2. QED
      BY <3>1 DEF SkillCallOK
  <2>2. CASE d # c
    <3>1. skillCall'[d] = skillCall[d] /\ skillCall[d] \in SkillCall /\ SkillCallOK(skillCall[d])
      BY <2>2 DEF SkillsInv, SkillsTypeOK
    <3>2. PICK cl \in SkillCall : cl = skillCall[d]
      BY <3>1
    <3>3. SkillCallOK(cl)'
      BY <3>1, <3>2, CallStays, SkillsAssumption DEF SkillsInv, SkillsTypeOK
    <3>4. QED
      BY <3>1, <3>2, <3>3 DEF SkillCallOK
  <2>3. QED
    BY <2>1, <2>2
<1>3. QED
  BY <1>1, <1>2 DEF SkillsInv

LEMMA LoadingType == Loads \subseteq SkillSlot /\ IsFiniteSet(Loads) /\ Loading \in Nat
<1>1. Loads \subseteq SkillSlot
  BY DEF Loads
<1>2. QED
  BY <1>1, FS_Subset, FS_CardinalityType, SkillsAssumption DEF Loading

LEMMA LoadingShrinks ==
  ASSUME Loads' \subseteq Loads
  PROVE  Loading' \in Nat /\ Loading' <= Loading
<1>1. IsFiniteSet(Loads') /\ Cardinality(Loads') \in Nat
  BY LoadingType, FS_Subset, FS_CardinalityType
<1>2. QED
  BY <1>1, LoadingType, FS_Subset DEF Loading

\* Steps that touch no row.
LEMMA SkillCallStep ==
  ASSUME SkillsInv, NEW c \in SkillSlot, NEW x \in SkillCall,
         skillCall' = [skillCall EXCEPT ![c] = x], UNCHANGED <<skills, created>>,
         x.op = "load" /\ x.out = "none" => c \in Loads,
         SkillCallOK(x)
  PROVE  SkillsInv'
<1>1. RowsStay /\ SkillRowsOK' /\ SkillCallOK(x)'
  BY SkillsAssumption DEF SkillsInv, SkillsTypeOK, RowsStay, SkillRowsOK, SkillCallOK, SkillExists,
     StillOf
<1>2. Loads' \subseteq Loads
  BY DEF Loads, SkillsInv, SkillsTypeOK
<1>3. created' + Loading' <= MaxSkills
  BY <1>2, LoadingShrinks, LoadingType, SkillsAssumption DEF SkillsInv, SkillsTypeOK
<1>4. QED
  BY <1>1, <1>3, SkillStep DEF SkillsInv, SkillsTypeOK

\* A call that ends as it is.
LEMMA SkillEndStep ==
  ASSUME SkillsInv, NEW c \in SkillSlot, UNCHANGED <<skills, created>>,
         NEW out \in {"ok", "notFound", "rejected", "error"}, SkillEnd(c, out),
         out = "ok" =>
            /\ skillCall[c].op \in {"load", "update"} => skillCall[c].took
            /\ skillCall[c].op = "delete" =>
                  skillCall[c].id # DefaultSkillID /\ ~SkillExists(skillCall[c].id)
  PROVE  SkillsInv'
<1>0. skillCall[c] \in SkillCall /\ SkillCallOK(skillCall[c])
  BY DEF SkillsInv, SkillsTypeOK
<1> DEFINE x == EndOf(skillCall[c], out)
<1>1. /\ x \in SkillCall /\ x.pc \in {"audit", "answered"} /\ x.out = out
      /\ x.op = skillCall[c].op /\ x.user = skillCall[c].user /\ x.id = skillCall[c].id
      /\ x.took = skillCall[c].took /\ x.shown = skillCall[c].shown
  BY <1>0, EndOfFacts
<1>2. skillCall' = [skillCall EXCEPT ![c] = x]
  BY DEF SkillEnd, EndAs
<1> HIDE DEF x
<1>3. SkillCallOK(x)
  BY <1>0, <1>1 DEF SkillCallOK
<1>4. QED
  BY <1>1, <1>2, <1>3, SkillCallStep

\* A call that goes on.
LEMMA SkillGoStep ==
  ASSUME SkillsInv, NEW c \in SkillSlot, UNCHANGED <<skills, created>>,
         NEW pc \in {"dbRead", "dbWrite"}, SkillGo(c, pc), skillCall[c].pc \in {"read", "dbRead"},
         skillCall[c].op = "update" => skillCall[c].content # "flagged",
         StillOf(skillCall[c].user, skillCall[c].id),
         pc = "dbWrite" => skillCall[c].id # DefaultSkillID
  PROVE  SkillsInv'
<1>0. skillCall[c] \in SkillCall /\ SkillCallOK(skillCall[c])
  BY DEF SkillsInv, SkillsTypeOK
<1> DEFINE x == [skillCall[c] EXCEPT !.pc = pc]
<1>1. /\ x.pc = pc /\ x.out = skillCall[c].out /\ x.content = skillCall[c].content
      /\ x.op = skillCall[c].op /\ x.user = skillCall[c].user /\ x.id = skillCall[c].id
      /\ x.took = skillCall[c].took /\ x.shown = skillCall[c].shown
  BY <1>0 DEF SkillCall
<1>2. x \in SkillCall
  BY <1>0 DEF SkillCall
<1>3. skillCall' = [skillCall EXCEPT ![c] = x]
  BY DEF SkillGo, SkillsInv, SkillsTypeOK
<1> HIDE DEF x
<1>4. SkillCallOK(x)
  BY <1>0, <1>1 DEF SkillCallOK
<1>5. x.op = "load" /\ x.out = "none" => c \in Loads
  BY <1>1 DEF Loads
<1>6. QED
  BY <1>2, <1>3, <1>4, <1>5, SkillCallStep

LEMMA GetForWriteKeeps ==
  ASSUME SkillsInv, NEW c \in SkillSlot, GetSkillForWrite(c) \/ GetSkillForDelete(c)
  PROVE  SkillsInv'
<1>0. skillCall[c] \in SkillCall /\ SkillCallOK(skillCall[c]) /\ UNCHANGED <<skills, created>>
      /\ SkillRowsOK /\ skillCall[c].id \in SkillId
  BY DEF SkillsInv, SkillsTypeOK, GetSkillForWrite, GetSkillForDelete, SkillCall
<1>1. ASSUME NEW out \in {"notFound", "rejected", "error"}, SkillEnd(c, out) PROVE SkillsInv'
  BY <1>0, <1>1, SkillEndStep
<1>2. CASE /\ SkillExists(skillCall[c].id) /\ MayTouch(skillCall[c].user, skillCall[c].id)
           /\ skillCall[c].op = "update" => skillCall[c].content # "flagged"
           /\ SkillGo(c, "dbRead")
  <2>1. StillOf(skillCall[c].user, skillCall[c].id)
    BY <1>0, <1>2 DEF StillOf, MayTouch, SkillRowsOK
  <2>2. skillCall[c].pc = "read"
    BY DEF GetSkillForWrite, GetSkillForDelete
  <2>3. QED
    BY <1>0, <1>2, <2>1, <2>2, SkillGoStep
<1>3. QED
  BY <1>1, <1>2 DEF GetSkillForWrite, GetSkillForDelete, ScanRejects

LEMMA DbReadKeeps ==
  ASSUME SkillsInv, NEW c \in SkillSlot, DbRead(c)
  PROVE  SkillsInv'
<1>0. skillCall[c] \in SkillCall /\ SkillCallOK(skillCall[c]) /\ UNCHANGED <<skills, created>>
      /\ SkillRowsOK /\ skillCall[c].id \in SkillId /\ skillCall[c].pc = "dbRead"
  BY DEF SkillsInv, SkillsTypeOK, DbRead, SkillCall
<1>1. ASSUME NEW out \in {"notFound", "error"}, SkillEnd(c, out) PROVE SkillsInv'
  BY <1>0, <1>1, SkillEndStep
<1>2. CASE SkillExists(skillCall[c].id) /\ RowWritable(skillCall[c].id) /\ SkillGo(c, "dbWrite")
  <2>1. /\ skillCall[c].id # DefaultSkillID
        /\ StillOf(skillCall[c].user, skillCall[c].id)
        /\ skillCall[c].op = "update" => skillCall[c].content # "flagged"
    BY <1>0, <1>2 DEF RowWritable, SkillRowsOK, SkillCallOK
  <2>2. QED
    BY <1>0, <1>2, <2>1, SkillGoStep
<1>3. QED
  BY <1>1, <1>2 DEF DbRead

LEMMA RereadKeeps ==
  ASSUME SkillsInv, NEW c \in SkillSlot, Reread(c)
  PROVE  SkillsInv'
<1>0. SkillCallOK(skillCall[c]) /\ UNCHANGED <<skills, created>> /\ skillCall[c].pc = "reread"
  BY DEF SkillsInv, Reread
<1>1. CASE SkillEnd(c, "ok") /\ SkillExists(skillCall[c].id)
  BY <1>0, <1>1, SkillEndStep DEF SkillCallOK
<1>2. ASSUME NEW out \in {"notFound", "error"}, SkillEnd(c, out) PROVE SkillsInv'
  BY <1>0, <1>2, SkillEndStep
<1>3. QED
  BY <1>1, <1>2 DEF Reread

LEMMA AuditKeeps ==
  ASSUME SkillsInv, NEW c \in SkillSlot, SkillAudit(c)
  PROVE  SkillsInv'
<1>0. skillCall[c] \in SkillCall /\ SkillCallOK(skillCall[c]) /\ UNCHANGED <<skills, created>>
  BY DEF SkillsInv, SkillsTypeOK, SkillAudit
<1>1. CASE SkillEnd(c, "error")
  BY <1>0, <1>1, SkillEndStep
<1>2. CASE SkillEnd(c, skillCall[c].out)
  <2>1. skillCall[c].out \in {"ok", "notFound", "rejected", "error"}
    BY <1>0 DEF SkillCall, SkillCallOK, SkillAudit
  <2>2. QED
    BY <1>0, <1>2, <2>1, SkillEndStep DEF SkillCallOK
<1>3. QED
  BY <1>1, <1>2 DEF SkillAudit

\* Where a call goes on once its subject is known.
LEMMA AfterSubjectFacts ==
  ASSUME NEW cl \in SkillCall, SkillCallOK(cl), cl.out = "none",
         cl.op \in {"load", "list", "get", "update", "delete"},
         cl.op = "load" => cl.content # "none"
  PROVE  /\ AfterSubject(cl) \in SkillCall
         /\ SkillCallOK(AfterSubject(cl))
         /\ AfterSubject(cl).op = cl.op
<1>1. CASE cl.op = "load" /\ cl.content = "flagged"
  <2> DEFINE x == EndOf(cl, "rejected")
  <2>1. /\ x \in SkillCall /\ x.pc \in {"audit", "answered"} /\ x.out = "rejected"
        /\ x.op = cl.op /\ x.user = cl.user /\ x.id = cl.id
        /\ x.took = cl.took /\ x.shown = cl.shown
    BY EndOfFacts
  <2>2. AfterSubject(cl) = x
    BY <1>1 DEF AfterSubject
  <2> HIDE DEF x
  <2>3. SkillCallOK(x)
    BY <2>1 DEF SkillCallOK
  <2>4. QED
    BY <2>1, <2>2, <2>3
<1>2. CASE ~(cl.op = "load" /\ cl.content = "flagged")
  <2> DEFINE pc == FirstStep(cl.op)
             x == [cl EXCEPT !.pc = pc]
  <2>1. /\ pc \in {"insert", "list", "get", "read"}
        /\ pc = "insert" => cl.op = "load"
        /\ pc \in {"list", "get"} => cl.op = pc
        /\ pc = "read" => cl.op \in {"update", "delete"}
    BY DEF FirstStep
  <2>2. AfterSubject(cl) = x
    BY <1>2 DEF AfterSubject
  <2> HIDE DEF pc
  <2>3. /\ x.pc = pc /\ x.out = cl.out /\ x.content = cl.content
        /\ x.op = cl.op /\ x.user = cl.user /\ x.id = cl.id
        /\ x.took = cl.took /\ x.shown = cl.shown
    BY <2>1 DEF SkillCall
  <2>4. x \in SkillCall
    BY <2>1 DEF SkillCall
  <2>5. cl.content \in {"none", "clean", "flagged"}
    BY DEF SkillCall
  <2> HIDE DEF x
  <2>6. SkillCallOK(x)
    BY <1>2, <2>1, <2>3, <2>5 DEF SkillCallOK
  <2>7. QED
    BY <2>2, <2>3, <2>4, <2>6
<1>3. QED
  BY <1>1, <1>2

LEMMA SubjectKeeps ==
  ASSUME SkillsInv, NEW c \in SkillSlot, SubjectOfTask(c)
  PROVE  SkillsInv'
<1>0. skillCall[c] \in SkillCall /\ SkillCallOK(skillCall[c]) /\ UNCHANGED <<skills, created>>
      /\ skillCall[c].pc = "task"
  BY DEF SkillsInv, SkillsTypeOK, SubjectOfTask
<1>1. CASE skillCall' = [skillCall EXCEPT ![c] = AfterSubject(skillCall[c])]
  <2> DEFINE x == AfterSubject(skillCall[c])
  <2>1. x \in SkillCall /\ SkillCallOK(x) /\ x.op = skillCall[c].op
    BY <1>0, AfterSubjectFacts DEF SkillCallOK
  <2>2. skillCall' = [skillCall EXCEPT ![c] = x]
    BY <1>1
  <2>3. x.op = "load" => c \in Loads
    BY <1>0, <2>1 DEF Loads, SkillCallOK
  <2> HIDE DEF x
  <2>4. QED
    BY <1>0, <2>1, <2>2, <2>3, SkillCallStep
<1>2. ASSUME NEW out \in {"notFound", "error"}, SkillEnd(c, out) PROVE SkillsInv'
  BY <1>0, <1>2, SkillEndStep
<1>3. QED
  BY <1>1, <1>2 DEF SubjectOfTask

LEMMA ArriveKeeps ==
  ASSUME SkillsInv, NEW c \in SkillSlot, SkillArrive(c)
  PROVE  SkillsInv'
<1>0. PICK op \in {"load", "list", "get", "update", "delete"}, door \in {"rest", "mcp"},
           user \in User, id \in 0 .. created, content \in {"none", "clean", "flagged"} :
        /\ op \in {"load", "list"} => id = DefaultSkillID
        /\ op = "load" => content # "none" /\ created + Loading < MaxSkills
        /\ op \notin {"load", "update"} => content = "none"
        /\ LET cl == [NoSkillCall EXCEPT !.op = op, !.door = door, !.user = user,
                                           !.id = id, !.content = content]
           IN  skillCall' = [skillCall EXCEPT
                               ![c] = IF door = "mcp" THEN [cl EXCEPT !.pc = "task"]
                                      ELSE AfterSubject(cl)]
  BY DEF SkillArrive
<1> DEFINE cl == [NoSkillCall EXCEPT !.op = op, !.door = door, !.user = user,
                                       !.id = id, !.content = content]
           asked == [cl EXCEPT !.pc = "task"]
           x == IF door = "mcp" THEN asked ELSE AfterSubject(cl)
<1>1. UNCHANGED <<skills, created>> /\ created \in 0 .. MaxSkills /\ id \in SkillId
  BY SkillsAssumption DEF SkillArrive, SkillsInv, SkillsTypeOK, SkillId
<1>2. /\ cl.pc = "idle" /\ cl.out = "none" /\ cl.content = content /\ cl.op = op
      /\ cl.user = user /\ cl.id = id /\ cl.shown = {}
  BY DEF NoSkillCall
<1>3. cl \in SkillCall
  BY <1>1, NoSkillFacts, ZenonT(60) DEF SkillCall
<1>4. skillCall' = [skillCall EXCEPT ![c] = x]
  BY <1>0
<1> HIDE DEF cl
<1>5. SkillCallOK(cl)
  BY <1>1, <1>2 DEF SkillCallOK
<1>6. /\ asked.pc = "task" /\ asked.out = "none" /\ asked.content = content /\ asked.op = op
      /\ asked.user = user /\ asked.id = id /\ asked.shown = {}
      /\ asked \in SkillCall
  BY <1>2, <1>3 DEF SkillCall
<1> HIDE DEF asked
<1>7. SkillCallOK(asked)
  BY <1>0, <1>1, <1>6 DEF SkillCallOK
<1>8. x \in SkillCall /\ SkillCallOK(x) /\ x.op = op
  BY <1>0, <1>2, <1>3, <1>5, <1>6, <1>7, AfterSubjectFacts
<1> HIDE DEF x
<1>9. created + Loading' <= MaxSkills /\ Loading' \in Nat
  <2>1. created + Loading <= MaxSkills
    BY DEF SkillsInv
  <2>2. CASE op = "load"
    <3>1. Loads' \subseteq Loads \cup {c}
      BY <1>4 DEF Loads, SkillsInv, SkillsTypeOK
    <3>2. /\ IsFiniteSet(Loads \cup {c})
          /\ Cardinality(Loads \cup {c}) \in Nat
          /\ Cardinality(Loads \cup {c}) <= Loading + 1
      <4>1. /\ IsFiniteSet(Loads \cup {c})
            /\ \/ Cardinality(Loads \cup {c}) = Cardinality(Loads)
               \/ Cardinality(Loads \cup {c}) = Cardinality(Loads) + 1
        BY LoadingType, FS_AddElement
      <4>2. QED
        BY <4>1, LoadingType DEF Loading
    <3>3. Loading' \in Nat /\ Loading' <= Loading + 1
      <4>1. IsFiniteSet(Loads') /\ Cardinality(Loads') \in Nat
        BY <3>1, <3>2, FS_Subset, FS_CardinalityType
      <4>2. Cardinality(Loads') <= Cardinality(Loads \cup {c})
        BY <3>1, <3>2, FS_Subset
      <4>3. QED
        BY <3>2, <4>1, <4>2, LoadingType DEF Loading
    <3>4. QED
      BY <1>0, <1>1, <2>2, <3>3, LoadingType, SkillsAssumption
  <2>3. CASE op # "load"
    <3>1. Loads' \subseteq Loads
      BY <1>4, <1>8, <2>3 DEF Loads, SkillsInv, SkillsTypeOK
    <3>2. QED
      BY <1>1, <2>1, <3>1, LoadingShrinks, LoadingType, SkillsAssumption
  <2>4. QED
    BY <2>2, <2>3
<1>10. RowsStay /\ SkillRowsOK' /\ SkillCallOK(x)'
  BY <1>1, <1>8, SkillsAssumption DEF SkillsInv, SkillsTypeOK, RowsStay, SkillRowsOK, SkillCallOK,
     SkillExists, StillOf
<1>11. QED
  BY <1>1, <1>4, <1>8, <1>9, <1>10, SkillStep DEF SkillsInv, SkillsTypeOK

\* A call that ends well and shows skills that are the default or its user's.
LEMMA ShowKeeps ==
  ASSUME SkillsInv, NEW c \in SkillSlot, UNCHANGED <<skills, created>>,
         skillCall[c].pc \in {"list", "get"}, NEW shown \in SUBSET SkillId,
         \A s \in shown : s <= created /\ StillOf(skillCall[c].user, s),
         skillCall' = [skillCall EXCEPT ![c] = [EndAs(c, "ok") EXCEPT !.shown = shown]]
  PROVE  SkillsInv'
<1>0. skillCall[c] \in SkillCall /\ SkillCallOK(skillCall[c])
  BY DEF SkillsInv, SkillsTypeOK
<1> DEFINE e == EndOf(skillCall[c], "ok")
           x == [e EXCEPT !.shown = shown]
<1>1. /\ e \in SkillCall /\ e.pc \in {"audit", "answered"} /\ e.out = "ok"
      /\ e.op = skillCall[c].op /\ e.user = skillCall[c].user /\ e.id = skillCall[c].id
  BY <1>0, EndOfFacts
<1>2. skillCall' = [skillCall EXCEPT ![c] = x]
  BY DEF EndAs
<1> HIDE DEF e
<1>3. /\ x \in SkillCall /\ x.pc \in {"audit", "answered"} /\ x.out = "ok"
      /\ x.op = skillCall[c].op /\ x.user = skillCall[c].user /\ x.id = skillCall[c].id
      /\ x.shown = shown
  BY <1>1 DEF SkillCall
<1> HIDE DEF x
<1>4. SkillCallOK(x)
  BY <1>0, <1>3 DEF SkillCallOK
<1>5. QED
  BY <1>2, <1>3, <1>4, SkillCallStep

LEMMA ListKeeps ==
  ASSUME SkillsInv, NEW c \in SkillSlot, ListSkillsForUser(c)
  PROVE  SkillsInv'
<1>0. SkillRowsOK /\ UNCHANGED <<skills, created>> /\ skillCall[c].pc = "list"
  BY DEF SkillsInv, ListSkillsForUser
<1>1. CASE skillCall' = [skillCall EXCEPT ![c] =
                           [EndAs(c, "ok") EXCEPT !.shown = Visible(skillCall[c].user)]]
  <2> DEFINE shown == Visible(skillCall[c].user)
  <2>1. shown \in SUBSET SkillId /\ \A s \in shown : s <= created /\ StillOf(skillCall[c].user, s)
    BY <1>0 DEF Visible, StillOf, SkillRowsOK
  <2>2. skillCall' = [skillCall EXCEPT ![c] = [EndAs(c, "ok") EXCEPT !.shown = shown]]
    BY <1>1
  <2> HIDE DEF shown
  <2>3. QED
    BY <1>0, <2>1, <2>2, ShowKeeps
<1>2. CASE SkillEnd(c, "error")
  BY <1>0, <1>2, SkillEndStep
<1>3. QED
  BY <1>1, <1>2 DEF ListSkillsForUser

LEMMA GetKeeps ==
  ASSUME SkillsInv, NEW c \in SkillSlot, GetSkill(c)
  PROVE  SkillsInv'
<1>0. /\ SkillRowsOK /\ UNCHANGED <<skills, created>> /\ skillCall[c].pc = "get"
      /\ skillCall[c].id \in SkillId
  BY DEF SkillsInv, SkillsTypeOK, SkillCall, GetSkill
<1>1. CASE /\ SkillExists(skillCall[c].id) /\ MayTouch(skillCall[c].user, skillCall[c].id)
           /\ skillCall' = [skillCall EXCEPT ![c] =
                              [EndAs(c, "ok") EXCEPT !.shown = {skillCall[c].id}]]
  <2> DEFINE shown == {skillCall[c].id}
  <2>1. shown \in SUBSET SkillId /\ \A s \in shown : s <= created /\ StillOf(skillCall[c].user, s)
    BY <1>0, <1>1 DEF MayTouch, StillOf, SkillRowsOK
  <2>2. skillCall' = [skillCall EXCEPT ![c] = [EndAs(c, "ok") EXCEPT !.shown = shown]]
    BY <1>1
  <2> HIDE DEF shown
  <2>3. QED
    BY <1>0, <2>1, <2>2, ShowKeeps
<1>2. ASSUME NEW out \in {"notFound", "error"}, SkillEnd(c, out) PROVE SkillsInv'
  BY <1>0, <1>2, SkillEndStep
<1>3. QED
  BY <1>1, <1>2 DEF GetSkill

LEMMA NatBound ==
  ASSUME NEW a \in Nat, NEW n \in Nat, NEW m \in Nat, a >= 1, a + n <= m
  PROVE  a \in 1 .. m
OBVIOUS

\* CreateSkill takes a new id, in place of the load that it ends.
LEMMA CreateKeeps ==
  ASSUME SkillsInv, NEW c \in SkillSlot, CreateSkill(c)
  PROVE  SkillsInv'
<1> USE SkillsAssumption
<1>1. PICK o \in SkillOutcome :
        /\ IF o = "fail" THEN UNCHANGED <<skills, created>>
           ELSE /\ created' = created + 1
                /\ skills' = [skills EXCEPT ![created'] =
                      [owner |-> skillCall[c].user, isSystem |-> FALSE,
                       by |-> skillCall[c].user, flagged |-> skillCall[c].content = "flagged"]]
        /\ skillCall' = [skillCall EXCEPT ![c] =
              [EndAs(c, IF o = "ok" THEN "ok" ELSE "error") EXCEPT !.took = (o # "fail")]]
  BY DEF CreateSkill
<1>2. /\ skillCall[c] \in SkillCall /\ SkillCallOK(skillCall[c]) /\ skillCall[c].pc = "insert"
      /\ skillCall[c].user \in User \cup {"gateway"}
      /\ skillCall[c].content = "clean" /\ skillCall[c].op = "load"
      /\ skillCall[c].out = "none" /\ c \in Loads
      /\ created \in 0 .. MaxSkills /\ SkillRowsOK
      /\ skills \in [SkillId -> Skill \cup {NoSkill}]
  BY DEF CreateSkill, SkillsInv, SkillsTypeOK, SkillCallOK, SkillCall, Loads
<1> DEFINE out == IF o = "ok" THEN "ok" ELSE "error"
           e == EndOf(skillCall[c], out)
           y == [e EXCEPT !.took = (o # "fail")]
<1>3. out \in {"ok", "error"} /\ (out = "ok" => o # "fail")
  OBVIOUS
<1>4. skillCall' = [skillCall EXCEPT ![c] = y]
  BY <1>1 DEF EndAs
<1> HIDE DEF out
<1>5. /\ e \in SkillCall /\ e.pc \in {"audit", "answered"} /\ e.out = out /\ e.op = "load"
      /\ e.user = skillCall[c].user /\ e.id = skillCall[c].id
      /\ e.shown = skillCall[c].shown
  BY <1>2, <1>3, EndOfFacts
<1> HIDE DEF e
<1>6. PICK x \in SkillCall :
        /\ x.pc \in {"audit", "answered"} /\ x.out = out /\ x.op = "load"
        /\ x.user = skillCall[c].user /\ x.id = skillCall[c].id
        /\ x.shown = skillCall[c].shown /\ (out = "ok" => x.took)
        /\ skillCall' = [skillCall EXCEPT ![c] = x]
  <2>1. /\ y \in SkillCall /\ y.pc \in {"audit", "answered"} /\ y.out = out /\ y.op = "load"
        /\ y.user = skillCall[c].user /\ y.id = skillCall[c].id
        /\ y.shown = skillCall[c].shown /\ (out = "ok" => y.took)
    BY <1>3, <1>5 DEF SkillCall
  <2> HIDE DEF y
  <2>2. QED
    BY <1>4, <2>1
<1> HIDE DEF y
<1>7. SkillCallOK(x)
  BY <1>2, <1>3, <1>6 DEF SkillCallOK
<1>8. CASE o = "fail"
  BY <1>1, <1>2, <1>4, <1>6, <1>7, <1>8, SkillCallStep
<1>9. CASE o # "fail"
  <2> DEFINE row == [owner |-> skillCall[c].user, isSystem |-> FALSE,
                     by |-> skillCall[c].user, flagged |-> skillCall[c].content = "flagged"]
  <2>1. created' = created + 1 /\ skills' = [skills EXCEPT ![created'] = row]
    BY <1>1, <1>9
  <2>2. row \in Skill /\ row.by = row.owner /\ ~row.flagged /\ ~row.isSystem
    BY <1>2 DEF Skill
  <2> HIDE DEF row
  <2>3. /\ Loading' \in Nat /\ created' + Loading' <= MaxSkills
    <3>1. Loads' = Loads \ {c}
      BY <1>3, <1>4, <1>6 DEF Loads, SkillsInv, SkillsTypeOK
    <3>2. Loading' = Loading - 1
      BY <1>2, <3>1, LoadingType, FS_RemoveElement DEF Loading
    <3>3. Loading >= 1
      BY <1>2, LoadingType, FS_EmptySet DEF Loading
    <3>4. QED
      BY <1>2, <2>1, <3>2, <3>3, LoadingType DEF SkillsInv
  <2>4. created' \in 1 .. MaxSkills
    <3>1. created \in Nat /\ created' \in Nat /\ created' >= 1 /\ MaxSkills \in Nat
      BY <1>2, <2>1
    <3>2. PICK n \in Nat : n = Loading'
      BY <2>3
    <3>3. created' + n <= MaxSkills
      BY <2>3, <3>2
    <3>4. QED
      BY <3>1, <3>3, NatBound
  <2>5. skills' \in [SkillId -> Skill \cup {NoSkill}]
    BY <1>2, <2>1, <2>2
  <2>6. /\ skills'[created'] = row
        /\ \A s \in SkillId \ {created'} : skills'[s] = skills[s]
    BY <1>2, <2>1, <2>4 DEF SkillId
  <2>7. RowsStay
    BY <1>2, <2>1, <2>6 DEF RowsStay, SkillExists, SkillId
  <2>8. SkillRowsOK'
    BY <1>2, <2>1, <2>2, <2>4, <2>6 DEF SkillRowsOK, SkillExists, SkillId, DefaultSkillID
  <2>9. SkillCallOK(x)'
    BY <1>2, <1>6, <1>7, <2>4, <2>7, CallStays
  <2>10. created' \in 0 .. MaxSkills
    BY <2>4
  <2>11. QED
    BY <1>6, <2>3, <2>5, <2>7, <2>8, <2>9, <2>10, SkillStep
<1>10. QED
  BY <1>8, <1>9

LEMMA UpdateKeeps ==
  ASSUME SkillsInv, NEW c \in SkillSlot, DbUpdate(c)
  PROVE  SkillsInv'
<1> USE SkillsAssumption
<1> DEFINE s == skillCall[c].id
<1>1. PICK o \in SkillOutcome :
        /\ skills' = IF o = "fail" THEN skills ELSE [skills EXCEPT ![s] = Updated(c)]
        /\ IF o = "ok" THEN RereadAfter(c, SkillExists(s)) ELSE SkillEnd(c, "error")
  BY DEF DbUpdate
<1>2. /\ skillCall[c] \in SkillCall /\ SkillCallOK(skillCall[c])
      /\ skillCall[c].pc = "dbWrite" /\ skillCall[c].op = "update"
      /\ s \in SkillId /\ s # DefaultSkillID /\ skillCall[c].user \in User \cup {"gateway"}
      /\ skillCall[c].content # "flagged"
      /\ SkillExists(s) => skills[s].owner = skillCall[c].user
      /\ created \in 0 .. MaxSkills /\ SkillRowsOK /\ created' = created
      /\ skills \in [SkillId -> Skill \cup {NoSkill}]
  BY DEF DbUpdate, SkillsInv, SkillsTypeOK, SkillCallOK, SkillCall, StillOf
<1>3. /\ Updated(c) = NoSkill <=> ~SkillExists(s)
      /\ Updated(c) \in Skill \cup {NoSkill}
      /\ SkillExists(s) =>
            /\ Updated(c).owner = skills[s].owner
            /\ Updated(c).by = skills[s].owner /\ ~Updated(c).flagged
            /\ Updated(c).isSystem = skills[s].isSystem
  <2>1. CASE ~SkillExists(s) \/ skillCall[c].content = "none"
    <3>1. Updated(c) = skills[s]
      BY <2>1 DEF Updated
    <3>2. QED
      BY <1>2, <3>1 DEF SkillExists, SkillRowsOK
  <2>2. CASE SkillExists(s) /\ skillCall[c].content # "none"
    <3> DEFINE row == [skills[s] EXCEPT !.by = skillCall[c].user,
                                        !.flagged = skillCall[c].content = "flagged"]
    <3>1. Updated(c) = row
      BY <2>2 DEF Updated
    <3>2. skills[s] \in Skill
      BY <1>2, <2>2 DEF SkillExists
    <3>3. /\ row \in Skill /\ row.owner = skills[s].owner /\ row.by = skillCall[c].user
          /\ ~row.flagged /\ row.isSystem = skills[s].isSystem
      BY <1>2, <3>2 DEF Skill
    <3> HIDE DEF row
    <3>4. QED
      BY <1>2, <2>2, <3>1, <3>3, NoSkillFacts
  <2>3. QED
    BY <2>1, <2>2
<1>4. /\ skills' \in [SkillId -> Skill \cup {NoSkill}]
      /\ \A t \in SkillId \ {s} : skills'[t] = skills[t]
      /\ skills'[s] = skills[s] \/ skills'[s] = Updated(c)
  <2>1. CASE o = "fail"
    BY <1>1, <1>2, <2>1
  <2>2. CASE o # "fail"
    BY <1>1, <1>2, <1>3, <2>2
  <2>3. QED
    BY <2>1, <2>2
<1>5. RowsStay /\ (skills'[s] # NoSkill <=> SkillExists(s))
  <2>1. skills'[s] # NoSkill <=> SkillExists(s)
    BY <1>3, <1>4 DEF SkillExists
  <2>2. SkillExists(s) => skills'[s].owner = skills[s].owner
    BY <1>3, <1>4
  <2>3. QED
    BY <1>2, <1>4, <2>1, <2>2 DEF RowsStay, SkillExists
<1>6. SkillRowsOK'
  BY <1>2, <1>3, <1>4 DEF SkillRowsOK, SkillExists
<1>7. PICK x \in SkillCall :
        /\ skillCall' = [skillCall EXCEPT ![c] = x]
        /\ SkillCallOK(x)' /\ x.op = "update"
  <2>1. CASE o = "ok"
    <3> DEFINE y == [skillCall[c] EXCEPT !.pc = "reread", !.took = SkillExists(s)]
    <3>1. skillCall' = [skillCall EXCEPT ![c] = y]
      BY <1>1, <2>1 DEF RereadAfter, SkillsInv, SkillsTypeOK
    <3>2. SkillExists(s) \in BOOLEAN
      BY DEF SkillExists
    <3>3. y \in SkillCall
      BY <1>2, <3>2 DEF SkillCall
    <3>4. /\ y.pc = "reread" /\ (y.took <=> SkillExists(s)) /\ y.out = skillCall[c].out
          /\ y.op = "update" /\ y.user = skillCall[c].user /\ y.id = s
          /\ y.shown = skillCall[c].shown
      BY <1>2, <3>2 DEF SkillCall
    <3> HIDE DEF y
    <3>5. PICK x \in SkillCall : x = y
      BY <3>3
    <3>6. x.out # "ok" \/ x.took
      BY <1>2, <3>4, <3>5 DEF SkillCallOK
    <3>7. SkillCallOK(x)
      BY <1>2, <3>4, <3>5, <3>6 DEF SkillCallOK
    <3>8. SkillCallOK(x)'
      BY <1>2, <1>5, <3>7, CallStays
    <3>9. QED
      BY <3>1, <3>4, <3>5, <3>8
  <2>2. CASE o # "ok"
    <3> DEFINE y == EndOf(skillCall[c], "error")
    <3>1. /\ y \in SkillCall /\ y.pc \in {"audit", "answered"} /\ y.out = "error"
          /\ y.op = skillCall[c].op /\ y.user = skillCall[c].user /\ y.id = skillCall[c].id
          /\ y.shown = skillCall[c].shown
      BY <1>2, EndOfFacts
    <3>2. skillCall' = [skillCall EXCEPT ![c] = y]
      BY <1>1, <2>2 DEF SkillEnd, EndAs
    <3> HIDE DEF y
    <3>3. PICK x \in SkillCall : x = y
      BY <3>1
    <3>4. SkillCallOK(x)
      BY <1>2, <3>1, <3>3 DEF SkillCallOK
    <3>5. SkillCallOK(x)'
      BY <1>2, <1>5, <3>4, CallStays
    <3>6. QED
      BY <1>2, <3>1, <3>2, <3>3, <3>5
  <2>3. QED
    BY <2>1, <2>2
<1>8. created' + Loading' <= MaxSkills
  <2>1. Loads' \subseteq Loads
    BY <1>7 DEF Loads, SkillsInv, SkillsTypeOK
  <2>2. QED
    BY <1>2, <2>1, LoadingShrinks, LoadingType DEF SkillsInv
<1>9. QED
  BY <1>2, <1>4, <1>5, <1>6, <1>7, <1>8, SkillStep

LEMMA DeleteKeeps ==
  ASSUME SkillsInv, NEW c \in SkillSlot, DbDelete(c)
  PROVE  SkillsInv'
<1> USE SkillsAssumption
<1> DEFINE s == skillCall[c].id
<1>1. PICK o \in SkillOutcome :
        /\ skills' = IF o = "fail" THEN skills ELSE [skills EXCEPT ![s] = NoSkill]
        /\ SkillEnd(c, IF o = "ok" THEN "ok" ELSE "error")
  BY DEF DbDelete
<1>2. /\ skillCall[c] \in SkillCall /\ SkillCallOK(skillCall[c])
      /\ skillCall[c].pc = "dbWrite" /\ skillCall[c].op = "delete"
      /\ s \in SkillId /\ s # DefaultSkillID
      /\ created \in 0 .. MaxSkills /\ SkillRowsOK /\ created' = created
      /\ skills \in [SkillId -> Skill \cup {NoSkill}]
  BY DEF DbDelete, SkillsInv, SkillsTypeOK, SkillCallOK, SkillCall
<1>3. /\ skills' \in [SkillId -> Skill \cup {NoSkill}]
      /\ \A t \in SkillId \ {s} : skills'[t] = skills[t]
      /\ skills'[s] = skills[s] \/ skills'[s] = NoSkill
      /\ o # "fail" => skills'[s] = NoSkill
  <2>1. CASE o = "fail"
    BY <1>1, <1>2, <2>1
  <2>2. CASE o # "fail"
    BY <1>1, <1>2, <2>2
  <2>3. QED
    BY <2>1, <2>2
<1>4. RowsStay
  BY <1>2, <1>3 DEF RowsStay, SkillExists
<1>5. SkillRowsOK'
  BY <1>2, <1>3 DEF SkillRowsOK, SkillExists
<1> DEFINE out == IF o = "ok" THEN "ok" ELSE "error"
           y == EndOf(skillCall[c], out)
<1>6. out \in {"ok", "error"} /\ (out = "ok" => skills'[s] = NoSkill)
  BY <1>3
<1>7. skillCall' = [skillCall EXCEPT ![c] = y]
  BY <1>1 DEF SkillEnd, EndAs
<1> HIDE DEF out
<1>8. /\ y \in SkillCall /\ y.pc \in {"audit", "answered"} /\ y.out = out
      /\ y.op = "delete" /\ y.user = skillCall[c].user /\ y.id = s
      /\ y.shown = skillCall[c].shown
  BY <1>2, <1>6, EndOfFacts
<1> HIDE DEF y
<1>9. PICK x \in SkillCall : x = y
  BY <1>8
<1>10. PICK z \in SkillCall : z = skillCall[c]
  BY <1>2
<1>11. SkillCallOK(z)'
  BY <1>2, <1>4, <1>10, CallStays
<1>12. SkillCallOK(x)'
  BY <1>2, <1>6, <1>8, <1>9, <1>10, <1>11 DEF SkillCallOK, SkillExists
<1>13. created' + Loading' <= MaxSkills
  <2>1. Loads' \subseteq Loads
    BY <1>7, <1>8 DEF Loads, SkillsInv, SkillsTypeOK
  <2>2. QED
    BY <1>2, <2>1, LoadingShrinks, LoadingType DEF SkillsInv
<1>14. QED
  BY <1>2, <1>3, <1>4, <1>5, <1>7, <1>9, <1>12, <1>13, SkillStep

LEMMA EnsureReadKeeps ==
  ASSUME SkillsInv, NEW c \in SkillSlot, EnsureRead(c)
  PROVE  SkillsInv'
<1>1. PICK found \in BOOLEAN :
        skillCall' = [skillCall EXCEPT ![c] = [NoSkillCall EXCEPT !.pc = "ensureWrite",
                                                 !.op = "ensure", !.found = found]]
  <2>1. SkillExists(DefaultSkillID) \in BOOLEAN
    BY DEF SkillExists
  <2>2. QED
    BY <2>1 DEF EnsureRead
<1> DEFINE x == [NoSkillCall EXCEPT !.pc = "ensureWrite", !.op = "ensure", !.found = found]
<1>2. x \in SkillCall
  BY NoSkillFacts DEF SkillCall
<1>3. /\ x.pc = "ensureWrite" /\ x.op = "ensure" /\ x.id = 0 /\ x.shown = {} /\ x.out = "none"
  BY DEF NoSkillCall
<1>4. skillCall' = [skillCall EXCEPT ![c] = x] /\ UNCHANGED <<skills, created>>
  BY <1>1 DEF EnsureRead
<1> HIDE DEF x
<1>5. SkillCallOK(x)
  BY <1>3 DEF SkillCallOK, SkillsInv, SkillsTypeOK
<1>6. QED
  BY <1>2, <1>3, <1>4, <1>5, SkillCallStep

LEMMA EnsureWriteKeeps ==
  ASSUME SkillsInv, NEW c \in SkillSlot, EnsureWrite(c)
  PROVE  SkillsInv'
<1> USE SkillsAssumption
<1>1. PICK out \in {"ok", "error"} : SkillEnd(c, out)
  BY DEF EnsureWrite
<1>2. /\ skillCall[c] \in SkillCall /\ SkillCallOK(skillCall[c])
      /\ skillCall[c].pc = "ensureWrite" /\ skillCall[c].op = "ensure"
      /\ created \in 0 .. MaxSkills /\ SkillRowsOK /\ created' = created
      /\ skills \in [SkillId -> Skill \cup {NoSkill}] /\ DefaultSkillID \in SkillId
  BY DEF EnsureWrite, SkillsInv, SkillsTypeOK, SkillCallOK, SkillId, DefaultSkillID
<1>3. /\ skills' \in [SkillId -> Skill \cup {NoSkill}]
      /\ \A t \in SkillId \ {DefaultSkillID} : skills'[t] = skills[t]
      /\ \/ skills'[DefaultSkillID] = skills[DefaultSkillID]
         \/ skills'[DefaultSkillID] = SystemSkill
  <2>1. CASE skills' = skills
    BY <1>2, <2>1
  <2>2. CASE skills' = [skills EXCEPT ![DefaultSkillID] = SystemSkill]
    BY <1>2, <2>2, NoSkillFacts
  <2>3. QED
    BY <2>1, <2>2 DEF EnsureWrite
<1>4. RowsStay
  BY <1>2, <1>3 DEF RowsStay, SkillExists
<1>5. SkillRowsOK'
  BY <1>2, <1>3 DEF SkillRowsOK, SkillExists, SystemSkill, DefaultSkillID
<1> DEFINE y == EndOf(skillCall[c], out)
<1>6. skillCall' = [skillCall EXCEPT ![c] = y]
  BY <1>1 DEF SkillEnd, EndAs
<1>7. /\ y \in SkillCall /\ y.pc \in {"audit", "answered"} /\ y.out = out
      /\ y.op = "ensure" /\ y.user = skillCall[c].user /\ y.id = skillCall[c].id
      /\ y.shown = skillCall[c].shown
  BY <1>2, EndOfFacts
<1> HIDE DEF y
<1>8. PICK x \in SkillCall : x = y
  BY <1>7
<1>9. SkillCallOK(x)
  BY <1>2, <1>7, <1>8 DEF SkillCallOK
<1>10. SkillCallOK(x)'
  BY <1>2, <1>4, <1>9, CallStays
<1>11. created' + Loading' <= MaxSkills
  <2>1. Loads' \subseteq Loads
    BY <1>6, <1>7 DEF Loads, SkillsInv, SkillsTypeOK
  <2>2. QED
    BY <1>2, <2>1, LoadingShrinks, LoadingType DEF SkillsInv
<1>12. QED
  BY <1>2, <1>3, <1>4, <1>5, <1>6, <1>8, <1>10, <1>11, SkillStep

LEMMA GoneKeeps ==
  ASSUME SkillsInv, NEW c \in SkillSlot, SkillGone(c)
  PROVE  SkillsInv'
<1> DEFINE x == NoSkillCall
<1>1. x \in SkillCall /\ skillCall' = [skillCall EXCEPT ![c] = x] /\ UNCHANGED <<skills, created>>
  BY NoSkillFacts DEF SkillGone
<1>2. x.pc = "idle" /\ x.op = "none" /\ x.id = 0 /\ x.shown = {} /\ x.out = "none"
  BY DEF NoSkillCall
<1> HIDE DEF x
<1>3. SkillCallOK(x)
  BY <1>2 DEF SkillCallOK, SkillsInv, SkillsTypeOK
<1>4. QED
  BY <1>1, <1>2, <1>3, SkillCallStep

LEMMA SkillsInitInv == SkillsInit => SkillsInv
<1> SUFFICES ASSUME SkillsInit PROVE SkillsInv
  OBVIOUS
<1>1. SkillsTypeOK
  BY NoSkillFacts, SkillsAssumption DEF SkillsInit, SkillsTypeOK
<1>2. created + Loading <= MaxSkills
  <2>1. Loads = {}
    BY DEF SkillsInit, Loads, NoSkillCall
  <2>2. QED
    BY <2>1, FS_EmptySet, SkillsAssumption DEF Loading, SkillsInit
<1>3. SkillRowsOK
  BY DEF SkillsInit, SkillRowsOK, SkillExists
<1>4. \A c \in SkillSlot : SkillCallOK(skillCall[c])
  BY DEF SkillsInit, SkillCallOK, NoSkillCall
<1>5. QED
  BY <1>1, <1>2, <1>3, <1>4 DEF SkillsInv

LEMMA SkillsStepInv == SkillsInv /\ [SkillsNext]_skillVars => SkillsInv'
<1> SUFFICES ASSUME SkillsInv, [SkillsNext]_skillVars PROVE SkillsInv'
  OBVIOUS
<1>1. ASSUME NEW c \in SkillSlot,
             SkillArrive(c) \/ SubjectOfTask(c) \/ CreateSkill(c) \/ ListSkillsForUser(c)
      PROVE  SkillsInv'
  BY <1>1, ArriveKeeps, SubjectKeeps, CreateKeeps, ListKeeps
<1>2. ASSUME NEW c \in SkillSlot,
             GetSkill(c) \/ GetSkillForWrite(c) \/ GetSkillForDelete(c) \/ DbRead(c)
      PROVE  SkillsInv'
  BY <1>2, GetKeeps, GetForWriteKeeps, DbReadKeeps
<1>3. ASSUME NEW c \in SkillSlot, DbUpdate(c) \/ Reread(c) \/ DbDelete(c)
      PROVE  SkillsInv'
  BY <1>3, UpdateKeeps, RereadKeeps, DeleteKeeps
<1>4. ASSUME NEW c \in SkillSlot, EnsureRead(c) \/ EnsureWrite(c) \/ SkillAudit(c) \/ SkillGone(c)
      PROVE  SkillsInv'
  BY <1>4, EnsureReadKeeps, EnsureWriteKeeps, AuditKeeps, GoneKeeps
<1>5. CASE UNCHANGED skillVars
  BY <1>5 DEF skillVars, SkillsInv, SkillsTypeOK, SkillRowsOK, SkillCallOK, StillOf, SkillExists,
     Loading, Loads
<1>6. QED
  BY <1>1, <1>2, <1>3, <1>4, <1>5 DEF SkillsNext

LEMMA SkillsAlways == SkillsSpec => []SkillsInv
BY SkillsInitInv, SkillsStepInv, PTL DEF SkillsSpec

(***************************************************************************)
(* Skills and the calls for them keep their types, whichever store calls   *)
(* fail; no more skills are made than loads have arrived for.              *)
(***************************************************************************)
THEOREM SkillsTypes == SkillsSpec => []SkillsTypeOK
<1>1. SkillsInv => SkillsTypeOK
  BY DEF SkillsInv
<1>2. QED
  BY <1>1, SkillsAlways, PTL

(***************************************************************************)
(* Whatever calls overlap at the REST and MCP doors and whichever store    *)
(* calls fail: a text is by the owner of its skill and passed the scan,    *)
(* the default skill stays the gateway's, and nobody is shown a skill of   *)
(* another user.                                                           *)
(***************************************************************************)
THEOREM SkillsStay == SkillsSpec => []SkillsStayWithOwners
<1>1. SkillsInv => SkillsStayWithOwners
  BY DEF SkillsInv, SkillRowsOK, SkillCallOK, StillOf, SkillsStayWithOwners
<1>2. QED
  BY <1>1, SkillsAlways, PTL

(***************************************************************************)
(* A load or an update that is answered with success has changed a row,    *)
(* and a skill whose deletion was is gone for good.                        *)
(***************************************************************************)
THEOREM SkillWritesAreReal == SkillsSpec => []OkMeansWritten
<1>1. SkillsInv => OkMeansWritten
  BY DEF SkillsInv, SkillCallOK, OkMeansWritten
<1>2. QED
  BY <1>1, SkillsAlways, PTL

-----------------------------------------------------------------------------
(* Preferences: what the calls are made of *)

LEMMA PrefIdle ==
  /\ "system" \in Scope
  /\ \A N, L : 0 \in N /\ <<>> \in L => IdleCall \in PrefCalls(N, L)
  /\ IdleCall.held = NoPref /\ IdleCall.tool = "get" /\ IdleCall.pc = "idle"
<1>1. "system" \in Scope
  <2>1. /\ PrefScopes \in Seq(STRING) /\ PrefScopes # <<>> /\ PrefScopes[1] = "system"
    BY PrefAssumption
  <2>2. 1 \in DOMAIN PrefScopes
    BY <2>1
  <2>3. QED
    BY <2>1, <2>2 DEF Scope, ToSet
<1>2. \A N, L : 0 \in N /\ <<>> \in L => IdleCall \in PrefCalls(N, L)
  <2>1. NoPref \in Row \cup {NoPref}
    OBVIOUS
  <2>2. QED
    BY <1>1, <2>1 DEF IdleCall, PrefCalls
<1>3. IdleCall.held = NoPref /\ IdleCall.tool = "get" /\ IdleCall.pc = "idle"
  BY DEF IdleCall
<1>4. QED
  BY <1>1, <1>2, <1>3

\* A call that is rewritten leaves the others as they are.
LEMMA PrefCallWritten ==
  ASSUME PrefInv, NEW c \in CallId, NEW N, NEW L, NEW r \in PrefCalls(N, L),
         call' = [call EXCEPT ![c] = r]
  PROVE  /\ (call \in [CallId -> PrefCalls({call[d].total : d \in CallId}
                                             \cup {call[d].offset : d \in CallId},
                                           {call[d].seen : d \in CallId})])'
         /\ call'[c] = r
         /\ \A d \in CallId \ {c} : call'[d] = call[d]
<1> DEFINE N1 == {call[d].total : d \in CallId} \cup {call[d].offset : d \in CallId}
           L1 == {call[d].seen : d \in CallId}
           N2 == {call'[d].total : d \in CallId} \cup {call'[d].offset : d \in CallId}
           L2 == {call'[d].seen : d \in CallId}
<1>1. call \in [CallId -> PrefCalls(N1, L1)]
  BY DEF PrefInv
<1> HIDE DEF N1, L1
<1>2. /\ call'[c] = r
      /\ \A d \in CallId \ {c} : call'[d] = call[d]
      /\ DOMAIN call' = CallId
      /\ call' = [d \in CallId |-> call'[d]]
  BY <1>1
<1>3. ASSUME NEW d \in CallId
      PROVE  call'[d] \in PrefCalls(N2, L2)
  <2>1. call'[d].total \in N2 /\ call'[d].offset \in N2 /\ call'[d].seen \in L2
    OBVIOUS
  <2> HIDE DEF N2, L2
  <2>2. CASE d = c
    <3>1. call'[d] \in PrefCalls(N, L)
      BY <1>2, <2>2
    <3>2. QED
      BY <2>1, <3>1 DEF PrefCalls
  <2>3. CASE d # c
    <3>1. call'[d] \in PrefCalls(N1, L1)
      BY <1>1, <1>2, <2>3
    <3>2. QED
      BY <2>1, <3>1 DEF PrefCalls
  <2>4. QED
    BY <2>2, <2>3
<1>4. call' \in [CallId -> PrefCalls(N2, L2)]
  <2> HIDE DEF N2, L2
  <2>1. QED
    BY <1>2, <1>3
<1>5. QED
  BY <1>2, <1>4

\* A call that reads the table, or goes on without, leaves everyone else alone.
LEMMA PrefReads ==
  ASSUME PrefInv, NEW c \in CallId, NEW N, NEW L, NEW r \in PrefCalls(N, L),
         call' = [call EXCEPT ![c] = r], PrefCallOK(c)',
         prefs' = prefs, lastId' = lastId, disturbed' = disturbed
  PROVE  PrefInv'
<1>1. /\ (call \in [CallId -> PrefCalls({call[d].total : d \in CallId}
                                          \cup {call[d].offset : d \in CallId},
                                        {call[d].seen : d \in CallId})])'
      /\ call'[c] = r
      /\ \A d \in CallId \ {c} : call'[d] = call[d]
  BY PrefCallWritten
<1>2. RowsOK'
  BY DEF PrefInv, RowsOK
<1>3. ASSUME NEW d \in CallId PROVE PrefCallOK(d)'
  <2>1. CASE d = c
    BY <2>1
  <2>2. CASE d # c
    <3>1. call'[d] = call[d] /\ PrefCallOK(d)
      BY <1>1, <2>2 DEF PrefInv
    <3>2. QED
      BY <3>1 DEF PrefCallOK, Quiet, MadeToExpected
  <2>3. QED
    BY <2>1, <2>2
<1>4. QED
  BY <1>1, <1>2, <1>3 DEF PrefInv

\* A call that changes the table disturbs every other call there is.
LEMMA PrefWrites ==
  ASSUME PrefInv, NEW c \in CallId, NEW N, NEW L, NEW r \in PrefCalls(N, L),
         call' = [call EXCEPT ![c] = r], PrefCallOK(c)', RowsOK',
         NEW new, Change(c, new)
  PROVE  PrefInv'
<1>1. /\ (call \in [CallId -> PrefCalls({call[d].total : d \in CallId}
                                          \cup {call[d].offset : d \in CallId},
                                        {call[d].seen : d \in CallId})])'
      /\ call'[c] = r
      /\ \A d \in CallId \ {c} : call'[d] = call[d]
  BY PrefCallWritten
<1>2. ASSUME NEW d \in CallId PROVE PrefCallOK(d)'
  <2>1. CASE d = c
    BY <2>1
  <2>2. CASE d # c
    <3>1. call'[d] = call[d] /\ PrefCallOK(d)
      BY <1>1, <2>2 DEF PrefInv
    <3>2. CASE prefs' = prefs
      <4>1. disturbed' = disturbed
        BY <3>2 DEF Change
      <4>2. QED
        BY <3>1, <3>2, <4>1 DEF PrefCallOK, Quiet, MadeToExpected
    <3>3. CASE prefs' # prefs
      <4>1. d \in disturbed' \/ call[d].pc \in {"idle", "done"}
        BY <2>2, <3>3 DEF Change, OpenCalls
      <4>2. QED
        BY <3>1, <4>1 DEF PrefCallOK, Quiet
    <3>4. QED
      BY <3>2, <3>3
  <2>3. QED
    BY <2>1, <2>2
<1>3. QED
  BY <1>1, <1>2 DEF PrefInv

\* A call that ends with an error keeps nothing, one that succeeds keeps all.
LEMMA FinishFacts ==
  ASSUME PrefInv, NEW c \in CallId, NEW status \in {"success", "error"}, Finish(c, status)
  PROVE  \E N, L : \E r \in PrefCalls(N, L) :
            /\ call' = [call EXCEPT ![c] = r] /\ call'[c] = r
            /\ r.pc = "audit" /\ r.status = status
            /\ status = "success" => /\ r.tool = call[c].tool
                                     /\ r.held = call[c].held /\ r.expected = call[c].expected
<1> DEFINE N1 == {call[d].total : d \in CallId} \cup {call[d].offset : d \in CallId}
           L1 == {call[d].seen : d \in CallId}
<1>1. call \in [CallId -> PrefCalls(N1, L1)]
  BY DEF PrefInv
<1> HIDE DEF N1, L1
<1> DEFINE N == N1 \cup {0}
           L == L1 \cup {<<>>}
<1>2. call[c] \in PrefCalls(N, L)
  BY <1>1 DEF PrefCalls
<1>3. IdleCall \in PrefCalls(N, L)
  BY PrefIdle
<1> HIDE DEF N, L
<1>4. PICK b \in PrefCalls(N, L) : b = IF status = "error" THEN IdleCall ELSE call[c]
  BY <1>2, <1>3
<1>5. PICK r \in PrefCalls(N, L) : r = [b EXCEPT !.pc = "audit", !.status = status]
  <2>1. [b EXCEPT !.pc = "audit", !.status = status] \in PrefCalls(N, L)
    BY DEF PrefCalls
  <2>2. QED
    BY <2>1
<1>6. /\ r.pc = "audit" /\ r.status = status
      /\ r.tool = b.tool /\ r.held = b.held /\ r.expected = b.expected
  BY <1>4, <1>5 DEF PrefCalls
<1>7. call' = [call EXCEPT ![c] = r] /\ call'[c] = r
  BY <1>1, <1>4, <1>5 DEF Finish
<1>8. QED
  BY <1>4, <1>6, <1>7

\* The end of a call that has changed nothing.
LEMMA FinishKeeps ==
  ASSUME PrefInv, NEW c \in CallId, NEW status \in {"success", "error"}, Finish(c, status),
         status = "success" => call[c].tool \notin {"update", "delete"},
         prefs' = prefs, lastId' = lastId, disturbed' = disturbed
  PROVE  PrefInv'
<1>1. PICK N, L : \E r \in PrefCalls(N, L) :
         /\ call' = [call EXCEPT ![c] = r] /\ call'[c] = r
         /\ r.pc = "audit" /\ r.status = status
         /\ status = "success" => /\ r.tool = call[c].tool
                                  /\ r.held = call[c].held /\ r.expected = call[c].expected
  BY FinishFacts
<1>2. PICK r \in PrefCalls(N, L) :
         /\ call' = [call EXCEPT ![c] = r] /\ call'[c] = r
         /\ r.pc = "audit" /\ r.status = status
         /\ status = "success" => /\ r.tool = call[c].tool
                                  /\ r.held = call[c].held /\ r.expected = call[c].expected
  BY <1>1
<1>3. PrefCallOK(c)'
  BY <1>2 DEF PrefCallOK, Quiet
<1>4. QED
  BY <1>2, <1>3, PrefReads

LEMMA PrefStartKeeps ==
  ASSUME PrefInv, NEW c \in CallId, NEW pc \in {"read", "count", "scopes"},
         NEW tool \in {"get", "create", "update", "delete", "list", "effective"},
         NEW scope \in Scope, NEW key \in {0} \cup PrefKey, NEW expected \in Nat,
         Start(c, pc, tool, scope, key, expected),
         pc = "read" => tool \in {"get", "create", "update", "delete"},
         pc = "count" => tool = "list", pc = "scopes" => tool = "effective",
         pc = "read" => key \in PrefKey,
         prefs' = prefs, lastId' = lastId, disturbed' = disturbed
  PROVE  PrefInv'
<1> DEFINE N1 == {call[d].total : d \in CallId} \cup {call[d].offset : d \in CallId}
           L1 == {call[d].seen : d \in CallId}
<1>1. call \in [CallId -> PrefCalls(N1, L1)]
  BY DEF PrefInv
<1> HIDE DEF N1, L1
<1>2. call[c] \in PrefCalls(N1, L1) /\ PrefCallOK(c)
  BY <1>1 DEF PrefInv
<1>3. [call[c] EXCEPT !.pc = pc, !.tool = tool, !.scope = scope, !.key = key,
                      !.expected = expected] \in PrefCalls(N1, L1)
  BY <1>2 DEF PrefCalls
<1>4. PICK r \in PrefCalls(N1, L1) :
         r = [call[c] EXCEPT !.pc = pc, !.tool = tool, !.scope = scope, !.key = key,
                             !.expected = expected]
  BY <1>3
<1>5. call' = [call EXCEPT ![c] = r] /\ call'[c] = r
  BY <1>1, <1>4 DEF Start
<1>6. r.pc = pc /\ r.tool = tool /\ r.key = key
  BY <1>2, <1>4 DEF PrefCalls
<1>7. PrefCallOK(c)'
  BY <1>5, <1>6 DEF PrefCallOK, Quiet
<1>8. QED
  BY <1>5, <1>7, PrefReads

LEMMA PrefToolCallKeeps ==
  ASSUME PrefInv, NEW c \in CallId, ToolCall(c)
  PROVE  PrefInv'
<1>1. prefs' = prefs /\ lastId' = lastId /\ disturbed' = disturbed /\ 0 .. 2 \subseteq Nat /\ 0 \in Nat
  BY DEF ToolCall
<1>2. CASE PreferenceGet(c) \/ PreferenceCreate(c)
  <2>1. PICK scope \in Scope, key \in PrefKey, tool \in {"get", "create"} :
           Start(c, "read", tool, scope, key, 0)
    BY <1>2 DEF PreferenceGet, PreferenceCreate
  <2>2. QED
    BY <1>1, <2>1, PrefStartKeeps
<1>3. CASE PreferenceUpdate(c) \/ PreferenceDelete(c)
  <2>1. PICK scope \in Scope, key \in PrefKey, expected \in 0 .. 2, tool \in {"update", "delete"} :
           Start(c, "read", tool, scope, key, expected)
    BY <1>3 DEF PreferenceUpdate, PreferenceDelete
  <2>2. expected \in Nat
    BY <1>1
  <2>3. QED
    BY <1>1, <2>1, <2>2, PrefStartKeeps
<1>4. CASE PreferenceList(c)
  <2>1. PICK scope \in Scope : Start(c, "count", "list", scope, 0, 0)
    BY <1>4 DEF PreferenceList
  <2>2. QED
    BY <1>1, <2>1, PrefStartKeeps
<1>5. CASE PreferenceEffective(c)
  <2>1. Start(c, "scopes", "effective", "system", 0, 0)
    BY <1>5 DEF PreferenceEffective
  <2>2. QED
    BY <1>1, <2>1, PrefIdle, PrefStartKeeps
<1>6. CASE Finish(c, "error")
  BY <1>1, <1>6, FinishKeeps
<1>7. QED
  BY <1>2, <1>3, <1>4, <1>5, <1>6 DEF ToolCall

LEMMA PrefReadKeeps ==
  ASSUME PrefInv, NEW c \in CallId, PrefRead(c)
  PROVE  PrefInv'
<1> DEFINE N1 == {call[d].total : d \in CallId} \cup {call[d].offset : d \in CallId}
           L1 == {call[d].seen : d \in CallId}
<1>1. call \in [CallId -> PrefCalls(N1, L1)]
  BY DEF PrefInv
<1> HIDE DEF N1, L1
<1>2. call[c] \in PrefCalls(N1, L1) /\ PrefCallOK(c)
  BY <1>1 DEF PrefInv
<1>3. prefs' = prefs /\ lastId' = lastId /\ disturbed' = disturbed /\ call[c].pc = "read"
  BY DEF PrefRead
<1>4. call[c].tool \in {"get", "create", "update", "delete"}
  BY <1>2, <1>3 DEF PrefCallOK
<1>5. \/ Finish(c, "error")
      \/ Go(c, "insert") /\ call[c].tool = "create"
      \/ Finish(c, "success") /\ call[c].tool = "get"
      \/ /\ call[c].tool \in {"update", "delete"}
         /\ \E e \in prefs : /\ VersionMatches(c, e)
                             /\ call' = [call EXCEPT ![c].pc = call[c].tool, ![c].held = e]
  BY <1>4 DEF PrefRead, Under
<1>6. CASE Finish(c, "error")
  BY <1>3, <1>6, FinishKeeps
<1>7. CASE Finish(c, "success") /\ call[c].tool = "get"
  BY <1>3, <1>7, FinishKeeps
<1>8. CASE Go(c, "insert") /\ call[c].tool = "create"
  <2>1. [call[c] EXCEPT !.pc = "insert"] \in PrefCalls(N1, L1)
    BY <1>2 DEF PrefCalls
  <2>2. PICK r \in PrefCalls(N1, L1) : r = [call[c] EXCEPT !.pc = "insert"]
    BY <2>1
  <2>3. call' = [call EXCEPT ![c] = r] /\ call'[c] = r
    BY <1>1, <1>8, <2>2 DEF Go
  <2>4. r.pc = "insert" /\ r.tool = call[c].tool /\ r.key = call[c].key
    BY <1>2, <2>2 DEF PrefCalls
  <2>5. PrefCallOK(c)'
    BY <1>2, <1>3, <1>8, <2>3, <2>4 DEF PrefCallOK, Quiet
  <2>6. QED
    BY <1>3, <2>3, <2>5, PrefReads
<1>9. CASE /\ call[c].tool \in {"update", "delete"}
           /\ \E e \in prefs : /\ VersionMatches(c, e)
                               /\ call' = [call EXCEPT ![c].pc = call[c].tool, ![c].held = e]
  <2>1. PICK e \in prefs : /\ VersionMatches(c, e)
                           /\ call' = [call EXCEPT ![c].pc = call[c].tool, ![c].held = e]
    BY <1>9
  <2>2. PICK t \in {"update", "delete"} : t = call[c].tool
    BY <1>9
  <2>3. e \in Row
    BY DEF PrefInv, RowsOK
  <2>4. [call[c] EXCEPT !.pc = t, !.held = e] \in PrefCalls(N1, L1)
    BY <1>2, <2>3 DEF PrefCalls
  <2>5. PICK r \in PrefCalls(N1, L1) : r = [call[c] EXCEPT !.pc = t, !.held = e]
    BY <2>4
  <2>6. call' = [call EXCEPT ![c] = r] /\ call'[c] = r
    BY <1>1, <2>1, <2>2, <2>5
  <2>7. r.pc = t /\ r.tool = t /\ r.held = e /\ r.expected = call[c].expected
    BY <1>2, <2>2, <2>5 DEF PrefCalls
  <2>8. PrefCallOK(c)'
    BY <1>3, <2>1, <2>2, <2>6, <2>7 DEF PrefCallOK, Quiet, VersionMatches
  <2>9. QED
    BY <1>3, <2>6, <2>8, PrefReads
<1>10. QED
  BY <1>5, <1>6, <1>7, <1>8, <1>9

LEMMA PrefInsertKeeps ==
  ASSUME PrefInv, NEW c \in CallId, PrefInsert(c)
  PROVE  PrefInv'
<1> DEFINE N1 == {call[d].total : d \in CallId} \cup {call[d].offset : d \in CallId}
           L1 == {call[d].seen : d \in CallId}
<1>1. call \in [CallId -> PrefCalls(N1, L1)]
  BY DEF PrefInv
<1> HIDE DEF N1, L1
<1>2. call[c] \in PrefCalls(N1, L1) /\ PrefCallOK(c)
  BY <1>1 DEF PrefInv
<1>3. call[c].tool = "create" /\ call[c].pc = "insert" /\ call[c].scope \in Scope
  BY <1>2 DEF PrefInsert, PrefCallOK, PrefCalls
<1>4. CASE Finish(c, "error") /\ UNCHANGED <<prefs, lastId, disturbed>>
  BY <1>4, FinishKeeps
<1>5. ASSUME NEW status \in {"success", "error"}, Finish(c, status), lastId' = lastId + 1,
             Change(c, prefs \cup {[id |-> lastId + 1, scope |-> call[c].scope,
                                    key |-> call[c].key, version |-> 1, value |-> c]})
      PROVE  PrefInv'
  <2>1. PICK N, L : \E r \in PrefCalls(N, L) :
           /\ call' = [call EXCEPT ![c] = r] /\ call'[c] = r
           /\ r.pc = "audit" /\ r.status = status
           /\ status = "success" => /\ r.tool = call[c].tool
                                    /\ r.held = call[c].held /\ r.expected = call[c].expected
    BY <1>5, FinishFacts
  <2>2. PICK r \in PrefCalls(N, L) :
           /\ call' = [call EXCEPT ![c] = r] /\ call'[c] = r
           /\ r.pc = "audit" /\ r.status = status
           /\ status = "success" => /\ r.tool = call[c].tool
                                    /\ r.held = call[c].held /\ r.expected = call[c].expected
    BY <2>1
  <2>3. PrefCallOK(c)'
    BY <1>3, <2>2 DEF PrefCallOK, Quiet
  <2>4. PICK e : e = [id |-> lastId + 1, scope |-> call[c].scope, key |-> call[c].key,
                      version |-> 1, value |-> c]
    OBVIOUS
  <2>5. prefs' = prefs \cup {e} /\ Change(c, prefs \cup {e})
    BY <1>5, <2>4 DEF Change
  <2>6. RowsOK
    BY DEF PrefInv
  <2>7. call[c].key \in PrefKey
    BY <1>2, <1>3 DEF PrefCallOK
  <2>8. e \in Row /\ e.id = lastId + 1
    BY <1>3, <2>4, <2>6, <2>7 DEF Row, RowsOK
  <2>9. RowsOK'
    <3>1. \A d \in prefs : d.id \in Nat /\ d.id <= lastId
      BY <2>6 DEF RowsOK, Row
    <3>2. prefs' \subseteq Row /\ lastId' \in Nat
      BY <1>5, <2>5, <2>6, <2>8 DEF RowsOK
    <3>3. \A d \in prefs' : d.id <= lastId'
      BY <1>5, <2>5, <2>6, <2>8, <3>1 DEF RowsOK
    <3>4. \A d \in prefs : d.id # e.id
      BY <2>6, <2>8, <3>1 DEF RowsOK
    <3>5. \A d, f \in prefs' : d.id = f.id => d = f
      BY <2>5, <2>6, <3>4 DEF RowsOK
    <3>6. QED
      BY <3>2, <3>3, <3>5 DEF RowsOK
  <2>10. QED
    BY <2>2, <2>3, <2>5, <2>9, PrefWrites
<1>6. QED
  BY <1>4, <1>5 DEF PrefInsert

\* The update of the row that a call holds: by its id, and of nothing else.
LEMMA UpdateHeldFacts ==
  ASSUME RowsOK, NEW c \in CallId, call[c].held \in Row \cup {NoPref}
  PROVE  /\ UpdateHeld(c) \subseteq Row
         /\ \A e \in UpdateHeld(c) : \E d \in prefs : d.id = e.id
         /\ \A d, e \in UpdateHeld(c) : d.id = e.id => d = e
         /\ call[c].held \in prefs =>
               {e \in UpdateHeld(c) : e.id = call[c].held.id} = {Raised(call[c].held, c)}
<1>1. PICK h \in Row \cup {NoPref} : h = call[c].held
  OBVIOUS
<1>2. h.id \in Nat /\ h.version \in Nat
  BY DEF Row, NoPref
<1> DEFINE Up(x) == IF x.id = h.id THEN [x EXCEPT !.version = h.version + 1, !.value = c] ELSE x
<1>3. UpdateHeld(c) = {Up(x) : x \in prefs}
  BY <1>1 DEF UpdateHeld
<1>4. ASSUME NEW x \in prefs PROVE Up(x) \in Row /\ Up(x).id = x.id
  <2>1. x \in Row
    BY DEF RowsOK
  <2>2. CASE x.id = h.id
    <3>0. PICK v \in Nat : v = h.version + 1
      BY <1>2
    <3>1. [x EXCEPT !.version = v, !.value = c] \in Row
      BY <2>1 DEF Row
    <3>2. [x EXCEPT !.version = h.version + 1, !.value = c].id = x.id
      BY <2>1 DEF Row
    <3>3. QED
      BY <2>2, <3>0, <3>1, <3>2
  <2>3. CASE x.id # h.id
    BY <2>1, <2>3
  <2>4. QED
    BY <2>2, <2>3
<1>5. h \in prefs => Up(h) = Raised(h, c)
  <2>1. Up(h) = [h EXCEPT !.version = h.version + 1, !.value = c]
    OBVIOUS
  <2>2. QED
    BY <2>1 DEF Raised
<1> HIDE DEF Up
<1>6. UpdateHeld(c) \subseteq Row /\ \A e \in UpdateHeld(c) : \E d \in prefs : d.id = e.id
  BY <1>3, <1>4
<1>7. ASSUME NEW d \in UpdateHeld(c), NEW e \in UpdateHeld(c), d.id = e.id PROVE d = e
  <2>1. PICK x \in prefs, y \in prefs : d = Up(x) /\ e = Up(y)
    BY <1>3
  <2>2. x.id = y.id
    BY <1>4, <1>7, <2>1
  <2>3. x = y
    BY <2>2 DEF RowsOK
  <2>4. QED
    BY <2>1, <2>3
<1>8. ASSUME h \in prefs PROVE {e \in UpdateHeld(c) : e.id = h.id} = {Raised(h, c)}
  <2>1. Up(h) \in UpdateHeld(c) /\ Up(h).id = h.id
    BY <1>3, <1>4, <1>8
  <2>2. \A e \in UpdateHeld(c) : e.id = h.id => e = Up(h)
    BY <1>7, <2>1
  <2>3. {e \in UpdateHeld(c) : e.id = h.id} = {Up(h)}
    BY <2>1, <2>2
  <2>4. QED
    BY <1>5, <1>8, <2>3
<1>9. QED
  BY <1>1, <1>6, <1>7, <1>8

LEMMA PrefWriteKeeps ==
  ASSUME PrefInv, NEW c \in CallId, PrefWrite(c)
  PROVE  PrefInv'
<1> DEFINE N1 == {call[d].total : d \in CallId} \cup {call[d].offset : d \in CallId}
           L1 == {call[d].seen : d \in CallId}
<1>1. call \in [CallId -> PrefCalls(N1, L1)]
  BY DEF PrefInv
<1> HIDE DEF N1, L1
<1>2. call[c] \in PrefCalls(N1, L1) /\ PrefCallOK(c)
  BY <1>1 DEF PrefInv
<1>3. call[c].pc \in {"update", "delete"} /\ call[c].tool = call[c].pc /\ lastId' = lastId
  BY <1>2 DEF PrefWrite, PrefCallOK
<1>4. PICK o \in PrefOutcome :
         /\ Change(c, IF o = "fail" THEN prefs
                      ELSE IF call[c].pc = "update" THEN UpdateHeld(c)
                      ELSE {x \in prefs : x.id # call[c].held.id})
         /\ Finish(c, IF o = "ok" THEN "success" ELSE "error")
  BY DEF PrefWrite
<1>5. PICK status \in {"success", "error"} : status = IF o = "ok" THEN "success" ELSE "error"
  OBVIOUS
<1>6. Finish(c, status)
  BY <1>4, <1>5
<1>7. PICK N, L : \E r \in PrefCalls(N, L) :
         /\ call' = [call EXCEPT ![c] = r] /\ call'[c] = r
         /\ r.pc = "audit" /\ r.status = status
         /\ status = "success" => /\ r.tool = call[c].tool
                                  /\ r.held = call[c].held /\ r.expected = call[c].expected
  BY <1>6, FinishFacts
<1>8. PICK r \in PrefCalls(N, L) :
         /\ call' = [call EXCEPT ![c] = r] /\ call'[c] = r
         /\ r.pc = "audit" /\ r.status = status
         /\ status = "success" => /\ r.tool = call[c].tool
                                  /\ r.held = call[c].held /\ r.expected = call[c].expected
  BY <1>7
<1>9. PICK new : /\ new = IF o = "fail" THEN prefs
                          ELSE IF call[c].pc = "update" THEN UpdateHeld(c)
                          ELSE {x \in prefs : x.id # call[c].held.id}
                 /\ Change(c, new)
  BY <1>4
<1>10. prefs' = new /\ disturbed \subseteq disturbed'
  BY <1>9 DEF Change
<1>11. RowsOK /\ call[c].held \in Row \cup {NoPref}
  BY <1>2 DEF PrefInv, PrefCalls
<1>12. RowsOK'
  <2>1. new \subseteq Row /\ lastId' \in Nat
    BY <1>3, <1>9, <1>11, UpdateHeldFacts DEF RowsOK
  <2>2. \A e \in new : \E d \in prefs : d.id = e.id
    BY <1>9, <1>11, UpdateHeldFacts
  <2>3. \A d, e \in new : d.id = e.id => d = e
    BY <1>9, <1>11, UpdateHeldFacts DEF RowsOK
  <2>4. \A e \in new : e.id <= lastId
    BY <1>11, <2>2 DEF RowsOK
  <2>5. QED
    BY <1>3, <1>10, <2>1, <2>3, <2>4 DEF RowsOK
<1>13. PrefCallOK(c)'
  <2>1. ASSUME status = "success", c \notin disturbed' PROVE MadeToExpected(c)'
    <3>1. o = "ok" /\ c \notin disturbed
      BY <1>5, <1>10, <2>1
    <3>2. PICK h \in Row : h = call[c].held /\ h \in prefs /\ call[c].expected \in {0, h.version}
      BY <1>2, <1>3, <1>11, <3>1 DEF PrefCallOK, RowsOK
    <3>3. call'[c].held = h /\ call'[c].expected = call[c].expected /\ call'[c].tool = call[c].pc
      BY <1>3, <1>8, <2>1, <3>2
    <3>4. {e \in new : e.id = h.id} = IF call[c].pc = "delete" THEN {} ELSE {Raised(h, c)}
      <4>1. CASE call[c].pc = "delete"
        <5>1. new = {x \in prefs : x.id # h.id}
          BY <1>9, <3>1, <3>2, <4>1
        <5>2. QED
          BY <4>1, <5>1
      <4>2. CASE call[c].pc = "update"
        <5>1. new = UpdateHeld(c)
          BY <1>9, <3>1, <4>2
        <5>2. QED
          BY <1>11, <3>2, <4>2, <5>1, UpdateHeldFacts
      <4>3. QED
        BY <1>3, <4>1, <4>2
    <3>5. QED
      BY <1>10, <3>2, <3>3, <3>4 DEF MadeToExpected
  <2>2. QED
    BY <1>8, <2>1 DEF PrefCallOK, Quiet
<1>14. QED
  BY <1>8, <1>9, <1>12, <1>13, PrefWrites

\* What a page changes of its call.
LEMMA ListFindWrites ==
  ASSUME NEW c \in CallId, ListFind(c), ~Finish(c, "error")
  PROVE  \E s, k : \E pc \in {"count", "audit"}, status \in {"none", "success"} :
            call' = [call EXCEPT ![c].seen = s, ![c].offset = k, ![c].total = 0,
                                 ![c].pc = pc, ![c].status = status]
<1>1. PICK page \in Pages(call[c].scope, call[c].offset, ListLimit + 1) :
        LET shown == IF Len(page) > ListLimit THEN Front(page) ELSE page
            next == NextCursor(c, page)
            more == page # <<>> /\ (Len(page) > ListLimit \/ next < call[c].total)
        IN  call' = [call EXCEPT ![c].seen = @ \o shown, ![c].offset = next, ![c].total = 0,
                                 ![c].pc = IF more THEN "count" ELSE "audit",
                                 ![c].status = IF more THEN "none" ELSE "success"]
  BY DEF ListFind
<1> DEFINE shown == IF Len(page) > ListLimit THEN Front(page) ELSE page
           next == NextCursor(c, page)
           more == page # <<>> /\ (Len(page) > ListLimit \/ next < call[c].total)
<1>2. call' = [call EXCEPT ![c].seen = call[c].seen \o shown, ![c].offset = next,
                           ![c].total = 0,
                           ![c].pc = IF more THEN "count" ELSE "audit",
                           ![c].status = IF more THEN "none" ELSE "success"]
  BY <1>1
<1>3. PICK s : s = call[c].seen \o shown
  OBVIOUS
<1>4. PICK k : k = next
  OBVIOUS
<1> HIDE DEF shown, next, more
<1>5. PICK pc \in {"count", "audit"} : pc = IF more THEN "count" ELSE "audit"
  OBVIOUS
<1>6. PICK status \in {"none", "success"} : status = IF more THEN "none" ELSE "success"
  OBVIOUS
<1>7. call' = [call EXCEPT ![c].seen = s, ![c].offset = k, ![c].total = 0,
                           ![c].pc = pc, ![c].status = status]
  BY <1>2, <1>3, <1>4, <1>5, <1>6
<1>8. QED
  BY <1>7

LEMMA PrefListKeeps ==
  ASSUME PrefInv, NEW c \in CallId, ListCount(c) \/ ListFind(c) \/ EffectiveScope(c)
  PROVE  PrefInv'
<1> DEFINE N1 == {call[d].total : d \in CallId} \cup {call[d].offset : d \in CallId}
           L1 == {call[d].seen : d \in CallId}
<1>1. call \in [CallId -> PrefCalls(N1, L1)]
  BY DEF PrefInv
<1> HIDE DEF N1, L1
<1>2. call[c] \in PrefCalls(N1, L1) /\ PrefCallOK(c)
  BY <1>1 DEF PrefInv
<1>3. prefs' = prefs /\ lastId' = lastId /\ disturbed' = disturbed
  BY DEF ListCount, ListFind, EffectiveScope
<1>4. call[c].tool \in {"list", "effective"}
  BY <1>2 DEF ListCount, ListFind, EffectiveScope, PrefCallOK
<1>5. CASE Finish(c, "error")
  BY <1>3, <1>5, FinishKeeps
<1>6. ASSUME NEW N, NEW L, NEW r \in PrefCalls(N, L), call' = [call EXCEPT ![c] = r],
             r.tool = call[c].tool, r.pc \in {"count", "find", "scopes", "audit"},
             r.pc \in {"count", "find"} => call[c].tool = "list",
             r.pc = "scopes" => call[c].tool = "effective"
      PROVE  PrefInv'
  <2>1. call'[c] = r
    BY <1>1, <1>6
  <2>2. PrefCallOK(c)'
    BY <1>4, <1>6, <2>1 DEF PrefCallOK, Quiet
  <2>3. QED
    BY <1>3, <1>6, <2>2, PrefReads
<1>7. CASE ListCount(c) /\ ~Finish(c, "error")
  <2>1. PICK n : n = Cardinality(InScope(call[c].scope))
    OBVIOUS
  <2>2. /\ call' = [call EXCEPT ![c].pc = "find", ![c].total = n] /\ call[c].tool = "list"
    BY <1>2, <1>7, <2>1 DEF ListCount, PrefCallOK
  <2> DEFINE N2 == N1 \cup {n}
  <2>3. n \in N2 /\ N1 \subseteq N2
    OBVIOUS
  <2> HIDE DEF N2
  <2>4. [call[c] EXCEPT !.pc = "find", !.total = n] \in PrefCalls(N2, L1)
    BY <1>2, <2>3 DEF PrefCalls
  <2>5. PICK r \in PrefCalls(N2, L1) : r = [call[c] EXCEPT !.pc = "find", !.total = n]
    BY <2>4
  <2>6. call' = [call EXCEPT ![c] = r]
    BY <1>1, <2>2, <2>5
  <2>7. r.tool = call[c].tool /\ r.pc = "find"
    BY <1>2, <2>5 DEF PrefCalls
  <2>8. QED
    BY <1>6, <2>2, <2>6, <2>7
<1>8. CASE ListFind(c) /\ ~Finish(c, "error")
  <2>0. PICK s, k : \E pc \in {"count", "audit"}, status \in {"none", "success"} :
           call' = [call EXCEPT ![c].seen = s, ![c].offset = k, ![c].total = 0,
                                ![c].pc = pc, ![c].status = status]
    BY <1>8, ListFindWrites
  <2>1. PICK pc \in {"count", "audit"}, status \in {"none", "success"} :
           call' = [call EXCEPT ![c].seen = s, ![c].offset = k, ![c].total = 0,
                                ![c].pc = pc, ![c].status = status]
    BY <2>0
  <2>2. call[c].tool = "list"
    BY <1>2, <1>8 DEF ListFind, PrefCallOK
  <2> DEFINE N2 == N1 \cup {0, k}
             L2 == L1 \cup {s}
  <2>3. k \in N2 /\ 0 \in N2 /\ N1 \subseteq N2 /\ s \in L2 /\ L1 \subseteq L2
    OBVIOUS
  <2> HIDE DEF N2, L2
  <2>4. [call[c] EXCEPT !.seen = s, !.offset = k, !.total = 0, !.pc = pc, !.status = status]
          \in PrefCalls(N2, L2)
    BY <1>2, <2>3 DEF PrefCalls
  <2>5. PICK r \in PrefCalls(N2, L2) :
           r = [call[c] EXCEPT !.seen = s, !.offset = k, !.total = 0, !.pc = pc,
                               !.status = status]
    BY <2>4
  <2>6. call' = [call EXCEPT ![c] = r]
    BY <1>1, <2>1, <2>5
  <2>7. r.tool = call[c].tool /\ r.pc = pc
    BY <1>2, <2>5 DEF PrefCalls
  <2>8. QED
    BY <1>6, <2>2, <2>6, <2>7
<1>9. CASE EffectiveScope(c) /\ ~Finish(c, "error")
  <2>0. PICK s, k : \E pc \in {"scopes", "audit"}, status \in {"none", "success"} :
           call' = [call EXCEPT ![c].offset = k, ![c].seen = s, ![c].pc = pc,
                                ![c].status = status]
    <3>1. PICK k : k = call[c].offset + 1
      OBVIOUS
    <3>2. PICK page \in Pages(PrefScopes[k], 0, ListLimit) :
             call' = [call EXCEPT ![c].offset = k,
                                  ![c].seen = FoldScope(@, page),
                                  ![c].pc = IF k = Len(PrefScopes) THEN "audit" ELSE "scopes",
                                  ![c].status = IF k = Len(PrefScopes) THEN "success" ELSE "none"]
      BY <1>9, <3>1 DEF EffectiveScope
    <3>3. PICK s : s = FoldScope(call[c].seen, page)
      OBVIOUS
    <3>4. PICK pc \in {"scopes", "audit"} : pc = IF k = Len(PrefScopes) THEN "audit" ELSE "scopes"
      OBVIOUS
    <3>5. PICK status \in {"none", "success"} :
             status = IF k = Len(PrefScopes) THEN "success" ELSE "none"
      OBVIOUS
    <3>6. call' = [call EXCEPT ![c].offset = k, ![c].seen = s, ![c].pc = pc,
                               ![c].status = status]
      BY <3>2, <3>3, <3>4, <3>5
    <3>7. QED
      BY <3>6
  <2>1. PICK pc \in {"scopes", "audit"}, status \in {"none", "success"} :
           call' = [call EXCEPT ![c].offset = k, ![c].seen = s, ![c].pc = pc,
                                ![c].status = status]
    BY <2>0
  <2>2. call[c].tool = "effective"
    BY <1>2, <1>9 DEF EffectiveScope, PrefCallOK
  <2> DEFINE N2 == N1 \cup {k}
             L2 == L1 \cup {s}
  <2>3. k \in N2 /\ N1 \subseteq N2 /\ s \in L2 /\ L1 \subseteq L2
    OBVIOUS
  <2> HIDE DEF N2, L2
  <2>4. [call[c] EXCEPT !.offset = k, !.seen = s, !.pc = pc, !.status = status]
          \in PrefCalls(N2, L2)
    BY <1>2, <2>3 DEF PrefCalls
  <2>5. PICK r \in PrefCalls(N2, L2) :
           r = [call[c] EXCEPT !.offset = k, !.seen = s, !.pc = pc, !.status = status]
    BY <2>4
  <2>6. call' = [call EXCEPT ![c] = r]
    BY <1>1, <2>1, <2>5
  <2>7. r.tool = call[c].tool /\ r.pc = pc
    BY <1>2, <2>5 DEF PrefCalls
  <2>8. QED
    BY <1>6, <2>2, <2>6, <2>7
<1>10. QED
  BY <1>5, <1>7, <1>8, <1>9

LEMMA PrefAuditKeeps ==
  ASSUME PrefInv, NEW c \in CallId, WriteAudit(c)
  PROVE  PrefInv'
<1> DEFINE N1 == {call[d].total : d \in CallId} \cup {call[d].offset : d \in CallId}
           L1 == {call[d].seen : d \in CallId}
<1>1. call \in [CallId -> PrefCalls(N1, L1)]
  BY DEF PrefInv
<1> HIDE DEF N1, L1
<1>2. call[c] \in PrefCalls(N1, L1) /\ PrefCallOK(c)
  BY <1>1 DEF PrefInv
<1>3. prefs' = prefs /\ lastId' = lastId /\ disturbed' = disturbed
  BY DEF WriteAudit
<1>4. PICK o \in PrefOutcome : Respond(c, IF o = "ok" THEN call[c].status ELSE "error")
  BY DEF WriteAudit
<1>5. PICK status \in {"none", "success", "error"} :
         status = IF o = "ok" THEN call[c].status ELSE "error"
  BY <1>2 DEF PrefCalls
<1>6. IdleCall \in PrefCalls({0}, {<<>>})
  BY PrefIdle
<1>7. [IdleCall EXCEPT !.pc = "done", !.status = status] \in PrefCalls({0}, {<<>>})
  BY <1>6 DEF PrefCalls
<1>8. PICK r \in PrefCalls({0}, {<<>>}) : r = [IdleCall EXCEPT !.pc = "done", !.status = status]
  BY <1>7
<1>9. call' = [call EXCEPT ![c] = r] /\ call'[c] = r
  BY <1>1, <1>4, <1>5, <1>8 DEF Respond
<1>10. r.pc = "done"
  BY <1>6, <1>8 DEF PrefCalls
<1>11. PrefCallOK(c)'
  BY <1>9, <1>10 DEF PrefCallOK, Quiet
<1>12. QED
  BY <1>3, <1>9, <1>11, PrefReads

\* The entries there are at the start have the ids 1, 2, 3 and so on.
LEMMA PrefInitOK ==
  ASSUME PrefInit
  PROVE  PrefInv
<1>1. PICK given \in SUBSET (Scope \X PrefKey) :
        LET order == SetToSeq(given)
        IN  /\ prefs = {[id |-> i, scope |-> order[i][1], key |-> order[i][2],
                           version |-> 1, value |-> 0] : i \in DOMAIN order}
            /\ lastId = Len(order)
  BY DEF PrefInit
<1>2. IsFiniteSet(given)
  <2>1. PrefScopes \in Seq(STRING) /\ PrefKeys \in Nat
    BY PrefAssumption
  <2>2. IsFiniteSet(1 .. Len(PrefScopes)) /\ IsFiniteSet(PrefKey)
    BY <2>1, FS_Interval DEF PrefKey
  <2>3. PrefScopes \in Surjection(1 .. Len(PrefScopes), Scope)
    <3>1. PrefScopes \in [1 .. Len(PrefScopes) -> Scope] /\ DOMAIN PrefScopes = 1 .. Len(PrefScopes)
      BY <2>1 DEF Scope, ToSet
    <3>2. \A t \in Scope : \E i \in 1 .. Len(PrefScopes) : PrefScopes[i] = t
      BY <3>1 DEF Scope, ToSet
    <3>3. QED
      BY <3>1, <3>2 DEF Surjection
  <2>4. IsFiniteSet(Scope)
    BY <2>2, <2>3, FS_Surjection
  <2>5. IsFiniteSet(Scope \X PrefKey)
    BY <2>2, <2>4, FS_Product
  <2>6. QED
    BY <2>5, FS_Subset
<1>3. PICK n \in Nat : n = Cardinality(given) /\ ExistsBijection(1 .. n, given)
  BY <1>2, FS_CardinalityType
<1>4. PICK f \in [1 .. n -> given] : IsInjective(f)
  BY <1>3 DEF ExistsBijection, Bijection, Injection
<1>5. SetToSeq(given) \in [1 .. n -> given]
  BY <1>3, <1>4 DEF SetToSeq
<1>6. PICK order \in [1 .. n -> given] : order = SetToSeq(given)
  BY <1>5
<1>7. DOMAIN order = 1 .. n /\ Len(order) = n
  BY <1>6
<1>8. /\ prefs = {[id |-> i, scope |-> order[i][1], key |-> order[i][2],
                     version |-> 1, value |-> 0] : i \in 1 .. n}
      /\ lastId = n
  BY <1>1, <1>6, <1>7
<1>9. ASSUME NEW i \in 1 .. n PROVE order[i][1] \in Scope /\ order[i][2] \in PrefKey
  BY <1>6
<1>10. RowsOK
  <2>1. prefs \subseteq Row
    BY <1>8, <1>9 DEF Row
  <2>2. \A e \in prefs : e.id <= lastId
    BY <1>3, <1>8
  <2>3. \A d, e \in prefs : d.id = e.id => d = e
    BY <1>8
  <2>4. QED
    BY <1>3, <1>8, <2>1, <2>2, <2>3 DEF RowsOK
<1>11. call = [c \in CallId |-> IdleCall]
  BY DEF PrefInit
<1>12. call \in [CallId -> PrefCalls({call[c].total : c \in CallId}
                                       \cup {call[c].offset : c \in CallId},
                                     {call[c].seen : c \in CallId})]
  <2> DEFINE N1 == {call[c].total : c \in CallId} \cup {call[c].offset : c \in CallId}
             L1 == {call[c].seen : c \in CallId}
  <2>1. ASSUME NEW c \in CallId PROVE call[c] \in PrefCalls(N1, L1)
    <3>1. call[c].total \in N1 /\ call[c].seen \in L1
      OBVIOUS
    <3>2. call[c] = IdleCall /\ IdleCall.total = 0 /\ IdleCall.seen = <<>>
      BY <1>11 DEF IdleCall
    <3> HIDE DEF N1, L1
    <3>3. QED
      BY <3>1, <3>2, PrefIdle
  <2> HIDE DEF N1, L1
  <2>2. call \in [CallId -> PrefCalls(N1, L1)]
    BY <1>11, <2>1
  <2>3. QED
    BY <2>2 DEF N1, L1
<1>13. \A c \in CallId : PrefCallOK(c)
  BY <1>11, PrefIdle DEF PrefCallOK, Quiet
<1>14. QED
  BY <1>10, <1>12, <1>13 DEF PrefInv

\* PrefInv is inductive.
LEMMA PrefStepOK ==
  ASSUME PrefInv, [PrefNext]_prefVars
  PROVE  PrefInv'
<1>1. CASE UNCHANGED prefVars
  <2>1. prefs' = prefs /\ lastId' = lastId /\ call' = call /\ disturbed' = disturbed
    BY <1>1 DEF prefVars
  <2>2. RowsOK' /\ \A c \in CallId : PrefCallOK(c)'
    BY <2>1 DEF PrefInv, RowsOK, PrefCallOK, Quiet, MadeToExpected
  <2>3. QED
    BY <2>1, <2>2 DEF PrefInv
<1>2. CASE PrefNext
  BY <1>2, PrefToolCallKeeps, PrefReadKeeps, PrefInsertKeeps, PrefWriteKeeps, PrefListKeeps,
     PrefAuditKeeps DEF PrefNext
<1>3. QED
  BY <1>1, <1>2

LEMMA PrefInvariant == PrefSpec => []PrefInv
<1>1. PrefInit => PrefInv
  BY PrefInitOK
<1>2. PrefInv /\ [PrefNext]_prefVars => PrefInv'
  BY PrefStepOK
<1>3. QED
  BY <1>1, <1>2, PTL DEF PrefSpec

(***************************************************************************)
(* An update or delete of a preference that says it succeeded was made to  *)
(* the version its caller expected, and is in the table, unless another    *)
(* call changed the table between the read and the write of the handler.   *)
(***************************************************************************)
THEOREM PrefVersionsHonoured == PrefSpec => []ExpectedVersionHonoured
<1>1. PrefInv => ExpectedVersionHonoured
  BY DEF PrefInv, PrefCallOK, ExpectedVersionHonoured
<1>2. QED
  BY <1>1, PrefInvariant, PTL

(***************************************************************************)
(* Whatever entry a late UpdatePreference has read, the store never brings *)
(* a deleted one back: new entries have ids that were never used.          *)
(***************************************************************************)
THEOREM PrefDeletesLast == PrefSpec => DeletedStaysDeleted
<1>1. ASSUME PrefInv, [PrefNext]_prefVars
      PROVE  [\A e \in prefs' : e.id > lastId \/ \E d \in prefs : d.id = e.id]_prefVars
  <2>1. CASE prefs' = prefs
    BY <2>1
  <2>2. ASSUME NEW c \in CallId, PrefInsert(c), prefs' # prefs
        PROVE  \A e \in prefs' : e.id > lastId \/ \E d \in prefs : d.id = e.id
    <3>1. PICK e : /\ e = [id |-> lastId + 1, scope |-> call[c].scope, key |-> call[c].key,
                           version |-> 1, value |-> c]
                   /\ prefs' = prefs \cup {e}
      BY <2>2 DEF PrefInsert, Change
    <3>2. e.id > lastId
      BY <1>1, <3>1 DEF PrefInv, RowsOK
    <3>3. QED
      BY <3>1, <3>2
  <2>3. ASSUME NEW c \in CallId, PrefWrite(c)
        PROVE  \A e \in prefs' : \E d \in prefs : d.id = e.id
    <3>1. \/ prefs' = UpdateHeld(c)
          \/ prefs' \subseteq prefs
      BY <2>3 DEF PrefWrite, Change
    <3>2. RowsOK /\ call[c].held \in Row \cup {NoPref}
      BY <1>1 DEF PrefInv, PrefCalls
    <3>3. QED
      BY <3>1, <3>2, UpdateHeldFacts
  <2>4. ASSUME NEW c \in CallId,
               ToolCall(c) \/ PrefRead(c) \/ ListCount(c) \/ ListFind(c)
                 \/ EffectiveScope(c) \/ WriteAudit(c)
        PROVE  prefs' = prefs
    BY <2>4 DEF ToolCall, PrefRead, ListCount, ListFind, EffectiveScope, WriteAudit
  <2>5. QED
    BY <1>1, <2>1, <2>2, <2>3, <2>4 DEF PrefNext, prefVars
<1>2. QED
  BY <1>1, PrefInvariant, PTL DEF PrefSpec, DeletedStaysDeleted

-----------------------------------------------------------------------------
(* Preferences: lists *)

\* An order of the entries of a scope has each of them.
LEMMA SortedFacts ==
  ASSUME IsFiniteSet(prefs), NEW scope, NEW s \in Sorted(scope)
  PROVE  /\ s \in Seq(InScope(scope))
         /\ Len(s) \in Nat /\ Len(s) = Cardinality(InScope(scope))
<1>1. IsFiniteSet(InScope(scope))
  BY FS_Subset DEF InScope
<1>2. PICK n \in Nat : n = Cardinality(InScope(scope))
  BY <1>1, FS_CardinalityType
<1>3. s \in [1 .. n -> InScope(scope)]
  BY <1>2 DEF Sorted, SetToSeqs
<1>4. s \in Seq(InScope(scope)) /\ Len(s) = n
  BY <1>2, <1>3
<1>5. QED
  BY <1>2, <1>4

\* The list of a call goes on while neither it nor the table changes, and is out
\* of date when another call has changed the table.
LEMMA ListStays ==
  ASSUME NEW c \in CallId, ListOK(c), call'[c] = call[c],
         \/ prefs' = prefs /\ disturbed \subseteq disturbed'
         \/ c \in disturbed'
         \/ call[c].pc \in {"idle", "done"}
  PROVE  ListOK(c)'
<1>1. CASE prefs' = prefs /\ disturbed \subseteq disturbed'
  BY <1>1 DEF ListOK, ListedSoFar, Listing, Quiet, Sorted, InScope
<1>2. CASE c \in disturbed'
  BY <1>2 DEF ListOK, Listing, Quiet
<1>3. CASE call[c].pc \in {"idle", "done"}
  BY <1>3 DEF ListOK, Listing, Quiet
<1>4. QED
  BY <1>1, <1>2, <1>3

\* What is left to show of a step of one call: the call itself.
LEMMA ListStep ==
  ASSUME ListInv, NEW c \in CallId, NEW r, call' = [call EXCEPT ![c] = r],
         DOMAIN call = CallId,
         called' \in Nat, called <= called', c <= called', IsFiniteSet(prefs'),
         \/ prefs' = prefs /\ disturbed' = disturbed
         \/ Change(c, prefs'),
         ListOK(c)'
  PROVE  ListInv'
<1>1. call'[c] = r /\ \A d \in CallId \ {c} : call'[d] = call[d]
  OBVIOUS
<1>2. ASSUME NEW d \in CallId PROVE ListOK(d)'
  <2>1. CASE d = c
    BY <2>1
  <2>2. CASE d # c
    <3>1. call'[d] = call[d] /\ ListOK(d)
      BY <1>1, <2>2 DEF ListInv
    <3>2. \/ prefs' = prefs /\ disturbed \subseteq disturbed'
          \/ d \in disturbed'
          \/ call[d].pc \in {"idle", "done"}
      BY <2>2 DEF Change, OpenCalls
    <3>3. QED
      BY <3>1, <3>2, ListStays
  <2>3. QED
    BY <2>1, <2>2
<1>3. ASSUME NEW d \in CallId, d > called' PROVE call'[d] = IdleCall
  <2>1. d \in Nat /\ c \in Nat /\ called \in Nat
    BY DEF CallId, ListInv
  <2>2. d # c /\ d > called
    BY <1>3, <2>1
  <2>3. QED
    BY <1>1, <2>2 DEF ListInv
<1>4. QED
  BY <1>2, <1>3 DEF ListInv

\* A call that is open has arrived.
LEMMA OpenHasArrived ==
  ASSUME ListInv, NEW c \in CallId, call[c].pc # "idle"
  PROVE  c <= called
<1>1. c \in Nat /\ called \in Nat
  BY DEF CallId, ListInv
<1>2. ~(c > called)
  BY PrefIdle DEF ListInv
<1>3. QED
  BY <1>1, <1>2

\* One step of another tool, or the end of a list that failed.
LEMMA OtherToolSteps ==
  ASSUME PrefInv, ListInv, NEW c \in CallId, NEW r, call' = [call EXCEPT ![c] = r],
         r.pc \notin {"count", "find"},
         r.pc = "audit" /\ r.status = "success" => r.tool # "list",
         called' \in Nat, called <= called', c <= called', IsFiniteSet(prefs'),
         \/ prefs' = prefs /\ disturbed' = disturbed
         \/ Change(c, prefs')
  PROVE  ListInv'
<1>1. DOMAIN call = CallId
  BY DEF PrefInv
<1>2. call'[c] = r
  BY <1>1
<1>3. ListOK(c)'
  BY <1>2 DEF ListOK, Listing, Quiet
<1>4. QED
  BY <1>1, <1>3, ListStep

LEMMA OtherToolEnds ==
  ASSUME PrefInv, ListInv, NEW c \in CallId, NEW status \in {"success", "error"}, Finish(c, status),
         status = "success" => call[c].tool # "list",
         called' \in Nat, called <= called', c <= called', IsFiniteSet(prefs'),
         \/ prefs' = prefs /\ disturbed' = disturbed
         \/ Change(c, prefs')
  PROVE  ListInv'
<1>1. PICK N, L : \E r \in PrefCalls(N, L) :
         /\ call' = [call EXCEPT ![c] = r] /\ call'[c] = r
         /\ r.pc = "audit" /\ r.status = status
         /\ status = "success" => /\ r.tool = call[c].tool
                                  /\ r.held = call[c].held /\ r.expected = call[c].expected
  BY FinishFacts
<1>2. PICK r \in PrefCalls(N, L) :
         /\ call' = [call EXCEPT ![c] = r]
         /\ r.pc = "audit" /\ r.status = status
         /\ status = "success" => r.tool = call[c].tool
  BY <1>1
<1>3. QED
  BY <1>2, OtherToolSteps

\* A list that begins has shown nothing.
LEMMA ListBegins ==
  ASSUME PrefInv, ListInv, NEW c \in CallId, ToolCall(c)
  PROVE  ListInv'
<1>1. /\ prefs' = prefs /\ disturbed' = disturbed
      /\ called' = c /\ c = called + 1
      /\ c \in Nat /\ called \in Nat
  BY DEF ToolCall, ListInv, CallId
<1>2. /\ called' \in Nat /\ called <= called' /\ c <= called' /\ c > called
      /\ IsFiniteSet(prefs')
  BY <1>1 DEF ListInv
<1>3. call[c] = IdleCall /\ DOMAIN call = CallId
  BY <1>2 DEF ListInv, PrefInv
<1>4. ASSUME NEW pc, NEW tool, NEW scope, NEW key, NEW expected,
             Start(c, pc, tool, scope, key, expected), pc \in {"read", "scopes"}
      PROVE  ListInv'
  <2>1. PICK r : r = [call[c] EXCEPT !.pc = pc, !.tool = tool, !.scope = scope, !.key = key,
                                     !.expected = expected]
    OBVIOUS
  <2>2. r.pc = pc
    BY <1>3, <2>1 DEF IdleCall
  <2>3. call' = [call EXCEPT ![c] = r]
    BY <1>3, <1>4, <2>1 DEF Start
  <2>4. QED
    BY <1>1, <1>2, <1>4, <2>2, <2>3, OtherToolSteps
<1>5. CASE PreferenceGet(c) \/ PreferenceCreate(c)
  <2>1. PICK scope, key, tool : Start(c, "read", tool, scope, key, 0)
    BY <1>5 DEF PreferenceGet, PreferenceCreate
  <2>2. QED
    BY <1>4, <2>1
<1>6. CASE PreferenceUpdate(c) \/ PreferenceDelete(c)
  <2>1. PICK scope, key, expected, tool : Start(c, "read", tool, scope, key, expected)
    BY <1>6 DEF PreferenceUpdate, PreferenceDelete
  <2>2. QED
    BY <1>4, <2>1
<1>7. CASE PreferenceEffective(c)
  BY <1>4, <1>7 DEF PreferenceEffective
<1>8. CASE Finish(c, "error")
  BY <1>1, <1>2, <1>8, OtherToolEnds
<1>9. CASE PreferenceList(c)
  <2>1. PICK scope \in Scope : Start(c, "count", "list", scope, 0, 0)
    BY <1>9 DEF PreferenceList
  <2>2. PICK r : r = [call[c] EXCEPT !.pc = "count", !.tool = "list", !.scope = scope, !.key = 0,
                                     !.expected = 0]
    OBVIOUS
  <2>3. r.pc = "count" /\ r.scope = scope /\ r.offset = 0 /\ r.seen = <<>>
    BY <1>3, <2>2 DEF IdleCall
  <2>4. call' = [call EXCEPT ![c] = r] /\ call'[c] = r
    BY <1>3, <2>1, <2>2 DEF Start
  <2>5. ASSUME NEW s \in Sorted(scope)
        PROVE  0 <= Len(s) /\ <<>> = SubSeq(s, 1, 0)
    <3>1. Len(s) \in Nat
      BY SortedFacts DEF ListInv
    <3>2. QED
      BY <3>1, SubSeqEmpty
  <2>6. ListOK(c)'
    <3>1. /\ call'[c].pc = "count" /\ call'[c].scope = scope
          /\ call'[c].offset = 0 /\ call'[c].seen = <<>>
      BY <2>3, <2>4
    <3>2. ASSUME NEW s \in Sorted(scope) PROVE ListedSoFar(c, s)'
      BY <2>5, <3>1 DEF ListedSoFar
    <3>3. Sorted(call[c].scope)' = Sorted(scope)
      BY <1>1, <3>1 DEF Sorted, InScope
    <3>4. QED
      BY <3>1, <3>2, <3>3 DEF ListOK, Listing, Quiet
  <2>7. QED
    BY <1>1, <1>2, <1>3, <2>4, <2>6, ListStep
<1>10. QED
  BY <1>5, <1>6, <1>7, <1>8, <1>9 DEF ToolCall

\* The other tools.
LEMMA OtherTools ==
  ASSUME PrefInv, ListInv, NEW c \in CallId,
         PrefRead(c) \/ PrefInsert(c) \/ PrefWrite(c) \/ EffectiveScope(c) \/ WriteAudit(c)
  PROVE  ListInv'
<1> DEFINE N1 == {call[d].total : d \in CallId} \cup {call[d].offset : d \in CallId}
           L1 == {call[d].seen : d \in CallId}
<1>1. call \in [CallId -> PrefCalls(N1, L1)]
  BY DEF PrefInv
<1> HIDE DEF N1, L1
<1>2. call[c] \in PrefCalls(N1, L1) /\ PrefCallOK(c)
  BY <1>1 DEF PrefInv
<1>3. /\ call[c].pc \notin {"idle", "count", "find"} /\ called' = called
  BY DEF PrefRead, PrefInsert, PrefWrite, EffectiveScope, WriteAudit
<1>4. called' \in Nat /\ called <= called' /\ c <= called'
  BY <1>3, OpenHasArrived DEF ListInv
<1>5. /\ DOMAIN call = CallId /\ IsFiniteSet(prefs)
      /\ call[c].pc = "read" => call[c].tool \in {"get", "create", "update", "delete"}
      /\ call[c].pc = "insert" => call[c].tool = "create"
      /\ call[c].pc \in {"update", "delete"} => call[c].tool = call[c].pc
      /\ call[c].pc = "scopes" => call[c].tool = "effective"
  BY <1>1, <1>2 DEF PrefCallOK, ListInv
<1>6. CASE PrefRead(c)
  <2>1. prefs' = prefs /\ disturbed' = disturbed /\ IsFiniteSet(prefs') /\ call[c].pc = "read"
    BY <1>5, <1>6 DEF PrefRead
  <2>2. CASE Finish(c, "error")
    BY <1>4, <2>1, <2>2, OtherToolEnds
  <2>3. CASE call[c].tool = "get" /\ Finish(c, "success")
    BY <1>4, <2>1, <2>3, OtherToolEnds
  <2>4. CASE Go(c, "insert")
    <3>1. PICK r : r = [call[c] EXCEPT !.pc = "insert"]
      OBVIOUS
    <3>2. r.pc = "insert" /\ call' = [call EXCEPT ![c] = r]
      BY <1>2, <1>5, <2>4, <3>1 DEF Go, PrefCalls
    <3>3. QED
      BY <1>4, <2>1, <3>2, OtherToolSteps
  <2>5. CASE /\ call[c].tool \in {"update", "delete"}
             /\ \E e : call' = [call EXCEPT ![c].pc = call[c].tool, ![c].held = e]
    <3>1. PICK e : call' = [call EXCEPT ![c].pc = call[c].tool, ![c].held = e]
      BY <2>5
    <3>2. PICK r : r = [call[c] EXCEPT !.pc = call[c].tool, !.held = e]
      OBVIOUS
    <3>3. r.pc = call[c].tool /\ call' = [call EXCEPT ![c] = r]
      BY <1>2, <1>5, <3>1, <3>2 DEF PrefCalls
    <3>4. QED
      BY <1>4, <2>1, <2>5, <3>3, OtherToolSteps
  <2>6. QED
    BY <1>5, <1>6, <2>1, <2>2, <2>3, <2>4, <2>5 DEF PrefRead
<1>7. CASE PrefInsert(c)
  <2>1. call[c].tool = "create"
    BY <1>5, <1>7 DEF PrefInsert
  <2>2. CASE Finish(c, "error") /\ UNCHANGED <<prefs, lastId, disturbed>>
    BY <1>4, <1>5, <2>2, OtherToolEnds
  <2>3. CASE ~(Finish(c, "error") /\ UNCHANGED <<prefs, lastId, disturbed>>)
    <3>1. PICK o \in PrefOutcome : \E e :
             Change(c, prefs \cup {e}) /\ Finish(c, IF o = "ok" THEN "success" ELSE "error")
      BY <1>7, <2>3 DEF PrefInsert
    <3>2. \E e : prefs' = prefs \cup {e} /\ Change(c, prefs')
      BY <3>1 DEF Change
    <3>3. IsFiniteSet(prefs')
      BY <1>5, <3>2, FS_AddElement
    <3>4. PICK status \in {"success", "error"} : Finish(c, status)
      BY <3>1
    <3>5. QED
      BY <1>4, <2>1, <3>2, <3>3, <3>4, OtherToolEnds
  <2>4. QED
    BY <2>2, <2>3
<1>8. CASE PrefWrite(c)
  <2>1. call[c].tool \in {"update", "delete"}
    BY <1>5, <1>8 DEF PrefWrite
  <2>2. PICK o \in PrefOutcome :
          /\ Change(c, IF o = "fail" THEN prefs
                       ELSE IF call[c].pc = "update" THEN UpdateHeld(c)
                       ELSE {x \in prefs : x.id # call[c].held.id})
          /\ Finish(c, IF o = "ok" THEN "success" ELSE "error")
    BY <1>8 DEF PrefWrite
  <2>3. /\ prefs' \in {prefs, UpdateHeld(c), {x \in prefs : x.id # call[c].held.id}}
        /\ Change(c, prefs')
    BY <2>2 DEF Change
  <2>4. IsFiniteSet(UpdateHeld(c))
    <3> DEFINE held == call[c].held
               To(x) == IF x.id = held.id THEN [x EXCEPT !.version = held.version + 1, !.value = c]
                        ELSE x
               f == [x \in prefs |-> To(x)]
    <3>1. UpdateHeld(c) = {To(x) : x \in prefs}
      BY DEF UpdateHeld
    <3> HIDE DEF To
    <3>2. f \in Surjection(prefs, {To(x) : x \in prefs})
      BY DEF Surjection
    <3>3. QED
      BY <1>5, <3>1, <3>2, FS_Surjection
  <2>5. IsFiniteSet({x \in prefs : x.id # call[c].held.id})
    BY <1>5, FS_Subset
  <2>6. IsFiniteSet(prefs')
    BY <1>5, <2>3, <2>4, <2>5
  <2>7. PICK status \in {"success", "error"} : Finish(c, status)
    BY <2>2
  <2>8. QED
    BY <1>4, <2>1, <2>3, <2>6, <2>7, OtherToolEnds
<1>9. CASE EffectiveScope(c)
  <2>1. prefs' = prefs /\ disturbed' = disturbed /\ IsFiniteSet(prefs') /\ call[c].tool = "effective"
    BY <1>5, <1>9 DEF EffectiveScope
  <2>2. CASE Finish(c, "error")
    BY <1>4, <2>1, <2>2, OtherToolEnds
  <2>3. CASE ~Finish(c, "error")
    <3>1. PICK n : n = call[c].offset + 1
      OBVIOUS
    <3>2. PICK page \in Pages(PrefScopes[n], 0, ListLimit) :
             call' = [call EXCEPT ![c].offset = n,
                                  ![c].seen = FoldScope(@, page),
                                  ![c].pc = IF n = Len(PrefScopes) THEN "audit" ELSE "scopes",
                                  ![c].status = IF n = Len(PrefScopes) THEN "success" ELSE "none"]
      BY <1>9, <2>3, <3>1 DEF EffectiveScope
    <3>3. PICK seen : seen = FoldScope(call[c].seen, page)
      OBVIOUS
    <3>4. PICK pc \in {"scopes", "audit"} : pc = IF n = Len(PrefScopes) THEN "audit" ELSE "scopes"
      OBVIOUS
    <3>5. PICK status : status = IF n = Len(PrefScopes) THEN "success" ELSE "none"
      OBVIOUS
    <3>6. PICK r : r = [call[c] EXCEPT !.offset = n, !.seen = seen, !.pc = pc, !.status = status]
      OBVIOUS
    <3>7. call' = [call EXCEPT ![c] = r]
      BY <1>5, <3>2, <3>3, <3>4, <3>5, <3>6
    <3>8. r.pc = pc /\ r.tool = "effective"
      BY <1>2, <2>1, <3>6 DEF PrefCalls
    <3>9. QED
      BY <1>4, <2>1, <3>7, <3>8, OtherToolSteps
  <2>4. QED
    BY <2>2, <2>3
<1>10. CASE WriteAudit(c)
  <2>1. prefs' = prefs /\ disturbed' = disturbed /\ IsFiniteSet(prefs')
    BY <1>5, <1>10 DEF WriteAudit
  <2>2. PICK status : Respond(c, status)
    BY <1>10 DEF WriteAudit
  <2>3. PICK r : r = [IdleCall EXCEPT !.pc = "done", !.status = status]
    OBVIOUS
  <2>4. r.pc = "done" /\ call' = [call EXCEPT ![c] = r]
    BY <2>2, <2>3 DEF Respond, IdleCall
  <2>5. QED
    BY <1>4, <2>1, <2>4, OtherToolSteps
<1>11. QED
  BY <1>6, <1>7, <1>8, <1>9, <1>10

LEMMA ListCounts ==
  ASSUME PrefInv, ListInv, NEW c \in CallId, ListCount(c)
  PROVE  ListInv'
<1> DEFINE N1 == {call[d].total : d \in CallId} \cup {call[d].offset : d \in CallId}
           L1 == {call[d].seen : d \in CallId}
<1>1. call \in [CallId -> PrefCalls(N1, L1)]
  BY DEF PrefInv
<1> HIDE DEF N1, L1
<1>2. call[c] \in PrefCalls(N1, L1) /\ DOMAIN call = CallId
  BY <1>1
<1>3. /\ prefs' = prefs /\ disturbed' = disturbed /\ called' = called
      /\ call[c].pc = "count" /\ IsFiniteSet(prefs')
  BY DEF ListCount, ListInv
<1>4. called' \in Nat /\ called <= called' /\ c <= called'
  BY <1>3, OpenHasArrived DEF ListInv
<1>5. CASE Finish(c, "error")
  BY <1>3, <1>4, <1>5, OtherToolEnds
<1>6. CASE ~Finish(c, "error")
  <2>1. PICK n : n = Cardinality(InScope(call[c].scope))
    OBVIOUS
  <2>2. call' = [call EXCEPT ![c].pc = "find", ![c].total = n]
    BY <1>6, <2>1 DEF ListCount
  <2>3. PICK r : r = [call[c] EXCEPT !.pc = "find", !.total = n]
    OBVIOUS
  <2>4. call' = [call EXCEPT ![c] = r] /\ call'[c] = r
    BY <1>2, <2>2, <2>3
  <2>5. /\ r.pc = "find" /\ r.total = n /\ r.scope = call[c].scope
        /\ r.offset = call[c].offset /\ r.seen = call[c].seen
    BY <1>2, <2>3 DEF PrefCalls
  <2>6. PICK scope : scope = call[c].scope
    OBVIOUS
  <2>7. Sorted(call[c].scope)' = Sorted(scope)
    BY <1>3, <2>4, <2>5, <2>6 DEF Sorted, InScope
  <2>8. ASSUME NEW s \in Sorted(scope), Sorted(scope) = {s}, c \notin disturbed
        PROVE  ListedSoFar(c, s)'
    <3>1. ListedSoFar(c, s)
      BY <1>3, <2>6, <2>8 DEF ListInv, ListOK, Listing
    <3>2. n = Len(s)
      BY <2>1, <2>6, SortedFacts DEF ListInv
    <3>3. QED
      BY <2>4, <2>5, <3>1, <3>2 DEF ListedSoFar
  <2>9. call'[c].offset \in Nat
    BY <1>3, <2>4, <2>5 DEF ListInv, ListOK, Listing
  <2>10. ListOK(c)'
    BY <1>3, <2>4, <2>5, <2>7, <2>8, <2>9 DEF ListOK, Listing, Quiet
  <2>11. QED
    BY <1>2, <1>3, <1>4, <2>4, <2>10, ListStep
<1>7. QED
  BY <1>5, <1>6

\* A page: what it has, and what the client has seen with it.
LEMMA PageFacts ==
  ASSUME NEW S, NEW s \in Seq(S), NEW o \in Nat, NEW n \in Nat \ {0},
         NEW page, page = SubSeq(s, o + 1, IF o + n < Len(s) THEN o + n ELSE Len(s))
  PROVE  /\ page \in Seq(S) /\ Len(page) \in Nat
         /\ o <= Len(s) =>
              /\ Len(page) = IF o + n < Len(s) THEN n ELSE Len(s) - o
              /\ SubSeq(s, 1, o) \o page =
                   SubSeq(s, 1, IF o + n < Len(s) THEN o + n ELSE Len(s))
<1>1. Len(s) \in Nat
  OBVIOUS
<1>2. PICK m \in Nat : m = (IF o + n < Len(s) THEN o + n ELSE Len(s)) /\ m <= Len(s)
  BY <1>1
<1>3. \A i \in o + 1 .. m : s[i] \in S
  <2>1. \A i \in o + 1 .. m : i \in 1 .. Len(s)
    BY <1>1, <1>2
  <2>2. QED
    BY <2>1
<1>4. /\ page \in Seq(S)
      /\ Len(page) = IF o + 1 <= m THEN m - (o + 1) + 1 ELSE 0
  BY <1>2, <1>3, SubSeqProperties
<1>5. Len(page) \in Nat
  BY <1>4
<1>6. ASSUME o <= Len(s)
      PROVE  /\ Len(page) = IF o + n < Len(s) THEN n ELSE Len(s) - o
             /\ SubSeq(s, 1, o) \o page = SubSeq(s, 1, m)
  <2>1. o <= m
    BY <1>1, <1>2, <1>6
  <2>2. /\ 1 \in 1 .. Len(s) + 1 /\ o \in 1 - 1 .. Len(s) /\ m \in o .. Len(s)
    BY <1>1, <1>2, <1>6, <2>1
  <2>3. SubSeq(s, 1, o) \o SubSeq(s, o + 1, m) = SubSeq(s, 1, m)
    BY <2>2, ConcatAdjacentSubSeq
  <2>4. Len(page) = m - o
    BY <1>2, <1>4, <2>1
  <2>5. Len(page) = IF o + n < Len(s) THEN n ELSE Len(s) - o
    BY <1>1, <1>2, <2>4
  <2>6. QED
    BY <1>2, <2>3, <2>5
<1>7. QED
  BY <1>2, <1>4, <1>5, <1>6

\* One entry more than the limit n is asked for after o of them, and left to the
\* next page.
PageAfter(s, o, n, page) ==
  /\ Len(page) > n => /\ o + n <= Len(s) /\ page # <<>>
                      /\ SubSeq(s, 1, o) \o Front(page) = SubSeq(s, 1, o + n)
  /\ ~(Len(page) > n) => /\ o + Len(page) = Len(s)
                         /\ SubSeq(s, 1, o) \o page = s

LEMMA PageShown ==
  ASSUME NEW S, NEW s \in Seq(S), NEW o \in Nat, o <= Len(s), NEW n \in Nat \ {0},
         NEW page, page = SubSeq(s, o + 1, IF o + (n + 1) < Len(s) THEN o + (n + 1) ELSE Len(s))
  PROVE  PageAfter(s, o, n, page)
<1>1. Len(s) \in Nat /\ n + 1 \in Nat \ {0}
  OBVIOUS
<1>2. /\ page \in Seq(S) /\ Len(page) \in Nat
      /\ Len(page) = IF o + (n + 1) < Len(s) THEN n + 1 ELSE Len(s) - o
      /\ SubSeq(s, 1, o) \o page =
           SubSeq(s, 1, IF o + (n + 1) < Len(s) THEN o + (n + 1) ELSE Len(s))
  BY <1>1, PageFacts
<1>3. CASE Len(page) > n
  <2>1. /\ o + (n + 1) <= Len(s)
        /\ (IF o + (n + 1) < Len(s) THEN o + (n + 1) ELSE Len(s)) = o + (n + 1)
        /\ Len(page) = n + 1
    BY <1>1, <1>2, <1>3
  <2>2. page = SubSeq(s, o + 1, o + (n + 1))
    BY <2>1
  <2>3. Front(page) = SubSeq(page, 1, n)
    BY <2>1 DEF Front
  <2>4. /\ o + 1 \in 1 .. Len(s) /\ o + (n + 1) \in 1 .. Len(s)
        /\ (o + (n + 1)) - (o + 1) + 1 = n + 1
        /\ 1 \in 1 .. n + 1 /\ n \in 1 .. n + 1
        /\ (o + 1) + 1 - 1 = o + 1 /\ (o + 1) + n - 1 = o + n
    BY <1>1, <2>1
  <2>5. SubSeq(SubSeq(s, o + 1, o + (n + 1)), 1, n) = SubSeq(s, (o + 1) + 1 - 1, (o + 1) + n - 1)
    BY <2>4, SubSeqOfSubSeq
  <2>6. Front(page) = SubSeq(s, o + 1, o + n)
    BY <2>2, <2>3, <2>4, <2>5
  <2>7. 1 \in 1 .. Len(s) + 1 /\ o \in 1 - 1 .. Len(s) /\ o + n \in o .. Len(s)
    BY <1>1, <2>1
  <2>8. SubSeq(s, 1, o) \o SubSeq(s, o + 1, o + n) = SubSeq(s, 1, o + n)
    BY <2>7, ConcatAdjacentSubSeq
  <2>9. o + n <= Len(s) /\ page # <<>>
    <3>1. Len(<<>>) = 0
      OBVIOUS
    <3>2. Len(page) # 0 /\ o + n <= Len(s)
      BY <1>1, <2>1
    <3>3. QED
      BY <3>1, <3>2, Zenon
  <2>10. QED
    BY <1>3, <2>6, <2>8, <2>9 DEF PageAfter
<1>4. CASE ~(Len(page) > n)
  <2>1. /\ ~(o + (n + 1) < Len(s)) /\ Len(page) = Len(s) - o
    BY <1>1, <1>2, <1>4
  <2>2. SubSeq(s, 1, o) \o page = SubSeq(s, 1, Len(s))
    BY <1>2, <2>1
  <2>3. SubSeq(s, 1, Len(s)) = s
    BY SubSeqFull
  <2>4. o + Len(page) = Len(s)
    BY <1>1, <2>1
  <2>5. QED
    BY <1>4, <2>2, <2>3, <2>4 DEF PageAfter
<1>5. QED
  BY <1>3, <1>4

LEMMA ListFinds ==
  ASSUME PrefInv, ListInv, NEW c \in CallId, ListFind(c)
  PROVE  ListInv'
<1> DEFINE N1 == {call[d].total : d \in CallId} \cup {call[d].offset : d \in CallId}
           L1 == {call[d].seen : d \in CallId}
<1>1. call \in [CallId -> PrefCalls(N1, L1)]
  BY DEF PrefInv
<1> HIDE DEF N1, L1
<1>2. call[c] \in PrefCalls(N1, L1) /\ DOMAIN call = CallId
  BY <1>1
<1>3. /\ prefs' = prefs /\ disturbed' = disturbed /\ called' = called
      /\ call[c].pc = "find" /\ IsFiniteSet(prefs')
  BY DEF ListFind, ListInv
<1>4. called' \in Nat /\ called <= called' /\ c <= called'
  BY <1>3, OpenHasArrived DEF ListInv
<1>5. CASE Finish(c, "error")
  BY <1>3, <1>4, <1>5, OtherToolEnds
<1>6. CASE ~Finish(c, "error")
  <2>1. PICK scope, o, total, seen :
           /\ scope = call[c].scope /\ o = call[c].offset
           /\ total = call[c].total /\ seen = call[c].seen
    OBVIOUS
  <2>2. o \in Nat /\ ListLimit \in Nat \ {0}
    BY <1>3, <2>1, PrefAssumption DEF ListInv, ListOK, Listing
  <2>3. PICK page \in Pages(scope, o, ListLimit + 1) :
          LET shown == IF Len(page) > ListLimit THEN Front(page) ELSE page
              next == NextCursor(c, page)
              more == page # <<>> /\ (Len(page) > ListLimit \/ next < call[c].total)
          IN  call' = [call EXCEPT ![c].seen = @ \o shown, ![c].offset = next, ![c].total = 0,
                                   ![c].pc = IF more THEN "count" ELSE "audit",
                                   ![c].status = IF more THEN "none" ELSE "success"]
    BY <1>6, <2>1 DEF ListFind
  <2> DEFINE shown == IF Len(page) > ListLimit THEN Front(page) ELSE page
             next == o + (IF Len(page) > ListLimit THEN ListLimit ELSE Len(page))
             more == page # <<>> /\ (Len(page) > ListLimit \/ next < total)
             pc == IF more THEN "count" ELSE "audit"
             status == IF more THEN "none" ELSE "success"
  <2>4. PICK sorted \in Sorted(scope) :
           page = SubSeq(sorted, o + 1, IF o + (ListLimit + 1) < Len(sorted)
                                        THEN o + (ListLimit + 1) ELSE Len(sorted))
    BY <2>3 DEF Pages
  <2>5. sorted \in Seq(InScope(scope))
    BY SortedFacts DEF ListInv
  <2>6. Len(page) \in Nat
    <3>1. ListLimit + 1 \in Nat \ {0}
      BY <2>2
    <3>2. QED
      BY <2>2, <2>4, <2>5, <3>1, PageFacts
  <2>7. next \in Nat
    BY <2>2, <2>6
  <2>8. call' = [call EXCEPT ![c].seen = seen \o shown, ![c].offset = next, ![c].total = 0,
                             ![c].pc = pc, ![c].status = status]
    BY <2>1, <2>3 DEF NextCursor
  <2>9. PICK r : r = [call[c] EXCEPT !.seen = seen \o shown, !.offset = next, !.total = 0,
                                     !.pc = pc, !.status = status]
    OBVIOUS
  <2>10. ASSUME Sorted(scope) = {sorted}, c \notin disturbed
         PROVE  /\ next <= Len(sorted) /\ seen \o shown = SubSeq(sorted, 1, next)
                /\ ~more => seen \o shown = sorted
    <3>1. ListedSoFar(c, sorted)
      BY <1>3, <2>1, <2>10 DEF ListInv, ListOK, Listing
    <3>2. o <= Len(sorted) /\ seen = SubSeq(sorted, 1, o) /\ total = Len(sorted)
      BY <1>3, <2>1, <3>1 DEF ListedSoFar
    <3>3. /\ Len(page) > ListLimit =>
                /\ o + ListLimit <= Len(sorted) /\ page # <<>>
                /\ SubSeq(sorted, 1, o) \o Front(page) = SubSeq(sorted, 1, o + ListLimit)
          /\ ~(Len(page) > ListLimit) => /\ o + Len(page) = Len(sorted)
                                         /\ SubSeq(sorted, 1, o) \o page = sorted
      <4>1. o <= Len(sorted) /\ o \in Nat /\ ListLimit \in Nat \ {0}
        BY <2>2, <3>2
      <4>2. page = SubSeq(sorted, o + 1, IF o + (ListLimit + 1) < Len(sorted)
                                         THEN o + (ListLimit + 1) ELSE Len(sorted))
        BY <2>4
      <4>3. QED
        <5> HIDE DEF shown, next, more
        <5>1. PageAfter(sorted, o, ListLimit, page)
          BY <2>5, <4>1, <4>2, PageShown
        <5>2. QED
          BY <2>5, <5>1 DEF PageAfter
    <3>4. CASE Len(page) > ListLimit
      BY <3>2, <3>3, <3>4
    <3>5. CASE ~(Len(page) > ListLimit)
      <4>1. next = Len(sorted) /\ shown = page
        BY <3>3, <3>5
      <4>2. Len(sorted) \in Nat /\ SubSeq(sorted, 1, Len(sorted)) = sorted
        BY <2>5, SubSeqFull
      <4>3. seen \o shown = sorted
        BY <3>2, <3>3, <3>5, <4>1
      <4> HIDE DEF shown, next, more
      <4>4. next <= Len(sorted)
        BY <4>1, <4>2
      <4>5. QED
        BY <4>1, <4>2, <4>3, <4>4
    <3>6. QED
      BY <3>4, <3>5
  <2> HIDE DEF shown, next, more
  <2>11. call' = [call EXCEPT ![c] = r] /\ call'[c] = r
    BY <1>2, <2>8, <2>9
  <2>12. /\ r.pc = pc /\ r.offset = next /\ r.seen = seen \o shown
         /\ r.scope = scope /\ r.status = status
    BY <1>2, <2>1, <2>9 DEF PrefCalls
  <2>13. Sorted(call[c].scope)' = Sorted(scope)
    BY <1>3, <2>11, <2>12 DEF Sorted, InScope
  <2>14. ASSUME NEW s \in Sorted(scope), Sorted(scope) = {s}, c \notin disturbed
         PROVE  /\ more => ListedSoFar(c, s)'
                /\ ~more => seen \o shown = s
    <3>1. s = sorted
      BY <2>4, <2>14
    <3>2. next <= Len(s) /\ seen \o shown = SubSeq(s, 1, next) /\ (~more => seen \o shown = s)
      BY <2>10, <2>14, <3>1
    <3>3. more => r.pc = "count"
      BY <2>12
    <3>4. QED
      BY <2>11, <2>12, <3>2, <3>3 DEF ListedSoFar
  <2>15. ListOK(c)'
    <3>1. CASE more
      <4>1. call'[c].pc = "count" /\ call'[c].offset \in Nat
        BY <2>7, <2>11, <2>12, <3>1
      <4>2. QED
        BY <1>3, <2>13, <2>14, <3>1, <4>1 DEF ListOK, Listing, Quiet
    <3>2. CASE ~more
      <4>1. call'[c].pc = "audit" /\ call'[c].seen = seen \o shown
        BY <2>11, <2>12, <3>2
      <4>2. QED
        BY <1>3, <2>13, <2>14, <3>2, <4>1 DEF ListOK, Listing, Quiet
    <3>3. QED
      BY <3>1, <3>2
  <2>16. QED
    BY <1>2, <1>3, <1>4, <2>11, <2>15, ListStep
<1>7. QED
  BY <1>5, <1>6

\* No list has begun, and the entries are as many as there are ids.
LEMMA ListInitial == PrefInit => ListInv
<1> SUFFICES ASSUME PrefInit PROVE ListInv
  OBVIOUS
<1>1. RowsOK
  BY PrefInitOK DEF PrefInv
<1>2. IsFiniteSet(prefs)
  <2> DEFINE Id == [e \in prefs |-> e.id]
  <2>1. \A e \in prefs : e.id \in 1 .. lastId
    <3>1. \A e \in prefs : e.id >= 1
      BY DEF PrefInit
    <3>2. QED
      BY <1>1, <3>1 DEF RowsOK, Row
  <2>2. Id \in Injection(prefs, 1 .. lastId)
    BY <1>1, <2>1 DEF RowsOK, Injection, IsInjective
  <2>3. IsFiniteSet(1 .. lastId)
    BY <1>1, FS_Interval DEF RowsOK
  <2>4. QED
    BY <2>2, <2>3, FS_Injection
<1>3. call = [c \in CallId |-> IdleCall] /\ called = 0
  BY DEF PrefInit
<1>4. ASSUME NEW c \in CallId PROVE call[c] = IdleCall /\ ListOK(c)
  BY <1>3, PrefIdle DEF ListOK, Listing, Quiet
<1>5. QED
  BY <1>2, <1>3, <1>4 DEF ListInv

LEMMA ListInvStep ==
  ASSUME PrefInv, ListInv, [PrefNext]_prefVars
  PROVE  ListInv'
<1>1. CASE UNCHANGED prefVars
  <2>1. /\ prefs' = prefs /\ called' = called /\ call' = call /\ disturbed' = disturbed
    BY <1>1 DEF prefVars
  <2>2. \A c \in CallId : ListOK(c)'
    BY <2>1, ListStays DEF ListInv
  <2>3. QED
    BY <2>1, <2>2 DEF ListInv
<1>2. CASE PrefNext
  BY <1>2, ListBegins, OtherTools, ListCounts, ListFinds DEF PrefNext
<1>3. QED
  BY <1>1, <1>2

\* ListInv is inductive.
LEMMA ListInvariant == PrefSpec => []ListInv
<1>1. PrefInv /\ ListInv /\ [PrefNext]_prefVars => ListInv'
  BY ListInvStep
<1>2. QED
  BY <1>1, ListInitial, PrefInvariant, PTL DEF PrefSpec

-----------------------------------------------------------------------------
(* Preferences: bounds and types *)

LEMMA ReadyFacts ==
  /\ IsFiniteSet(CallId) /\ IsFiniteSet(Ready)
  /\ Cardinality(Ready) \in Nat /\ Cardinality(Ready) <= MaxCalls
<1>1. MaxCalls \in Nat
  BY PrefAssumption
<1>2. IsFiniteSet(CallId) /\ Cardinality(CallId) = MaxCalls
  <2>1. IsFiniteSet(1 .. MaxCalls) /\ Cardinality(1 .. MaxCalls) =
           IF 1 > MaxCalls THEN 0 ELSE MaxCalls - 1 + 1
    BY <1>1, FS_Interval
  <2>2. QED
    BY <1>1, <2>1 DEF CallId
<1>3. Ready \subseteq CallId
  BY DEF Ready
<1>4. IsFiniteSet(Ready) /\ Cardinality(Ready) <= Cardinality(CallId)
  BY <1>2, <1>3, FS_Subset
<1>5. Cardinality(Ready) \in Nat
  BY <1>4, FS_CardinalityType
<1>6. QED
  BY <1>2, <1>4, <1>5

LEMMA GivenType == Len(PrefScopes) \in Nat /\ Len(PrefScopes) * PrefKeys \in Nat /\ PrefKeys \in Nat
<1>1. Len(PrefScopes) \in Nat /\ PrefKeys \in Nat
  BY PrefAssumption
<1>2. QED
  BY <1>1

\* More calls leave more rows possible.
LEMMA WithinGrows ==
  ASSUME NEW n \in Nat, NEW m \in Nat, n <= m
  PROVE  /\ RowsWithin(n) \subseteq RowsWithin(m)
         /\ \A r : CallWithin(r, n) => CallWithin(r, m)
<1>1. ASSUME NEW e \in RowsWithin(n) PROVE e \in RowsWithin(m)
  <2>1. PICK g \in Nat : g = Len(PrefScopes) * PrefKeys
    BY GivenType
  <2>2. /\ e \in Row /\ e.id \in Nat /\ e.version \in Nat
        /\ e.id \in 1 .. g + n /\ e.version \in 1 .. n + 1
    BY <2>1 DEF RowsWithin
  <2>3. e.id \in 1 .. g + m /\ e.version \in 1 .. m + 1
    BY <2>2
  <2>4. QED
    BY <2>1, <2>2, <2>3 DEF RowsWithin
<1>2. RowsWithin(n) \subseteq RowsWithin(m)
  BY <1>1
<1>3. ASSUME NEW r, CallWithin(r, n) PROVE CallWithin(r, m)
  <2>1. r.seen \in Seq(RowsWithin(n)) /\ r.held \in RowsWithin(n) \cup {NoPref}
    BY <1>3 DEF CallWithin
  <2>2. r.seen \in Seq(RowsWithin(m))
    BY <1>2, <2>1
  <2>3. r.held \in RowsWithin(m) \cup {NoPref}
    BY <1>2, <2>1
  <2>4. QED
    BY <1>3, <2>2, <2>3 DEF CallWithin
<1>4. QED
  BY <1>2, <1>3

\* A step of call c, which is the first to be ready if it changes the table.
LEMMA PrefBoundsStep ==
  ASSUME PrefInv, PrefBounds, NEW c \in CallId, NEW r, call' = [call EXCEPT ![c] = r],
         NEW n \in Nat, n = Cardinality(Ready),
         \/ /\ c \in Ready => r.pc \in {"audit", "done"}
            /\ prefs' = prefs /\ lastId' = lastId /\ CallWithin(r, n)
         \/ /\ c \notin Ready /\ r.pc \in {"audit", "done"}
            /\ lastId' <= Len(PrefScopes) * PrefKeys + n + 1
            /\ prefs' \subseteq RowsWithin(n + 1) /\ CallWithin(r, n + 1),
         called' <= MaxCalls,
         audit' \subseteq CallId \X {"success", "error"}, disturbed' \subseteq CallId
  PROVE  PrefBounds'
<1>1. DOMAIN call = CallId
  BY DEF PrefInv
<1>2. call'[c] = r /\ \A d \in CallId \ {c} : call'[d] = call[d]
  BY <1>1
<1>3. PICK R : R = {d \in CallId : call'[d].pc \in {"audit", "done"}}
  OBVIOUS
<1>4. IsFiniteSet(R) /\ Cardinality(R) \in Nat
  BY <1>3, ReadyFacts, FS_Subset, FS_CardinalityType
<1>5. PICK m \in Nat : m = Cardinality(R)
  BY <1>4
<1>6. PICK g \in Nat : g = Len(PrefScopes) * PrefKeys
  BY GivenType
<1>7. lastId \in Nat /\ lastId <= g + n /\ prefs \subseteq RowsWithin(n)
  BY <1>6 DEF PrefInv, RowsOK, PrefBounds
<1>8. n <= m /\ lastId' <= g + m /\ prefs' \subseteq RowsWithin(m) /\ CallWithin(r, m)
  <2>1. CASE /\ c \in Ready => r.pc \in {"audit", "done"}
             /\ prefs' = prefs /\ lastId' = lastId /\ CallWithin(r, n)
    <3>1. Ready \subseteq R
      BY <1>2, <1>3, <2>1 DEF Ready
    <3>2. n <= m
      BY <1>4, <1>5, <3>1, FS_Subset
    <3>3. prefs' \subseteq RowsWithin(m) /\ CallWithin(r, m)
      BY <1>7, <2>1, <3>2, WithinGrows
    <3>4. lastId' <= g + m
      BY <1>7, <2>1, <3>2
    <3>5. QED
      BY <3>2, <3>3, <3>4
  <2>2. CASE /\ c \notin Ready /\ r.pc \in {"audit", "done"}
             /\ lastId' <= Len(PrefScopes) * PrefKeys + n + 1
             /\ prefs' \subseteq RowsWithin(n + 1) /\ CallWithin(r, n + 1)
    <3>1. R = Ready \cup {c}
      BY <1>2, <1>3, <2>2 DEF Ready
    <3>2. Cardinality(Ready \cup {c}) = Cardinality(Ready) + 1
      BY <2>2, ReadyFacts, FS_AddElement
    <3>3. m = n + 1
      BY <1>5, <3>1, <3>2
    <3>4. lastId' <= g + m
      BY <1>6, <2>2, <3>3
    <3>5. QED
      BY <2>2, <3>3, <3>4
  <2>3. QED
    BY <2>1, <2>2
<1>9. ASSUME NEW d \in CallId PROVE CallWithin(call'[d], m)
  <2>1. CASE d = c
    BY <1>2, <1>8, <2>1
  <2>2. CASE d # c
    <3>1. CallWithin(call[d], n)
      BY DEF PrefBounds
    <3>2. CallWithin(call[d], m)
      BY <1>8, <3>1, WithinGrows
    <3>3. QED
      BY <1>2, <2>2, <3>2
  <2>3. QED
    BY <2>1, <2>2
<1>10. Cardinality(Ready)' = m
  BY <1>3, <1>5 DEF Ready
<1>11. QED
  BY <1>6, <1>8, <1>9, <1>10 DEF PrefBounds

\* An idle call is within any bounds, and one that ends within those it was in.
LEMMA IdleWithin ==
  ASSUME NEW n
  PROVE  /\ CallWithin(IdleCall, n)
         /\ \A status \in {"none", "success", "error"} :
              CallWithin([IdleCall EXCEPT !.pc = "done", !.status = status], n)
<1>1. MaxCalls \in Nat
  BY PrefAssumption
<1>2. <<>> \in Seq(RowsWithin(n))
  OBVIOUS
<1>3. /\ IdleCall.expected = 0 /\ IdleCall.held = NoPref /\ IdleCall.total = 0
      /\ IdleCall.offset = 0 /\ IdleCall.seen = <<>> /\ IdleCall.pc = "idle"
  BY DEF IdleCall
<1>4. CallWithin(IdleCall, n)
  BY <1>1, <1>2, <1>3 DEF CallWithin
<1>5. ASSUME NEW status \in {"none", "success", "error"}
      PROVE  CallWithin([IdleCall EXCEPT !.pc = "done", !.status = status], n)
  <2>1. PICK r : r = [IdleCall EXCEPT !.pc = "done", !.status = status]
    OBVIOUS
  <2>2. /\ r.expected = 0 /\ r.held = NoPref /\ r.total = 0
        /\ r.offset = 0 /\ r.seen = <<>> /\ r.pc = "done"
    BY <2>1 DEF IdleCall
  <2>3. CallWithin(r, n)
    BY <1>1, <1>2, <2>2 DEF CallWithin
  <2>4. QED
    BY <2>1, <2>3
<1>6. QED
  BY <1>4, <1>5

LEMMA FinishWithin ==
  ASSUME PrefInv, NEW c \in CallId, NEW status \in {"success", "error"}, Finish(c, status),
         NEW n, CallWithin(call[c], n)
  PROVE  \E r : /\ call' = [call EXCEPT ![c] = r] /\ r.pc = "audit"
                /\ CallWithin(r, n)
<1> DEFINE N1 == {call[d].total : d \in CallId} \cup {call[d].offset : d \in CallId}
           L1 == {call[d].seen : d \in CallId}
<1>1. call \in [CallId -> PrefCalls(N1, L1)]
  BY DEF PrefInv
<1> HIDE DEF N1, L1
<1>2. call[c] \in PrefCalls(N1, L1)
  BY <1>1
<1>3. PICK N, L : N = N1 \cup {0} /\ L = L1 \cup {<<>>}
  OBVIOUS
<1>4. call[c] \in PrefCalls(N, L) /\ IdleCall \in PrefCalls(N, L)
  BY <1>2, <1>3, PrefIdle DEF PrefCalls
<1>5. PICK b \in PrefCalls(N, L) : b = IF status = "error" THEN IdleCall ELSE call[c]
  BY <1>4
<1>6. CallWithin(b, n)
  BY <1>5, IdleWithin
<1>7. PICK r : r = [b EXCEPT !.pc = "audit", !.status = status]
  OBVIOUS
<1>8. /\ r.pc = "audit" /\ r.status = status /\ r.held = b.held /\ r.expected = b.expected
      /\ r.total = b.total /\ r.offset = b.offset /\ r.seen = b.seen
  BY <1>7 DEF PrefCalls
<1>9. CallWithin(r, n)
  BY <1>6, <1>8 DEF CallWithin
<1>10. call' = [call EXCEPT ![c] = r]
  BY <1>1, <1>5, <1>7 DEF Finish
<1>11. QED
  BY <1>8, <1>9, <1>10

\* The end of a call that has changed nothing keeps the bounds.
LEMMA FinishBounds ==
  ASSUME PrefInv, PrefBounds, NEW c \in CallId, NEW status \in {"success", "error"},
         Finish(c, status), prefs' = prefs, lastId' = lastId,
         called' <= MaxCalls, audit' = audit, disturbed' \subseteq CallId
  PROVE  PrefBounds'
<1>1. PICK n \in Nat : n = Cardinality(Ready)
  BY ReadyFacts
<1>2. CallWithin(call[c], n)
  BY <1>1 DEF PrefBounds
<1>3. PICK r : /\ call' = [call EXCEPT ![c] = r] /\ r.pc = "audit"
               /\ CallWithin(r, n)
  BY <1>2, FinishWithin
<1>4. audit' \subseteq CallId \X {"success", "error"}
  BY DEF PrefBounds
<1>5. QED
  BY <1>1, <1>3, <1>4, PrefBoundsStep

\* A call that goes on, and changes nothing but itself.
LEMMA GoesOnBounds ==
  ASSUME PrefInv, PrefBounds, NEW c \in CallId, NEW r, call' = [call EXCEPT ![c] = r],
         c \notin Ready, prefs' = prefs, lastId' = lastId,
         called' <= MaxCalls, audit' = audit, disturbed' = disturbed,
         CallWithin(r, Cardinality(Ready))
  PROVE  PrefBounds'
<1>1. PICK n \in Nat : n = Cardinality(Ready)
  BY ReadyFacts
<1>2. audit' \subseteq CallId \X {"success", "error"} /\ disturbed' \subseteq CallId
  BY DEF PrefBounds
<1>3. CallWithin(r, n)
  BY <1>1
<1>4. QED
  BY <1>1, <1>2, <1>3, PrefBoundsStep

LEMMA ToolCallBounds ==
  ASSUME PrefInv, ListInv, PrefBounds, NEW c \in CallId, ToolCall(c)
  PROVE  PrefBounds'
<1>1. /\ prefs' = prefs /\ lastId' = lastId /\ disturbed' = disturbed /\ audit' = audit
      /\ called' = c /\ c = called + 1
      /\ c \in Nat /\ called \in Nat /\ MaxCalls \in Nat /\ c <= MaxCalls
  BY PrefAssumption DEF ToolCall, ListInv, CallId
<1>2. called' <= MaxCalls /\ disturbed' \subseteq CallId /\ c > called /\ 2 <= MaxCalls + 1
  <2>1. c > called /\ c >= 1
    BY <1>1 DEF CallId
  <2>2. QED
    BY <1>1, <2>1 DEF PrefBounds
<1>3. call[c] = IdleCall /\ DOMAIN call = CallId
  BY <1>2 DEF ListInv, PrefInv
<1>4. c \notin Ready
  BY <1>3, PrefIdle DEF Ready
<1>5. ASSUME NEW pc \in {"read", "count", "scopes"}, NEW tool, NEW scope, NEW key,
             NEW expected \in 0 .. 2, Start(c, pc, tool, scope, key, expected)
      PROVE  PrefBounds'
  <2>1. PICK r : r = [call[c] EXCEPT !.pc = pc, !.tool = tool, !.scope = scope, !.key = key,
                                     !.expected = expected]
    OBVIOUS
  <2>2. /\ r.pc = pc /\ r.expected = expected /\ r.held = NoPref /\ r.total = 0
        /\ r.offset = 0 /\ r.seen = <<>>
    BY <1>3, <2>1 DEF IdleCall
  <2>3. call' = [call EXCEPT ![c] = r]
    BY <1>3, <1>5, <2>1 DEF Start
  <2>4. PICK n \in Nat : n = Cardinality(Ready)
    BY ReadyFacts
  <2>5. <<>> \in Seq(RowsWithin(n))
    OBVIOUS
  <2>6. r.expected <= MaxCalls + 1
    BY <1>1, <1>2, <2>2
  <2>7. 0 < Len(PrefScopes)
    <3>1. PrefScopes \in Seq(STRING) /\ PrefScopes # <<>>
      BY PrefAssumption
    <3>2. QED
      BY <3>1
  <2>8. CallWithin(r, n)
    BY <2>2, <2>5, <2>6, <2>7 DEF CallWithin
  <2>9. QED
    BY <1>1, <1>2, <1>4, <2>3, <2>4, <2>8, GoesOnBounds
<1>6. CASE PreferenceGet(c)
  <2>1. PICK scope, key : Start(c, "read", "get", scope, key, 0)
    BY <1>6 DEF PreferenceGet
  <2>2. QED
    BY <1>5, <2>1
<1>7. CASE PreferenceCreate(c)
  <2>1. PICK scope, key : Start(c, "read", "create", scope, key, 0)
    BY <1>7 DEF PreferenceCreate
  <2>2. QED
    BY <1>5, <2>1
<1>8. CASE PreferenceUpdate(c) \/ PreferenceDelete(c)
  <2>1. \E scope, key, tool : \E expected \in 0 .. 2 : Start(c, "read", tool, scope, key, expected)
    BY <1>8 DEF PreferenceUpdate, PreferenceDelete
  <2>2. PICK scope, key, tool :
           \E expected \in 0 .. 2 : Start(c, "read", tool, scope, key, expected)
    BY <2>1
  <2>3. PICK expected \in 0 .. 2 : Start(c, "read", tool, scope, key, expected)
    BY <2>2
  <2>4. QED
    BY <1>5, <2>3
<1>9. CASE PreferenceList(c) \/ PreferenceEffective(c)
  <2>1. \E scope : \E pc \in {"count", "scopes"}, tool \in {"list", "effective"} :
           Start(c, pc, tool, scope, 0, 0)
    BY <1>9 DEF PreferenceList, PreferenceEffective
  <2>2. PICK scope : \E pc \in {"count", "scopes"}, tool \in {"list", "effective"} :
           Start(c, pc, tool, scope, 0, 0)
    BY <2>1
  <2>3. PICK pc \in {"count", "scopes"}, tool \in {"list", "effective"} :
           Start(c, pc, tool, scope, 0, 0)
    BY <2>2
  <2>4. QED
    BY <1>5, <2>3
<1>10. CASE Finish(c, "error")
  BY <1>1, <1>2, <1>10, FinishBounds
<1>11. QED
  BY <1>6, <1>7, <1>8, <1>9, <1>10 DEF ToolCall

LEMMA PrefReadBounds ==
  ASSUME PrefInv, PrefBounds, NEW c \in CallId, PrefRead(c)
  PROVE  PrefBounds'
<1> DEFINE N1 == {call[d].total : d \in CallId} \cup {call[d].offset : d \in CallId}
           L1 == {call[d].seen : d \in CallId}
<1>1. call \in [CallId -> PrefCalls(N1, L1)]
  BY DEF PrefInv
<1> HIDE DEF N1, L1
<1>2. call[c] \in PrefCalls(N1, L1) /\ DOMAIN call = CallId
  BY <1>1
<1>3. /\ prefs' = prefs /\ lastId' = lastId /\ disturbed' = disturbed /\ audit' = audit
      /\ called' <= MaxCalls /\ disturbed' \subseteq CallId
      /\ call[c].pc = "read" /\ c \notin Ready
  BY DEF PrefRead, PrefBounds, Ready
<1>4. call[c].tool \in {"get", "create", "update", "delete"}
  BY <1>3 DEF PrefInv, PrefCallOK
<1>5. PICK n \in Nat : n = Cardinality(Ready)
  BY ReadyFacts
<1>6. CallWithin(call[c], n) /\ prefs \subseteq RowsWithin(n)
  BY <1>5 DEF PrefBounds
<1>7. CASE Finish(c, "error") \/ Finish(c, "success")
  BY <1>3, <1>7, FinishBounds
<1>8. CASE Go(c, "insert")
  <2>1. PICK r : r = [call[c] EXCEPT !.pc = "insert"]
    OBVIOUS
  <2>2. /\ r.pc = "insert" /\ r.held = call[c].held /\ r.expected = call[c].expected
        /\ r.total = call[c].total /\ r.offset = call[c].offset /\ r.seen = call[c].seen
    BY <1>2, <2>1 DEF PrefCalls
  <2>3. call' = [call EXCEPT ![c] = r]
    BY <1>2, <1>8, <2>1 DEF Go
  <2>4. CallWithin(r, n)
    BY <1>6, <2>2 DEF CallWithin
  <2>5. QED
    BY <1>3, <1>5, <2>3, <2>4, GoesOnBounds
<1>9. ASSUME NEW e \in prefs, call[c].tool \in {"update", "delete"},
             call' = [call EXCEPT ![c].pc = call[c].tool, ![c].held = e]
      PROVE  PrefBounds'
  <2>1. PICK tool \in {"update", "delete"} : tool = call[c].tool
    BY <1>9
  <2>2. PICK r : r = [call[c] EXCEPT !.pc = tool, !.held = e]
    OBVIOUS
  <2>3. /\ r.pc = tool /\ r.held = e /\ r.expected = call[c].expected
        /\ r.total = call[c].total /\ r.offset = call[c].offset /\ r.seen = call[c].seen
    BY <1>2, <2>2 DEF PrefCalls
  <2>4. call' = [call EXCEPT ![c] = r]
    BY <1>2, <1>9, <2>1, <2>2
  <2>5. e \in RowsWithin(n) /\ r.pc \notin {"scopes", "audit"}
    BY <1>6, <2>1, <2>3
  <2>6. CallWithin(r, n)
    BY <1>6, <2>3, <2>5 DEF CallWithin
  <2>7. QED
    BY <1>3, <1>5, <2>4, <2>6, GoesOnBounds
<1>10. ASSUME NEW e \in Under(call[c].scope, call[c].key),
              CASE call[c].tool = "get" -> Finish(c, "success")
                [] call[c].tool = "create" -> Finish(c, "error")
                [] OTHER -> IF VersionMatches(c, e)
                            THEN call' = [call EXCEPT ![c].pc = call[c].tool, ![c].held = e]
                            ELSE Finish(c, "error")
       PROVE  PrefBounds'
  <2>1. e \in prefs
    BY DEF Under
  <2>2. CASE call[c].tool \in {"get", "create"}
    BY <1>7, <1>10, <2>2
  <2>3. CASE call[c].tool \in {"update", "delete"}
    <3>1. \/ call' = [call EXCEPT ![c].pc = call[c].tool, ![c].held = e]
          \/ Finish(c, "error")
      BY <1>10, <2>3
    <3>2. QED
      BY <1>7, <1>9, <2>1, <2>3, <3>1
  <2>4. QED
    BY <1>4, <2>2, <2>3
<1>11. QED
  BY <1>7, <1>8, <1>10 DEF PrefRead

\* The end of a call that has changed the table.
LEMMA WriteBounds ==
  ASSUME PrefInv, PrefBounds, NEW c \in CallId, NEW status \in {"success", "error"},
         Finish(c, status), c \notin Ready, NEW new, Change(c, new),
         NEW n \in Nat, n = Cardinality(Ready),
         lastId' <= Len(PrefScopes) * PrefKeys + n + 1, new \subseteq RowsWithin(n + 1),
         called' = called, audit' = audit
  PROVE  PrefBounds'
<1>1. CallWithin(call[c], n)
  BY DEF PrefBounds
<1>2. PICK r : /\ call' = [call EXCEPT ![c] = r] /\ r.pc = "audit"
               /\ CallWithin(r, n)
  BY <1>1, FinishWithin
<1>3. n + 1 \in Nat /\ n <= n + 1
  OBVIOUS
<1>4. CallWithin(r, n + 1)
  BY <1>2, <1>3, WithinGrows
<1>5. audit' \subseteq CallId \X {"success", "error"} /\ called' <= MaxCalls
  BY DEF PrefBounds
<1>6. prefs' \subseteq RowsWithin(n + 1) /\ disturbed' \subseteq CallId
  BY DEF PrefBounds, Change, OpenCalls
<1>7. QED
  BY <1>2, <1>4, <1>5, <1>6, PrefBoundsStep

LEMMA PrefInsertBounds ==
  ASSUME PrefInv, PrefBounds, NEW c \in CallId, PrefInsert(c)
  PROVE  PrefBounds'
<1> DEFINE N1 == {call[d].total : d \in CallId} \cup {call[d].offset : d \in CallId}
           L1 == {call[d].seen : d \in CallId}
<1>1. call \in [CallId -> PrefCalls(N1, L1)]
  BY DEF PrefInv
<1> HIDE DEF N1, L1
<1>2. call[c] \in PrefCalls(N1, L1)
  BY <1>1
<1>3. /\ audit' = audit /\ called' = called /\ called' <= MaxCalls
      /\ call[c].pc = "insert" /\ c \notin Ready
  BY DEF PrefInsert, PrefBounds, Ready
<1>4. call[c].key \in PrefKey /\ call[c].scope \in Scope
  BY <1>2, <1>3 DEF PrefInv, PrefCallOK, PrefCalls
<1>5. PICK n \in Nat : n = Cardinality(Ready)
  BY ReadyFacts
<1>6. PICK g \in Nat : g = Len(PrefScopes) * PrefKeys
  BY GivenType
<1>7. lastId \in Nat /\ lastId <= g + n /\ prefs \subseteq RowsWithin(n)
  BY <1>5, <1>6 DEF PrefInv, RowsOK, PrefBounds
<1>8. PICK o \in PrefOutcome :
         IF o = "fail" \/ Indexed(call[c].scope, call[c].key)
         THEN Finish(c, "error") /\ UNCHANGED <<prefs, lastId, disturbed>>
         ELSE /\ lastId' = lastId + 1
              /\ Change(c, prefs \cup {[id |-> lastId + 1, scope |-> call[c].scope,
                                          key |-> call[c].key, version |-> 1, value |-> c]})
              /\ Finish(c, IF o = "ok" THEN "success" ELSE "error")
  BY DEF PrefInsert
<1>9. CASE Finish(c, "error") /\ UNCHANGED <<prefs, lastId, disturbed>>
  BY <1>3, <1>9, FinishBounds DEF PrefBounds
<1>10. CASE /\ lastId' = lastId + 1
            /\ Change(c, prefs \cup {[id |-> lastId + 1, scope |-> call[c].scope,
                                        key |-> call[c].key, version |-> 1, value |-> c]})
            /\ Finish(c, IF o = "ok" THEN "success" ELSE "error")
  <2>1. PICK e : e = [id |-> lastId + 1, scope |-> call[c].scope,
                      key |-> call[c].key, version |-> 1, value |-> c]
    OBVIOUS
  <2>2. /\ e \in Row /\ e.id = lastId + 1 /\ e.version = 1
    BY <1>4, <1>7, <2>1 DEF Row
  <2>3. e.id \in 1 .. g + (n + 1) /\ e.version \in 1 .. (n + 1) + 1
    BY <1>7, <2>2
  <2>4. e \in RowsWithin(n + 1)
    BY <1>6, <2>2, <2>3 DEF RowsWithin
  <2>5. RowsWithin(n) \subseteq RowsWithin(n + 1)
    <3>1. n + 1 \in Nat /\ n <= n + 1
      OBVIOUS
    <3>2. QED
      BY <3>1, WithinGrows
  <2>6. prefs \cup {e} \subseteq RowsWithin(n + 1)
    BY <1>7, <2>4, <2>5
  <2>7. lastId' <= g + n + 1
    BY <1>7, <1>10
  <2>8. PICK status \in {"success", "error"} : status = IF o = "ok" THEN "success" ELSE "error"
    OBVIOUS
  <2>9. Finish(c, status) /\ Change(c, prefs \cup {e})
    BY <1>10, <2>1, <2>8
  <2>10. QED
    BY <1>3, <1>5, <1>6, <2>6, <2>7, <2>9, WriteBounds
<1>11. QED
  BY <1>8, <1>9, <1>10

LEMMA PrefWriteBounds ==
  ASSUME PrefInv, PrefBounds, NEW c \in CallId, PrefWrite(c)
  PROVE  PrefBounds'
<1>1. /\ audit' = audit /\ called' = called /\ lastId' = lastId
      /\ call[c].pc \in {"update", "delete"} /\ c \notin Ready
  BY DEF PrefWrite, Ready
<1>2. PICK n \in Nat : n = Cardinality(Ready)
  BY ReadyFacts
<1>3. PICK g \in Nat : g = Len(PrefScopes) * PrefKeys
  BY GivenType
<1>4. /\ lastId \in Nat /\ lastId <= g + n /\ prefs \subseteq RowsWithin(n)
      /\ CallWithin(call[c], n)
  BY <1>2, <1>3 DEF PrefInv, RowsOK, PrefBounds
<1>5. RowsWithin(n) \subseteq RowsWithin(n + 1)
  <2>1. n + 1 \in Nat /\ n <= n + 1
    OBVIOUS
  <2>2. QED
    BY <2>1, WithinGrows
<1>6. PICK h \in RowsWithin(n) \cup {NoPref} : h = call[c].held
  BY <1>4 DEF CallWithin
<1>7. h.version \in Nat /\ h.version <= n + 1
  BY DEF RowsWithin, Row, NoPref
<1>8. UpdateHeld(c) \subseteq RowsWithin(n + 1)
  <2>1. ASSUME NEW x \in prefs, x.id = h.id
        PROVE  [x EXCEPT !.version = h.version + 1, !.value = c] \in RowsWithin(n + 1)
    <3>1. x \in Row /\ x.id \in 1 .. g + n
      BY <1>3, <1>4 DEF RowsWithin
    <3>2. PICK v \in Nat : v = h.version + 1 /\ v \in 1 .. (n + 1) + 1
      BY <1>7
    <3>3. [x EXCEPT !.version = v, !.value = c] \in Row
      BY <3>1 DEF Row
    <3>4. PICK y \in Row : y = [x EXCEPT !.version = v, !.value = c]
      BY <3>3
    <3>5. y.id = x.id /\ y.version = v
      BY <3>1, <3>4 DEF Row
    <3>6. y.id \in 1 .. g + (n + 1)
      BY <3>1, <3>5
    <3>7. y \in RowsWithin(n + 1)
      BY <1>3, <3>2, <3>5, <3>6 DEF RowsWithin
    <3>8. QED
      BY <3>2, <3>4, <3>7
  <2>2. ASSUME NEW x \in prefs PROVE x \in RowsWithin(n + 1)
    BY <1>4, <1>5
  <2>3. UpdateHeld(c) = {IF x.id = h.id THEN [x EXCEPT !.version = h.version + 1, !.value = c]
                         ELSE x : x \in prefs}
    BY <1>6 DEF UpdateHeld
  <2>4. QED
    BY <2>1, <2>2, <2>3
<1>9. PICK o \in PrefOutcome :
         /\ Change(c, IF o = "fail" THEN prefs
                      ELSE IF call[c].pc = "update" THEN UpdateHeld(c)
                      ELSE {x \in prefs : x.id # call[c].held.id})
         /\ Finish(c, IF o = "ok" THEN "success" ELSE "error")
  BY DEF PrefWrite
<1>10. PICK new : /\ new = IF o = "fail" THEN prefs
                           ELSE IF call[c].pc = "update" THEN UpdateHeld(c)
                           ELSE {x \in prefs : x.id # call[c].held.id}
                  /\ Change(c, new)
  BY <1>9
<1>11. new \subseteq RowsWithin(n + 1)
  BY <1>4, <1>5, <1>8, <1>10
<1>12. PICK status \in {"success", "error"} : status = IF o = "ok" THEN "success" ELSE "error"
  OBVIOUS
<1>13. Finish(c, status)
  BY <1>9, <1>12
<1>14. lastId' <= g + n + 1
  BY <1>1, <1>4
<1>15. QED
  BY <1>1, <1>2, <1>3, <1>10, <1>11, <1>13, <1>14, WriteBounds

\* A page is made of entries of the table.
LEMMA PageWithin ==
  ASSUME ListInv, NEW scope, NEW o \in Nat, NEW k \in Nat \ {0}, NEW page \in Pages(scope, o, k)
  PROVE  page \in Seq(InScope(scope)) /\ Len(page) \in Nat
<1>1. PICK s \in Sorted(scope) :
         page = SubSeq(s, o + 1, IF o + k < Len(s) THEN o + k ELSE Len(s))
  BY DEF Pages
<1>2. s \in Seq(InScope(scope))
  BY SortedFacts DEF ListInv
<1>3. QED
  BY <1>1, <1>2, PageFacts

LEMMA ListCountBounds ==
  ASSUME PrefInv, ListInv, PrefBounds, NEW c \in CallId, ListCount(c)
  PROVE  PrefBounds'
<1> DEFINE N1 == {call[d].total : d \in CallId} \cup {call[d].offset : d \in CallId}
           L1 == {call[d].seen : d \in CallId}
<1>1. call \in [CallId -> PrefCalls(N1, L1)]
  BY DEF PrefInv
<1> HIDE DEF N1, L1
<1>2. call[c] \in PrefCalls(N1, L1) /\ DOMAIN call = CallId
  BY <1>1
<1>3. /\ prefs' = prefs /\ lastId' = lastId /\ disturbed' = disturbed /\ audit' = audit
      /\ called' <= MaxCalls /\ disturbed' \subseteq CallId
      /\ call[c].pc = "count" /\ c \notin Ready
  BY DEF ListCount, PrefBounds, Ready
<1>4. PICK n \in Nat : n = Cardinality(Ready)
  BY ReadyFacts
<1>5. CallWithin(call[c], n)
  BY <1>4 DEF PrefBounds
<1>6. CASE Finish(c, "error")
  BY <1>3, <1>6, FinishBounds
<1>7. CASE ~Finish(c, "error")
  <2>1. IsFiniteSet(InScope(call[c].scope))
    BY FS_Subset DEF InScope, ListInv
  <2>2. PICK k \in Nat : k = Cardinality(InScope(call[c].scope))
    BY <2>1, FS_CardinalityType
  <2>3. call' = [call EXCEPT ![c].pc = "find", ![c].total = k]
    BY <1>7, <2>2 DEF ListCount
  <2>4. PICK r : r = [call[c] EXCEPT !.pc = "find", !.total = k]
    OBVIOUS
  <2>5. /\ r.pc = "find" /\ r.total = k /\ r.held = call[c].held
        /\ r.expected = call[c].expected /\ r.offset = call[c].offset /\ r.seen = call[c].seen
    BY <1>2, <2>4 DEF PrefCalls
  <2>6. call' = [call EXCEPT ![c] = r]
    BY <1>2, <2>3, <2>4
  <2>7. CallWithin(r, n)
    BY <1>5, <2>5 DEF CallWithin
  <2>8. QED
    BY <1>3, <1>4, <2>6, <2>7, GoesOnBounds
<1>8. QED
  BY <1>6, <1>7

LEMMA ListFindBounds ==
  ASSUME PrefInv, ListInv, PrefBounds, NEW c \in CallId, ListFind(c)
  PROVE  PrefBounds'
<1> DEFINE N1 == {call[d].total : d \in CallId} \cup {call[d].offset : d \in CallId}
           L1 == {call[d].seen : d \in CallId}
<1>1. call \in [CallId -> PrefCalls(N1, L1)]
  BY DEF PrefInv
<1> HIDE DEF N1, L1
<1>2. call[c] \in PrefCalls(N1, L1) /\ DOMAIN call = CallId
  BY <1>1
<1>3. /\ prefs' = prefs /\ lastId' = lastId /\ disturbed' = disturbed /\ audit' = audit
      /\ called' <= MaxCalls /\ disturbed' \subseteq CallId
      /\ call[c].pc = "find" /\ c \notin Ready
  BY DEF ListFind, PrefBounds, Ready
<1>4. PICK n \in Nat : n = Cardinality(Ready)
  BY ReadyFacts
<1>5. CallWithin(call[c], n) /\ prefs \subseteq RowsWithin(n)
  BY <1>4 DEF PrefBounds
<1>6. CASE Finish(c, "error")
  BY <1>3, <1>6, FinishBounds
<1>7. CASE ~Finish(c, "error")
  <2>1. PICK scope, o, total, seen :
           /\ scope = call[c].scope /\ o = call[c].offset
           /\ total = call[c].total /\ seen = call[c].seen
    OBVIOUS
  <2>2. o \in Nat /\ seen \in Seq(RowsWithin(n)) /\ ListLimit \in Nat /\ ListLimit + 1 \in Nat \ {0}
    BY <1>5, <2>1, PrefAssumption DEF CallWithin
  <2>3. PICK page \in Pages(scope, o, ListLimit + 1) :
          LET shown == IF Len(page) > ListLimit THEN Front(page) ELSE page
              next == NextCursor(c, page)
              more == page # <<>> /\ (Len(page) > ListLimit \/ next < call[c].total)
          IN  call' = [call EXCEPT ![c].seen = @ \o shown, ![c].offset = next, ![c].total = 0,
                                   ![c].pc = IF more THEN "count" ELSE "audit",
                                   ![c].status = IF more THEN "none" ELSE "success"]
    BY <1>7, <2>1 DEF ListFind
  <2> DEFINE shown == IF Len(page) > ListLimit THEN Front(page) ELSE page
             next == o + (IF Len(page) > ListLimit THEN ListLimit ELSE Len(page))
             more == page # <<>> /\ (Len(page) > ListLimit \/ next < total)
             pc == IF more THEN "count" ELSE "audit"
             status == IF more THEN "none" ELSE "success"
  <2>4. page \in Seq(InScope(scope)) /\ Len(page) \in Nat
    BY <2>2, PageWithin
  <2>5. page \in Seq(RowsWithin(n))
    <3>1. InScope(scope) \subseteq RowsWithin(n)
      BY <1>5 DEF InScope
    <3>2. QED
      BY <2>4, <3>1
  <2>6. next \in Nat
    BY <2>2, <2>4
  <2>7. shown \in Seq(RowsWithin(n))
    <3>1. CASE Len(page) > ListLimit
      <4>1. page # <<>>
        BY <2>2, <2>4, <3>1
      <4>2. Front(page) \in Seq(RowsWithin(n))
        BY <2>5, <4>1 DEF Front
      <4>3. QED
        BY <3>1, <4>2
    <3>2. CASE ~(Len(page) > ListLimit)
      BY <2>5, <3>2
    <3>3. QED
      BY <3>1, <3>2
  <2>8. call' = [call EXCEPT ![c].seen = seen \o shown, ![c].offset = next, ![c].total = 0,
                             ![c].pc = pc, ![c].status = status]
    BY <2>1, <2>3 DEF NextCursor
  <2> HIDE DEF shown, next, more
  <2>9. seen \o shown \in Seq(RowsWithin(n))
    BY <2>2, <2>7, ConcatProperties
  <2>10. PICK r : r = [call[c] EXCEPT !.seen = seen \o shown, !.offset = next, !.total = 0,
                                      !.pc = pc, !.status = status]
    OBVIOUS
  <2>11. call' = [call EXCEPT ![c] = r]
    BY <1>2, <2>8, <2>10
  <2>12. /\ r.pc = pc /\ r.offset = next /\ r.seen = seen \o shown /\ r.total = 0
         /\ r.status = status /\ r.held = call[c].held /\ r.expected = call[c].expected
    BY <1>2, <2>10 DEF PrefCalls
  <2>13. CallWithin(r, n)
    BY <1>5, <2>6, <2>9, <2>12 DEF CallWithin
  <2>14. QED
    BY <1>3, <1>4, <2>11, <2>13, GoesOnBounds
<1>8. QED
  BY <1>6, <1>7

\* The elements of a finite set in some order, each of them once.
LEMMA InAnyOrder ==
  ASSUME NEW S, IsFiniteSet(S)
  PROVE  /\ SetToSeq(S) \in Seq(S) /\ Len(SetToSeq(S)) = Cardinality(S)
         /\ ToSet(SetToSeq(S)) = S
<1>1. PICK n \in Nat : n = Cardinality(S) /\ ExistsBijection(1 .. n, S)
  BY FS_CardinalityType
<1>2. PICK f \in [1 .. n -> S] : IsInjective(f)
  BY <1>1 DEF ExistsBijection, Bijection, Injection
<1>3. SetToSeq(S) \in [1 .. n -> S] /\ IsInjective(SetToSeq(S))
  BY <1>1, <1>2 DEF SetToSeq
<1>4. PICK q \in [1 .. n -> S] : q = SetToSeq(S) /\ IsInjective(q)
  BY <1>3
<1>5. q \in Seq(S) /\ Len(q) = n /\ DOMAIN q = 1 .. n
  BY <1>4
<1>6. q \in Injection(1 .. n, S)
  BY <1>4 DEF Injection
<1>7. Cardinality(1 .. n) = n
  <2>1. Cardinality(1 .. n) = IF 1 > n THEN 0 ELSE n - 1 + 1
    BY FS_Interval
  <2>2. QED
    BY <2>1
<1>8. q \in Surjection(1 .. n, S)
  BY <1>1, <1>6, <1>7, FS_Injection
<1>9. ToSet(q) = S
  BY <1>5, <1>8 DEF ToSet, Surjection
<1>10. QED
  BY <1>1, <1>4, <1>5, <1>9

\* The map after a page: who is in it.
LEMMA FoldFacts ==
  ASSUME NEW S, NEW seen \in Seq(S), NEW page \in Seq(S)
  PROVE  /\ FoldScope(seen, page) \in Seq(S)
         /\ ToSet(FoldScope(seen, page)) =
              {x \in ToSet(seen) : \A e \in LastOfKeys(page) : e.key # x.key} \cup LastOfKeys(page)
<1>1. ASSUME NEW q \in Seq(S) PROVE IsFiniteSet(ToSet(q)) /\ ToSet(q) \subseteq S
  <2>1. q \in [1 .. Len(q) -> S] /\ Len(q) \in Nat /\ DOMAIN q = 1 .. Len(q)
    OBVIOUS
  <2>2. q \in Surjection(1 .. Len(q), ToSet(q))
    <3>1. q \in [1 .. Len(q) -> ToSet(q)]
      BY <2>1 DEF ToSet
    <3>2. \A t \in ToSet(q) : \E i \in 1 .. Len(q) : q[i] = t
      BY <2>1 DEF ToSet
    <3>3. QED
      BY <3>1, <3>2 DEF Surjection
  <2>3. IsFiniteSet(1 .. Len(q))
    BY <2>1, FS_Interval
  <2>4. IsFiniteSet(ToSet(q))
    BY <2>2, <2>3, FS_Surjection
  <2>5. QED
    BY <2>1, <2>4 DEF ToSet
<1> DEFINE last == LastOfKeys(page)
           kept == {x \in ToSet(seen) : \A e \in last : e.key # x.key}
<1>2. last \subseteq ToSet(page) /\ kept \subseteq ToSet(seen)
  BY DEF ToSet, LastOfKeys
<1>3. FoldScope(seen, page) = SetToSeq(kept \cup last)
  BY DEF FoldScope
<1> HIDE DEF last, kept
<1>4. IsFiniteSet(last) /\ IsFiniteSet(kept) /\ last \subseteq S /\ kept \subseteq S
  BY <1>1, <1>2, FS_Subset
<1>5. IsFiniteSet(kept \cup last) /\ kept \cup last \subseteq S
  BY <1>4, FS_Union
<1>6. /\ SetToSeq(kept \cup last) \in Seq(kept \cup last)
      /\ ToSet(SetToSeq(kept \cup last)) = kept \cup last
  BY <1>5, InAnyOrder
<1>7. SetToSeq(kept \cup last) \in Seq(S)
  BY <1>5, <1>6
<1>8. QED
  BY <1>3, <1>6, <1>7 DEF kept, last

LEMMA EffectiveBounds ==
  ASSUME PrefInv, ListInv, PrefBounds, NEW c \in CallId, EffectiveScope(c)
  PROVE  PrefBounds'
<1> DEFINE N1 == {call[d].total : d \in CallId} \cup {call[d].offset : d \in CallId}
           L1 == {call[d].seen : d \in CallId}
<1>1. call \in [CallId -> PrefCalls(N1, L1)]
  BY DEF PrefInv
<1> HIDE DEF N1, L1
<1>2. call[c] \in PrefCalls(N1, L1) /\ DOMAIN call = CallId
  BY <1>1
<1>3. /\ prefs' = prefs /\ lastId' = lastId /\ disturbed' = disturbed /\ audit' = audit
      /\ called' <= MaxCalls /\ disturbed' \subseteq CallId
      /\ call[c].pc = "scopes" /\ c \notin Ready
  BY DEF EffectiveScope, PrefBounds, Ready
<1>4. PICK n \in Nat : n = Cardinality(Ready)
  BY ReadyFacts
<1>5. CallWithin(call[c], n) /\ prefs \subseteq RowsWithin(n)
  BY <1>4 DEF PrefBounds
<1>6. CASE Finish(c, "error")
  BY <1>3, <1>6, FinishBounds
<1>7. CASE ~Finish(c, "error")
  <2>1. PICK o, seen : o = call[c].offset /\ seen = call[c].seen
    OBVIOUS
  <2>2. /\ o \in Nat /\ o < Len(PrefScopes) /\ Len(PrefScopes) \in Nat
        /\ seen \in Seq(RowsWithin(n)) /\ ListLimit \in Nat \ {0}
    BY <1>3, <1>5, <2>1, GivenType, PrefAssumption DEF CallWithin
  <2>3. PICK k \in Nat : k = o + 1 /\ k <= Len(PrefScopes)
    BY <2>2
  <2>4. PICK page \in Pages(PrefScopes[k], 0, ListLimit) :
          call' = [call EXCEPT ![c].offset = k, ![c].seen = FoldScope(@, page),
                               ![c].pc = IF k = Len(PrefScopes) THEN "audit" ELSE "scopes",
                               ![c].status = IF k = Len(PrefScopes) THEN "success" ELSE "none"]
    BY <1>7, <2>1, <2>3 DEF EffectiveScope
  <2>5. PICK s : s = FoldScope(seen, page)
    OBVIOUS
  <2>6. page \in Seq(InScope(PrefScopes[k]))
    <3>1. 0 \in Nat
      OBVIOUS
    <3>2. QED
      BY <2>2, <3>1, PageWithin
  <2>7. page \in Seq(RowsWithin(n))
    <3>1. InScope(PrefScopes[k]) \subseteq RowsWithin(n)
      BY <1>5 DEF InScope
    <3>2. QED
      BY <2>6, <3>1
  <2>8. s \in Seq(RowsWithin(n))
    BY <2>2, <2>5, <2>7, FoldFacts
  <2>9. PICK pc \in {"scopes", "audit"} : pc = IF k = Len(PrefScopes) THEN "audit" ELSE "scopes"
    OBVIOUS
  <2>10. PICK status \in {"none", "success"} :
            status = IF k = Len(PrefScopes) THEN "success" ELSE "none"
    OBVIOUS
  <2>11. call' = [call EXCEPT ![c].offset = k, ![c].seen = s, ![c].pc = pc,
                              ![c].status = status]
    BY <2>1, <2>4, <2>5, <2>9, <2>10
  <2>12. PICK r : r = [call[c] EXCEPT !.offset = k, !.seen = s, !.pc = pc, !.status = status]
    OBVIOUS
  <2>13. call' = [call EXCEPT ![c] = r]
    BY <1>2, <2>11, <2>12
  <2>14. /\ r.pc = pc /\ r.offset = k /\ r.seen = s /\ r.total = call[c].total
         /\ r.status = status /\ r.held = call[c].held /\ r.expected = call[c].expected
    BY <1>2, <2>12 DEF PrefCalls
  <2>15. /\ pc = "scopes" => k < Len(PrefScopes)
         /\ pc = "audit" => status = "success"
    BY <2>2, <2>3, <2>9, <2>10
  <2>16. CallWithin(r, n)
    BY <1>5, <2>3, <2>8, <2>14, <2>15 DEF CallWithin
  <2>17. QED
    BY <1>3, <1>4, <2>13, <2>16, GoesOnBounds
<1>8. QED
  BY <1>6, <1>7

LEMMA WriteAuditBounds ==
  ASSUME PrefInv, PrefBounds, NEW c \in CallId, WriteAudit(c)
  PROVE  PrefBounds'
<1>1. /\ prefs' = prefs /\ lastId' = lastId /\ called' <= MaxCalls
      /\ disturbed' \subseteq CallId /\ call[c].pc = "audit"
  BY DEF WriteAudit, PrefBounds
<1>2. DOMAIN call = CallId
  BY DEF PrefInv
<1>3. PICK n \in Nat : n = Cardinality(Ready)
  BY ReadyFacts
<1>4. PICK was \in {"success", "error"} : was = call[c].status
  BY <1>1, <1>3 DEF PrefBounds, CallWithin
<1>5. PICK o \in PrefOutcome :
         /\ audit' = IF o = "fail" THEN audit ELSE audit \cup {<<c, was>>}
         /\ Respond(c, IF o = "ok" THEN was ELSE "error")
  BY <1>4 DEF WriteAudit
<1>6. PICK status \in {"success", "error"} : status = IF o = "ok" THEN was ELSE "error"
  OBVIOUS
<1>7. audit' \subseteq CallId \X {"success", "error"}
  BY <1>5 DEF PrefBounds
<1>8. PICK r : r = [IdleCall EXCEPT !.pc = "done", !.status = status]
  OBVIOUS
<1>9. CallWithin(r, n)
  BY <1>8, IdleWithin
<1>10. r.pc = "done"
  BY <1>8 DEF IdleCall
<1>11. call' = [call EXCEPT ![c] = r]
  BY <1>2, <1>5, <1>6, <1>8 DEF Respond
<1>12. QED
  BY <1>1, <1>3, <1>7, <1>9, <1>10, <1>11, PrefBoundsStep

\* There are at most as many entries at the start as scopes have keys.
LEMMA PrefBoundsInitial ==
  ASSUME PrefInit
  PROVE  PrefBounds
<1>1. PICK given \in SUBSET (Scope \X PrefKey) :
        LET order == SetToSeq(given)
        IN  /\ prefs = {[id |-> i, scope |-> order[i][1], key |-> order[i][2],
                           version |-> 1, value |-> 0] : i \in DOMAIN order}
            /\ lastId = Len(order)
  BY DEF PrefInit
<1>2. PICK g \in Nat : g = Len(PrefScopes) * PrefKeys
  BY GivenType
<1>3. IsFiniteSet(given) /\ Cardinality(given) \in Nat /\ Cardinality(given) <= g
  <2>1. PrefScopes \in Seq(STRING) /\ PrefKeys \in Nat /\ Len(PrefScopes) \in Nat
    BY PrefAssumption
  <2>2. IsFiniteSet(1 .. Len(PrefScopes)) /\ Cardinality(1 .. Len(PrefScopes)) = Len(PrefScopes)
    <3>1. /\ IsFiniteSet(1 .. Len(PrefScopes))
          /\ Cardinality(1 .. Len(PrefScopes)) =
                IF 1 > Len(PrefScopes) THEN 0 ELSE Len(PrefScopes) - 1 + 1
      BY <2>1, FS_Interval
    <3>2. QED
      BY <2>1, <3>1
  <2>3. IsFiniteSet(PrefKey) /\ Cardinality(PrefKey) = PrefKeys
    <3>1. /\ IsFiniteSet(1 .. PrefKeys)
          /\ Cardinality(1 .. PrefKeys) = IF 1 > PrefKeys THEN 0 ELSE PrefKeys - 1 + 1
      BY <2>1, FS_Interval
    <3>2. QED
      BY <2>1, <3>1 DEF PrefKey
  <2>4. PrefScopes \in Surjection(1 .. Len(PrefScopes), Scope)
    <3>1. PrefScopes \in [1 .. Len(PrefScopes) -> Scope] /\ DOMAIN PrefScopes = 1 .. Len(PrefScopes)
      BY <2>1 DEF Scope, ToSet
    <3>2. \A t \in Scope : \E i \in 1 .. Len(PrefScopes) : PrefScopes[i] = t
      BY <3>1 DEF Scope, ToSet
    <3>3. QED
      BY <3>1, <3>2 DEF Surjection
  <2>5. IsFiniteSet(Scope) /\ Cardinality(Scope) <= Len(PrefScopes)
    BY <2>2, <2>4, FS_Surjection
  <2>6. PICK m \in Nat : m = Cardinality(Scope)
    BY <2>5, FS_CardinalityType
  <2>7. IsFiniteSet(Scope \X PrefKey) /\ Cardinality(Scope \X PrefKey) = m * PrefKeys
    BY <2>3, <2>5, <2>6, FS_Product
  <2>8. m * PrefKeys <= g
    <3>1. PICK rest \in Nat : Len(PrefScopes) = m + rest
      <4>1. Len(PrefScopes) - m \in Nat
        BY <2>1, <2>5, <2>6
      <4>2. Len(PrefScopes) = m + (Len(PrefScopes) - m)
        BY <2>1, <2>6
      <4>3. QED
        BY <4>1, <4>2
    <3>2. (m + rest) * PrefKeys = m * PrefKeys + rest * PrefKeys
      BY <2>1
    <3>3. rest * PrefKeys \in Nat /\ m * PrefKeys \in Nat
      BY <2>1
    <3>4. QED
      BY <1>2, <3>1, <3>2, <3>3
  <2>9. IsFiniteSet(given) /\ Cardinality(given) <= Cardinality(Scope \X PrefKey)
    BY <2>7, FS_Subset
  <2>10. Cardinality(given) \in Nat /\ Cardinality(Scope \X PrefKey) \in Nat
    BY <2>7, <2>9, FS_CardinalityType
  <2>11. QED
    BY <2>7, <2>8, <2>9, <2>10
<1>4. PICK n \in Nat : n = Cardinality(given) /\ n <= g
  BY <1>3
<1>5. SetToSeq(given) \in Seq(given) /\ Len(SetToSeq(given)) = n
  BY <1>3, <1>4, InAnyOrder
<1>6. PICK order \in Seq(given) : order = SetToSeq(given) /\ Len(order) = n /\ DOMAIN order = 1 .. n
  BY <1>5
<1>7. /\ prefs = {[id |-> i, scope |-> order[i][1], key |-> order[i][2],
                     version |-> 1, value |-> 0] : i \in 1 .. n}
      /\ lastId = n
  BY <1>1, <1>6
<1>8. call = [c \in CallId |-> IdleCall] /\ called = 0 /\ audit = {} /\ disturbed = {}
  BY DEF PrefInit
<1>9. Ready = {}
  BY <1>8, PrefIdle DEF Ready
<1>10. Cardinality(Ready) = 0
  BY <1>9, FS_EmptySet
<1>11. prefs \subseteq RowsWithin(0)
  <2>1. ASSUME NEW e \in prefs PROVE e \in RowsWithin(0)
    <3>1. e \in Row
      BY PrefInitOK DEF PrefInv, RowsOK
    <3>2. e.id \in 1 .. n /\ e.version = 1
      BY <1>7
    <3>3. e.id \in 1 .. g + 0 /\ e.version \in 1 .. 0 + 1
      BY <1>4, <3>2
    <3>4. QED
      BY <1>2, <3>1, <3>3 DEF RowsWithin
  <2>2. QED
    BY <2>1
<1>12. \A c \in CallId : CallWithin(call[c], 0)
  BY <1>8, IdleWithin
<1>13. called <= MaxCalls /\ lastId <= g + 0
  BY <1>4, <1>7, <1>8, PrefAssumption
<1>14. QED
  BY <1>2, <1>8, <1>10, <1>11, <1>12, <1>13 DEF PrefBounds

\* PrefBounds is inductive, relative to PrefInv and ListInv.
LEMMA PrefBoundsAlways == PrefSpec => []PrefBounds
<1>1. PrefInv /\ ListInv /\ PrefBounds /\ [PrefNext]_prefVars => PrefBounds'
  <2> SUFFICES ASSUME PrefInv, ListInv, PrefBounds, [PrefNext]_prefVars PROVE PrefBounds'
    OBVIOUS
  <2>1. CASE UNCHANGED prefVars
    BY <2>1 DEF prefVars, PrefBounds, Ready
  <2>2. CASE PrefNext
    BY <2>2, ToolCallBounds, PrefReadBounds, PrefInsertBounds, PrefWriteBounds, ListCountBounds,
       ListFindBounds, EffectiveBounds, WriteAuditBounds DEF PrefNext
  <2>3. QED
    BY <2>1, <2>2
<1>2. PrefInit => PrefBounds
  BY PrefBoundsInitial
<1>3. QED
  BY <1>1, <1>2, PrefInvariant, ListInvariant, PTL DEF PrefSpec

(***************************************************************************)
(* The table of preferences, the calls and their audit records keep their  *)
(* types: no id or version is beyond what the calls can have made of it,   *)
(* every list and every map is made of entries that were in the table, and *)
(* every record says how its call ended.                                   *)
(***************************************************************************)
THEOREM PrefTypes == PrefSpec => []PrefTypeOK
<1>1. PrefInv /\ ListInv /\ PrefBounds => PrefTypeOK
  <2> SUFFICES ASSUME PrefInv, ListInv, PrefBounds PROVE PrefTypeOK
    OBVIOUS
  <2>1. PICK g \in Nat : g = Len(PrefScopes) * PrefKeys
    BY GivenType
  <2>2. PICK n \in Nat : n = Cardinality(Ready) /\ n <= MaxCalls
    BY ReadyFacts
  <2>3. MaxCalls \in Nat
    BY PrefAssumption
  <2>4. RowsWithin(n) \subseteq Entry
    <3>1. ASSUME NEW e \in RowsWithin(n) PROVE e \in Entry
      <4>1. e \in Row /\ e.id \in 1 .. g + n /\ e.version \in 1 .. n + 1
        BY <2>1 DEF RowsWithin
      <4>2. e.id \in 1 .. g + MaxCalls /\ e.version \in 1 .. MaxCalls + 1
        BY <2>2, <2>3, <4>1
      <4>3. QED
        BY <2>1, <4>1, <4>2 DEF Row, Entry, MaxId
    <3>2. QED
      BY <3>1
  <2>5. prefs \subseteq Entry
    BY <2>2, <2>4 DEF PrefBounds
  <2>6. lastId \in 0 .. MaxId
    <3>1. lastId \in Nat /\ lastId <= g + n
      BY <2>1, <2>2 DEF PrefInv, RowsOK, PrefBounds
    <3>2. QED
      BY <2>1, <2>2, <2>3, <3>1 DEF MaxId
  <2>7. call \in [CallId -> CallState]
    <3> DEFINE N1 == {call[d].total : d \in CallId} \cup {call[d].offset : d \in CallId}
               L1 == {call[d].seen : d \in CallId}
    <3>1. call \in [CallId -> PrefCalls(N1, L1)]
      BY DEF PrefInv
    <3> HIDE DEF N1, L1
    <3>2. ASSUME NEW c \in CallId PROVE call[c] \in CallState
      <4>1. PICK r \in PrefCalls(N1, L1) : r = call[c]
        BY <3>1
      <4>2. CallWithin(r, n)
        BY <2>2, <4>1 DEF PrefBounds
      <4>3. r.expected \in 0 .. MaxCalls + 1
        BY <2>3, <4>2 DEF CallWithin, PrefCalls
      <4>4. r.held \in Entry \cup {NoPref} /\ r.total \in Nat /\ r.offset \in Nat
        BY <2>4, <4>2 DEF CallWithin
      <4>5. r.seen \in Seq(Entry)
        BY <2>4, <4>2 DEF CallWithin
      <4>6. r \in CallState
        BY <4>1, <4>3, <4>4, <4>5 DEF PrefCalls, CallState
      <4>7. QED
        BY <4>1, <4>6
    <3>3. QED
      BY <3>1, <3>2
  <2>8. called \in 0 .. MaxCalls
    BY <2>3 DEF ListInv, PrefBounds
  <2>9. QED
    BY <2>5, <2>6, <2>7, <2>8 DEF PrefTypeOK, PrefBounds
<1>2. QED
  BY <1>1, PrefInvariant, ListInvariant, PrefBoundsAlways, PTL

-----------------------------------------------------------------------------
(* Preferences: the effective entries *)

\* Every set of numbers that is not empty has a least one.
LEMMA LeastNumber ==
  ASSUME NEW S \in SUBSET Nat, S # {}
  PROVE  Min(S) \in S /\ \A y \in S : Min(S) =< y
<1>1. IsWellFoundedOn(OpToRel(<, Nat), Nat)
  BY NatLessThanWellFounded
<1>2. PICK x \in S : \A y \in S : ~(<<y, x>> \in OpToRel(<, Nat))
  BY <1>1, WFMin
<1>3. \A y \in S : x =< y
  <2>1. SUFFICES ASSUME NEW y \in S PROVE x =< y
    OBVIOUS
  <2>2. ~(y < x)
    BY <1>2 DEF OpToRel
  <2>3. QED
    BY <2>2
<1>4. QED
  BY <1>2, <1>3 DEF Min

LEMMA GreatestNumber ==
  ASSUME NEW n \in Nat, NEW S \in SUBSET (0 .. n), S # {}
  PROVE  Max(S) \in S /\ \A y \in S : Max(S) >= y
<1> DEFINE T == {n - i : i \in S}
<1>1. T \in SUBSET Nat /\ T # {}
  <2>1. ASSUME NEW i \in S PROVE n - i \in Nat
    <3>1. i \in 0 .. n
      OBVIOUS
    <3>2. QED
      BY <3>1
  <2>2. QED
    BY <2>1
<1> HIDE DEF T
<1>2. Min(T) \in T /\ \A y \in T : Min(T) =< y
  BY <1>1, LeastNumber
<1>3. PICK x \in S : Min(T) = n - x
  BY <1>2 DEF T
<1>4. \A y \in S : n - y \in T
  BY DEF T
<1>5. \A y \in S : x >= y
  <2>1. SUFFICES ASSUME NEW y \in S PROVE x >= y
    OBVIOUS
  <2>2. n - x =< n - y
    BY <1>2, <1>3, <1>4
  <2>3. x \in Nat /\ y \in Nat
    OBVIOUS
  <2>4. QED
    BY <2>2, <2>3
<1>6. QED
  BY <1>5 DEF Max

\* What overrides what is seen in the table alone, and once a call for the
\* effective entries is disturbed nothing is said of it.
LEMMA EffectiveStays ==
  ASSUME NEW c \in CallId, EffectiveOK(c), call'[c] = call[c],
         \/ prefs' = prefs /\ disturbed \subseteq disturbed'
         \/ c \in disturbed'
         \/ call[c].pc \in {"idle", "done"}
  PROVE  EffectiveOK(c)'
<1>1. CASE prefs' = prefs /\ disturbed \subseteq disturbed'
  BY <1>1 DEF EffectiveOK, Overrides, Quiet, InScope
<1>2. CASE c \in disturbed'
  BY <1>2 DEF EffectiveOK, Quiet
<1>3. CASE call[c].pc \in {"idle", "done"}
  BY <1>3 DEF EffectiveOK, Quiet
<1>4. QED
  BY <1>1, <1>2, <1>3

\* What is left to show of a step of one call: the call itself.
LEMMA EffectiveStep ==
  ASSUME PrefInv, EffectiveInv, NEW c \in CallId, NEW r, call' = [call EXCEPT ![c] = r],
         \/ prefs' = prefs /\ disturbed' = disturbed
         \/ Change(c, prefs'),
         EffectiveOK(c)'
  PROVE  EffectiveInv'
<1>1. DOMAIN call = CallId
  BY DEF PrefInv
<1>2. \A d \in CallId \ {c} : call'[d] = call[d]
  BY <1>1
<1>3. ASSUME NEW d \in CallId PROVE EffectiveOK(d)'
  <2>1. CASE d = c
    BY <2>1
  <2>2. CASE d # c
    <3>1. call'[d] = call[d] /\ EffectiveOK(d)
      BY <1>2, <2>2 DEF EffectiveInv
    <3>2. \/ prefs' = prefs /\ disturbed \subseteq disturbed'
          \/ d \in disturbed'
          \/ call[d].pc \in {"idle", "done"}
      BY <2>2 DEF Change, OpenCalls
    <3>3. QED
      BY <3>1, <3>2, EffectiveStays
  <2>3. QED
    BY <2>1, <2>2
<1>4. QED
  BY <1>3 DEF EffectiveInv

\* A step to anything but the next scope or the end of the last one.
LEMMA NotEffectiveStep ==
  ASSUME PrefInv, EffectiveInv, NEW c \in CallId, NEW r, call' = [call EXCEPT ![c] = r],
         r.pc # "scopes",
         r.pc = "audit" /\ r.status = "success" => r.tool # "effective",
         \/ prefs' = prefs /\ disturbed' = disturbed
         \/ Change(c, prefs')
  PROVE  EffectiveInv'
<1>1. DOMAIN call = CallId
  BY DEF PrefInv
<1>2. call'[c] = r
  BY <1>1
<1>3. EffectiveOK(c)'
  BY <1>2 DEF EffectiveOK, Quiet
<1>4. QED
  BY <1>3, EffectiveStep

LEMMA NotEffectiveEnd ==
  ASSUME PrefInv, EffectiveInv, NEW c \in CallId, NEW status \in {"success", "error"},
         Finish(c, status), status = "success" => call[c].tool # "effective",
         \/ prefs' = prefs /\ disturbed' = disturbed
         \/ Change(c, prefs')
  PROVE  EffectiveInv'
<1>1. PICK N, L : \E r \in PrefCalls(N, L) :
         /\ call' = [call EXCEPT ![c] = r] /\ call'[c] = r
         /\ r.pc = "audit" /\ r.status = status
         /\ status = "success" => /\ r.tool = call[c].tool
                                  /\ r.held = call[c].held /\ r.expected = call[c].expected
  BY FinishFacts
<1>2. PICK r \in PrefCalls(N, L) :
         /\ call' = [call EXCEPT ![c] = r]
         /\ r.pc = "audit" /\ r.status = status
         /\ status = "success" => r.tool = call[c].tool
  BY <1>1
<1>3. QED
  BY <1>2, NotEffectiveStep

\* A call for the effective entries begins with an empty map.
LEMMA EffectiveBegins ==
  ASSUME PrefInv, ListInv, EffectiveInv, NEW c \in CallId, ToolCall(c)
  PROVE  EffectiveInv'
<1>1. /\ prefs' = prefs /\ disturbed' = disturbed
      /\ c = called + 1 /\ c \in Nat /\ called \in Nat
  BY DEF ToolCall, ListInv, CallId
<1>2. call[c] = IdleCall /\ DOMAIN call = CallId
  <2>1. c > called
    BY <1>1
  <2>2. QED
    BY <2>1 DEF ListInv, PrefInv
<1>3. ASSUME NEW pc \in {"read", "count", "scopes"}, NEW tool, NEW scope, NEW key, NEW expected,
             Start(c, pc, tool, scope, key, expected)
      PROVE  EffectiveInv'
  <2>1. PICK r : r = [call[c] EXCEPT !.pc = pc, !.tool = tool, !.scope = scope, !.key = key,
                                     !.expected = expected]
    OBVIOUS
  <2>2. r.pc = pc /\ r.offset = 0 /\ r.seen = <<>>
    BY <1>2, <2>1 DEF IdleCall
  <2>3. call' = [call EXCEPT ![c] = r] /\ call'[c] = r
    BY <1>2, <1>3, <2>1 DEF Start
  <2>4. Overrides(<<>>, 0)
    BY DEF Overrides, ToSet
  <2>5. Overrides(call'[c].seen, call'[c].offset)
    BY <2>2, <2>3, <2>4
  <2>6. Overrides(call[c].seen, call[c].offset)'
    BY <1>1, <2>5 DEF Overrides, InScope
  <2>7. EffectiveOK(c)'
    BY <2>2, <2>3, <2>6 DEF EffectiveOK, Quiet
  <2>8. QED
    BY <1>1, <2>3, <2>7, EffectiveStep
<1>4. CASE Finish(c, "error")
  BY <1>1, <1>4, NotEffectiveEnd
<1>5. CASE ~Finish(c, "error")
  <2>1. \E pc \in {"read", "count", "scopes"} : \E tool, scope, key, expected :
           Start(c, pc, tool, scope, key, expected)
    BY <1>5 DEF ToolCall, PreferenceGet, PreferenceCreate, PreferenceUpdate, PreferenceDelete,
                PreferenceList, PreferenceEffective
  <2>2. QED
    BY <1>3, <2>1
<1>6. QED
  BY <1>4, <1>5

LEMMA EffectiveElsewhere ==
  ASSUME PrefInv, EffectiveInv, NEW c \in CallId,
         \/ PrefRead(c) \/ PrefInsert(c) \/ PrefWrite(c) \/ ListCount(c) \/ ListFind(c)
         \/ WriteAudit(c)
  PROVE  EffectiveInv'
<1> DEFINE N1 == {call[d].total : d \in CallId} \cup {call[d].offset : d \in CallId}
           L1 == {call[d].seen : d \in CallId}
<1>1. call \in [CallId -> PrefCalls(N1, L1)]
  BY DEF PrefInv
<1> HIDE DEF N1, L1
<1>2. call[c] \in PrefCalls(N1, L1) /\ PrefCallOK(c)
  BY <1>1 DEF PrefInv
<1>3. /\ DOMAIN call = CallId
      /\ call[c].pc = "read" => call[c].tool \in {"get", "create", "update", "delete"}
      /\ call[c].pc = "insert" => call[c].tool = "create"
      /\ call[c].pc \in {"update", "delete"} => call[c].tool = call[c].pc
      /\ call[c].pc \in {"count", "find"} => call[c].tool = "list"
  BY <1>1, <1>2 DEF PrefCallOK
<1>4. CASE PrefRead(c)
  <2>1. prefs' = prefs /\ disturbed' = disturbed /\ call[c].pc = "read"
    BY <1>4 DEF PrefRead
  <2>2. CASE Finish(c, "error")
    BY <2>1, <2>2, NotEffectiveEnd
  <2>3. CASE call[c].tool = "get" /\ Finish(c, "success")
    BY <2>1, <2>3, NotEffectiveEnd
  <2>4. CASE Go(c, "insert")
    <3>1. PICK r : r = [call[c] EXCEPT !.pc = "insert"]
      OBVIOUS
    <3>2. r.pc = "insert" /\ call' = [call EXCEPT ![c] = r]
      BY <1>2, <1>3, <2>4, <3>1 DEF Go, PrefCalls
    <3>3. QED
      BY <2>1, <3>2, NotEffectiveStep
  <2>5. CASE /\ call[c].tool \in {"update", "delete"}
             /\ \E e : call' = [call EXCEPT ![c].pc = call[c].tool, ![c].held = e]
    <3>1. PICK e : call' = [call EXCEPT ![c].pc = call[c].tool, ![c].held = e]
      BY <2>5
    <3>2. PICK r : r = [call[c] EXCEPT !.pc = call[c].tool, !.held = e]
      OBVIOUS
    <3>3. r.pc = call[c].tool /\ call' = [call EXCEPT ![c] = r]
      BY <1>2, <1>3, <3>1, <3>2 DEF PrefCalls
    <3>4. QED
      BY <2>1, <2>5, <3>3, NotEffectiveStep
  <2>6. QED
    BY <1>3, <1>4, <2>1, <2>2, <2>3, <2>4, <2>5 DEF PrefRead
<1>5. CASE PrefInsert(c)
  <2>1. call[c].tool = "create"
    BY <1>3, <1>5 DEF PrefInsert
  <2>2. CASE Finish(c, "error") /\ UNCHANGED <<prefs, lastId, disturbed>>
    BY <2>2, NotEffectiveEnd
  <2>3. CASE ~(Finish(c, "error") /\ UNCHANGED <<prefs, lastId, disturbed>>)
    <3>1. PICK o \in PrefOutcome : \E e :
             Change(c, prefs \cup {e}) /\ Finish(c, IF o = "ok" THEN "success" ELSE "error")
      BY <1>5, <2>3 DEF PrefInsert
    <3>2. Change(c, prefs')
      BY <3>1 DEF Change
    <3>3. PICK status \in {"success", "error"} : Finish(c, status)
      BY <3>1
    <3>4. QED
      BY <2>1, <3>2, <3>3, NotEffectiveEnd
  <2>4. QED
    BY <2>2, <2>3
<1>6. CASE PrefWrite(c)
  <2>1. call[c].tool \in {"update", "delete"}
    BY <1>3, <1>6 DEF PrefWrite
  <2>2. PICK o \in PrefOutcome :
          /\ Change(c, IF o = "fail" THEN prefs
                       ELSE IF call[c].pc = "update" THEN UpdateHeld(c)
                       ELSE {x \in prefs : x.id # call[c].held.id})
          /\ Finish(c, IF o = "ok" THEN "success" ELSE "error")
    BY <1>6 DEF PrefWrite
  <2>3. Change(c, prefs')
    BY <2>2 DEF Change
  <2>4. PICK status \in {"success", "error"} : Finish(c, status)
    BY <2>2
  <2>5. QED
    BY <2>1, <2>3, <2>4, NotEffectiveEnd
<1>7. CASE ListCount(c)
  <2>1. prefs' = prefs /\ disturbed' = disturbed
    BY <1>7 DEF ListCount
  <2>2. CASE Finish(c, "error")
    BY <2>1, <2>2, NotEffectiveEnd
  <2>3. CASE ~Finish(c, "error")
    <3>1. PICK n : call' = [call EXCEPT ![c].pc = "find", ![c].total = n]
      BY <1>7, <2>3 DEF ListCount
    <3>2. PICK r : r = [call[c] EXCEPT !.pc = "find", !.total = n]
      OBVIOUS
    <3>3. r.pc = "find" /\ call' = [call EXCEPT ![c] = r]
      BY <1>2, <1>3, <3>1, <3>2 DEF PrefCalls
    <3>4. QED
      BY <2>1, <3>3, NotEffectiveStep
  <2>4. QED
    BY <2>2, <2>3
<1>8. CASE ListFind(c)
  <2>1. prefs' = prefs /\ disturbed' = disturbed /\ call[c].tool = "list"
    BY <1>3, <1>8 DEF ListFind
  <2>2. CASE Finish(c, "error")
    BY <2>1, <2>2, NotEffectiveEnd
  <2>3. CASE ~Finish(c, "error")
    <3>0. PICK seen, next : \E pc \in {"count", "audit"}, status \in {"none", "success"} :
             call' = [call EXCEPT ![c].seen = seen, ![c].offset = next, ![c].total = 0,
                                  ![c].pc = pc, ![c].status = status]
      BY <1>8, <2>3, ListFindWrites
    <3>1. PICK pc \in {"count", "audit"}, status \in {"none", "success"} :
             call' = [call EXCEPT ![c].seen = seen, ![c].offset = next, ![c].total = 0,
                                  ![c].pc = pc, ![c].status = status]
      BY <3>0
    <3>2. PICK r : r = [call[c] EXCEPT !.seen = seen, !.offset = next, !.total = 0, !.pc = pc,
                                       !.status = status]
      OBVIOUS
    <3>3. r.pc = pc /\ r.tool = "list" /\ call' = [call EXCEPT ![c] = r]
      BY <1>2, <1>3, <2>1, <3>1, <3>2 DEF PrefCalls
    <3>4. QED
      BY <2>1, <3>1, <3>3, NotEffectiveStep
  <2>4. QED
    BY <2>2, <2>3
<1>9. CASE WriteAudit(c)
  <2>1. prefs' = prefs /\ disturbed' = disturbed
    BY <1>9 DEF WriteAudit
  <2>2. PICK status : Respond(c, status)
    BY <1>9 DEF WriteAudit
  <2>3. PICK r : r = [IdleCall EXCEPT !.pc = "done", !.status = status]
    OBVIOUS
  <2>4. r.pc = "done" /\ call' = [call EXCEPT ![c] = r]
    BY <2>2, <2>3 DEF Respond, IdleCall
  <2>5. QED
    BY <2>1, <2>4, NotEffectiveStep
<1>10. QED
  BY <1>4, <1>5, <1>6, <1>7, <1>8, <1>9

\* The page of a scope that has no more entries than the limit has them all.
LEMMA WholeScope ==
  ASSUME ListInv, NEW scope, NEW k \in Nat \ {0}, NEW page \in Pages(scope, 0, k),
         Cardinality(InScope(scope)) <= k
  PROVE  ToSet(page) = InScope(scope)
<1>1. PICK s \in Sorted(scope) : page = SubSeq(s, 0 + 1, IF 0 + k < Len(s) THEN 0 + k ELSE Len(s))
  BY DEF Pages
<1>2. IsFiniteSet(InScope(scope))
  BY FS_Subset DEF InScope, ListInv
<1>3. PICK n \in Nat : n = Cardinality(InScope(scope))
  BY <1>2, FS_CardinalityType
<1>4. s \in Seq(InScope(scope)) /\ Len(s) = n
  BY <1>3, SortedFacts DEF ListInv
<1>5. SubSeq(s, 1, Len(s)) = s
  BY <1>4, SubSeqFull
<1>6. page = s
  <2>1. ~(0 + k < Len(s)) /\ 0 + 1 = 1
    BY <1>3, <1>4
  <2>2. QED
    BY <1>1, <1>5, <2>1
<1>7. s \in [1 .. n -> InScope(scope)] /\ \A i, j \in 1 .. n : i # j => s[i] # s[j]
  BY <1>3 DEF Sorted, SetToSeqs
<1>8. s \in Injection(1 .. n, InScope(scope))
  BY <1>7 DEF Injection, IsInjective
<1>9. Cardinality(1 .. n) = n
  <2>1. Cardinality(1 .. n) = IF 1 > n THEN 0 ELSE n - 1 + 1
    BY FS_Interval
  <2>2. QED
    BY <2>1
<1>10. s \in Surjection(1 .. n, InScope(scope))
  BY <1>2, <1>3, <1>8, <1>9, FS_Injection
<1>11. QED
  BY <1>6, <1>7, <1>10 DEF ToSet, Surjection

\* The page of the next scope overrides what the scopes before have given.
LEMMA PageOverrides ==
  ASSUME ListInv, NEW seen \in Seq(prefs), NEW k \in Nat, k < Len(PrefScopes),
         Overrides(seen, k), NEW page \in Pages(PrefScopes[k + 1], 0, ListLimit)
  PROVE  Overrides(FoldScope(seen, page), k + 1)
<1>1. ListLimit \in Nat \ {0} /\ 0 \in Nat
  BY PrefAssumption
<1>2. page \in Seq(InScope(PrefScopes[k + 1]))
  BY <1>1, PageWithin
<1>3. InScope(PrefScopes[k + 1]) \subseteq prefs
  BY DEF InScope
<1>4. page \in Seq(prefs)
  BY <1>2, <1>3
<1> DEFINE last == LastOfKeys(page)
           kept == {x \in ToSet(seen) : \A e \in last : e.key # x.key}
<1>5. PICK now : now = FoldScope(seen, page)
  OBVIOUS
<1>6. now \in Seq(prefs) /\ ToSet(now) = kept \cup last
  BY <1>4, <1>5, FoldFacts
<1>7. last \subseteq InScope(PrefScopes[k + 1]) /\ last \subseteq ToSet(page)
  BY <1>2 DEF ToSet, LastOfKeys
<1>8. \A d, e \in last : d.key = e.key => d = e
  <2>1. ASSUME NEW i \in DOMAIN page, NEW j \in DOMAIN page,
               \A h \in DOMAIN page : page[h].key = page[i].key => h <= i,
               \A h \in DOMAIN page : page[h].key = page[j].key => h <= j,
               page[i].key = page[j].key
        PROVE  i = j
    <3>1. i <= j /\ j <= i /\ i \in Nat /\ j \in Nat
      BY <1>4, <2>1
    <3>2. QED
      BY <3>1
  <2>2. QED
    BY <2>1 DEF LastOfKeys
<1>9. ASSUME NEW e \in ToSet(page) PROVE \E d \in last : d.key = e.key
  <2>1. PICK m \in Nat : DOMAIN page = 1 .. m
    BY <1>4
  <2>2. PICK S : S = {i \in DOMAIN page : page[i].key = e.key}
    OBVIOUS
  <2>3. S \in SUBSET (0 .. m) /\ S # {}
    BY <2>1, <2>2 DEF ToSet
  <2>4. Max(S) \in S /\ \A i \in S : Max(S) >= i
    BY <2>3, GreatestNumber
  <2>5. PICK x \in S : \A i \in S : i <= x
    BY <2>1, <2>2, <2>4
  <2>6. x \in DOMAIN page /\ page[x].key = e.key
    BY <2>2
  <2>7. \A j \in DOMAIN page : page[j].key = page[x].key => j <= x
    BY <2>2, <2>5, <2>6
  <2>8. page[x] \in last
    BY <2>6, <2>7 DEF LastOfKeys
  <2>9. QED
    BY <2>6, <2>8
<1> HIDE DEF last
<1>10. ToSet(now) \subseteq prefs
  BY <1>3, <1>6, <1>7 DEF Overrides
<1>11. \A d, e \in ToSet(now) : d.key = e.key => d = e
  BY <1>6, <1>8 DEF Overrides
<1>12. ASSUME NEW i \in 1 .. k + 1, Cardinality(InScope(PrefScopes[i])) <= ListLimit,
              NEW e \in InScope(PrefScopes[i])
       PROVE  \E d \in ToSet(now), j \in i .. k + 1 : d.key = e.key /\ d.scope = PrefScopes[j]
  <2>1. ASSUME NEW f \in last, f.key = e.key
        PROVE  \E d \in ToSet(now), j \in i .. k + 1 : d.key = e.key /\ d.scope = PrefScopes[j]
    <3>1. f \in ToSet(now) /\ f.scope = PrefScopes[k + 1] /\ k + 1 \in i .. k + 1
      BY <1>6, <1>7 DEF InScope
    <3>2. QED
      BY <2>1, <3>1
  <2>2. CASE i = k + 1
    <3>1. ToSet(page) = InScope(PrefScopes[k + 1])
      BY <1>1, <1>12, <2>2, WholeScope
    <3>2. \E d \in last : d.key = e.key
      BY <1>9, <2>2, <3>1
    <3>3. QED
      BY <2>1, <3>2
  <2>3. CASE i # k + 1
    <3>1. i \in 1 .. k
      BY <2>3
    <3>2. PICK d \in ToSet(seen), j \in i .. k : d.key = e.key /\ d.scope = PrefScopes[j]
      BY <1>12, <3>1 DEF Overrides
    <3>3. CASE d \in kept
      <4>1. d \in ToSet(now) /\ j \in i .. k + 1
        BY <1>6, <3>1, <3>3
      <4>2. QED
        BY <3>2, <4>1
    <3>4. CASE d \notin kept
      <4>1. \E f \in last : f.key = e.key
        BY <3>2, <3>4
      <4>2. QED
        BY <2>1, <4>1
    <3>5. QED
      BY <3>3, <3>4
  <2>4. QED
    BY <2>2, <2>3
<1>13. QED
  BY <1>5, <1>10, <1>11, <1>12 DEF Overrides

LEMMA EffectiveReads ==
  ASSUME PrefInv, ListInv, PrefBounds, EffectiveInv, NEW c \in CallId, EffectiveScope(c)
  PROVE  EffectiveInv'
<1> DEFINE N1 == {call[d].total : d \in CallId} \cup {call[d].offset : d \in CallId}
           L1 == {call[d].seen : d \in CallId}
<1>1. call \in [CallId -> PrefCalls(N1, L1)]
  BY DEF PrefInv
<1> HIDE DEF N1, L1
<1>2. call[c] \in PrefCalls(N1, L1) /\ DOMAIN call = CallId
  BY <1>1
<1>3. prefs' = prefs /\ disturbed' = disturbed /\ call[c].pc = "scopes"
  BY DEF EffectiveScope
<1>4. CallWithin(call[c], Cardinality(Ready))
  BY DEF PrefBounds
<1>5. CASE Finish(c, "error")
  BY <1>3, <1>5, NotEffectiveEnd
<1>6. CASE ~Finish(c, "error")
  <2>1. PICK k, seen : k = call[c].offset /\ seen = call[c].seen
    OBVIOUS
  <2>2. PICK S : seen \in Seq(S)
    BY <1>4, <2>1 DEF CallWithin
  <2>3. k \in Nat /\ k < Len(PrefScopes) /\ Len(PrefScopes) \in Nat
    BY <1>3, <1>4, <2>1, GivenType DEF CallWithin
  <2>4. PICK n \in Nat : n = k + 1
    BY <2>3
  <2>5. PICK page \in Pages(PrefScopes[n], 0, ListLimit) :
          call' = [call EXCEPT ![c].offset = n, ![c].seen = FoldScope(@, page),
                               ![c].pc = IF n = Len(PrefScopes) THEN "audit" ELSE "scopes",
                               ![c].status = IF n = Len(PrefScopes) THEN "success" ELSE "none"]
    BY <1>6, <2>1, <2>4 DEF EffectiveScope
  <2>6. PICK now : now = FoldScope(seen, page)
    OBVIOUS
  <2>7. PICK pc \in {"scopes", "audit"} : pc = IF n = Len(PrefScopes) THEN "audit" ELSE "scopes"
    OBVIOUS
  <2>8. PICK status : status = IF n = Len(PrefScopes) THEN "success" ELSE "none"
    OBVIOUS
  <2>9. PICK r : r = [call[c] EXCEPT !.offset = n, !.seen = now, !.pc = pc, !.status = status]
    OBVIOUS
  <2>10. call' = [call EXCEPT ![c] = r] /\ call'[c] = r
    BY <1>2, <2>1, <2>5, <2>6, <2>7, <2>8, <2>9
  <2>11. r.pc = pc /\ r.offset = n /\ r.seen = now
    BY <1>2, <2>9 DEF PrefCalls
  <2>12. ASSUME c \notin disturbed PROVE Overrides(now, n)
    <3>1. Overrides(seen, k)
      BY <1>3, <2>1, <2>12 DEF EffectiveInv, EffectiveOK
    <3>2. seen \in Seq(prefs)
      <4>1. ToSet(seen) \subseteq prefs
        BY <3>1 DEF Overrides
      <4>2. \A i \in 1 .. Len(seen) : seen[i] \in prefs
        BY <2>2, <4>1 DEF ToSet
      <4>3. QED
        BY <2>2, <4>2
    <3>3. QED
      BY <2>3, <2>4, <2>6, <3>1, <3>2, PageOverrides
  <2>13. ASSUME c \notin disturbed PROVE Overrides(call[c].seen, n)'
    <3>1. Overrides(now, n) /\ call'[c].seen = now
      BY <2>10, <2>11, <2>12, <2>13
    <3>2. QED
      BY <1>3, <3>1 DEF Overrides, InScope
  <2>14. EffectiveOK(c)'
    <3>1. CASE pc = "scopes"
      <4>1. call'[c].pc = "scopes" /\ call'[c].offset = n
        BY <2>10, <2>11, <3>1
      <4>2. QED
        BY <1>3, <2>13, <4>1 DEF EffectiveOK, Quiet
    <3>2. CASE pc = "audit"
      <4>1. call'[c].pc = "audit" /\ n = Len(PrefScopes)
        BY <2>7, <2>10, <2>11, <3>2
      <4>2. QED
        BY <1>3, <2>13, <4>1 DEF EffectiveOK, Quiet
    <3>3. QED
      BY <3>1, <3>2
  <2>15. QED
    BY <1>3, <2>10, <2>14, EffectiveStep
<1>7. QED
  BY <1>5, <1>6

(***************************************************************************)
(* A client of db.preference.list that follows the cursors sees every      *)
(* entry of the scope once and in order, for any number of entries and     *)
(* any limit, and the effective preferences of a task have for every key   *)
(* an entry that none of a more specific scope overrides, for any number   *)
(* of scopes, if no other call changed the table on the way.               *)
(***************************************************************************)
THEOREM ListsAreComplete == PrefSpec => []ListIsComplete
<1>1. PrefInit => EffectiveInv
  <2> SUFFICES ASSUME PrefInit PROVE EffectiveInv
    OBVIOUS
  <2>1. \A c \in CallId : call[c] = IdleCall
    BY DEF PrefInit
  <2>2. QED
    BY <2>1, PrefIdle DEF EffectiveInv, EffectiveOK, Quiet
<1>2. PrefInv /\ ListInv /\ PrefBounds /\ EffectiveInv /\ [PrefNext]_prefVars => EffectiveInv'
  <2> SUFFICES ASSUME PrefInv, ListInv, PrefBounds, EffectiveInv, [PrefNext]_prefVars
               PROVE  EffectiveInv'
    OBVIOUS
  <2>1. CASE UNCHANGED prefVars
    <3>1. prefs' = prefs /\ call' = call /\ disturbed' = disturbed
      BY <2>1 DEF prefVars
    <3>2. \A c \in CallId : EffectiveOK(c)'
      BY <3>1, EffectiveStays DEF EffectiveInv
    <3>3. QED
      BY <3>2 DEF EffectiveInv
  <2>2. CASE PrefNext
    BY <2>2, EffectiveBegins, EffectiveElsewhere, EffectiveReads DEF PrefNext
  <2>3. QED
    BY <2>1, <2>2
<1>3. ListInv /\ EffectiveInv => ListIsComplete
  BY DEF ListInv, ListOK, EffectiveInv, EffectiveOK, ListIsComplete
<1>4. QED
  BY <1>1, <1>2, <1>3, PrefInvariant, ListInvariant, PrefBoundsAlways, PTL DEF PrefSpec

-----------------------------------------------------------------------------
(* API egress *)

\* A list of the rules has every rule.
LEMMA RulesListed ==
  ASSUME NEW rs, IsFiniteSet(rs), NEW listed \in SetToSeqs(rs)
  PROVE  /\ \A i \in DOMAIN listed : listed[i] \in rs
         /\ \A r \in rs : \E i \in DOMAIN listed : listed[i] = r
<1> DEFINE D == 1 .. Cardinality(rs)
<1>1. Cardinality(rs) \in Nat
  BY FS_CardinalityType
<1>2. IsFiniteSet(D) /\ Cardinality(D) = Cardinality(rs)
  BY <1>1, FS_Interval
<1>3. listed \in [D -> rs] /\ \A i, j \in D : i # j => listed[i] # listed[j]
  BY DEF SetToSeqs
<1>4. listed \in Injection(D, rs)
  BY <1>3 DEF Injection, IsInjective
<1>5. listed \in Surjection(D, rs)
  BY <1>2, <1>4, FS_Injection
<1>6. QED
  BY <1>3, <1>5 DEF Surjection

\* evaluatePolicy agrees with the rules, in whatever order they are listed.
LEMMA PolicyFollowsRules ==
  ASSUME NEW rs, IsFiniteSet(rs), NEW listed \in SetToSeqs(rs), NEW operation,
         EvaluatePolicy(listed, operation)
  PROVE  Permits(rs, operation)
BY RulesListed DEF EvaluatePolicy, Permits, DenyOverrides, HigherWins

LEMMA NoteFacts ==
  ASSUME NEW cl \in EgressCall, NEW rs, NEW cred, NEW day
  PROVE  /\ Note(cl, rs, cred, day) \in EgressCall
         /\ Note(cl, rs, cred, day).pc = cl.pc
         /\ Note(cl, rs, cred, day).operation = cl.operation
         /\ Note(cl, rs, cred, day).decision = cl.decision
         /\ cl.permitted => Note(cl, rs, cred, day).permitted
         /\ cl.funded => Note(cl, rs, cred, day).funded
         /\ cl.pc # "idle" =>
              /\ Permits(rs, cl.operation) => Note(cl, rs, cred, day).permitted
              /\ Valid(cred, day) => Note(cl, rs, cred, day).funded
<1>1. CASE cl.pc = "idle"
  BY <1>1 DEF Note
<1>2. CASE cl.pc # "idle"
  <2>1. PICK p \in BOOLEAN : p = (cl.permitted \/ Permits(rs, cl.operation))
    BY Zenon DEF EgressCall
  <2>2. PICK f \in BOOLEAN : f = (cl.funded \/ Valid(cred, day))
    BY Zenon DEF EgressCall
  <2>3. Note(cl, rs, cred, day) = [cl EXCEPT !.permitted = p, !.funded = f]
    BY <1>2, <2>1, <2>2, Zenon DEF Note
  <2>4. /\ [cl EXCEPT !.permitted = p, !.funded = f] \in EgressCall
        /\ [cl EXCEPT !.permitted = p, !.funded = f].pc = cl.pc
        /\ [cl EXCEPT !.permitted = p, !.funded = f].operation = cl.operation
        /\ [cl EXCEPT !.permitted = p, !.funded = f].decision = cl.decision
        /\ [cl EXCEPT !.permitted = p, !.funded = f].permitted = p
        /\ [cl EXCEPT !.permitted = p, !.funded = f].funded = f
    BY DEF EgressCall
  <2>5. QED
    BY <1>2, <2>1, <2>2, <2>3, <2>4, Zenon
<1>3. QED
  BY <1>1, <1>2

\* A step of the call in progress, on tables that nobody changes.
LEMMA EgressGoes ==
  ASSUME EgressInv, NEW pc \in {"rules", "credential", "audit", "answered"},
         NEW decision \in {"none", "allow", "deny"},
         egress' = [egress EXCEPT !.pc = pc, !.decision = decision],
         egress.pc # "idle",
         UNCHANGED <<rules, credential, withStore, today>>, audited' \in BOOLEAN,
         pc \in {"rules", "credential"} => decision = "none",
         withStore /\ pc = "credential" => egress.permitted,
         withStore /\ decision = "allow" => egress.permitted /\ egress.funded
  PROVE  EgressInv'
<1>1. egress \in EgressCall
  BY DEF EgressInv, EgressTypeOK
<1>2. /\ egress' \in EgressCall
      /\ egress'.pc = pc /\ egress'.decision = decision
      /\ egress'.operation = egress.operation
      /\ egress'.permitted = egress.permitted /\ egress'.funded = egress.funded
  BY <1>1 DEF EgressCall
<1>3. EgressTypeOK' /\ IsFiniteSet(rules)'
  BY <1>2 DEF EgressInv, EgressTypeOK
<1>4. EgressNoted'
  <2>1. SUFFICES ASSUME withStore
                 PROVE  /\ Permits(rules, egress.operation) => egress'.permitted
                        /\ Valid(credential, today) => egress'.funded
    BY <1>2 DEF EgressNoted
  <2>2. QED
    BY <1>2, <2>1 DEF EgressInv, EgressNoted
<1>5. AllowedWasPermitted'
  BY <1>2 DEF AllowedWasPermitted
<1>6. QED
  BY <1>2, <1>3, <1>4, <1>5 DEF EgressInv

\* A change of the tables, which is noted.
LEMMA TablesChange ==
  ASSUME EgressInv, rules' \subseteq Rule, IsFiniteSet(rules'), credential' \in Credential,
         egress' = Note(egress, rules', credential', today),
         UNCHANGED <<audited, withStore, today>>
  PROVE  EgressInv'
<1>1. egress \in EgressCall
  BY DEF EgressInv, EgressTypeOK
<1>2. /\ egress' \in EgressCall
      /\ egress'.pc = egress.pc /\ egress'.decision = egress.decision
      /\ egress'.operation = egress.operation
      /\ egress.permitted => egress'.permitted
      /\ egress.funded => egress'.funded
      /\ egress.pc # "idle" =>
              /\ Permits(rules', egress.operation) => egress'.permitted
              /\ Valid(credential', today) => egress'.funded
  BY <1>1, NoteFacts
<1>3. EgressTypeOK' /\ IsFiniteSet(rules)'
  BY <1>2 DEF EgressInv, EgressTypeOK
<1>4. EgressNoted'
  BY <1>2 DEF EgressNoted
<1>5. AllowedWasPermitted'
  BY <1>2 DEF EgressInv, AllowedWasPermitted
<1>6. QED
  BY <1>2, <1>3, <1>4, <1>5 DEF EgressInv

LEMMA EgressStep == EgressInv /\ [EgressNext]_egressVars => EgressInv'
<1> SUFFICES ASSUME EgressInv, [EgressNext]_egressVars PROVE EgressInv'
  OBVIOUS
<1>0. egress \in EgressCall /\ audited \in BOOLEAN /\ IsFiniteSet(rules)
  BY DEF EgressInv, EgressTypeOK
<1>1. CASE EgressArrive
  <2>1. PICK operation \in Operation :
          LET cl == [NoEgress EXCEPT !.pc = "task", !.operation = operation]
          IN  IF withStore THEN egress' = Note(cl, rules, credential, today)
              ELSE \E decision \in Effect :
                      egress' = [cl EXCEPT !.pc = "answered", !.decision = decision]
    BY <1>1 DEF EgressArrive
  <2> DEFINE cl == [NoEgress EXCEPT !.pc = "task", !.operation = operation]
  <2>2. cl \in EgressCall /\ cl.pc = "task" /\ cl.decision = "none" /\ cl.operation = operation
    BY DEF EgressCall, NoEgress
  <2>3. UNCHANGED <<rules, credential, withStore, today>> /\ audited' = FALSE
    BY <1>1 DEF EgressArrive
  <2>4. CASE withStore
    <3>1. egress' = Note(cl, rules, credential, today)
      BY <2>1, <2>4
    <3> HIDE DEF cl
    <3>2. /\ egress' \in EgressCall
          /\ egress'.pc = "task" /\ egress'.decision = "none"
          /\ egress'.operation = operation
          /\ Permits(rules, operation) => egress'.permitted
          /\ Valid(credential, today) => egress'.funded
      BY <2>2, <3>1, NoteFacts
    <3>3. EgressTypeOK' /\ IsFiniteSet(rules)'
      BY <2>3, <3>2 DEF EgressInv, EgressTypeOK
    <3>4. EgressNoted' /\ AllowedWasPermitted'
      BY <2>3, <3>2 DEF EgressNoted, AllowedWasPermitted
    <3>5. QED
      BY <3>2, <3>3, <3>4 DEF EgressInv
  <2>5. CASE ~withStore
    <3>1. PICK decision \in Effect : egress' = [cl EXCEPT !.pc = "answered", !.decision = decision]
      BY <2>1, <2>5
    <3> HIDE DEF cl
    <3>2. egress' \in EgressCall /\ egress'.pc = "answered"
      BY <2>2, <3>1 DEF EgressCall, Effect
    <3>3. EgressTypeOK' /\ IsFiniteSet(rules)'
      BY <2>3, <3>2 DEF EgressInv, EgressTypeOK
    <3>4. EgressNoted' /\ AllowedWasPermitted'
      BY <2>3, <2>5 DEF EgressNoted, AllowedWasPermitted
    <3>5. QED
      BY <3>2, <3>3, <3>4 DEF EgressInv
  <2>6. QED
    BY <2>4, <2>5
<1>2. CASE ResolveSubject
  <2>1. egress.pc = "task" /\ egress.decision = "none"
    BY <1>2 DEF ResolveSubject, EgressInv
  <2>2. \/ egress' = [egress EXCEPT !.pc = "rules", !.decision = "none"]
        \/ egress' = [egress EXCEPT !.pc = "audit", !.decision = "deny"]
    BY <1>0, <1>2, <2>1 DEF ResolveSubject, EgressEnd, EgressCall
  <2>3. UNCHANGED <<rules, credential, audited, withStore, today>>
    BY <1>2 DEF ResolveSubject
  <2>4. QED
    BY <1>0, <2>1, <2>2, <2>3, EgressGoes
<1>3. CASE ListRules
  <2>1. egress.pc = "rules" /\ egress.decision = "none"
    BY <1>3 DEF ListRules, EgressInv
  <2>2. UNCHANGED <<rules, credential, audited, withStore, today>>
    BY <1>3 DEF ListRules
  <2>3. CASE egress' = [egress EXCEPT !.pc = "audit", !.decision = "deny"]
    BY <1>0, <2>1, <2>2, <2>3, EgressGoes
  <2>4. CASE egress' # [egress EXCEPT !.pc = "audit", !.decision = "deny"]
    <3>1. PICK listed \in SetToSeqs(rules) :
            EvaluatePolicy(listed, egress.operation) /\ egress' = [egress EXCEPT !.pc = "credential"]
      BY <1>3, <2>4 DEF ListRules, EgressEnd
    <3>2. Permits(rules, egress.operation)
      BY <1>0, <3>1, PolicyFollowsRules
    <3>3. withStore => egress.permitted
      BY <2>1, <3>2 DEF EgressInv, EgressNoted
    <3>4. egress' = [egress EXCEPT !.pc = "credential", !.decision = "none"]
      BY <1>0, <2>1, <3>1 DEF EgressCall
    <3>5. QED
      BY <1>0, <2>1, <2>2, <3>3, <3>4, EgressGoes
  <2>5. QED
    BY <2>3, <2>4
<1>4. CASE CheckCredential
  <2>1. egress.pc = "credential" /\ (withStore => egress.permitted)
    BY <1>4 DEF CheckCredential, EgressInv
  <2>2. UNCHANGED <<rules, credential, audited, withStore, today>>
    BY <1>4 DEF CheckCredential
  <2>3. CASE egress' = [egress EXCEPT !.pc = "audit", !.decision = "deny"]
    BY <1>0, <2>1, <2>2, <2>3, EgressGoes
  <2>4. CASE /\ HasActiveCredential
             /\ egress' = [egress EXCEPT !.pc = "audit", !.decision = "allow"]
    <3>1. withStore => egress.funded
      BY <2>1, <2>4 DEF HasActiveCredential, EgressInv, EgressNoted, Valid
    <3>2. QED
      BY <1>0, <2>1, <2>2, <2>4, <3>1, EgressGoes
  <2>5. QED
    BY <1>4, <2>3, <2>4 DEF CheckCredential, EgressEnd
<1>5. CASE AuditDecision
  <2>1. egress.pc = "audit" /\ audited' \in BOOLEAN
    BY <1>5 DEF AuditDecision
  <2>2. UNCHANGED <<rules, credential, withStore, today>>
    BY <1>5 DEF AuditDecision
  <2>3. egress' = [egress EXCEPT !.pc = "answered", !.decision = egress.decision]
    BY <1>0, <1>5 DEF AuditDecision, EgressCall
  <2>4. egress.decision \in {"none", "allow", "deny"}
    BY <1>0 DEF EgressCall
  <2>5. withStore /\ egress.decision = "allow" => egress.permitted /\ egress.funded
    BY DEF EgressInv, AllowedWasPermitted
  <2>6. QED
    BY <2>1, <2>2, <2>3, <2>4, <2>5, EgressGoes
<1>6. CASE EgressGone
  <2>1. /\ egress' = NoEgress /\ audited' = FALSE
        /\ UNCHANGED <<rules, credential, withStore, today>>
    BY <1>6 DEF EgressGone
  <2>2. egress' \in EgressCall /\ egress'.pc = "idle" /\ egress'.decision = "none"
    BY <2>1 DEF NoEgress, EgressCall
  <2>3. EgressTypeOK' /\ IsFiniteSet(rules)'
    BY <2>1, <2>2 DEF EgressInv, EgressTypeOK
  <2>4. EgressNoted' /\ AllowedWasPermitted'
    BY <2>2 DEF EgressNoted, AllowedWasPermitted
  <2>5. QED
    BY <2>2, <2>3, <2>4 DEF EgressInv
<1>7. CASE ChangeRule
  <2>1. PICK r \in Rule : rules' \in {rules \cup {r}, rules \ {r}}
    BY <1>7 DEF ChangeRule
  <2>2. rules' \subseteq Rule
    BY <2>1 DEF EgressInv, EgressTypeOK
  <2>3. IsFiniteSet(rules')
    BY <1>0, <2>1, FS_AddElement, FS_RemoveElement
  <2>4. credential' \in Credential /\ UNCHANGED <<audited, withStore, today>>
    BY <1>7 DEF ChangeRule, EgressInv, EgressTypeOK
  <2>5. egress' = Note(egress, rules', credential', today)
    BY <1>7 DEF ChangeRule
  <2>6. QED
    BY <2>2, <2>3, <2>4, <2>5, TablesChange
<1>8. CASE ChangeCredential
  <2>1. credential' \in Credential /\ UNCHANGED <<rules, audited, withStore, today>>
    BY <1>8 DEF ChangeCredential
  <2>2. rules' \subseteq Rule /\ IsFiniteSet(rules')
    BY <1>0, <2>1 DEF EgressInv, EgressTypeOK
  <2>3. egress' = Note(egress, rules', credential', today)
    BY <1>8, <2>1 DEF ChangeCredential
  <2>4. QED
    BY <2>1, <2>2, <2>3, TablesChange
<1>9. CASE EgressTick
  <2>1. /\ today' = today + 1 /\ today < MaxExpiry
        /\ UNCHANGED <<rules, credential, egress, audited, withStore>>
    BY <1>9 DEF EgressTick
  <2>2. today \in 0 .. MaxExpiry /\ credential \in Credential
    BY DEF EgressInv, EgressTypeOK
  <2>3. today' \in 0 .. MaxExpiry /\ (Valid(credential, today') => Valid(credential, today))
    BY <2>1, <2>2, EgressAssumption DEF Valid, Credential
  <2>4. EgressTypeOK' /\ IsFiniteSet(rules)'
    BY <2>1, <2>3 DEF EgressInv, EgressTypeOK
  <2>5. EgressNoted' /\ AllowedWasPermitted'
    BY <2>1, <2>3 DEF EgressInv, EgressNoted, AllowedWasPermitted
  <2>6. QED
    BY <2>1, <2>4, <2>5 DEF EgressInv
<1>10. CASE UNCHANGED egressVars
  BY <1>10 DEF egressVars, EgressInv, EgressTypeOK, EgressNoted, AllowedWasPermitted
<1>11. QED
  BY <1>1, <1>2, <1>3, <1>4, <1>5, <1>6, <1>7, <1>8, <1>9, <1>10 DEF EgressNext

LEMMA EgressAlways == EgressSpec => []EgressInv
<1>1. EgressInit => EgressInv
  <2> SUFFICES ASSUME EgressInit PROVE EgressInv
    OBVIOUS
  <2>1. /\ egress \in EgressCall /\ egress.pc = "idle" /\ egress.decision = "none"
        /\ credential \in Credential
    BY EgressAssumption DEF EgressInit, NoEgress, EgressCall, Credential, NoCredential
  <2>2. EgressTypeOK
    <3>1. audited \in BOOLEAN /\ withStore \in BOOLEAN
      BY Zenon DEF EgressInit
    <3>2. QED
      BY <2>1, <3>1, EgressAssumption DEF EgressTypeOK, EgressInit
  <2>3. IsFiniteSet(rules) /\ EgressNoted /\ AllowedWasPermitted
    BY <2>1, FS_EmptySet DEF EgressInit, EgressNoted, AllowedWasPermitted
  <2>4. QED
    BY <2>1, <2>2, <2>3 DEF EgressInv
<1>2. QED
  BY <1>1, EgressStep, PTL DEF EgressSpec

(***************************************************************************)
(* A call that is allowed was permitted by the rules and had a valid       *)
(* credential at some time after it arrived, for any rules in any order,   *)
(* any operations and any changes between the reads (evaluateWithStore).   *)
(***************************************************************************)
THEOREM AllowedCalls == EgressSpec => []AllowedWasPermitted
<1>1. EgressInv => AllowedWasPermitted
  BY DEF EgressInv
<1>2. QED
  BY <1>1, EgressAlways, PTL

(***************************************************************************)
(* The egress call, its audit record and the tables it is decided by keep  *)
(* their types, with and without a store.                                  *)
(***************************************************************************)
THEOREM EgressTypes == EgressSpec => []EgressTypeOK
<1>1. EgressInv => EgressTypeOK
  BY DEF EgressInv
<1>2. QED
  BY <1>1, EgressAlways, PTL

-----------------------------------------------------------------------------
(* Chat: what an agent is sent *)

\* Whatever is trimmed, the last message is left.
LEMMA TrimKeepsLast ==
  ASSUME NEW msgs \in Seq(Message), msgs # <<>>
  PROVE  /\ TrimHistory(msgs) \in Seq(Message)
         /\ TrimHistory(msgs) # <<>>
         /\ Last(TrimHistory(msgs)) = Last(msgs)
<1> DEFINE S == {i \in 1 .. Len(msgs) :
                   \A j \in i .. Len(msgs) - 1 : Chars(msgs, j) <= CharBudget}
<1>1. Len(msgs) \in S /\ S \in SUBSET Nat /\ S \subseteq 1 .. Len(msgs)
  OBVIOUS
<1> HIDE DEF S
<1>2. PICK start \in 1 .. Len(msgs) : start = Min(S)
  BY <1>1, LeastNumber
<1>3. TrimHistory(msgs) = SubSeq(msgs, start, Len(msgs))
  BY <1>2 DEF TrimHistory, S
<1>4. /\ SubSeq(msgs, start, Len(msgs)) \in Seq(Message)
      /\ Len(SubSeq(msgs, start, Len(msgs))) = Len(msgs) - start + 1
      /\ \A i \in 1 .. Len(msgs) - start + 1 :
            SubSeq(msgs, start, Len(msgs))[i] = msgs[start + i - 1]
  OBVIOUS
<1>5. PICK s \in Seq(Message) : s = SubSeq(msgs, start, Len(msgs))
  BY <1>4
<1>6. Len(s) = Len(msgs) - start + 1 /\ Len(s) # 0
  BY <1>4, <1>5
<1>7. s[Len(s)] = msgs[Len(msgs)]
  BY <1>4, <1>5, <1>6
<1>8. s # <<>> /\ Last(s) = Last(msgs)
  BY <1>6, <1>7 DEF Last
<1>9. TrimHistory(msgs) = s
  BY <1>3, <1>5
<1>10. QED
  BY <1>8, <1>9

\* The agent takes the user's message that was sent last for the current one.
LEMMA LastUserFacts ==
  ASSUME NEW msgs \in Seq(Message), msgs # <<>>
  PROVE  /\ LastUserMessage(msgs) \in {0} \cup Request
         /\ \A q \in Request : Last(msgs) = UserMessage(q) => LastUserMessage(msgs) = q
<1> DEFINE I == {i \in 1 .. Len(msgs) : msgs[i].role = "user"}
           k == IF I # {} THEN Max(I) ELSE 0
<1>1. LastUserMessage(msgs) = IF k = 0 THEN 0 ELSE msgs[k].of
  BY DEF LastUserMessage, SelectLastInSeq
<1>2. I \subseteq 1 .. Len(msgs)
  OBVIOUS
<1>3. I # {} => Max(I) \in I
  <2> HIDE DEF I
  <2>1. Len(msgs) \in Nat /\ I \in SUBSET (0 .. Len(msgs))
    BY <1>2
  <2>2. QED
    BY <2>1, GreatestNumber
<1>4. ASSUME NEW q \in Request, Last(msgs) = UserMessage(q) PROVE k = Len(msgs) /\ k # 0
  <2>1. Len(msgs) \in I /\ \A y \in I : Len(msgs) >= y
    BY <1>4 DEF Last, UserMessage
  <2> HIDE DEF I
  <2>2. \A x \in I : (\A y \in I : x >= y) => x = Len(msgs)
    BY <1>2, <2>1
  <2>3. Max(I) = Len(msgs)
    BY <2>1, <2>2 DEF Max
  <2>4. QED
    BY <2>1, <2>3
<1>5. k # 0 => k \in 1 .. Len(msgs)
  BY <1>2, <1>3
<1> HIDE DEF k, I
<1>6. LastUserMessage(msgs) \in {0} \cup Request
  <2>1. k # 0 => msgs[k] \in Message
    BY <1>5
  <2>2. QED
    BY <1>1, <2>1 DEF Message
<1>7. ASSUME NEW q \in Request, Last(msgs) = UserMessage(q) PROVE LastUserMessage(msgs) = q
  BY <1>1, <1>4, <1>7 DEF Last, UserMessage
<1>8. QED
  BY <1>6, <1>7

\* Content that an agent gives, in however many runs, answers the message that
\* was sent last if that is a user's.
LEMMA AgentAnswers ==
  ASSUME NEW msgs \in Seq(Message), msgs # <<>>,
         NEW r \in CallChatCompletion(msgs), r.is = "content"
  PROVE  /\ r.to \in {0} \cup Request
         /\ \A q \in Request : Last(msgs) = UserMessage(q) => r.to = q
<1>1. PICK one \in Seq(Message) :
         one = StripToCurrentMessage(msgs) /\ one # <<>> /\ Last(one) = Last(msgs)
  <2>1. Last(msgs) \in Message
    BY DEF Last
  <2>2. <<Last(msgs)>> \in Seq(Message) /\ <<Last(msgs)>> # <<>>
    BY <2>1
  <2>3. Last(<<Last(msgs)>>) = Last(msgs)
    BY DEF Last
  <2>4. QED
    BY <2>2, <2>3 DEF StripToCurrentMessage
<1>2. ASSUME NEW m, NEW x \in GetCompletionContent(m), x.is = "content"
      PROVE  x.to = LastUserMessage(m)
  BY <1>2 DEF GetCompletionContent, RunCompletion, CallInference, Content, Failure
<1>3. \A i \in {"transient", "other", "deadline"} : r # Failure(i)
  BY DEF Failure
<1>4. r \in GetCompletionContent(msgs) \/ r \in GetCompletionContent(one)
  BY <1>1, <1>3 DEF CallChatCompletion, HandleManagedServiceProxy, ForwardManagedProxyRequest,
                    ResolveContent
<1>5. r.to = LastUserMessage(msgs) \/ r.to = LastUserMessage(one)
  BY <1>2, <1>4
<1>6. /\ LastUserMessage(msgs) \in {0} \cup Request
      /\ \A q \in Request : Last(msgs) = UserMessage(q) => LastUserMessage(msgs) = q
  BY LastUserFacts
<1>7. /\ LastUserMessage(one) \in {0} \cup Request
      /\ \A q \in Request : Last(one) = UserMessage(q) => LastUserMessage(one) = q
  BY <1>1, LastUserFacts
<1>8. QED
  BY <1>1, <1>5, <1>6, <1>7

\* The oldest messages of a thread that is not empty; all of a short one.
LEMMA ListFacts ==
  ASSUME thread \in Seq(Seq(Message)), NEW t \in DOMAIN thread, thread[t] # <<>>
  PROVE  /\ ListMessages(t) \in Seq(Message) /\ ListMessages(t) # <<>>
         /\ Len(thread[t]) <= HistoryLimit => ListMessages(t) = thread[t]
<1>1. PICK s \in Seq(Message) : s = thread[t] /\ s # <<>>
  OBVIOUS
<1>2. HistoryLimit \in Nat /\ HistoryLimit # 0
  BY ChatAssumption
<1>3. PICK n \in 1 .. Len(s) : n = IF Len(s) > HistoryLimit THEN HistoryLimit ELSE Len(s)
  BY <1>1, <1>2
<1>4. ListMessages(t) = SubSeq(s, 1, n)
  BY <1>1, <1>3 DEF ListMessages
<1>5. SubSeq(s, 1, n) \in Seq(Message) /\ Len(SubSeq(s, 1, n)) = n
  BY <1>3
<1>6. SubSeq(s, 1, n) # <<>>
  <2>1. PICK z \in Seq(Message) : z = SubSeq(s, 1, n) /\ Len(z) = n
    BY <1>5
  <2>2. n \in Nat \ {0}
    BY <1>3
  <2>3. z # <<>>
    BY <2>1, <2>2
  <2>4. QED
    BY <2>1, <2>3
<1>7. n = Len(s) => SubSeq(s, 1, n) = s
  OBVIOUS
<1>8. QED
  BY <1>1, <1>2, <1>3, <1>4, <1>5, <1>6, <1>7

\* Where the message of a request that overlaps no other one is found.
LEMMA PositionIsLast ==
  ASSUME ChatInv, NEW q \in Request, q \notin raced,
         req[q].pc \in {"load", "route", "call", "store"}
  PROVE  Position(q) = Len(thread[req[q].thread])
<1>1. /\ TurnOK(q) /\ thread \in Seq(Seq(Message))
  BY DEF ChatInv
<1>2. PICK t \in DOMAIN thread : t = req[q].thread
  BY <1>1 DEF TurnOK
<1>3. PICK s \in Seq(Message) : s = thread[t]
  BY <1>1
<1>4. /\ \E i \in DOMAIN s : s[i] = UserMessage(q)
      /\ \A i \in DOMAIN s : s[i] = UserMessage(q) <=> i = Len(s)
  BY <1>1, <1>2, <1>3 DEF TurnOK, AskedIn
<1>5. {i \in 1 .. Len(s) : s[i] = UserMessage(q)} = {Len(s)}
  BY <1>3, <1>4
<1>6. Min({Len(s)}) = Len(s)
  BY <1>3 DEF Min
<1>7. Position(q) = Len(s)
  BY <1>2, <1>3, <1>5, <1>6 DEF Position, SelectInSeq
<1>8. QED
  BY <1>2, <1>3, <1>7

-----------------------------------------------------------------------------
(* Chat: what a step leaves alone *)

\* A turn stays as it is while nobody writes to the threads.
LEMMA TurnKept ==
  ASSUME NEW q \in Request, TurnOK(q), req'[q] = req[q], thread' = thread,
         q \in raced => q \in raced'
  PROVE  TurnOK(q)'
BY DEF TurnOK, AskedIn

\* The answer to a request is final.
LEMMA RepliesKept ==
  ASSUME thread \in Seq(Seq(Message)), RepliesFollowQuestions, thread' = thread,
         raced \subseteq raced',
         \A q \in Request : req[q].answer = "ok" => req'[q].answer = "ok"
  PROVE  RepliesFollowQuestions'
<1> SUFFICES ASSUME NEW t \in DOMAIN thread', NEW i \in DOMAIN thread'[t],
                    thread'[t][i].role = "assistant"
             PROVE  /\ req'[thread'[t][i].of].answer = "ok"
                    /\ \E j \in 1 .. i - 1 :
                          /\ thread'[t][j] = UserMessage(thread'[t][i].of)
                          /\ thread'[t][i].of \notin raced' => j = i - 1
                    /\ \A j \in 1 .. i - 1 : thread'[t][j] # thread'[t][i]
  BY DEF RepliesFollowQuestions
<1>1. PICK msg \in Message : msg = thread[t][i]
  OBVIOUS
<1>2. /\ req[msg.of].answer = "ok"
      /\ \E j \in 1 .. i - 1 :
            /\ thread[t][j] = UserMessage(msg.of)
            /\ msg.of \notin raced => j = i - 1
      /\ \A j \in 1 .. i - 1 : thread[t][j] # msg
  BY <1>1 DEF RepliesFollowQuestions
<1>3. msg.of \in Request
  BY DEF Message
<1>4. QED
  BY <1>1, <1>2, <1>3

\* A request in flight writes its own state, and never that of another one.
LEMMA ReqWritten ==
  ASSUME ChatInv, NEW q \in Request, NEW r \in ChatRequest, req' = [req EXCEPT ![q] = r],
         q \in InFlight, r.pc # "idle", arrived' = arrived, raced' = raced
  PROVE  /\ req' \in [Request -> ChatRequest] /\ req'[q] = r
         /\ \A p \in Request \ {q} : req'[p] = req[p]
         /\ FlightOK'
         /\ InFlight' \subseteq InFlight
         /\ \A p \in Request : req[p].answer = "ok" => req'[p].answer = "ok"
<1>1. req \in [Request -> ChatRequest] /\ FlightOK /\ TurnOK(q)
  BY DEF ChatInv
<1>2. /\ req' \in [Request -> ChatRequest] /\ req'[q] = r
      /\ \A p \in Request \ {q} : req'[p] = req[p]
  BY <1>1
<1>3. InFlight' \subseteq InFlight
  BY <1>2 DEF InFlight
<1>4. req[q].pc \notin {"idle", "done"} /\ req[q] # Idle
  <2>1. Idle.pc = "idle"
    BY DEF Idle
  <2>2. QED
    BY <2>1 DEF InFlight
<1>5. FlightOK'
  <2>1. \A p, w \in InFlight' : p # w => w \in raced'
    BY <1>1, <1>3 DEF FlightOK
  <2>2. \A p \in Request : p > arrived' => req'[p] = Idle
    BY <1>1, <1>2, <1>4 DEF FlightOK
  <2>3. QED
    BY <2>1, <2>2 DEF FlightOK
<1>6. req[q].answer = "none"
  BY <1>1, <1>4 DEF TurnOK
<1>7. QED
  BY <1>2, <1>3, <1>5, <1>6

\* A request that reads, or waits for an answer.
LEMMA OwnTurn ==
  ASSUME ChatInv, NEW q \in Request, NEW r \in ChatRequest, req' = [req EXCEPT ![q] = r],
         q \in InFlight, r.pc # "idle", TurnOK(q)',
         r.pc # "done" => r.thread \in {0, req[q].thread} \/ r.thread = latest,
         UNCHANGED <<thread, latest, active, arrived, raced>>
  PROVE  ChatInv'
<1>1. /\ req' \in [Request -> ChatRequest] /\ req'[q] = r
      /\ \A p \in Request \ {q} : req'[p] = req[p]
      /\ FlightOK'
      /\ InFlight' \subseteq InFlight
      /\ \A p \in Request : req[p].answer = "ok" => req'[p].answer = "ok"
  BY ReqWritten
<1>2. \A p \in Request : TurnOK(p)'
  <2>1. SUFFICES ASSUME NEW p \in Request, p # q PROVE TurnOK(p)'
    OBVIOUS
  <2>2. TurnOK(p) /\ req'[p] = req[p]
    BY <1>1, <2>1 DEF ChatInv
  <2>3. QED
    BY <2>2, TurnKept
<1>3. RepliesFollowQuestions'
  BY <1>1, RepliesKept DEF ChatInv
<1>4. SerialUsesNewest'
  <2>1. SUFFICES ASSUME raced = {}, NEW p \in InFlight' PROVE req'[p].thread \in {0, Len(thread)}
    BY DEF SerialUsesNewest
  <2>2. latest = Len(thread) /\ p \in InFlight /\ p \in Request
    BY <1>1, <2>1 DEF ChatInv, InFlight
  <2>3. req[p].thread \in {0, Len(thread)}
    BY <2>1, <2>2 DEF ChatInv, SerialUsesNewest
  <2>4. CASE p # q
    BY <1>1, <2>2, <2>3, <2>4
  <2>5. CASE p = q
    <3>1. r.pc # "done"
      BY <1>1, <2>1, <2>5 DEF InFlight
    <3>2. QED
      BY <1>1, <2>2, <2>3, <2>5, <3>1
  <2>6. QED
    BY <2>4, <2>5
<1>5. QED
  BY <1>1, <1>2, <1>3, <1>4 DEF ChatInv

-----------------------------------------------------------------------------
(* Chat: what is written to the threads *)

LEMMA AppendedFacts ==
  ASSUME thread \in Seq(Seq(Message)), NEW t \in DOMAIN thread, NEW m \in Message,
         thread' = [thread EXCEPT ![t] = Append(@, m)]
  PROVE  /\ thread' \in Seq(Seq(Message)) /\ Len(thread') = Len(thread)
         /\ DOMAIN thread' = DOMAIN thread
         /\ \A u \in DOMAIN thread \ {t} : thread'[u] = thread[u]
         /\ \A u \in DOMAIN thread : /\ DOMAIN thread[u] \subseteq DOMAIN thread'[u]
                                     /\ \A i \in DOMAIN thread[u] : thread'[u][i] = thread[u][i]
                                     /\ \A i \in DOMAIN thread'[u] \ DOMAIN thread[u] :
                                           thread'[u][i] = m
         /\ Len(thread[t]) \in Nat /\ DOMAIN thread[t] = 1 .. Len(thread[t])
         /\ Len(thread'[t]) = Len(thread[t]) + 1
         /\ DOMAIN thread'[t] = 1 .. Len(thread[t]) + 1
         /\ thread'[t][Len(thread[t]) + 1] = m
<1>1. PICK s \in Seq(Message) : s = thread[t]
  OBVIOUS
<1>2. PICK z \in Seq(Message) : z = Append(s, m)
  <2>1. Append(s, m) \in Seq(Message)
    OBVIOUS
  <2>2. QED
    BY <2>1
<1>3. /\ Len(s) \in Nat /\ DOMAIN s = 1 .. Len(s) /\ Len(z) = Len(s) + 1
      /\ DOMAIN z = 1 .. Len(s) + 1 /\ z[Len(s) + 1] = m
      /\ \A i \in 1 .. Len(s) : z[i] = s[i]
  BY <1>2
<1>4. thread' = [thread EXCEPT ![t] = z]
  BY <1>1, <1>2
<1>5. /\ thread' \in Seq(Seq(Message)) /\ Len(thread') = Len(thread)
      /\ DOMAIN thread' = DOMAIN thread /\ thread'[t] = z
      /\ \A u \in DOMAIN thread \ {t} : thread'[u] = thread[u]
  BY <1>4
<1>6. ASSUME NEW u \in DOMAIN thread
      PROVE  /\ DOMAIN thread[u] \subseteq DOMAIN thread'[u]
             /\ \A i \in DOMAIN thread[u] : thread'[u][i] = thread[u][i]
             /\ \A i \in DOMAIN thread'[u] \ DOMAIN thread[u] : thread'[u][i] = m
  <2>1. CASE u # t
    BY <1>5, <2>1
  <2>2. CASE u = t
    BY <1>1, <1>3, <1>5, <2>2
  <2>3. QED
    BY <2>1, <2>2
<1>7. QED
  BY <1>1, <1>3, <1>5, <1>6

\* A message that is no reply, or is one that follows its question, may be added.
LEMMA RepliesAppended ==
  ASSUME thread \in Seq(Seq(Message)), RepliesFollowQuestions, raced' = raced,
         \A q \in Request : req[q].answer = "ok" => req'[q].answer = "ok",
         NEW t \in DOMAIN thread, NEW m \in Message,
         thread' = [thread EXCEPT ![t] = Append(@, m)],
         m.role = "assistant" =>
            /\ req'[m.of].answer = "ok" /\ req[m.of].answer # "ok"
            /\ \E j \in DOMAIN thread[t] :
                  /\ thread[t][j] = UserMessage(m.of)
                  /\ m.of \notin raced => j = Len(thread[t])
  PROVE  RepliesFollowQuestions'
<1>0. /\ thread' \in Seq(Seq(Message)) /\ Len(thread') = Len(thread)
      /\ DOMAIN thread' = DOMAIN thread
      /\ \A u \in DOMAIN thread \ {t} : thread'[u] = thread[u]
      /\ \A u \in DOMAIN thread : /\ DOMAIN thread[u] \subseteq DOMAIN thread'[u]
                                  /\ \A i \in DOMAIN thread[u] : thread'[u][i] = thread[u][i]
                                  /\ \A i \in DOMAIN thread'[u] \ DOMAIN thread[u] :
                                        thread'[u][i] = m
      /\ Len(thread[t]) \in Nat /\ DOMAIN thread[t] = 1 .. Len(thread[t])
      /\ Len(thread'[t]) = Len(thread[t]) + 1
      /\ DOMAIN thread'[t] = 1 .. Len(thread[t]) + 1
      /\ thread'[t][Len(thread[t]) + 1] = m
  BY AppendedFacts
<1> SUFFICES ASSUME NEW u \in DOMAIN thread', NEW i \in DOMAIN thread'[u],
                    thread'[u][i].role = "assistant"
             PROVE  /\ req'[thread'[u][i].of].answer = "ok"
                    /\ \E j \in 1 .. i - 1 :
                          /\ thread'[u][j] = UserMessage(thread'[u][i].of)
                          /\ thread'[u][i].of \notin raced' => j = i - 1
                    /\ \A j \in 1 .. i - 1 : thread'[u][j] # thread'[u][i]
  BY DEF RepliesFollowQuestions
<1>1. PICK msg \in Message : msg = thread'[u][i]
  BY <1>0
<1>2. CASE i \in DOMAIN thread[u]
  <2>1. /\ u \in DOMAIN thread /\ thread[u] \in Seq(Message) /\ thread[u][i] = msg
    BY <1>0, <1>1, <1>2
  <2>2. i \in Nat /\ 1 .. i - 1 \subseteq DOMAIN thread[u]
    BY <1>2, <2>1
  <2>3. \A j \in 1 .. i - 1 : thread'[u][j] = thread[u][j]
    BY <1>0, <2>1, <2>2
  <2>4. /\ req[msg.of].answer = "ok"
        /\ \E j \in 1 .. i - 1 :
              /\ thread[u][j] = UserMessage(msg.of)
              /\ msg.of \notin raced => j = i - 1
        /\ \A j \in 1 .. i - 1 : thread[u][j] # msg
    <3>1. thread[u][i].role = "assistant"
      BY <1>1, <2>1
    <3>2. /\ req[thread[u][i].of].answer = "ok"
          /\ \E j \in 1 .. i - 1 :
                /\ thread[u][j] = UserMessage(thread[u][i].of)
                /\ thread[u][i].of \notin raced => j = i - 1
          /\ \A j \in 1 .. i - 1 : thread[u][j] # thread[u][i]
      BY <1>2, <2>1, <3>1 DEF RepliesFollowQuestions
    <3>3. QED
      BY <2>1, <3>2
  <2>5. msg.of \in Request
    BY DEF Message
  <2>6. QED
    BY <1>1, <2>3, <2>4, <2>5, SMTT(30)
<1>3. CASE i \notin DOMAIN thread[u]
  <2>1. u = t /\ msg = m /\ i = Len(thread[t]) + 1
    BY <1>0, <1>1, <1>3
  <2>2. PICK n \in Nat : n = Len(thread[t])
    BY <1>0
  <2>3. i = n + 1 /\ 1 .. i - 1 = DOMAIN thread[t]
    BY <1>0, <2>1, <2>2
  <2>4. \A j \in 1 .. i - 1 : thread'[t][j] = thread[t][j]
    BY <1>0, <2>3
  <2>5. m.role = "assistant"
    BY <1>1, <2>1
  <2>6. \E j \in 1 .. i - 1 : /\ thread'[t][j] = UserMessage(m.of)
                              /\ m.of \notin raced => j = i - 1
    <3>1. PICK j \in DOMAIN thread[t] : /\ thread[t][j] = UserMessage(m.of)
                                        /\ m.of \notin raced => j = Len(thread[t])
      BY <2>5
    <3>2. j \in 1 .. i - 1 /\ n = i - 1
      BY <2>2, <2>3, <3>1
    <3>3. thread'[t][j] = UserMessage(m.of) /\ (m.of \notin raced => j = i - 1)
      BY <2>2, <2>4, <3>1, <3>2
    <3>4. QED
      BY <3>2, <3>3
  <2>7. \A j \in 1 .. i - 1 : thread'[t][j] # m
    <3>1. SUFFICES ASSUME NEW j \in 1 .. i - 1, thread'[t][j] = m PROVE FALSE
      OBVIOUS
    <3>2. j \in DOMAIN thread[t] /\ thread[t][j] = m
      BY <2>3, <2>4, <3>1
    <3>3. req[m.of].answer = "ok"
      BY <2>5, <3>2 DEF RepliesFollowQuestions
    <3>4. QED
      BY <2>5, <3>3
  <2>8. QED
    BY <1>1, <2>1, <2>5, <2>6, <2>7
<1>4. QED
  BY <1>2, <1>3

\* An answered request has no turn.
LEMMA DoneTurn ==
  ASSUME NEW q \in Request, req'[q].pc = "done"
  PROVE  TurnOK(q)'
BY DEF TurnOK

\* A message of another request disturbs the turn of none that has raced.
LEMMA TurnBesides ==
  ASSUME thread \in Seq(Seq(Message)), NEW p \in Request, TurnOK(p), req'[p] = req[p],
         p \in InFlight => p \in raced, raced' = raced,
         NEW t \in DOMAIN thread, NEW m \in Message, m.of # p,
         thread' = [thread EXCEPT ![t] = Append(@, m)]
  PROVE  TurnOK(p)'
<1>0. /\ thread' \in Seq(Seq(Message)) /\ Len(thread') = Len(thread)
      /\ DOMAIN thread' = DOMAIN thread
      /\ \A u \in DOMAIN thread : /\ DOMAIN thread[u] \subseteq DOMAIN thread'[u]
                                  /\ \A i \in DOMAIN thread[u] : thread'[u][i] = thread[u][i]
                                  /\ \A i \in DOMAIN thread'[u] \ DOMAIN thread[u] :
                                        thread'[u][i] = m
  BY AppendedFacts
<1>1. m # UserMessage(p)
  BY DEF UserMessage
<1>2. \A u \in DOMAIN thread : AskedIn(u, p)' <=> AskedIn(u, p)
  BY <1>0, <1>1 DEF AskedIn
<1>3. CASE p \in InFlight
  <2>1. p \in raced'
    BY <1>3
  <2>2. QED
    BY <1>0, <1>2, <2>1 DEF TurnOK
<1>4. CASE p \notin InFlight
  <2>1. req[p].pc \in {"idle", "done"}
    BY <1>4 DEF InFlight
  <2>2. QED
    BY <1>0, <1>2, <2>1 DEF TurnOK
<1>5. QED
  BY <1>3, <1>4

\* A request writes a message of its own to its thread.
LEMMA ThreadWritten ==
  ASSUME ChatInv, NEW q \in Request, NEW r \in ChatRequest, req' = [req EXCEPT ![q] = r],
         q \in InFlight, r.pc # "idle", TurnOK(q)',
         NEW t \in DOMAIN thread, t = req[q].thread, r.pc # "done" => r.thread = t,
         NEW m \in Message, m.of = q, thread' = [thread EXCEPT ![t] = Append(@, m)],
         m.role = "assistant" =>
            /\ req'[m.of].answer = "ok" /\ req[m.of].answer # "ok"
            /\ \E j \in DOMAIN thread[t] :
                  /\ thread[t][j] = UserMessage(m.of)
                  /\ m.of \notin raced => j = Len(thread[t]),
         latest' \in {latest, t}, active' \in BOOLEAN, active' => latest' # 0,
         arrived' = arrived, raced' = raced
  PROVE  ChatInv'
<1>1. /\ req' \in [Request -> ChatRequest] /\ req'[q] = r
      /\ \A p \in Request \ {q} : req'[p] = req[p]
      /\ FlightOK'
      /\ InFlight' \subseteq InFlight
      /\ \A p \in Request : req[p].answer = "ok" => req'[p].answer = "ok"
  BY ReqWritten
<1>2. /\ thread' \in Seq(Seq(Message)) /\ Len(thread') = Len(thread)
  BY AppendedFacts DEF ChatInv
<1>3. \A p \in Request : TurnOK(p)'
  <2>1. SUFFICES ASSUME NEW p \in Request, p # q PROVE TurnOK(p)'
    OBVIOUS
  <2>2. thread \in Seq(Seq(Message)) /\ TurnOK(p) /\ req'[p] = req[p] /\ m.of # p
    BY <1>1, <2>1 DEF ChatInv
  <2>3. p \in InFlight => p \in raced
    BY <2>1 DEF ChatInv, FlightOK
  <2>4. QED
    BY <2>2, <2>3, TurnBesides
<1>4. RepliesFollowQuestions'
  BY <1>1, RepliesAppended DEF ChatInv
<1>5. raced' = {} => latest' = Len(thread')
  <2>1. SUFFICES ASSUME raced = {} PROVE latest' = Len(thread)
    BY <1>2
  <2>2. latest = Len(thread) /\ req[q].thread \in {0, Len(thread)}
    BY <2>1 DEF ChatInv, SerialUsesNewest
  <2>3. t # 0
    BY DEF ChatInv
  <2>4. QED
    BY <2>2, <2>3
<1>6. SerialUsesNewest'
  <2>1. SUFFICES ASSUME raced = {}, NEW p \in InFlight' PROVE req'[p].thread \in {0, Len(thread)}
    BY <1>2 DEF SerialUsesNewest
  <2>2. p \in InFlight /\ p \in Request /\ req[p].thread \in {0, Len(thread)}
    BY <1>1, <2>1 DEF ChatInv, InFlight, SerialUsesNewest
  <2>3. CASE p # q
    BY <1>1, <2>2, <2>3
  <2>4. CASE p = q
    <3>1. r.pc # "done"
      BY <1>1, <2>1, <2>4 DEF InFlight
    <3>2. QED
      BY <1>1, <2>2, <2>4, <3>1
  <2>5. QED
    BY <2>3, <2>4
<1>7. latest' \in 0 .. Len(thread')
  <2>1. latest \in 0 .. Len(thread) /\ t \in 1 .. Len(thread)
    BY DEF ChatInv
  <2>2. QED
    BY <1>2, <2>1
<1>8. arrived' \in Nat /\ raced' \subseteq Request
  BY DEF ChatInv
<1>9. QED
  BY <1>1, <1>2, <1>3, <1>4, <1>5, <1>6, <1>7, <1>8 DEF ChatInv

\* A new thread is empty.
LEMMA CreatedFacts ==
  ASSUME thread \in Seq(Seq(Message)), thread' = Append(thread, <<>>)
  PROVE  /\ thread' \in Seq(Seq(Message)) /\ Len(thread') = Len(thread) + 1
         /\ Len(thread) \in Nat /\ DOMAIN thread = 1 .. Len(thread)
         /\ DOMAIN thread' = 1 .. Len(thread) + 1
         /\ \A u \in DOMAIN thread : thread'[u] = thread[u]
         /\ thread'[Len(thread) + 1] = <<>>
         /\ \A p : \A u \in DOMAIN thread' :
               AskedIn(u, p)' => u \in DOMAIN thread /\ AskedIn(u, p)
         /\ \A p : \A u \in DOMAIN thread : AskedIn(u, p) => AskedIn(u, p)'
<1>1. <<>> \in Seq(Message)
  OBVIOUS
<1>2. PICK e \in Seq(Message) : e = <<>> /\ DOMAIN e = {}
  <2>1. PICK e \in Seq(Message) : e = <<>>
    BY <1>1
  <2>2. Len(e) = 0
    BY <2>1
  <2>3. DOMAIN e = {}
    BY <2>2
  <2>4. QED
    BY <2>1, <2>3
<1>3. thread' = Append(thread, e)
  BY <1>2
<1>4. /\ thread' \in Seq(Seq(Message)) /\ Len(thread') = Len(thread) + 1
      /\ Len(thread) \in Nat /\ DOMAIN thread = 1 .. Len(thread)
      /\ DOMAIN thread' = 1 .. Len(thread) + 1
      /\ \A u \in DOMAIN thread : thread'[u] = thread[u]
      /\ thread'[Len(thread) + 1] = e
  BY <1>3
<1>5. ASSUME NEW p, NEW u \in DOMAIN thread', AskedIn(u, p)'
      PROVE  u \in DOMAIN thread /\ AskedIn(u, p)
  <2>1. PICK i \in DOMAIN thread'[u] : thread'[u][i] = UserMessage(p)
    BY <1>5 DEF AskedIn, UserMessage
  <2>2. u \in DOMAIN thread
    BY <1>2, <1>4, <2>1
  <2>3. QED
    BY <1>4, <2>1, <2>2 DEF AskedIn
<1>6. ASSUME NEW p, NEW u \in DOMAIN thread, AskedIn(u, p) PROVE AskedIn(u, p)'
  BY <1>4, <1>6 DEF AskedIn, UserMessage
<1>7. QED
  BY <1>2, <1>4, <1>5, <1>6

\* The turn of another request survives a new thread.
LEMMA TurnBesidesNew ==
  ASSUME thread \in Seq(Seq(Message)), NEW p \in Request, TurnOK(p), req'[p] = req[p],
         raced' = raced, thread' = Append(thread, <<>>)
  PROVE  TurnOK(p)'
<1>1. /\ \A u \in DOMAIN thread : thread'[u] = thread[u] /\ u \in DOMAIN thread'
      /\ \A u \in DOMAIN thread' : AskedIn(u, p)' => u \in DOMAIN thread /\ AskedIn(u, p)
      /\ \A u \in DOMAIN thread : AskedIn(u, p) => AskedIn(u, p)'
  <2>1. /\ Len(thread) \in Nat /\ DOMAIN thread = 1 .. Len(thread)
        /\ DOMAIN thread' = 1 .. Len(thread) + 1
        /\ \A u \in DOMAIN thread : thread'[u] = thread[u]
    BY CreatedFacts
  <2>2. /\ \A u \in DOMAIN thread' : AskedIn(u, p)' => u \in DOMAIN thread /\ AskedIn(u, p)
        /\ \A u \in DOMAIN thread : AskedIn(u, p) => AskedIn(u, p)'
    BY CreatedFacts
  <2>3. \A u \in DOMAIN thread : u \in DOMAIN thread'
    BY <2>1
  <2>4. QED
    BY <2>1, <2>2, <2>3
<1>2. CASE req[p].pc \in {"append", "load", "route", "call", "store"}
  <2>1. req[p].thread \in DOMAIN thread
    BY <1>2 DEF TurnOK
  <2>2. QED
    BY <1>1, <1>2, <2>1 DEF TurnOK
<1>3. CASE req[p].pc \notin {"append", "load", "route", "call", "store"}
  BY <1>1, <1>3 DEF TurnOK
<1>4. QED
  BY <1>2, <1>3

\* Replies stay where they are when a thread is added.
LEMMA RepliesKeptNew ==
  ASSUME thread \in Seq(Seq(Message)), RepliesFollowQuestions, raced' = raced,
         thread' = Append(thread, <<>>),
         \A q \in Request : req[q].answer = "ok" => req'[q].answer = "ok"
  PROVE  RepliesFollowQuestions'
<1>0. /\ thread' \in Seq(Seq(Message))
      /\ DOMAIN thread = 1 .. Len(thread) /\ DOMAIN thread' = 1 .. Len(thread) + 1
      /\ Len(thread) \in Nat
      /\ \A u \in DOMAIN thread : thread'[u] = thread[u]
      /\ thread'[Len(thread) + 1] = <<>>
  BY CreatedFacts
<1> SUFFICES ASSUME NEW t \in DOMAIN thread', NEW i \in DOMAIN thread'[t],
                    thread'[t][i].role = "assistant"
             PROVE  /\ req'[thread'[t][i].of].answer = "ok"
                    /\ \E j \in 1 .. i - 1 :
                          /\ thread'[t][j] = UserMessage(thread'[t][i].of)
                          /\ thread'[t][i].of \notin raced' => j = i - 1
                    /\ \A j \in 1 .. i - 1 : thread'[t][j] # thread'[t][i]
  BY DEF RepliesFollowQuestions
<1>1. t \in DOMAIN thread /\ thread'[t] = thread[t]
  <2>1. thread'[t] # <<>>
    <3>1. PICK s \in Seq(Message) : s = thread'[t]
      BY <1>0
    <3>2. Len(s) # 0
      BY <3>1
    <3>3. QED
      BY <3>1, <3>2
  <2>2. QED
    BY <1>0, <2>1
<1>2. PICK msg \in Message : msg = thread[t][i]
  BY <1>1
<1>3. /\ req[msg.of].answer = "ok"
      /\ \E j \in 1 .. i - 1 :
            /\ thread[t][j] = UserMessage(msg.of)
            /\ msg.of \notin raced => j = i - 1
      /\ \A j \in 1 .. i - 1 : thread[t][j] # msg
  BY <1>1, <1>2 DEF RepliesFollowQuestions
<1>4. msg.of \in Request
  BY DEF Message
<1>5. QED
  BY <1>1, <1>2, <1>3, <1>4

\* A request makes a thread.
LEMMA ThreadMade ==
  ASSUME ChatInv, NEW q \in Request, NEW r \in ChatRequest, req' = [req EXCEPT ![q] = r],
         q \in InFlight, r.pc # "idle", TurnOK(q)',
         r.pc # "done" => r.thread = Len(thread) + 1, req[q].thread = 0,
         thread' = Append(thread, <<>>), latest' = Len(thread) + 1, active' = TRUE,
         arrived' = arrived, raced' = raced
  PROVE  ChatInv'
<1>1. /\ req' \in [Request -> ChatRequest] /\ req'[q] = r
      /\ \A p \in Request \ {q} : req'[p] = req[p]
      /\ FlightOK'
      /\ InFlight' \subseteq InFlight
      /\ \A p \in Request : req[p].answer = "ok" => req'[p].answer = "ok"
  BY ReqWritten
<1>2. /\ thread' \in Seq(Seq(Message)) /\ Len(thread') = Len(thread) + 1
      /\ Len(thread) \in Nat
  BY CreatedFacts DEF ChatInv
<1>3. \A p \in Request : TurnOK(p)'
  <2>1. SUFFICES ASSUME NEW p \in Request, p # q PROVE TurnOK(p)'
    OBVIOUS
  <2>2. thread \in Seq(Seq(Message)) /\ TurnOK(p) /\ req'[p] = req[p]
    BY <1>1, <2>1 DEF ChatInv
  <2>3. QED
    BY <2>2, TurnBesidesNew
<1>4. RepliesFollowQuestions'
  BY <1>1, RepliesKeptNew DEF ChatInv
<1>5. SerialUsesNewest'
  <2>1. SUFFICES ASSUME raced = {}, NEW p \in InFlight'
                 PROVE  req'[p].thread \in {0, Len(thread) + 1}
    BY <1>2 DEF SerialUsesNewest
  <2>2. p \in InFlight /\ p = q
    BY <1>1, <2>1 DEF ChatInv, FlightOK
  <2>3. r.pc # "done"
    BY <1>1, <2>1, <2>2 DEF InFlight
  <2>4. QED
    BY <1>1, <2>2, <2>3
<1>6. /\ latest' \in 0 .. Len(thread') /\ latest' = Len(thread') /\ latest' # 0
  BY <1>2
<1>7. arrived' \in Nat /\ raced' \subseteq Request /\ active' \in BOOLEAN
  BY DEF ChatInv
<1>8. QED
  BY <1>1, <1>2, <1>3, <1>4, <1>5, <1>6, <1>7 DEF ChatInv

-----------------------------------------------------------------------------
(* Chat: steps of a request *)

\* An answered request keeps nothing but its answer.
LEMMA AnsweredFacts ==
  ASSUME NEW answer \in {"none", "ok", "error"}
  PROVE  /\ [Idle EXCEPT !.pc = "done", !.answer = answer] \in ChatRequest
         /\ [Idle EXCEPT !.pc = "done", !.answer = answer].pc = "done"
         /\ [Idle EXCEPT !.pc = "done", !.answer = answer].answer = answer
<1>1. 0 \in Nat /\ <<>> \in Seq(Message)
  OBVIOUS
<1>2. QED
  BY <1>1 DEF Idle, ChatRequest, Kind

\* What the request fields of a record in ChatRequest are.
LEMMA RequestFields ==
  ASSUME NEW x \in ChatRequest
  PROVE  /\ x.pc \in {"idle", "find", "create", "append", "load", "route", "call", "store", "done"}
         /\ x.thread \in Nat /\ x.sent \in Seq(Message) /\ x.attempt \in Nat
         /\ x.asked \in {0} \cup Request /\ x.answer \in {"none", "ok", "error"}
BY DEF ChatRequest

\* A request is answered, and the threads are left as they are.
LEMMA ChatAnswerKeeps ==
  ASSUME ChatInv, NEW q \in Request, q \in InFlight, NEW answer \in {"none", "ok", "error"},
         Answer(q, answer), UNCHANGED <<thread, latest, active, arrived, raced>>
  PROVE  ChatInv'
<1>1. PICK r \in ChatRequest : /\ r = [Idle EXCEPT !.pc = "done", !.answer = answer]
                               /\ r.pc = "done"
  BY AnsweredFacts
<1>2. req' = [req EXCEPT ![q] = r] /\ req \in [Request -> ChatRequest]
  BY <1>1 DEF Answer, ChatInv
<1>3. req'[q].pc = "done"
  BY <1>1, <1>2
<1>4. TurnOK(q)'
  BY <1>3, DoneTurn
<1>5. QED
  BY <1>1, <1>2, <1>4, OwnTurn

LEMMA ChatArriveKeeps ==
  ASSUME ChatInv, NEW q \in Request, Arrive(q)
  PROVE  ChatInv'
<1>1. /\ req \in [Request -> ChatRequest] /\ arrived \in Nat /\ FlightOK
      /\ raced \subseteq Request /\ TurnOK(q) /\ thread \in Seq(Seq(Message))
  BY DEF ChatInv
<1>2. /\ q = arrived + 1 /\ arrived' = q
      /\ raced' = IF InFlight = {} THEN raced ELSE raced \cup InFlight \cup {q}
      /\ UNCHANGED <<thread, latest, active>>
  BY DEF Arrive
<1>3. PICK kind \in Kind :
         req' = [req EXCEPT ![q].kind = kind,
                            ![q].pc = IF kind = "newThread" THEN "create" ELSE "find"]
  BY DEF Arrive
<1>4. req[q] = Idle /\ req[q] \in ChatRequest
  <2>1. q > arrived
    BY <1>1, <1>2
  <2>2. QED
    BY <1>1, <2>1 DEF FlightOK
<1>5. req[q].pc = "idle" /\ req[q].thread = 0 /\ req[q].answer = "none"
  <2>1. Idle.pc = "idle" /\ Idle.thread = 0 /\ Idle.answer = "none"
    BY DEF Idle
  <2>2. QED
    BY <1>4, <2>1
<1>6. PICK c \in {"create", "find"} : c = IF kind = "newThread" THEN "create" ELSE "find"
  OBVIOUS
<1>7. [req[q] EXCEPT !.kind = kind, !.pc = c] \in ChatRequest
  BY <1>4 DEF ChatRequest
<1>8. PICK r \in ChatRequest : r = [req[q] EXCEPT !.kind = kind, !.pc = c]
  BY <1>7
<1>9. r.pc = c /\ r.thread = 0 /\ r.answer = "none"
  BY <1>4, <1>5, <1>8 DEF ChatRequest
<1>10. req' = [req EXCEPT ![q] = r]
  BY <1>1, <1>3, <1>6, <1>8
<1>11. /\ req' \in [Request -> ChatRequest] /\ req'[q] = r
       /\ \A p \in Request \ {q} : req'[p] = req[p]
  BY <1>1, <1>10
<1>12. InFlight' = InFlight \cup {q}
  <2>1. c \notin {"idle", "done"}
    OBVIOUS
  <2>2. QED
    BY <1>9, <1>11, <2>1 DEF InFlight
<1>13. raced \subseteq raced' /\ raced' \subseteq Request
  BY <1>1, <1>2 DEF InFlight
<1>14. FlightOK'
  <2>1. \A p, w \in InFlight' : p # w => w \in raced'
    <3>1. CASE InFlight = {}
      BY <1>12, <3>1
    <3>2. CASE InFlight # {}
      BY <1>2, <1>12, <3>2
    <3>3. QED
      BY <3>1, <3>2
  <2>2. \A p \in Request : p > arrived' => req'[p] = Idle
    <3>1. SUFFICES ASSUME NEW p \in Request, p > arrived' PROVE req'[p] = Idle
      OBVIOUS
    <3>2. p > arrived /\ p # q
      BY <1>1, <1>2, <3>1 DEF Request
    <3>3. QED
      BY <1>1, <1>11, <3>2 DEF FlightOK
  <2>3. QED
    BY <2>1, <2>2 DEF FlightOK
<1>15. \A p \in Request : TurnOK(p)'
  <2>1. SUFFICES ASSUME NEW p \in Request PROVE TurnOK(p)'
    OBVIOUS
  <2>2. CASE p # q
    <3>1. TurnOK(p) /\ req'[p] = req[p]
      BY <1>11, <2>2 DEF ChatInv
    <3>2. QED
      BY <1>2, <1>13, <3>1, TurnKept
  <2>3. CASE p = q
    <3>1. \A u \in DOMAIN thread : ~AskedIn(u, q)
      BY <1>1, <1>5 DEF TurnOK
    <3>2. req'[q].pc \in {"find", "create"} /\ req'[q].thread = 0 /\ req'[q].answer = "none"
      BY <1>9, <1>11
    <3>3. \A u \in DOMAIN thread' : ~AskedIn(u, q)'
      BY <1>2, <3>1 DEF AskedIn
    <3>4. TurnOK(q)'
      BY <3>2, <3>3 DEF TurnOK
    <3>5. QED
      BY <2>3, <3>4
  <2>4. QED
    BY <2>2, <2>3
<1>16. RepliesFollowQuestions'
  <2>1. \A p \in Request : req[p].answer = "ok" => req'[p].answer = "ok"
    BY <1>5, <1>11
  <2>2. QED
    BY <1>1, <1>2, <1>13, <2>1, RepliesKept DEF ChatInv
<1>17. raced' = {} => raced = {}
  BY <1>13
<1>18. SerialUsesNewest'
  <2>1. SUFFICES ASSUME raced' = {}, NEW p \in InFlight'
                 PROVE  req'[p].thread \in {0, Len(thread)}
    BY <1>2 DEF SerialUsesNewest
  <2>2. CASE p = q
    BY <1>9, <1>11, <2>2
  <2>3. CASE p # q
    <3>1. p \in InFlight /\ p \in Request
      BY <1>12, <2>3 DEF InFlight
    <3>2. req[p].thread \in {0, Len(thread)}
      BY <1>17, <2>1, <3>1 DEF ChatInv, SerialUsesNewest
    <3>3. QED
      BY <1>11, <2>3, <3>1, <3>2
  <2>4. QED
    BY <2>2, <2>3
<1>19. /\ latest' \in 0 .. Len(thread') /\ active' \in BOOLEAN /\ (active' => latest' # 0)
       /\ thread' \in Seq(Seq(Message)) /\ arrived' \in Nat
       /\ raced' = {} => latest' = Len(thread')
  BY <1>1, <1>2, <1>17 DEF ChatInv
<1>20. QED
  BY <1>11, <1>13, <1>14, <1>15, <1>16, <1>18, <1>19 DEF ChatInv

LEMMA GotoWrites ==
  ASSUME ChatInv, NEW q \in Request, NEW pc \in {"create", "load", "call"},
         Goto(q, pc)
  PROVE  \E r \in ChatRequest : /\ req' = [req EXCEPT ![q] = r] /\ r.pc = pc
                                /\ r.thread = req[q].thread /\ r.sent = req[q].sent
                                /\ r.answer = req[q].answer
<1>1. req \in [Request -> ChatRequest] /\ req[q] \in ChatRequest
  BY DEF ChatInv
<1>2. [req[q] EXCEPT !.pc = pc] \in ChatRequest
  BY <1>1 DEF ChatRequest
<1>3. PICK r \in ChatRequest : r = [req[q] EXCEPT !.pc = pc]
  BY <1>2
<1>4. /\ r.pc = pc /\ r.thread = req[q].thread /\ r.sent = req[q].sent
      /\ r.answer = req[q].answer
  BY <1>1, <1>3 DEF ChatRequest
<1>5. req' = [req EXCEPT ![q] = r]
  BY <1>1, <1>3 DEF Goto
<1>6. QED
  BY <1>4, <1>5

\* A request whose thread is known is answered, or goes on to write to it.
LEMMA ResolvedWrites ==
  ASSUME ChatInv, NEW q \in Request, NEW t \in Nat, Resolved(q, t)
  PROVE  \E r \in ChatRequest : /\ req' = [req EXCEPT ![q] = r] /\ r.pc \in {"append", "done"}
                                /\ r.pc # "done" => r.thread = t /\ r.answer = req[q].answer
<1>1. req \in [Request -> ChatRequest] /\ req[q] \in ChatRequest
  BY DEF ChatInv
<1>2. ASSUME NEW answer \in {"ok", "error"}, Answer(q, answer)
      PROVE  \E r \in ChatRequest : req' = [req EXCEPT ![q] = r] /\ r.pc = "done"
  <2>1. PICK r \in ChatRequest : /\ r = [Idle EXCEPT !.pc = "done", !.answer = answer]
                                 /\ r.pc = "done"
    BY AnsweredFacts
  <2>2. req' = [req EXCEPT ![q] = r]
    BY <1>2, <2>1 DEF Answer
  <2>3. QED
    BY <2>1, <2>2
<1>3. CASE req[q].kind = "newThread"
  <2>1. Answer(q, "ok")
    BY <1>3 DEF Resolved
  <2>2. QED
    BY <1>2, <2>1
<1>4. CASE req[q].kind = "noUser"
  <2>1. Answer(q, "error")
    BY <1>4 DEF Resolved
  <2>2. QED
    BY <1>2, <2>1
<1>5. CASE req[q].kind \notin {"newThread", "noUser"}
  <2>1. req' = [req EXCEPT ![q].thread = t, ![q].pc = "append"]
    BY <1>5 DEF Resolved
  <2>2. [req[q] EXCEPT !.thread = t, !.pc = "append"] \in ChatRequest
    BY <1>1 DEF ChatRequest
  <2>3. PICK r \in ChatRequest : r = [req[q] EXCEPT !.thread = t, !.pc = "append"]
    BY <2>2
  <2>4. r.pc = "append" /\ r.thread = t /\ r.answer = req[q].answer
    BY <1>1, <2>3 DEF ChatRequest
  <2>5. req' = [req EXCEPT ![q] = r]
    BY <1>1, <2>1, <2>3
  <2>6. QED
    BY <2>4, <2>5
<1>6. QED
  BY <1>3, <1>4, <1>5

LEMMA ChatFindKeeps ==
  ASSUME ChatInv, NEW q \in Request, Find(q)
  PROVE  ChatInv'
<1>1. /\ req \in [Request -> ChatRequest] /\ TurnOK(q) /\ thread \in Seq(Seq(Message))
      /\ latest \in 0 .. Len(thread) /\ (active => latest # 0)
  BY DEF ChatInv
<1>2. req[q].pc = "find" /\ UNCHANGED <<thread, latest, active, arrived, raced>>
  BY DEF Find
<1>3. /\ q \in InFlight /\ req[q].thread = 0 /\ req[q].answer = "none"
      /\ \A u \in DOMAIN thread : ~AskedIn(u, q)
  BY <1>1, <1>2 DEF InFlight, TurnOK
<1>4. \A u \in DOMAIN thread' : ~AskedIn(u, q)'
  BY <1>2, <1>3 DEF AskedIn
<1>5. CASE active /\ Resolved(q, latest)
  <2>1. latest \in Nat /\ latest \in DOMAIN thread
    BY <1>1, <1>5
  <2>2. PICK r \in ChatRequest : /\ req' = [req EXCEPT ![q] = r] /\ r.pc \in {"append", "done"}
                                 /\ r.pc # "done" => /\ r.thread = latest
                                                     /\ r.answer = req[q].answer
    BY <1>5, <2>1, ResolvedWrites
  <2>3. req'[q] = r
    BY <1>1, <2>2
  <2>4. TurnOK(q)'
    <3>1. CASE r.pc = "done"
      BY <2>3, <3>1, DoneTurn
    <3>2. CASE r.pc = "append"
      <4>1. r.thread = latest /\ r.answer = "none"
        BY <1>3, <2>2, <3>2
      <4>2. latest \in DOMAIN thread'
        BY <1>2, <2>1
      <4>3. /\ req'[q].pc = "append" /\ req'[q].thread \in DOMAIN thread'
            /\ req'[q].answer = "none"
        BY <2>3, <3>2, <4>1, <4>2
      <4>4. QED
        BY <1>4, <4>3 DEF TurnOK
    <3>3. QED
      BY <2>2, <3>1, <3>2
  <2>5. r.pc # "idle" /\ (r.pc # "done" => r.thread \in {0, req[q].thread} \/ r.thread = latest)
    BY <2>2
  <2>6. QED
    BY <1>2, <1>3, <2>2, <2>4, <2>5, OwnTurn
<1>6. CASE Goto(q, "create")
  <2>1. PICK r \in ChatRequest : /\ req' = [req EXCEPT ![q] = r] /\ r.pc = "create"
                                 /\ r.thread = req[q].thread /\ r.answer = req[q].answer
    BY <1>6, GotoWrites
  <2>2. req'[q] = r
    BY <1>1, <2>1
  <2>3. req'[q].pc = "create" /\ req'[q].thread = 0 /\ req'[q].answer = "none"
    BY <1>3, <2>1, <2>2
  <2>4. TurnOK(q)'
    BY <1>4, <2>3 DEF TurnOK
  <2>5. QED
    BY <1>2, <1>3, <2>1, <2>4, OwnTurn
<1>7. QED
  BY <1>5, <1>6 DEF Find

LEMMA ChatCreateKeeps ==
  ASSUME ChatInv, NEW q \in Request, Create(q)
  PROVE  ChatInv'
<1>1. /\ req \in [Request -> ChatRequest] /\ TurnOK(q) /\ thread \in Seq(Seq(Message))
  BY DEF ChatInv
<1>2. req[q].pc = "create" /\ UNCHANGED <<arrived, raced>>
  BY DEF Create
<1>3. /\ q \in InFlight /\ req[q].thread = 0 /\ req[q].answer = "none"
      /\ \A u \in DOMAIN thread : ~AskedIn(u, q)
  BY <1>1, <1>2 DEF InFlight, TurnOK
<1>4. PICK o \in Outcome :
         /\ CreateThread(o)
         /\ IF o = "ok" THEN Resolved(q, Len(thread) + 1) ELSE Answer(q, "error")
  BY DEF Create
<1>5. CASE o = "fail"
  <2>1. UNCHANGED <<thread, latest, active>> /\ Answer(q, "error")
    BY <1>4, <1>5 DEF CreateThread
  <2>2. QED
    BY <1>2, <1>3, <2>1, ChatAnswerKeeps
<1>6. CASE o # "fail"
  <2>1. /\ thread' = Append(thread, <<>>) /\ latest' = Len(thread) + 1 /\ active' = TRUE
    BY <1>4, <1>6 DEF CreateThread, Touch
  <2>2. PICK n \in Nat : n = Len(thread) + 1 /\ n \in DOMAIN thread'
    <3>1. Len(thread) \in Nat /\ DOMAIN thread' = 1 .. Len(thread) + 1
      BY <1>1, <2>1, CreatedFacts
    <3>2. QED
      BY <3>1
  <2>3. \A u \in DOMAIN thread' : ~AskedIn(u, q)'
    <3>1. \A u \in DOMAIN thread' : AskedIn(u, q)' => u \in DOMAIN thread /\ AskedIn(u, q)
      BY <1>1, <2>1, CreatedFacts
    <3>2. QED
      BY <1>3, <3>1
  <2>4. \E r \in ChatRequest : /\ req' = [req EXCEPT ![q] = r] /\ r.pc \in {"append", "done"}
                               /\ r.pc # "done" => r.thread = n /\ r.answer = req[q].answer
    <3>1. CASE o = "ok"
      <4>1. Resolved(q, n)
        BY <1>4, <2>2, <3>1
      <4>2. QED
        BY <4>1, ResolvedWrites
    <3>2. CASE o # "ok"
      <4>1. PICK r \in ChatRequest : /\ r = [Idle EXCEPT !.pc = "done", !.answer = "error"]
                                     /\ r.pc = "done"
        BY AnsweredFacts
      <4>2. req' = [req EXCEPT ![q] = r]
        BY <1>4, <3>2, <4>1 DEF Answer
      <4>3. QED
        BY <4>1, <4>2
    <3>3. QED
      BY <3>1, <3>2
  <2>5. PICK r \in ChatRequest : /\ req' = [req EXCEPT ![q] = r] /\ r.pc \in {"append", "done"}
                                 /\ r.pc # "done" => r.thread = n /\ r.answer = req[q].answer
    BY <2>4
  <2>6. req'[q] = r
    BY <1>1, <2>5
  <2>7. TurnOK(q)'
    <3>1. CASE r.pc = "done"
      BY <2>6, <3>1, DoneTurn
    <3>2. CASE r.pc = "append"
      <4>1. /\ req'[q].pc = "append" /\ req'[q].thread \in DOMAIN thread'
            /\ req'[q].answer = "none"
        BY <1>3, <2>2, <2>5, <2>6, <3>2
      <4>2. QED
        BY <2>3, <4>1 DEF TurnOK
    <3>3. QED
      BY <2>5, <3>1, <3>2
  <2>8. r.pc # "idle" /\ (r.pc # "done" => r.thread = Len(thread) + 1)
    BY <2>2, <2>5
  <2>9. QED
    BY <1>2, <1>3, <2>1, <2>5, <2>7, <2>8, ThreadMade
<1>7. QED
  BY <1>5, <1>6

\* What the store may have done to a thread, unless it did nothing.
LEMMA MessageStored ==
  ASSUME ChatInv, NEW t \in DOMAIN thread, NEW m, NEW o, AppendMessage(t, m, o), o # "fail"
  PROVE  /\ thread' = [thread EXCEPT ![t] = Append(@, m)]
         /\ latest' \in {latest, t} /\ active' \in BOOLEAN /\ (active' => latest' # 0)
<1>1. thread \in Seq(Seq(Message)) /\ active \in BOOLEAN /\ (active => latest # 0)
  BY DEF ChatInv
<1>2. t # 0
  BY <1>1
<1>3. thread' = [thread EXCEPT ![t] = Append(@, m)]
  BY DEF AppendMessage
<1>4. CASE o \in {"ok", "lost"}
  <2>1. latest' = t /\ active' = TRUE
    BY <1>4 DEF AppendMessage, Touch
  <2>2. QED
    BY <1>2, <1>3, <2>1
<1>5. CASE o \notin {"ok", "lost"}
  <2>1. latest' = latest /\ active' = active
    BY <1>5 DEF AppendMessage
  <2>2. QED
    BY <1>1, <1>3, <2>1
<1>6. QED
  BY <1>4, <1>5

LEMMA ChatAppendUserKeeps ==
  ASSUME ChatInv, NEW q \in Request, AppendUser(q)
  PROVE  ChatInv'
<1>1. /\ req \in [Request -> ChatRequest] /\ TurnOK(q) /\ thread \in Seq(Seq(Message))
  BY DEF ChatInv
<1>2. req[q].pc = "append" /\ UNCHANGED <<arrived, raced>>
  BY DEF AppendUser
<1>3. /\ q \in InFlight /\ req[q].answer = "none"
      /\ \A u \in DOMAIN thread : ~AskedIn(u, q)
  BY <1>1, <1>2 DEF InFlight, TurnOK
<1>4. PICK t \in DOMAIN thread : t = req[q].thread
  BY <1>1, <1>2 DEF TurnOK
<1>5. PICK o \in Outcome :
         /\ AppendMessage(t, UserMessage(q), o)
         /\ IF o = "ok" THEN Goto(q, "load") ELSE Answer(q, "error")
  BY <1>4 DEF AppendUser
<1>6. PICK m \in Message : m = UserMessage(q) /\ m.of = q /\ m.role # "assistant"
  <2>1. UserMessage(q) \in Message /\ UserMessage(q).of = q /\ UserMessage(q).role = "user"
    BY DEF UserMessage, Message
  <2>2. QED
    BY <2>1
<1>7. CASE o = "fail"
  <2>1. UNCHANGED <<thread, latest, active>> /\ Answer(q, "error")
    BY <1>5, <1>7 DEF AppendMessage
  <2>2. QED
    BY <1>2, <1>3, <2>1, ChatAnswerKeeps
<1>8. CASE o # "fail"
  <2>1. AppendMessage(t, m, o)
    BY <1>5, <1>6
  <2>2. /\ thread' = [thread EXCEPT ![t] = Append(@, m)]
        /\ latest' \in {latest, t} /\ active' \in BOOLEAN /\ (active' => latest' # 0)
    BY <1>8, <2>1, MessageStored
  <2>3. CASE o = "ok"
    <3>1. PICK r \in ChatRequest : /\ req' = [req EXCEPT ![q] = r] /\ r.pc = "load"
                                   /\ r.thread = req[q].thread /\ r.answer = req[q].answer
      BY <1>5, <2>3, GotoWrites
    <3>2. req'[q] = r
      BY <1>1, <3>1
    <3>3. /\ DOMAIN thread' = DOMAIN thread
          /\ \A i \in DOMAIN thread[t] : thread'[t][i] = thread[t][i]
          /\ Len(thread[t]) \in Nat /\ DOMAIN thread[t] = 1 .. Len(thread[t])
          /\ Len(thread'[t]) = Len(thread[t]) + 1
          /\ DOMAIN thread'[t] = 1 .. Len(thread[t]) + 1
          /\ thread'[t][Len(thread[t]) + 1] = m
      <4>1. /\ DOMAIN thread' = DOMAIN thread
            /\ \A u \in DOMAIN thread : \A i \in DOMAIN thread[u] : thread'[u][i] = thread[u][i]
            /\ Len(thread[t]) \in Nat /\ DOMAIN thread[t] = 1 .. Len(thread[t])
            /\ Len(thread'[t]) = Len(thread[t]) + 1
            /\ DOMAIN thread'[t] = 1 .. Len(thread[t]) + 1
            /\ thread'[t][Len(thread[t]) + 1] = m
        BY <1>1, <2>2, AppendedFacts
      <4>2. QED
        BY <4>1
    <3>4. \A i \in DOMAIN thread[t] : thread[t][i] # UserMessage(q)
      BY <1>3 DEF AskedIn
    <3>5. \A i \in DOMAIN thread'[t] : thread'[t][i] = UserMessage(q) <=> i = Len(thread'[t])
      <4>1. SUFFICES ASSUME NEW i \in DOMAIN thread'[t]
                     PROVE  thread'[t][i] = UserMessage(q) <=> i = Len(thread[t]) + 1
        BY <3>3
      <4>2. CASE i \in DOMAIN thread[t]
        <5>1. thread'[t][i] # UserMessage(q) /\ i # Len(thread[t]) + 1
          BY <3>3, <3>4, <4>2
        <5>2. QED
          BY <5>1
      <4>3. CASE i \notin DOMAIN thread[t]
        <5>1. i = Len(thread[t]) + 1
          BY <3>3, <4>3
        <5>2. QED
          BY <1>6, <3>3, <5>1
      <4>4. QED
        BY <4>2, <4>3
    <3>6. AskedIn(t, q)'
      <4>1. Len(thread[t]) + 1 \in DOMAIN thread'[t]
        BY <3>3
      <4>2. thread'[t][Len(thread[t]) + 1] = UserMessage(q)
        BY <1>6, <3>3
      <4>3. \E i \in DOMAIN thread'[t] : thread'[t][i] = UserMessage(q)
        BY <4>1, <4>2
      <4>4. QED
        BY <4>3 DEF AskedIn, UserMessage
    <3>7. req'[q].pc = "load" /\ req'[q].thread = t /\ req'[q].answer = "none"
      BY <1>3, <1>4, <3>1, <3>2
    <3>8. t \in DOMAIN thread'
      BY <3>3
    <3>9. TurnOK(q)'
      BY <3>5, <3>6, <3>7, <3>8 DEF TurnOK
    <3>10. r.pc # "idle" /\ (r.pc # "done" => r.thread = t)
      BY <1>4, <3>1
    <3>11. QED
      BY <1>2, <1>3, <1>4, <1>6, <2>2, <3>1, <3>9, <3>10, ThreadWritten
  <2>4. CASE o # "ok"
    <3>1. PICK r \in ChatRequest : /\ r = [Idle EXCEPT !.pc = "done", !.answer = "error"]
                                   /\ r.pc = "done"
      BY AnsweredFacts
    <3>2. req' = [req EXCEPT ![q] = r]
      BY <1>5, <2>4, <3>1 DEF Answer
    <3>3. req'[q].pc = "done"
      BY <1>1, <3>1, <3>2
    <3>4. TurnOK(q)'
      BY <3>3, DoneTurn
    <3>5. r.pc # "idle" /\ (r.pc # "done" => r.thread = t)
      BY <3>1
    <3>6. QED
      BY <1>2, <1>3, <1>4, <1>6, <2>2, <3>2, <3>4, <3>5, ThreadWritten
  <2>5. QED
    BY <2>3, <2>4
<1>9. QED
  BY <1>7, <1>8

LEMMA ChatStoreKeeps ==
  ASSUME ChatInv, NEW q \in Request, Store(q)
  PROVE  ChatInv'
<1>1. /\ req \in [Request -> ChatRequest] /\ TurnOK(q) /\ thread \in Seq(Seq(Message))
  BY DEF ChatInv
<1>2. req[q].pc = "store" /\ Answer(q, "ok") /\ UNCHANGED <<arrived, raced>>
  BY DEF Store
<1>3. q \in InFlight /\ req[q].answer = "none"
  BY <1>1, <1>2 DEF InFlight, TurnOK
<1>4. PICK t \in DOMAIN thread : t = req[q].thread
  BY <1>1, <1>2 DEF TurnOK
<1>5. PICK o \in Outcome : AppendMessage(t, Reply(q), o)
  BY <1>4 DEF Store
<1>6. PICK m \in Message : m = Reply(q) /\ m.of = q
  <2>1. req[q].asked \in {0} \cup Request
    BY <1>1, RequestFields
  <2>2. Reply(q) \in Message /\ Reply(q).of = q
    BY <2>1 DEF Reply, Message
  <2>3. QED
    BY <2>2
<1>7. CASE o = "fail"
  <2>1. UNCHANGED <<thread, latest, active>>
    BY <1>5, <1>7 DEF AppendMessage
  <2>2. QED
    BY <1>2, <1>3, <2>1, ChatAnswerKeeps
<1>8. CASE o # "fail"
  <2>1. AppendMessage(t, m, o)
    BY <1>5, <1>6
  <2>2. /\ thread' = [thread EXCEPT ![t] = Append(@, m)]
        /\ latest' \in {latest, t} /\ active' \in BOOLEAN /\ (active' => latest' # 0)
    BY <1>8, <2>1, MessageStored
  <2>3. PICK r \in ChatRequest : /\ r = [Idle EXCEPT !.pc = "done", !.answer = "ok"]
                                 /\ r.pc = "done" /\ r.answer = "ok"
    BY AnsweredFacts
  <2>4. req' = [req EXCEPT ![q] = r]
    BY <1>2, <2>3 DEF Answer
  <2>5. req'[q].pc = "done" /\ req'[q].answer = "ok"
    BY <1>1, <2>3, <2>4
  <2>6. TurnOK(q)'
    BY <2>5, DoneTurn
  <2>7. r.pc # "idle" /\ (r.pc # "done" => r.thread = t)
    BY <2>3
  <2>8. /\ req'[m.of].answer = "ok" /\ req[m.of].answer # "ok"
        /\ \E j \in DOMAIN thread[t] :
              /\ thread[t][j] = UserMessage(m.of)
              /\ m.of \notin raced => j = Len(thread[t])
    <3>1. \E j \in DOMAIN thread[t] : /\ thread[t][j] = UserMessage(q)
                                      /\ q \notin raced => j = Len(thread[t])
      BY <1>1, <1>2, <1>4 DEF TurnOK, AskedIn
    <3>2. QED
      BY <1>3, <1>6, <2>5, <3>1
  <2>9. QED
    BY <1>2, <1>3, <1>4, <1>6, <2>2, <2>4, <2>6, <2>7, <2>8, ThreadWritten
<1>9. QED
  BY <1>7, <1>8

\* A request that reads keeps the turn it has.
LEMMA TurnGoesOn ==
  ASSUME NEW q \in Request, TurnOK(q), UNCHANGED <<thread, raced>>,
         req[q].pc \in {"load", "route", "call"},
         req'[q].pc \in {"route", "call", "store"},
         req'[q].thread = req[q].thread, req'[q].answer = req[q].answer,
         req'[q].pc \in {"route", "call"} =>
            /\ req'[q].sent # <<>>
            /\ (q \notin raced /\ Len(thread[req[q].thread]) <= HistoryLimit) =>
                  Last(req'[q].sent) = UserMessage(q),
         req'[q].pc = "store" =>
            ((q \notin raced /\ Len(thread[req[q].thread]) <= HistoryLimit) => req'[q].asked = q)
  PROVE  TurnOK(q)'
<1>1. AskedIn(req[q].thread, q) => AskedIn(req[q].thread, q)'
  BY DEF AskedIn, UserMessage
<1>2. /\ req[q].thread \in DOMAIN thread /\ AskedIn(req[q].thread, q)
      /\ req[q].answer = "none"
      /\ q \notin raced => \A i \in DOMAIN thread[req[q].thread] :
            thread[req[q].thread][i] = UserMessage(q) <=> i = Len(thread[req[q].thread])
  BY DEF TurnOK
<1>3. PICK t : t = req[q].thread
  OBVIOUS
<1>4. AskedIn(t, q)'
  BY <1>2, <1>3 DEF AskedIn
<1>5. req'[q].thread = t /\ req'[q].answer = "none" /\ t \in DOMAIN thread'
  BY <1>2, <1>3
<1>6. /\ q \notin raced' => \A i \in DOMAIN thread'[t] :
            thread'[t][i] = UserMessage(q) <=> i = Len(thread'[t])
  BY <1>2, <1>3
<1>7. req'[q].pc \in {"route", "call"} =>
         /\ req'[q].sent # <<>>
         /\ (q \notin raced' /\ Len(thread'[t]) <= HistoryLimit) =>
               Last(req'[q].sent) = UserMessage(q)
  BY <1>3
<1>8. req'[q].pc = "store" =>
         ((q \notin raced' /\ Len(thread'[t]) <= HistoryLimit) => req'[q].asked = q)
  BY <1>3
<1>9. QED
  BY <1>4, <1>5, <1>6, <1>7, <1>8 DEF TurnOK

LEMMA ChatLoadKeeps ==
  ASSUME ChatInv, NEW q \in Request, Load(q)
  PROVE  ChatInv'
<1>1. /\ req \in [Request -> ChatRequest] /\ TurnOK(q) /\ thread \in Seq(Seq(Message))
      /\ req[q] \in ChatRequest
  BY DEF ChatInv
<1>2. req[q].pc = "load" /\ UNCHANGED <<thread, latest, active, arrived, raced>>
  BY DEF Load
<1>3. PICK t \in DOMAIN thread : t = req[q].thread
  BY <1>1, <1>2 DEF TurnOK
<1>4. q \in InFlight
  BY <1>2 DEF InFlight
<1>5. PICK s \in Seq(Message) : s = thread[t] /\ s # <<>>
  <2>1. thread[t] \in Seq(Message) /\ \E i \in DOMAIN thread[t] : thread[t][i] = UserMessage(q)
    BY <1>1, <1>2, <1>3 DEF TurnOK, AskedIn
  <2>2. PICK s \in Seq(Message) : s = thread[t]
    BY <2>1
  <2>3. Len(s) # 0
    BY <2>1, <2>2
  <2>4. QED
    BY <2>2, <2>3
<1>6. q \notin raced => Last(s) = UserMessage(q)
  <2>1. SUFFICES ASSUME q \notin raced PROVE Last(s) = UserMessage(q)
    OBVIOUS
  <2>2. \A i \in DOMAIN s : s[i] = UserMessage(q) <=> i = Len(s)
    BY <1>1, <1>2, <1>3, <1>5, <2>1 DEF TurnOK
  <2>3. Len(s) \in DOMAIN s
    BY <1>5
  <2>4. QED
    BY <2>2, <2>3 DEF Last
<1>7. PICK o \in ReadOutcome :
         req' = [req EXCEPT ![q].pc = "route",
                            ![q].sent = IF o = "ok" THEN TrimHistory(ListMessages(t))
                                                    ELSE <<UserMessage(q)>>]
  BY <1>3 DEF Load
<1> DEFINE S == IF o = "ok" THEN TrimHistory(ListMessages(t)) ELSE <<UserMessage(q)>>
<1>8. /\ S \in Seq(Message) /\ S # <<>>
      /\ (q \notin raced /\ Len(thread[t]) <= HistoryLimit) => Last(S) = UserMessage(q)
  <2>1. CASE o = "ok"
    <3>1. /\ ListMessages(t) \in Seq(Message) /\ ListMessages(t) # <<>>
          /\ Len(thread[t]) <= HistoryLimit => ListMessages(t) = thread[t]
      BY <1>1, <1>5, ListFacts
    <3>2. PICK z \in Seq(Message) : z = ListMessages(t) /\ z # <<>>
      BY <3>1
    <3>3. /\ TrimHistory(z) \in Seq(Message) /\ TrimHistory(z) # <<>>
          /\ Last(TrimHistory(z)) = Last(z)
      BY <3>2, TrimKeepsLast
    <3>4. S = TrimHistory(z)
      BY <2>1, <3>2
    <3>5. QED
      BY <1>5, <1>6, <3>1, <3>2, <3>3, <3>4
  <2>2. CASE o # "ok"
    <3>1. UserMessage(q) \in Message
      BY DEF UserMessage, Message
    <3>2. <<UserMessage(q)>> \in Seq(Message) /\ <<UserMessage(q)>> # <<>>
      BY <3>1
    <3>3. Last(<<UserMessage(q)>>) = UserMessage(q)
      BY DEF Last
    <3>4. S = <<UserMessage(q)>>
      BY <2>2
    <3>5. QED
      BY <3>2, <3>3, <3>4
  <2>3. QED
    BY <2>1, <2>2
<1>9. PICK z \in Seq(Message) : z = S
  BY <1>8
<1>10. req' = [req EXCEPT ![q].pc = "route", ![q].sent = z]
  BY <1>7, <1>9
<1> HIDE DEF S
<1>11. [req[q] EXCEPT !.pc = "route", !.sent = z] \in ChatRequest
  BY <1>1 DEF ChatRequest
<1>12. PICK r \in ChatRequest : r = [req[q] EXCEPT !.pc = "route", !.sent = z]
  BY <1>11
<1>13. /\ r.pc = "route" /\ r.sent = z /\ r.thread = req[q].thread
       /\ r.answer = req[q].answer
  BY <1>1, <1>12 DEF ChatRequest
<1>14. req' = [req EXCEPT ![q] = r] /\ req'[q] = r
  BY <1>1, <1>10, <1>12
<1>15. /\ req'[q].pc = "route" /\ req'[q].sent = z /\ req'[q].thread = req[q].thread
       /\ req'[q].answer = req[q].answer
  BY <1>13, <1>14
<1>16. /\ req'[q].sent # <<>>
       /\ (q \notin raced /\ Len(thread[req[q].thread]) <= HistoryLimit) =>
             Last(req'[q].sent) = UserMessage(q)
  BY <1>3, <1>8, <1>9, <1>15
<1>17. TurnOK(q)'
  BY <1>1, <1>2, <1>15, <1>16, TurnGoesOn
<1>18. QED
  BY <1>2, <1>4, <1>13, <1>14, <1>17, OwnTurn

LEMMA ChatRouteKeeps ==
  ASSUME ChatInv, NEW q \in Request, Route(q)
  PROVE  ChatInv'
<1>1. /\ req \in [Request -> ChatRequest] /\ TurnOK(q)
  BY DEF ChatInv
<1>2. req[q].pc = "route" /\ UNCHANGED <<thread, latest, active, arrived, raced>>
  BY DEF Route
<1>3. q \in InFlight
  BY <1>2 DEF InFlight
<1>4. CASE Goto(q, "call")
  <2>1. PICK r \in ChatRequest : /\ req' = [req EXCEPT ![q] = r] /\ r.pc = "call"
                                 /\ r.thread = req[q].thread /\ r.sent = req[q].sent
                                 /\ r.answer = req[q].answer
    BY <1>4, GotoWrites
  <2>2. req'[q] = r
    BY <1>1, <2>1
  <2>3. /\ req'[q].pc = "call" /\ req'[q].sent = req[q].sent
        /\ req'[q].thread = req[q].thread /\ req'[q].answer = req[q].answer
    BY <2>1, <2>2
  <2>4. /\ req'[q].sent # <<>>
        /\ (q \notin raced /\ Len(thread[req[q].thread]) <= HistoryLimit) =>
              Last(req'[q].sent) = UserMessage(q)
    BY <1>1, <1>2, <2>3 DEF TurnOK
  <2>5. TurnOK(q)'
    BY <1>1, <1>2, <2>3, <2>4, TurnGoesOn
  <2>6. QED
    BY <1>2, <1>3, <2>1, <2>5, OwnTurn
<1>5. CASE Answer(q, "error")
  BY <1>2, <1>3, <1>5, ChatAnswerKeeps
<1>6. QED
  BY <1>4, <1>5 DEF Route

LEMMA ChatCallKeeps ==
  ASSUME ChatInv, NEW q \in Request, Call(q)
  PROVE  ChatInv'
<1>1. /\ req \in [Request -> ChatRequest] /\ TurnOK(q) /\ req[q] \in ChatRequest
  BY DEF ChatInv
<1>2. req[q].pc = "call" /\ UNCHANGED <<thread, latest, active, arrived, raced>>
  BY DEF Call
<1>3. q \in InFlight
  BY <1>2 DEF InFlight
<1>4. PICK s \in Seq(Message) :
         /\ s = req[q].sent /\ s # <<>>
         /\ (q \notin raced /\ Len(thread[req[q].thread]) <= HistoryLimit) =>
               Last(s) = UserMessage(q)
  <2>1. req[q].sent \in Seq(Message)
    BY <1>1, RequestFields
  <2>2. QED
    BY <1>1, <1>2, <2>1 DEF TurnOK
<1>5. PICK a \in IF req[q].kind = "pm" THEN CallChatCompletion(s) ELSE CallGenerate(q) :
         CASE a.is = "content" ->
                req' = [req EXCEPT ![q].asked = a.to, ![q].attempt = 0, ![q].pc = "store"]
           [] a.is = "transient" /\ req[q].attempt + 1 < MaxRetries ->
                req' = [req EXCEPT ![q].attempt = @ + 1]
           [] OTHER -> Answer(q, "error")
  BY <1>4 DEF Call
<1>6. CASE a.is = "content"
  <2>1. /\ a.to \in {0} \cup Request
        /\ (q \notin raced /\ Len(thread[req[q].thread]) <= HistoryLimit) => a.to = q
    <3>1. CASE req[q].kind = "pm"
      <4>1. a \in CallChatCompletion(s)
        BY <1>5, <3>1
      <4>2. /\ a.to \in {0} \cup Request
            /\ \A p \in Request : Last(s) = UserMessage(p) => a.to = p
        BY <1>4, <1>6, <4>1, AgentAnswers
      <4>3. QED
        BY <1>4, <4>2
    <3>2. CASE req[q].kind # "pm"
      <4>1. a \in CallGenerate(q)
        BY <1>5, <3>2
      <4>2. a.to = q
        BY <1>6, <4>1 DEF CallGenerate, Content, Failure
      <4>3. QED
        BY <4>2
    <3>3. QED
      BY <3>1, <3>2
  <2>2. PICK to \in {0} \cup Request : to = a.to
    BY <2>1
  <2>3. req' = [req EXCEPT ![q].asked = to, ![q].attempt = 0, ![q].pc = "store"]
    BY <1>5, <1>6, <2>2
  <2>4. [req[q] EXCEPT !.asked = to, !.attempt = 0, !.pc = "store"] \in ChatRequest
    BY <1>1 DEF ChatRequest
  <2>5. PICK r \in ChatRequest : r = [req[q] EXCEPT !.asked = to, !.attempt = 0, !.pc = "store"]
    BY <2>4
  <2>6. /\ r.pc = "store" /\ r.asked = to /\ r.thread = req[q].thread
        /\ r.answer = req[q].answer
    BY <1>1, <2>5 DEF ChatRequest
  <2>7. req' = [req EXCEPT ![q] = r] /\ req'[q] = r
    BY <1>1, <2>3, <2>5
  <2>8. /\ req'[q].pc = "store" /\ req'[q].asked = to /\ req'[q].thread = req[q].thread
        /\ req'[q].answer = req[q].answer
    BY <2>6, <2>7
  <2>9. (q \notin raced /\ Len(thread[req[q].thread]) <= HistoryLimit) => req'[q].asked = q
    BY <2>1, <2>2, <2>8
  <2>10. TurnOK(q)'
    BY <1>1, <1>2, <2>8, <2>9, TurnGoesOn
  <2>11. QED
    BY <1>2, <1>3, <2>6, <2>7, <2>10, OwnTurn
<1>7. CASE a.is = "transient" /\ req[q].attempt + 1 < MaxRetries
  <2>1. req' = [req EXCEPT ![q].attempt = @ + 1]
    BY <1>5, <1>7
  <2>2. PICK n \in Nat : n = req[q].attempt + 1
    BY <1>1, RequestFields
  <2>3. [req[q] EXCEPT !.attempt = n] \in ChatRequest
    BY <1>1 DEF ChatRequest
  <2>4. PICK r \in ChatRequest : r = [req[q] EXCEPT !.attempt = n]
    BY <2>3
  <2>5. /\ r.pc = req[q].pc /\ r.sent = req[q].sent /\ r.thread = req[q].thread
        /\ r.answer = req[q].answer
    BY <1>1, <2>4 DEF ChatRequest
  <2>6. req' = [req EXCEPT ![q] = r] /\ req'[q] = r
    BY <1>1, <2>1, <2>2, <2>4
  <2>7. /\ req'[q].pc = "call" /\ req'[q].sent = req[q].sent
        /\ req'[q].thread = req[q].thread /\ req'[q].answer = req[q].answer
    BY <1>2, <2>5, <2>6
  <2>8. /\ req'[q].sent # <<>>
        /\ (q \notin raced /\ Len(thread[req[q].thread]) <= HistoryLimit) =>
              Last(req'[q].sent) = UserMessage(q)
    BY <1>4, <2>7
  <2>9. TurnOK(q)'
    BY <1>1, <1>2, <2>7, <2>8, TurnGoesOn
  <2>10. r.pc # "idle"
    BY <1>2, <2>5
  <2>11. QED
    BY <1>2, <1>3, <2>5, <2>6, <2>9, <2>10, OwnTurn
<1>8. CASE a.is # "content" /\ ~(a.is = "transient" /\ req[q].attempt + 1 < MaxRetries)
  <2>1. Answer(q, "error")
    BY <1>5, <1>8
  <2>2. QED
    BY <1>2, <1>3, <2>1, ChatAnswerKeeps
<1>9. QED
  BY <1>6, <1>7, <1>8

-----------------------------------------------------------------------------
(* Chat: the invariant *)

LEMMA ChatInitial ==
  ASSUME Init
  PROVE  ChatInv
<1>1. Idle \in ChatRequest /\ Idle.pc = "idle" /\ Idle.thread = 0 /\ Idle.answer = "none"
  <2>1. 0 \in Nat /\ <<>> \in Seq(Message)
    OBVIOUS
  <2>2. QED
    BY <2>1 DEF Idle, ChatRequest, Kind
<1>2. /\ thread \in Seq(Seq(Message)) /\ Len(thread) = 0 /\ DOMAIN thread = {}
  <2>1. PICK e \in Seq(Seq(Message)) : e = <<>> /\ e = thread
    <3>1. <<>> \in Seq(Seq(Message))
      OBVIOUS
    <3>2. QED
      BY <3>1 DEF Init
  <2>2. Len(e) = 0
    BY <2>1
  <2>3. DOMAIN e = {}
    BY <2>2
  <2>4. QED
    BY <2>1, <2>2, <2>3
<1>3. /\ latest = 0 /\ arrived = 0 /\ raced = {}
      /\ req \in [Request -> ChatRequest]
      /\ \A q \in Request : req[q] = Idle
  BY <1>1 DEF Init
<1>4. \A q \in Request : req[q].pc = "idle" /\ req[q].thread = 0 /\ req[q].answer = "none"
  BY <1>1, <1>3
<1>5. InFlight = {}
  BY <1>4 DEF InFlight
<1>6. FlightOK
  BY <1>3, <1>5 DEF FlightOK
<1>7. \A q \in Request : TurnOK(q)
  BY <1>2, <1>4 DEF TurnOK
<1>8. SerialUsesNewest /\ RepliesFollowQuestions
  BY <1>2, <1>5 DEF SerialUsesNewest, RepliesFollowQuestions
<1>9. active \in BOOLEAN /\ ~active
  BY DEF Init
<1>10. latest \in 0 .. Len(thread) /\ latest = Len(thread) /\ arrived \in Nat
  BY <1>2, <1>3
<1>11. QED
  BY <1>2, <1>3, <1>6, <1>7, <1>8, <1>9, <1>10 DEF ChatInv

LEMMA ChatLapseKeeps ==
  ASSUME ChatInv, Lapse \/ UNCHANGED vars
  PROVE  ChatInv'
<1>1. UNCHANGED <<thread, latest, req, arrived, raced>>
  BY DEF Lapse, vars
<1>2. FlightOK' /\ InFlight' = InFlight
  BY <1>1 DEF ChatInv, FlightOK, InFlight
<1>3. \A q \in Request : TurnOK(q)'
  BY <1>1, TurnKept DEF ChatInv
<1>4. RepliesFollowQuestions'
  BY <1>1, RepliesKept DEF ChatInv
<1>5. SerialUsesNewest'
  BY <1>1, <1>2 DEF ChatInv, SerialUsesNewest
<1>6. active' \in BOOLEAN /\ (active' => latest' # 0)
  <2>1. CASE Lapse
    <3>1. active' = FALSE
      BY <2>1 DEF Lapse
    <3>2. QED
      BY <3>1
  <2>2. CASE UNCHANGED vars
    <3>1. active' = active /\ active \in BOOLEAN /\ (active => latest # 0)
      BY <2>2 DEF vars, ChatInv
    <3>2. QED
      BY <1>1, <3>1, Zenon
  <2>3. QED
    BY <2>1, <2>2
<1>7. QED
  BY <1>1, <1>2, <1>3, <1>4, <1>5, <1>6 DEF ChatInv

LEMMA ChatInvariant == Spec => []ChatInv
<1>1. Init => ChatInv
  BY ChatInitial
<1>2. ChatInv /\ [Next]_vars => ChatInv'
  <2>1. SUFFICES ASSUME ChatInv, [Next]_vars PROVE ChatInv'
    OBVIOUS
  <2>2. ASSUME NEW q \in Request, Arrive(q) \/ Handle(q) PROVE ChatInv'
    BY <2>1, <2>2, ChatArriveKeeps, ChatFindKeeps, ChatCreateKeeps, ChatAppendUserKeeps,
       ChatLoadKeeps, ChatRouteKeeps,
       ChatCallKeeps, ChatStoreKeeps DEF Handle
  <2>3. CASE Lapse \/ UNCHANGED vars
    BY <2>1, <2>3, ChatLapseKeeps
  <2>4. QED
    BY <2>1, <2>2, <2>3 DEF Next
<1>3. QED
  BY <1>1, <1>2, PTL DEF Spec

(***************************************************************************)
(* For any number of requests in any interleaving, any store faults and    *)
(* whatever is trimmed or retried: a request that overlapped no other one, *)
(* in a thread within the history limit, gets a reply to its own message   *)
(* (chatCompletion, trimHistoryToCharBudget, runCompletionWithRetry).      *)
(***************************************************************************)
THEOREM OwnTurnsAnswered == Spec => []OwnTurnAnswered
<1>1. ChatInv => OwnTurnAnswered
  <2>1. SUFFICES ASSUME ChatInv, NEW q \in Request \ raced, req[q].pc = "store",
                        Position(q) <= HistoryLimit
                 PROVE  req[q].asked = q
    BY DEF OwnTurnAnswered
  <2>2. Position(q) = Len(thread[req[q].thread])
    BY <2>1, PositionIsLast
  <2>3. TurnOK(q)
    BY <2>1 DEF ChatInv
  <2>4. QED
    BY <2>1, <2>2, <2>3 DEF TurnOK
<1>2. QED
  BY <1>1, ChatInvariant, PTL

(***************************************************************************)
(* Serial requests always work on the thread that was made last: no error  *)
(* of CreateChatThread, GetOrCreateActiveChatThread or AppendChatMessage,  *)
(* complete or half done, brings an older thread back.                     *)
(***************************************************************************)
THEOREM SerialThreads == Spec => []SerialUsesNewest
<1>1. ChatInv => SerialUsesNewest
  BY DEF ChatInv
<1>2. QED
  BY <1>1, ChatInvariant, PTL

(***************************************************************************)
(* Replies are stored once, in the thread of their question and after it,  *)
(* for any number of requests that are in flight together.                 *)
(***************************************************************************)
THEOREM RepliesInOrder == Spec => []RepliesFollowQuestions
<1>1. ChatInv => RepliesFollowQuestions
  BY DEF ChatInv
<1>2. QED
  BY <1>1, ChatInvariant, PTL

-----------------------------------------------------------------------------
(* Chat: the abstract conversation *)

\* Threads only grow.
Grows ==
    \A t \in DOMAIN thread :
        /\ t \in DOMAIN thread'
        /\ \A i \in DOMAIN thread[t] : i \in DOMAIN thread'[t] /\ thread'[t][i] = thread[t][i]

\* A request says what users say.
Said(m) == m \in Message /\ (m.role = "user" => m = UserMessage(m.of))

\* The three things a step may do to the threads.
ThreadStep ==
    \/ thread' = thread
    \/ thread' = Append(thread, <<>>)
    \/ \E t \in DOMAIN thread, m \in Message :
          Said(m) /\ thread' = [thread EXCEPT ![t] = Append(@, m)]

LEMMA ThreadsGrow ==
  ASSUME thread \in Seq(Seq(Message)), WrittenOK, ThreadStep
  PROVE  Grows /\ WrittenOK'
<1>1. CASE thread' = thread
  BY <1>1 DEF Grows, WrittenOK, UserMessage
<1>2. CASE thread' = Append(thread, <<>>)
  <2>1. /\ DOMAIN thread = 1 .. Len(thread) /\ Len(thread) \in Nat
        /\ DOMAIN thread' = 1 .. Len(thread) + 1
        /\ \A u \in DOMAIN thread : thread'[u] = thread[u]
        /\ thread'[Len(thread) + 1] = <<>>
    BY <1>2, CreatedFacts
  <2>2. Grows
    BY <2>1 DEF Grows
  <2>3. DOMAIN thread'[Len(thread) + 1] = {}
    <3>1. PICK e \in Seq(Message) : e = <<>> /\ e = thread'[Len(thread) + 1]
      <4>1. <<>> \in Seq(Message)
        OBVIOUS
      <4>2. QED
        BY <2>1, <4>1
    <3>2. Len(e) = 0
      BY <3>1
    <3>3. DOMAIN e = {}
      BY <3>2
    <3>4. QED
      BY <3>1, <3>3
  <2>4. ASSUME NEW u \in DOMAIN thread', NEW i \in DOMAIN thread'[u],
               thread'[u][i].role = "user"
        PROVE  thread'[u][i] = UserMessage(thread'[u][i].of)
    <3>1. u # Len(thread) + 1
      BY <2>3
    <3>2. u \in DOMAIN thread /\ thread'[u] = thread[u]
      BY <2>1, <3>1
    <3>3. QED
      BY <2>4, <3>2 DEF WrittenOK
  <2>5. WrittenOK'
    BY <2>4 DEF WrittenOK, UserMessage
  <2>6. QED
    BY <2>2, <2>5
<1>3. ASSUME NEW t \in DOMAIN thread, NEW m \in Message, Said(m),
             thread' = [thread EXCEPT ![t] = Append(@, m)]
      PROVE  Grows /\ WrittenOK'
  <2>1. /\ DOMAIN thread' = DOMAIN thread
        /\ \A u \in DOMAIN thread : /\ DOMAIN thread[u] \subseteq DOMAIN thread'[u]
                                    /\ \A i \in DOMAIN thread[u] : thread'[u][i] = thread[u][i]
                                    /\ \A i \in DOMAIN thread'[u] \ DOMAIN thread[u] :
                                          thread'[u][i] = m
    BY <1>3, AppendedFacts
  <2>2. Grows
    BY <2>1 DEF Grows
  <2>3. ASSUME NEW u \in DOMAIN thread', NEW i \in DOMAIN thread'[u],
               thread'[u][i].role = "user"
        PROVE  thread'[u][i] = UserMessage(thread'[u][i].of)
    <3>1. u \in DOMAIN thread
      BY <2>1
    <3>2. CASE i \in DOMAIN thread[u]
      <4>1. thread'[u][i] = thread[u][i]
        BY <2>1, <3>1, <3>2
      <4>2. QED
        BY <2>3, <3>1, <3>2, <4>1 DEF WrittenOK
    <3>3. CASE i \notin DOMAIN thread[u]
      <4>1. thread'[u][i] = m
        BY <2>1, <3>1, <3>3
      <4>2. QED
        BY <1>3, <2>3, <4>1 DEF Said
    <3>4. QED
      BY <3>2, <3>3
  <2>4. WrittenOK'
    BY <2>3 DEF WrittenOK, UserMessage
  <2>5. QED
    BY <2>2, <2>4
<1>4. QED
  BY <1>1, <1>2, <1>3 DEF ThreadStep

\* What was said in a thread stays said.
LEMMA SaidStays ==
  ASSUME Grows, NEW t, NEW m, SaidIn(t, m)
  PROVE  SaidIn(t, m)'
<1>1. PICK i \in DOMAIN thread[t] : t \in DOMAIN thread /\ thread[t][i] = m
  BY DEF SaidIn
<1>2. t \in DOMAIN thread' /\ i \in DOMAIN thread'[t] /\ thread'[t][i] = m
  BY <1>1 DEF Grows
<1>3. QED
  BY <1>2 DEF SaidIn

\* A request that does not move keeps its context, and so does one that goes on
\* with the same.
LEMMA ContextStays ==
  ASSUME Grows, NEW q \in Request, ContextOK(q),
         \/ req'[q] = req[q]
         \/ req'[q].pc \notin {"route", "call", "store"}
         \/ /\ req[q].pc \in {"route", "call"} /\ req'[q].pc \in {"route", "call"}
            /\ req'[q].thread = req[q].thread /\ req'[q].sent = req[q].sent
  PROVE  ContextOK(q)'
<1>1. CASE req'[q].pc \notin {"route", "call", "store"}
  BY <1>1 DEF ContextOK
<1>2. CASE req'[q].pc \in {"route", "call"} /\ req[q].pc \in {"route", "call"}
           /\ req'[q].thread = req[q].thread /\ req'[q].sent = req[q].sent
  <2>1. PICK t, s : t = req[q].thread /\ s = req[q].sent
    OBVIOUS
  <2>2. \A i \in DOMAIN s : SaidIn(t, s[i])
    BY <1>2, <2>1 DEF ContextOK
  <2>3. \A m : SaidIn(t, m) => SaidIn(t, m)'
    BY SaidStays
  <2>4. \A i \in DOMAIN s : SaidIn(t, s[i])'
    BY <2>2, <2>3
  <2>5. req'[q].thread = t /\ req'[q].sent = s /\ req'[q].pc # "store"
    BY <1>2, <2>1
  <2>6. QED
    BY <2>4, <2>5 DEF ContextOK, SaidIn
<1>3. CASE req'[q] = req[q] /\ req[q].pc = "store"
  <2>1. PICK t, a : t = req[q].thread /\ a = req[q].asked
    OBVIOUS
  <2>2. a = 0 \/ SaidIn(t, UserMessage(a))
    BY <1>3, <2>1 DEF ContextOK
  <2>3. SaidIn(t, UserMessage(a)) => SaidIn(t, UserMessage(a))'
    <3>1. PICK m : m = UserMessage(a)
      OBVIOUS
    <3>2. SaidIn(t, m) => SaidIn(t, m)'
      BY SaidStays
    <3>3. QED
      BY <3>1, <3>2 DEF SaidIn, UserMessage
  <2>4. req'[q].thread = t /\ req'[q].asked = a /\ req'[q].pc = "store"
    BY <1>3, <2>1
  <2>5. QED
    BY <2>2, <2>3, <2>4 DEF ContextOK, SaidIn, UserMessage
<1>4. QED
  BY <1>1, <1>2, <1>3

\* A step of request q.
LEMMA ContextStep ==
  ASSUME ChatInv, ContextInv, ThreadStep, NEW q \in Request,
         \A p \in Request \ {q} : req'[p] = req[p],
         Grows => ContextOK(q)'
  PROVE  ContextInv'
<1>1. Grows /\ WrittenOK'
  BY ThreadsGrow DEF ChatInv, ContextInv
<1>2. ASSUME NEW p \in Request PROVE ContextOK(p)'
  <2>1. CASE p = q
    BY <1>1, <2>1
  <2>2. CASE p # q
    BY <1>1, <2>2, ContextStays DEF ContextInv
  <2>3. QED
    BY <2>1, <2>2
<1>3. QED
  BY <1>1, <1>2 DEF ContextInv

\* An agent is sent messages of the thread, and answers one of those.
PartOf(s, msgs) == \A i \in DOMAIN s : \E j \in DOMAIN msgs : s[i] = msgs[j]

LEMMA SubSeqIsPart ==
  ASSUME NEW msgs \in Seq(Message), NEW a \in 1 .. Len(msgs), NEW b \in 1 .. Len(msgs), a <= b
  PROVE  PartOf(SubSeq(msgs, a, b), msgs)
<1>1. /\ SubSeq(msgs, a, b) \in Seq(Message)
      /\ Len(SubSeq(msgs, a, b)) = b - a + 1
      /\ \A i \in 1 .. b - a + 1 : SubSeq(msgs, a, b)[i] = msgs[a + i - 1]
  OBVIOUS
<1>2. PICK s \in Seq(Message) : s = SubSeq(msgs, a, b)
  BY <1>1
<1>3. DOMAIN s = 1 .. b - a + 1 /\ \A i \in 1 .. b - a + 1 : s[i] = msgs[a + i - 1]
  BY <1>1, <1>2
<1>4. \A i \in 1 .. b - a + 1 : a + i - 1 \in DOMAIN msgs
  OBVIOUS
<1>5. PartOf(s, msgs)
  BY <1>3, <1>4 DEF PartOf
<1>6. QED
  BY <1>2, <1>5

LEMMA TrimIsPart ==
  ASSUME NEW msgs \in Seq(Message), msgs # <<>>
  PROVE  PartOf(TrimHistory(msgs), msgs)
<1> DEFINE S == {i \in 1 .. Len(msgs) :
                   \A j \in i .. Len(msgs) - 1 : Chars(msgs, j) <= CharBudget}
<1>1. Len(msgs) \in S /\ S \in SUBSET Nat /\ S \subseteq 1 .. Len(msgs)
  OBVIOUS
<1> HIDE DEF S
<1>2. PICK start \in 1 .. Len(msgs) : start = Min(S)
  BY <1>1, LeastNumber
<1>3. TrimHistory(msgs) = SubSeq(msgs, start, Len(msgs))
  BY <1>2 DEF TrimHistory, S
<1>4. Len(msgs) \in 1 .. Len(msgs) /\ start <= Len(msgs)
  BY <1>2
<1>5. PartOf(SubSeq(msgs, start, Len(msgs)), msgs)
  BY <1>4, SubSeqIsPart
<1>6. QED
  BY <1>3, <1>5

LEMMA ListIsPart ==
  ASSUME thread \in Seq(Seq(Message)), NEW t \in DOMAIN thread, thread[t] # <<>>
  PROVE  PartOf(ListMessages(t), thread[t])
<1>1. PICK s \in Seq(Message) : s = thread[t] /\ s # <<>>
  OBVIOUS
<1>2. HistoryLimit \in Nat /\ HistoryLimit # 0
  BY ChatAssumption
<1>3. PICK n \in 1 .. Len(s) : n = IF Len(s) > HistoryLimit THEN HistoryLimit ELSE Len(s)
  BY <1>1, <1>2
<1>4. ListMessages(t) = SubSeq(s, 1, n)
  BY <1>1, <1>3 DEF ListMessages
<1>5. 1 \in 1 .. Len(s) /\ 1 <= n
  BY <1>3
<1>6. PartOf(SubSeq(s, 1, n), s)
  BY <1>3, <1>5, SubSeqIsPart
<1>7. QED
  BY <1>1, <1>4, <1>6

\* Is there a user's message of request p among them?
HasUser(msgs, p) == \E i \in DOMAIN msgs : msgs[i].role = "user" /\ msgs[i].of = p

LEMMA LastUserIsPart ==
  ASSUME NEW msgs \in Seq(Message)
  PROVE  LastUserMessage(msgs) = 0 \/ HasUser(msgs, LastUserMessage(msgs))
<1> DEFINE I == {i \in 1 .. Len(msgs) : msgs[i].role = "user"}
           k == IF I # {} THEN Max(I) ELSE 0
<1>1. LastUserMessage(msgs) = IF k = 0 THEN 0 ELSE msgs[k].of
  BY DEF LastUserMessage, SelectLastInSeq
<1>2. I \subseteq 1 .. Len(msgs) /\ \A i \in I : msgs[i].role = "user"
  OBVIOUS
<1>3. I # {} => Max(I) \in I
  <2> HIDE DEF I
  <2>1. Len(msgs) \in Nat /\ I \in SUBSET (0 .. Len(msgs))
    BY <1>2
  <2>2. QED
    BY <2>1, GreatestNumber
<1> HIDE DEF I
<1>4. k # 0 => k \in DOMAIN msgs /\ msgs[k].role = "user"
  <2>1. k # 0 => k \in I
    BY <1>3
  <2>2. k \in I => k \in 1 .. Len(msgs) /\ msgs[k].role = "user"
    BY <1>2
  <2>3. DOMAIN msgs = 1 .. Len(msgs)
    OBVIOUS
  <2>4. QED
    BY <2>1, <2>2, <2>3
<1> HIDE DEF k
<1>5. QED
  BY <1>1, <1>4 DEF HasUser

LEMMA AgentAnswersPart ==
  ASSUME NEW msgs \in Seq(Message), msgs # <<>>,
         NEW r \in CallChatCompletion(msgs), r.is = "content"
  PROVE  r.to = 0 \/ HasUser(msgs, r.to)
<1>1. PICK one \in Seq(Message) : one = StripToCurrentMessage(msgs) /\ PartOf(one, msgs)
  <2>1. Last(msgs) \in Message /\ Last(msgs) = msgs[Len(msgs)] /\ Len(msgs) \in DOMAIN msgs
    BY DEF Last
  <2>2. <<Last(msgs)>> \in Seq(Message) /\ DOMAIN <<Last(msgs)>> = {1}
        /\ <<Last(msgs)>>[1] = Last(msgs)
    BY <2>1
  <2>3. PartOf(<<Last(msgs)>>, msgs)
    BY <2>1, <2>2 DEF PartOf
  <2>4. QED
    BY <2>2, <2>3 DEF StripToCurrentMessage
<1>2. ASSUME NEW m, NEW x \in GetCompletionContent(m), x.is = "content"
      PROVE  x.to = LastUserMessage(m)
  BY <1>2 DEF GetCompletionContent, RunCompletion, CallInference, Content, Failure
<1>3. \A i \in {"transient", "other", "deadline"} : r # Failure(i)
  BY DEF Failure
<1>4. r \in GetCompletionContent(msgs) \/ r \in GetCompletionContent(one)
  BY <1>1, <1>3 DEF CallChatCompletion, HandleManagedServiceProxy, ForwardManagedProxyRequest,
                    ResolveContent
<1>5. r.to = LastUserMessage(msgs) \/ r.to = LastUserMessage(one)
  BY <1>2, <1>4
<1>6. LastUserMessage(msgs) = 0 \/ HasUser(msgs, LastUserMessage(msgs))
  BY LastUserIsPart
<1>7. LastUserMessage(one) = 0 \/ HasUser(one, LastUserMessage(one))
  BY <1>1, LastUserIsPart
<1>8. \A p : HasUser(one, p) => HasUser(msgs, p)
  BY <1>1 DEF HasUser, PartOf
<1>9. QED
  BY <1>5, <1>6, <1>7, <1>8

-----------------------------------------------------------------------------
(* Chat: steps of the abstract conversation *)

ContextStepTaken == ContextInv' /\ [CV!Next]_(CV!vars)

\* A step that leaves the threads alone.
LEMMA QuietStep ==
  ASSUME ChatInv, ContextInv, thread' = thread, NEW q \in Request,
         \A p \in Request \ {q} : req'[p] = req[p],
         Grows => ContextOK(q)'
  PROVE  ContextStepTaken
<1>1. ThreadStep
  BY DEF ThreadStep
<1>2. ContextInv'
  BY <1>1, ContextStep
<1>3. UNCHANGED CV!vars
  BY DEF CV!vars
<1>4. QED
  BY <1>2, <1>3 DEF ContextStepTaken

\* An answer to the request.
LEMMA AnsweredContext ==
  ASSUME ChatInv, NEW q \in Request, NEW answer, Answer(q, answer)
  PROVE  /\ \A p \in Request \ {q} : req'[p] = req[p]
         /\ req'[q].pc = "done" /\ ContextOK(q)'
<1>1. req \in [Request -> ChatRequest]
  BY DEF ChatInv
<1>2. [Idle EXCEPT !.pc = "done", !.answer = answer].pc = "done"
  BY DEF Idle
<1>3. \A p \in Request \ {q} : req'[p] = req[p]
  BY <1>1 DEF Answer
<1>4. req'[q] = [Idle EXCEPT !.pc = "done", !.answer = answer]
  BY <1>1 DEF Answer
<1>5. req'[q].pc = "done"
  BY <1>2, <1>4
<1>6. QED
  BY <1>3, <1>5 DEF ContextOK

LEMMA ArriveContext ==
  ASSUME ChatInv, ContextInv, NEW q \in Request, Arrive(q)
  PROVE  ContextStepTaken
<1>1. req \in [Request -> ChatRequest] /\ req[q] \in ChatRequest
  BY DEF ChatInv
<1>2. PICK kind \in Kind :
         req' = [req EXCEPT ![q].kind = kind,
                            ![q].pc = IF kind = "newThread" THEN "create" ELSE "find"]
  BY DEF Arrive
<1>3. \A p \in Request \ {q} : req'[p] = req[p]
  BY <1>1, <1>2
<1>4. req'[q].pc = IF kind = "newThread" THEN "create" ELSE "find"
  BY <1>1, <1>2 DEF ChatRequest
<1>5. ContextOK(q)'
  BY <1>4 DEF ContextOK
<1>6. thread' = thread
  BY DEF Arrive
<1>7. QED
  BY <1>3, <1>5, <1>6, QuietStep

\* A request whose thread is known.
LEMMA ResolvedContext ==
  ASSUME ChatInv, NEW q \in Request, NEW t \in Nat, Resolved(q, t)
  PROVE  (\A p \in Request \ {q} : req'[p] = req[p]) /\ ContextOK(q)'
<1>1. PICK r \in ChatRequest : req' = [req EXCEPT ![q] = r] /\ r.pc \in {"append", "done"}
  BY ResolvedWrites
<1>2. req \in [Request -> ChatRequest]
  BY DEF ChatInv
<1>3. (\A p \in Request \ {q} : req'[p] = req[p]) /\ req'[q] = r
  BY <1>1, <1>2
<1>4. req'[q].pc \notin {"route", "call", "store"}
  BY <1>1, <1>3
<1>5. QED
  BY <1>3, <1>4 DEF ContextOK

\* A request that goes on with its next call.
LEMMA GotoContext ==
  ASSUME ChatInv, NEW q \in Request, NEW pc \in {"create", "load"}, Goto(q, pc)
  PROVE  (\A p \in Request \ {q} : req'[p] = req[p]) /\ ContextOK(q)'
<1>1. PICK r \in ChatRequest : req' = [req EXCEPT ![q] = r] /\ r.pc = pc
  BY GotoWrites
<1>2. req \in [Request -> ChatRequest]
  BY DEF ChatInv
<1>3. (\A p \in Request \ {q} : req'[p] = req[p]) /\ req'[q] = r
  BY <1>1, <1>2
<1>4. req'[q].pc \notin {"route", "call", "store"}
  BY <1>1, <1>3
<1>5. QED
  BY <1>3, <1>4 DEF ContextOK

LEMMA FindContext ==
  ASSUME ChatInv, ContextInv, NEW q \in Request, Find(q)
  PROVE  ContextStepTaken
<1>1. thread' = thread
  BY DEF Find
<1>2. latest \in Nat
  BY DEF ChatInv
<1>3. Resolved(q, latest) \/ Goto(q, "create")
  BY DEF Find
<1>4. (\A p \in Request \ {q} : req'[p] = req[p]) /\ ContextOK(q)'
  BY <1>2, <1>3, ResolvedContext, GotoContext
<1>5. QED
  BY <1>1, <1>4, QuietStep

LEMMA CreateContext ==
  ASSUME ChatInv, ContextInv, NEW q \in Request, Create(q)
  PROVE  ContextStepTaken
<1>1. PICK o \in Outcome :
         /\ CreateThread(o)
         /\ IF o = "ok" THEN Resolved(q, Len(thread) + 1) ELSE Answer(q, "error")
  BY DEF Create
<1>2. (\A p \in Request \ {q} : req'[p] = req[p]) /\ ContextOK(q)'
  <2>1. CASE o = "ok"
    <3>1. thread \in Seq(Seq(Message))
      BY DEF ChatInv
    <3>2. Len(thread) + 1 \in Nat
      BY <3>1
    <3>3. QED
      BY <1>1, <2>1, <3>2, ResolvedContext
  <2>2. CASE o # "ok"
    BY <1>1, <2>2, AnsweredContext
  <2>3. QED
    BY <2>1, <2>2
<1>3. CASE o = "fail"
  <2>1. thread' = thread
    BY <1>1, <1>3 DEF CreateThread
  <2>2. QED
    BY <1>2, <2>1, QuietStep
<1>4. CASE o # "fail"
  <2>1. thread' = Append(thread, <<>>)
    BY <1>1, <1>4 DEF CreateThread
  <2>2. ThreadStep
    BY <2>1 DEF ThreadStep
  <2>3. ContextInv'
    BY <1>2, <2>2, ContextStep
  <2>4. CV!Next
    BY <2>1 DEF CV!Next, CV!Begin
  <2>5. QED
    BY <2>3, <2>4 DEF ContextStepTaken
<1>5. QED
  BY <1>3, <1>4

LEMMA AppendUserContext ==
  ASSUME ChatInv, ContextInv, NEW q \in Request, AppendUser(q)
  PROVE  ContextStepTaken
<1>1. /\ req \in [Request -> ChatRequest] /\ TurnOK(q) /\ thread \in Seq(Seq(Message))
  BY DEF ChatInv
<1>2. req[q].pc = "append"
  BY DEF AppendUser
<1>3. PICK t \in DOMAIN thread : t = req[q].thread
  BY <1>1, <1>2 DEF TurnOK
<1>4. PICK o \in Outcome :
         /\ AppendMessage(t, UserMessage(q), o)
         /\ IF o = "ok" THEN Goto(q, "load") ELSE Answer(q, "error")
  BY <1>3 DEF AppendUser
<1>5. (\A p \in Request \ {q} : req'[p] = req[p]) /\ ContextOK(q)'
  BY <1>4, GotoContext, AnsweredContext
<1>6. CASE o = "fail"
  <2>1. thread' = thread
    BY <1>4, <1>6 DEF AppendMessage
  <2>2. QED
    BY <1>5, <2>1, QuietStep
<1>7. CASE o # "fail"
  <2>1. thread' = [thread EXCEPT ![t] = Append(@, UserMessage(q))]
    BY <1>4, <1>7 DEF AppendMessage
  <2>2. Said(UserMessage(q)) /\ UserMessage(q) \in Message
    BY DEF Said, UserMessage, Message
  <2>3. ThreadStep
    BY <2>1, <2>2 DEF ThreadStep
  <2>4. ContextInv'
    BY <1>5, <2>3, ContextStep
  <2>5. \A u \in DOMAIN thread : ~AskedIn(u, q)
    BY <1>1, <1>2 DEF TurnOK
  <2>6. ~CV!Stored(q, "user")
    BY <2>5 DEF CV!Stored, AskedIn, ContextInv, WrittenOK
  <2>7. CV!Add(t, CV!Question(q))
    BY <2>1 DEF CV!Add, CV!Question, UserMessage
  <2>8. CV!Next
    BY <2>6, <2>7 DEF CV!Next, CV!Ask
  <2>9. QED
    BY <2>4, <2>8 DEF ContextStepTaken
<1>8. QED
  BY <1>6, <1>7

LEMMA LoadContext ==
  ASSUME ChatInv, ContextInv, NEW q \in Request, Load(q)
  PROVE  ContextStepTaken
<1>1. /\ req \in [Request -> ChatRequest] /\ TurnOK(q) /\ thread \in Seq(Seq(Message))
      /\ req[q] \in ChatRequest
  BY DEF ChatInv
<1>2. req[q].pc = "load" /\ thread' = thread
  BY DEF Load
<1>3. PICK t \in DOMAIN thread : t = req[q].thread
  BY <1>1, <1>2 DEF TurnOK
<1>4. PICK k \in DOMAIN thread[t] : thread[t][k] = UserMessage(q)
  BY <1>1, <1>2, <1>3 DEF TurnOK, AskedIn
<1>5. PICK s \in Seq(Message) : s = thread[t] /\ s # <<>>
  <2>1. PICK s \in Seq(Message) : s = thread[t]
    BY <1>1, <1>3
  <2>2. Len(s) # 0
    BY <1>4, <2>1
  <2>3. QED
    BY <2>1, <2>2
<1>6. PICK o \in ReadOutcome :
         req' = [req EXCEPT ![q].pc = "route",
                            ![q].sent = IF o = "ok" THEN TrimHistory(ListMessages(t))
                                                    ELSE <<UserMessage(q)>>]
  BY <1>3 DEF Load
<1>7. PICK z : z = IF o = "ok" THEN TrimHistory(ListMessages(t)) ELSE <<UserMessage(q)>>
  OBVIOUS
<1>8. PartOf(z, s)
  <2>1. CASE o = "ok"
    <3>1. ListMessages(t) \in Seq(Message) /\ ListMessages(t) # <<>>
      BY <1>1, <1>5, ListFacts
    <3>2. PICK l \in Seq(Message) : l = ListMessages(t) /\ l # <<>>
      BY <3>1
    <3>3. PartOf(TrimHistory(l), l)
      BY <3>2, TrimIsPart
    <3>4. PartOf(l, s)
      <4>1. thread[t] # <<>>
        BY <1>5
      <4>2. PartOf(ListMessages(t), thread[t])
        BY <1>1, <4>1, ListIsPart
      <4>3. QED
        BY <1>5, <3>2, <4>2
    <3>5. z = TrimHistory(l)
      BY <1>7, <2>1, <3>2
    <3>6. PartOf(TrimHistory(l), s)
      BY <3>3, <3>4 DEF PartOf
    <3>7. QED
      BY <3>5, <3>6
  <2>2. CASE o # "ok"
    <3>1. z = <<UserMessage(q)>>
      BY <1>7, <2>2
    <3>2. PICK m : m = UserMessage(q)
      OBVIOUS
    <3>3. DOMAIN <<m>> = {1} /\ <<m>>[1] = m
      OBVIOUS
    <3>4. k \in DOMAIN s /\ s[k] = m
      BY <1>4, <1>5, <3>2
    <3>5. PartOf(<<m>>, s)
      BY <3>3, <3>4 DEF PartOf
    <3>6. QED
      BY <3>1, <3>2, <3>5
  <2>3. QED
    BY <2>1, <2>2
<1>9. req' = [req EXCEPT ![q].pc = "route", ![q].sent = z]
  BY <1>6, <1>7
<1>10. \A p \in Request \ {q} : req'[p] = req[p]
  BY <1>1, <1>9
<1>11. req'[q].pc = "route" /\ req'[q].sent = z /\ req'[q].thread = t
  BY <1>1, <1>3, <1>9 DEF ChatRequest
<1>12. \A i \in DOMAIN z : SaidIn(t, z[i])'
  <2>1. SUFFICES ASSUME NEW i \in DOMAIN z PROVE SaidIn(t, z[i])'
    OBVIOUS
  <2>2. PICK j \in DOMAIN s : z[i] = s[j]
    BY <1>8 DEF PartOf
  <2>3. t \in DOMAIN thread' /\ j \in DOMAIN thread'[t] /\ thread'[t][j] = z[i]
    BY <1>2, <1>5, <2>2
  <2>4. QED
    BY <2>3 DEF SaidIn
<1>13. ContextOK(q)'
  BY <1>11, <1>12 DEF ContextOK, SaidIn
<1>14. QED
  BY <1>2, <1>10, <1>13, QuietStep

LEMMA RouteContext ==
  ASSUME ChatInv, ContextInv, NEW q \in Request, Route(q)
  PROVE  ContextStepTaken
<1>1. req \in [Request -> ChatRequest] /\ ContextOK(q)
  BY DEF ChatInv, ContextInv
<1>2. req[q].pc = "route" /\ thread' = thread
  BY DEF Route
<1>3. CASE Goto(q, "call")
  <2>1. PICK r \in ChatRequest : /\ req' = [req EXCEPT ![q] = r] /\ r.pc = "call"
                                 /\ r.thread = req[q].thread /\ r.sent = req[q].sent
    BY <1>3, GotoWrites
  <2>2. (\A p \in Request \ {q} : req'[p] = req[p]) /\ req'[q] = r
    BY <1>1, <2>1
  <2>3. /\ req'[q].pc = "call" /\ req'[q].thread = req[q].thread
        /\ req'[q].sent = req[q].sent
    BY <2>1, <2>2
  <2>4. Grows => ContextOK(q)'
    BY <1>1, <1>2, <2>3, ContextStays
  <2>5. QED
    BY <1>2, <2>2, <2>4, QuietStep
<1>4. CASE Answer(q, "error")
  BY <1>2, <1>4, AnsweredContext, QuietStep
<1>5. QED
  BY <1>3, <1>4 DEF Route

LEMMA CallContext ==
  ASSUME ChatInv, ContextInv, NEW q \in Request, Call(q)
  PROVE  ContextStepTaken
<1>1. /\ req \in [Request -> ChatRequest] /\ req[q] \in ChatRequest /\ TurnOK(q)
      /\ ContextOK(q) /\ WrittenOK
  BY DEF ChatInv, ContextInv
<1>2. req[q].pc = "call" /\ thread' = thread
  BY DEF Call
<1>3. PICK t \in DOMAIN thread : t = req[q].thread
  BY <1>1, <1>2 DEF TurnOK
<1>4. PICK s \in Seq(Message) : s = req[q].sent /\ s # <<>>
  <2>1. req[q].sent \in Seq(Message)
    BY <1>1, RequestFields
  <2>2. QED
    BY <1>1, <1>2, <2>1 DEF TurnOK
<1>5. PICK a \in IF req[q].kind = "pm" THEN CallChatCompletion(s) ELSE CallGenerate(q) :
         CASE a.is = "content" ->
                req' = [req EXCEPT ![q].asked = a.to, ![q].attempt = 0, ![q].pc = "store"]
           [] a.is = "transient" /\ req[q].attempt + 1 < MaxRetries ->
                req' = [req EXCEPT ![q].attempt = @ + 1]
           [] OTHER -> Answer(q, "error")
  BY <1>4 DEF Call
<1>6. CASE a.is = "content"
  <2>1. PICK to : to = a.to
    OBVIOUS
  <2>2. to = 0 \/ SaidIn(t, UserMessage(to))
    <3>1. CASE req[q].kind = "pm"
      <4>1. a \in CallChatCompletion(s)
        BY <1>5, <3>1
      <4>2. to = 0 \/ HasUser(s, to)
        BY <1>4, <1>6, <2>1, <4>1, AgentAnswersPart
      <4>3. ASSUME HasUser(s, to) PROVE SaidIn(t, UserMessage(to))
        <5>1. PICK i \in DOMAIN s : s[i].role = "user" /\ s[i].of = to
          BY <4>3 DEF HasUser
        <5>2. SaidIn(t, s[i])
          BY <1>1, <1>2, <1>3, <1>4, <5>1 DEF ContextOK
        <5>3. PICK j \in DOMAIN thread[t] : thread[t][j] = s[i]
          BY <5>2 DEF SaidIn
        <5>4. thread[t][j] = UserMessage(to)
          BY <1>1, <1>3, <5>1, <5>3 DEF WrittenOK
        <5>5. QED
          BY <1>3, <5>3, <5>4 DEF SaidIn
      <4>4. QED
        BY <4>2, <4>3
    <3>2. CASE req[q].kind # "pm"
      <4>1. a \in CallGenerate(q)
        BY <1>5, <3>2
      <4>2. to = q
        BY <1>6, <2>1, <4>1 DEF CallGenerate, Content, Failure
      <4>3. AskedIn(t, q)
        BY <1>1, <1>2, <1>3 DEF TurnOK
      <4>4. QED
        BY <1>3, <4>2, <4>3 DEF AskedIn, SaidIn
    <3>3. QED
      BY <3>1, <3>2
  <2>3. req' = [req EXCEPT ![q].asked = to, ![q].attempt = 0, ![q].pc = "store"]
    BY <1>5, <1>6, <2>1
  <2>4. \A p \in Request \ {q} : req'[p] = req[p]
    BY <1>1, <2>3
  <2>5. req'[q].pc = "store" /\ req'[q].asked = to /\ req'[q].thread = t
    BY <1>1, <1>3, <2>3 DEF ChatRequest
  <2>6. to = 0 \/ SaidIn(t, UserMessage(to))'
    BY <1>2, <2>2 DEF SaidIn, UserMessage
  <2>7. ContextOK(q)'
    BY <2>5, <2>6 DEF ContextOK, SaidIn, UserMessage
  <2>8. QED
    BY <1>2, <2>4, <2>7, QuietStep
<1>7. CASE a.is = "transient" /\ req[q].attempt + 1 < MaxRetries
  <2>1. req' = [req EXCEPT ![q].attempt = @ + 1]
    BY <1>5, <1>7
  <2>2. PICK n : n = req[q].attempt + 1
    OBVIOUS
  <2>3. req' = [req EXCEPT ![q].attempt = n]
    BY <1>1, <2>1, <2>2
  <2>4. \A p \in Request \ {q} : req'[p] = req[p]
    BY <1>1, <2>3
  <2>5. /\ req'[q].pc = req[q].pc /\ req'[q].thread = req[q].thread
        /\ req'[q].sent = req[q].sent
    BY <1>1, <2>3 DEF ChatRequest
  <2>6. Grows => ContextOK(q)'
    BY <1>1, <1>2, <2>5, ContextStays
  <2>7. QED
    BY <1>2, <2>4, <2>6, QuietStep
<1>8. CASE a.is # "content" /\ ~(a.is = "transient" /\ req[q].attempt + 1 < MaxRetries)
  <2>1. Answer(q, "error")
    BY <1>5, <1>8
  <2>2. QED
    BY <1>2, <2>1, AnsweredContext, QuietStep
<1>9. QED
  BY <1>6, <1>7, <1>8

LEMMA StoreContext ==
  ASSUME ChatInv, ContextInv, NEW q \in Request, Store(q)
  PROVE  ContextStepTaken
<1>1. /\ req \in [Request -> ChatRequest] /\ TurnOK(q) /\ thread \in Seq(Seq(Message))
      /\ ContextOK(q) /\ RepliesFollowQuestions
  BY DEF ChatInv, ContextInv
<1>2. req[q].pc = "store" /\ Answer(q, "ok") /\ req[q].answer = "none"
  BY <1>1 DEF Store, TurnOK
<1>3. PICK t \in DOMAIN thread : t = req[q].thread
  BY <1>1, <1>2 DEF TurnOK
<1>4. PICK o \in Outcome : AppendMessage(t, Reply(q), o)
  BY <1>3 DEF Store
<1>5. (\A p \in Request \ {q} : req'[p] = req[p]) /\ ContextOK(q)'
  BY <1>2, AnsweredContext
<1>6. PICK to \in {0} \cup Request : to = req[q].asked
  BY <1>1, RequestFields
<1>7. PICK m \in Message : m = Reply(q) /\ m.role = "assistant" /\ m = CV!ReplyOf(q, to)
  <2>1. Reply(q) \in Message /\ Reply(q).role = "assistant"
    BY <1>6 DEF Reply, Message
  <2>2. Reply(q) = CV!ReplyOf(q, to)
    BY <1>6 DEF Reply, CV!ReplyOf
  <2>3. QED
    BY <2>1, <2>2
<1>8. CASE o = "fail"
  <2>1. thread' = thread
    BY <1>4, <1>8 DEF AppendMessage
  <2>2. QED
    BY <1>5, <2>1, QuietStep
<1>9. CASE o # "fail"
  <2>1. thread' = [thread EXCEPT ![t] = Append(@, m)]
    BY <1>4, <1>7, <1>9 DEF AppendMessage
  <2>2. Said(m)
    BY <1>7 DEF Said
  <2>3. ThreadStep
    BY <2>1, <2>2 DEF ThreadStep
  <2>4. ContextInv'
    BY <1>5, <2>3, ContextStep
  <2>5. CV!Asked(q, t)
    <3>1. AskedIn(t, q)
      BY <1>1, <1>2, <1>3 DEF TurnOK
    <3>2. QED
      BY <3>1 DEF AskedIn, CV!Asked, CV!Question, UserMessage
  <2>6. ~CV!Stored(q, "assistant")
    <3>1. SUFFICES ASSUME NEW u \in DOMAIN thread, NEW i \in DOMAIN thread[u],
                          thread[u][i].of = q, thread[u][i].role = "assistant"
                   PROVE  FALSE
      BY DEF CV!Stored
    <3>2. req[q].answer = "ok"
      BY <1>1, <3>1 DEF RepliesFollowQuestions
    <3>3. QED
      BY <1>2, <3>2
  <2>7. to # 0 => CV!Asked(to, t)
    <3>1. SUFFICES ASSUME to # 0 PROVE CV!Asked(to, t)
      OBVIOUS
    <3>2. SaidIn(t, UserMessage(to))
      BY <1>1, <1>2, <1>3, <1>6, <3>1 DEF ContextOK
    <3>3. QED
      BY <3>2 DEF SaidIn, CV!Asked, CV!Question, UserMessage
  <2>8. CV!Add(t, CV!ReplyOf(q, to))
    BY <1>7, <2>1 DEF CV!Add
  <2>9. CV!Answer(q, t)
    BY <1>6, <2>5, <2>6, <2>7, <2>8 DEF CV!Answer
  <2>10. CV!Next
    BY <1>3, <2>9 DEF CV!Next
  <2>11. QED
    BY <2>4, <2>10 DEF ContextStepTaken
<1>10. QED
  BY <1>8, <1>9

(***************************************************************************)
(* The chat implements Conversation, for any number of requests in flight, *)
(* any faults of the store and any retries: threads only grow, questions   *)
(* and replies are stored once and in the same thread, and what an agent   *)
(* replies to was said in that thread (ChatCompletions, AppendChatMessage, *)
(* ListChatMessages, trimHistoryToCharBudget, resolveContent).             *)
(***************************************************************************)
THEOREM ChatRefinement == Spec => ImplementsConversation
<1>1. Init => ContextInv /\ CV!Init
  <2>1. SUFFICES ASSUME Init PROVE ContextInv /\ CV!Init
    OBVIOUS
  <2>2. DOMAIN thread = {}
    <3>1. PICK e \in Seq(Seq(Message)) : e = <<>> /\ e = thread
      <4>1. <<>> \in Seq(Seq(Message))
        OBVIOUS
      <4>2. QED
        BY <2>1, <4>1 DEF Init
    <3>2. Len(e) = 0
      BY <3>1
    <3>3. DOMAIN e = {}
      BY <3>2
    <3>4. QED
      BY <3>1, <3>3
  <2>3. \A q \in Request : req[q].pc = "idle"
    BY <2>1 DEF Init, Idle
  <2>4. ContextInv
    BY <2>2, <2>3 DEF ContextInv, WrittenOK, ContextOK
  <2>5. CV!Init
    BY <2>1 DEF Init, CV!Init
  <2>6. QED
    BY <2>4, <2>5
<1>2. ChatInv /\ ContextInv /\ [Next]_vars => ContextStepTaken
  <2>1. SUFFICES ASSUME ChatInv, ContextInv, [Next]_vars PROVE ContextStepTaken
    OBVIOUS
  <2>2. ASSUME NEW q \in Request, Arrive(q) \/ Handle(q) PROVE ContextStepTaken
    BY <2>1, <2>2, ArriveContext, FindContext, CreateContext, AppendUserContext, LoadContext,
       RouteContext, CallContext, StoreContext DEF Handle
  <2>3. CASE Lapse \/ UNCHANGED vars
    <3>1. UNCHANGED <<thread, req>>
      BY <2>3 DEF Lapse, vars
    <3>2. ThreadStep
      BY <3>1 DEF ThreadStep
    <3>3. Grows /\ WrittenOK'
      BY <2>1, <3>2, ThreadsGrow DEF ChatInv, ContextInv
    <3>4. \A q \in Request : ContextOK(q)'
      BY <2>1, <3>1, <3>3, ContextStays DEF ContextInv
    <3>5. UNCHANGED CV!vars
      BY <3>1 DEF CV!vars
    <3>6. QED
      BY <3>3, <3>4, <3>5 DEF ContextInv, ContextStepTaken
  <2>4. QED
    BY <2>1, <2>2, <2>3 DEF Next
<1>3. ChatInv /\ ContextInv /\ [Next]_vars => ContextInv' /\ [CV!Next]_(CV!vars)
  BY <1>2 DEF ContextStepTaken
<1>4. QED
  BY <1>1, <1>3, ChatInvariant, PTL DEF Spec, ImplementsConversation, CV!Spec

-----------------------------------------------------------------------------
(* Chat: bounds and types *)

\* Requests that are past the choice of their thread.
Past == {q \in Request : req[q].pc \notin Resolving}

LEMMA PastFacts ==
  /\ IsFiniteSet(Past) /\ Cardinality(Past) \in Nat /\ Cardinality(Past) <= MaxRequests
  /\ IsFiniteSet(Request)
<1>1. MaxRequests \in Nat
  BY ChatAssumption
<1>2. IsFiniteSet(Request) /\ Cardinality(Request) = MaxRequests
  <2>1. IsFiniteSet(1 .. MaxRequests) /\ Cardinality(1 .. MaxRequests) =
           IF 1 > MaxRequests THEN 0 ELSE MaxRequests - 1 + 1
    BY <1>1, FS_Interval
  <2>2. QED
    BY <1>1, <2>1 DEF Request
<1>3. Past \subseteq Request
  BY DEF Past
<1>4. IsFiniteSet(Past) /\ Cardinality(Past) <= Cardinality(Request)
  BY <1>2, <1>3, FS_Subset
<1>5. Cardinality(Past) \in Nat
  BY <1>4, FS_CardinalityType
<1>6. QED
  BY <1>2, <1>4, <1>5

\* A step of request q: a thread is made by a request that is past it from then on.
LEMMA BoundsStep ==
  ASSUME ChatInv, ChatBounds, NEW q \in Request,
         \A p \in Request \ {q} : req'[p] = req[p],
         arrived' <= MaxRequests,
         req'[q].attempt < MaxRetries, req'[q].thread <= Len(thread'),
         \/ /\ Len(thread') = Len(thread)
            /\ req[q].pc \notin Resolving => req'[q].pc \notin Resolving
         \/ /\ Len(thread') = Len(thread) + 1
            /\ req[q].pc \in Resolving /\ req'[q].pc \notin Resolving
  PROVE  ChatBounds'
<1>1. thread \in Seq(Seq(Message)) /\ req \in [Request -> ChatRequest]
  BY DEF ChatInv
<1>2. Len(thread) \in Nat /\ Len(thread') \in Nat /\ Len(thread) <= Len(thread')
  BY <1>1
<1>3. /\ IsFiniteSet(Past) /\ Cardinality(Past) \in Nat /\ Len(thread) <= Cardinality(Past)
      /\ IsFiniteSet(Request)
  BY PastFacts DEF ChatBounds, Past
<1>4. PICK P : P = {p \in Request : req'[p].pc \notin Resolving}
  OBVIOUS
<1>5. IsFiniteSet(P) /\ Cardinality(P) \in Nat
  BY <1>3, <1>4, FS_Subset, FS_CardinalityType
<1>6. Len(thread') <= Cardinality(P)
  <2>1. CASE /\ Len(thread') = Len(thread)
             /\ req[q].pc \notin Resolving => req'[q].pc \notin Resolving
    <3>1. Past \subseteq P
      BY <1>4, <2>1 DEF Past
    <3>2. Cardinality(Past) <= Cardinality(P)
      BY <1>5, <3>1, FS_Subset
    <3>3. QED
      BY <1>2, <1>3, <1>5, <2>1, <3>2
  <2>2. CASE /\ Len(thread') = Len(thread) + 1
             /\ req[q].pc \in Resolving /\ req'[q].pc \notin Resolving
    <3>1. q \notin Past /\ P = Past \cup {q}
      BY <1>4, <2>2 DEF Past
    <3>2. Cardinality(Past \cup {q}) = Cardinality(Past) + 1
      BY <1>3, <3>1, FS_AddElement
    <3>3. QED
      BY <1>2, <1>3, <1>5, <2>2, <3>1, <3>2
  <2>3. QED
    BY <2>1, <2>2
<1>7. ASSUME NEW p \in Request PROVE req'[p].attempt < MaxRetries /\ req'[p].thread <= Len(thread')
  <2>1. CASE p = q
    BY <2>1
  <2>2. CASE p # q
    <3>1. req[p].thread \in Nat /\ req[p].thread <= Len(thread) /\ req[p].attempt < MaxRetries
      BY <1>1, RequestFields DEF ChatBounds
    <3>2. QED
      BY <1>2, <2>2, <3>1
  <2>3. QED
    BY <2>1, <2>2
<1>8. QED
  BY <1>4, <1>6, <1>7 DEF ChatBounds, Resolving

\* What is left of a request that is answered.
LEMMA AnsweredFields ==
  ASSUME ChatInv, NEW q \in Request, NEW answer, Answer(q, answer)
  PROVE  /\ \A p \in Request \ {q} : req'[p] = req[p]
         /\ req'[q].pc = "done" /\ req'[q].attempt = 0 /\ req'[q].thread = 0
<1>1. req \in [Request -> ChatRequest]
  BY DEF ChatInv
<1>2. /\ \A p \in Request \ {q} : req'[p] = req[p]
      /\ req'[q] = [Idle EXCEPT !.pc = "done", !.answer = answer]
  BY <1>1 DEF Answer
<1>3. PICK r : r = [Idle EXCEPT !.pc = "done", !.answer = answer]
  OBVIOUS
<1>4. r.pc = "done" /\ r.attempt = 0 /\ r.thread = 0
  BY <1>3 DEF Idle
<1>5. QED
  BY <1>2, <1>3, <1>4

LEMMA GotoFields ==
  ASSUME ChatInv, NEW q \in Request, NEW pc, Goto(q, pc)
  PROVE  /\ \A p \in Request \ {q} : req'[p] = req[p]
         /\ req'[q].pc = pc /\ req'[q].attempt = req[q].attempt /\ req'[q].thread = req[q].thread
<1>1. req \in [Request -> ChatRequest] /\ req[q] \in ChatRequest
  BY DEF ChatInv
<1>2. QED
  BY <1>1 DEF Goto, ChatRequest

LEMMA ResolvedFields ==
  ASSUME ChatInv, ChatBounds, NEW q \in Request, NEW t \in Nat, Resolved(q, t)
  PROVE  /\ \A p \in Request \ {q} : req'[p] = req[p]
         /\ req'[q].pc \in {"append", "done"} /\ req'[q].attempt < MaxRetries
         /\ req'[q].thread \in {0, t}
<1>1. req \in [Request -> ChatRequest] /\ req[q] \in ChatRequest /\ 0 < MaxRetries
  BY ChatAssumption DEF ChatInv
<1>2. CASE req[q].kind = "newThread"
  BY <1>1, <1>2, AnsweredFields DEF Resolved
<1>3. CASE req[q].kind = "noUser"
  BY <1>1, <1>3, AnsweredFields DEF Resolved
<1>4. CASE req[q].kind \notin {"newThread", "noUser"}
  <2>1. req' = [req EXCEPT ![q].thread = t, ![q].pc = "append"]
    BY <1>4 DEF Resolved
  <2>2. /\ \A p \in Request \ {q} : req'[p] = req[p]
        /\ req'[q].pc = "append" /\ req'[q].attempt = req[q].attempt /\ req'[q].thread = t
    BY <1>1, <2>1 DEF ChatRequest
  <2>3. QED
    BY <2>2 DEF ChatBounds
<1>5. QED
  BY <1>2, <1>3, <1>4

\* A request that is answered, or goes on, and leaves the threads as long as they are.
LEMMA BoundsKept ==
  ASSUME ChatInv, ChatBounds, NEW q \in Request,
         Len(thread') = Len(thread), arrived' = arrived,
         \/ \E answer : Answer(q, answer)
         \/ \E pc : Goto(q, pc) /\ (pc \in Resolving => req[q].pc \in Resolving)
  PROVE  ChatBounds'
<1>1. /\ 0 < MaxRetries /\ Len(thread) \in Nat /\ arrived <= MaxRequests
      /\ req[q].attempt < MaxRetries /\ req[q].thread <= Len(thread)
  <2>1. thread \in Seq(Seq(Message)) /\ MaxRetries \in Nat \ {0}
    BY ChatAssumption DEF ChatInv
  <2>2. QED
    BY <2>1 DEF ChatBounds
<1>2. ASSUME NEW answer, Answer(q, answer) PROVE ChatBounds'
  <2>1. /\ \A p \in Request \ {q} : req'[p] = req[p]
        /\ req'[q].pc = "done" /\ req'[q].attempt = 0 /\ req'[q].thread = 0
    BY <1>2, AnsweredFields
  <2>2. /\ req'[q].attempt < MaxRetries /\ req'[q].thread <= Len(thread')
        /\ req'[q].pc \notin Resolving /\ arrived' <= MaxRequests
    BY <1>1, <2>1 DEF Resolving
  <2>3. QED
    BY <2>1, <2>2, BoundsStep
<1>3. ASSUME NEW pc, Goto(q, pc), pc \in Resolving => req[q].pc \in Resolving
      PROVE  ChatBounds'
  <2>1. /\ \A p \in Request \ {q} : req'[p] = req[p]
        /\ req'[q].pc = pc /\ req'[q].attempt = req[q].attempt /\ req'[q].thread = req[q].thread
    BY <1>3, GotoFields
  <2>2. /\ req'[q].attempt < MaxRetries /\ req'[q].thread <= Len(thread')
        /\ req[q].pc \notin Resolving => req'[q].pc \notin Resolving
        /\ arrived' <= MaxRequests
    BY <1>1, <1>3, <2>1
  <2>3. QED
    BY <2>1, <2>2, BoundsStep
<1>4. QED
  BY <1>2, <1>3

LEMMA ChatBoundsStep ==
  ASSUME ChatInv, ChatBounds, NEW q \in Request, Arrive(q) \/ Handle(q)
  PROVE  ChatBounds'
<1>1. /\ req \in [Request -> ChatRequest] /\ req[q] \in ChatRequest /\ TurnOK(q)
      /\ thread \in Seq(Seq(Message)) /\ Len(thread) \in Nat
      /\ latest \in Nat /\ latest <= Len(thread) /\ MaxRetries \in Nat \ {0}
  <2>1. thread \in Seq(Seq(Message)) /\ latest \in 0 .. Len(thread)
    BY DEF ChatInv
  <2>2. QED
    BY <2>1, ChatAssumption DEF ChatInv
<1>2. /\ arrived <= MaxRequests /\ req[q].attempt < MaxRetries
      /\ req[q].thread \in Nat /\ req[q].thread <= Len(thread)
  BY <1>1, RequestFields DEF ChatBounds
<1>3. CASE Arrive(q)
  <2>1. PICK kind \in Kind :
           req' = [req EXCEPT ![q].kind = kind,
                              ![q].pc = IF kind = "newThread" THEN "create" ELSE "find"]
    BY <1>3 DEF Arrive
  <2>2. PICK pc \in {"create", "find"} : req' = [req EXCEPT ![q].kind = kind, ![q].pc = pc]
    BY <2>1
  <2>3. /\ \A p \in Request \ {q} : req'[p] = req[p]
        /\ req'[q].attempt = req[q].attempt /\ req'[q].thread = req[q].thread
    BY <1>1, <2>2 DEF ChatRequest
  <2>4. req[q].pc \in Resolving
    <3>1. q = arrived + 1 /\ arrived \in Nat /\ FlightOK
      BY <1>3 DEF Arrive, ChatInv
    <3>2. q > arrived
      BY <3>1
    <3>3. req[q] = Idle
      BY <3>1, <3>2 DEF FlightOK
    <3>4. QED
      BY <3>3 DEF Idle, Resolving
  <2>5. arrived' <= MaxRequests
    BY <1>3, ChatAssumption DEF Arrive, Request
  <2>6. thread' = thread
    BY <1>3 DEF Arrive
  <2>7. Len(thread') = Len(thread)
    BY <2>6
  <2>8. req'[q].attempt < MaxRetries /\ req'[q].thread <= Len(thread')
    BY <1>2, <2>3, <2>7
  <2>9. QED
    BY <2>3, <2>4, <2>5, <2>7, <2>8, BoundsStep
<1>4. CASE Find(q)
  <2>1. thread' = thread /\ arrived' = arrived /\ req[q].pc = "find"
    BY <1>4 DEF Find
  <2>2. Len(thread') = Len(thread)
    BY <2>1
  <2>3. CASE Resolved(q, latest)
    <3>1. /\ \A p \in Request \ {q} : req'[p] = req[p]
          /\ req'[q].pc \in {"append", "done"} /\ req'[q].attempt < MaxRetries
          /\ req'[q].thread \in {0, latest}
      BY <1>1, <2>3, ResolvedFields
    <3>2. req'[q].thread <= Len(thread') /\ arrived' <= MaxRequests
      BY <1>1, <1>2, <2>1, <2>2, <3>1
    <3>3. req'[q].pc \notin Resolving
      BY <3>1 DEF Resolving
    <3>4. QED
      BY <2>2, <3>1, <3>2, <3>3, BoundsStep
  <2>4. CASE Goto(q, "create")
    <3>1. req[q].pc \in Resolving
      BY <2>1 DEF Resolving
    <3>2. QED
      BY <2>1, <2>2, <2>4, <3>1, BoundsKept
  <2>5. QED
    BY <1>4, <2>3, <2>4 DEF Find
<1>5. CASE Create(q)
  <2>1. PICK o \in Outcome :
           /\ CreateThread(o)
           /\ IF o = "ok" THEN Resolved(q, Len(thread) + 1) ELSE Answer(q, "error")
    BY <1>5 DEF Create
  <2>2. req[q].pc = "create" /\ arrived' = arrived
    BY <1>5 DEF Create
  <2>3. CASE o = "fail"
    <3>1. thread' = thread /\ Answer(q, "error")
      BY <2>1, <2>3 DEF CreateThread
    <3>2. Len(thread') = Len(thread)
      BY <3>1
    <3>3. QED
      BY <2>2, <3>1, <3>2, BoundsKept
  <2>4. CASE o # "fail"
    <3>1. thread' = Append(thread, <<>>)
      BY <2>1, <2>4 DEF CreateThread
    <3>2. Len(thread') = Len(thread) + 1
      BY <1>1, <3>1, CreatedFacts
    <3>3. PICK n \in Nat : n = Len(thread) + 1
      BY <1>1
    <3>4. /\ \A p \in Request \ {q} : req'[p] = req[p]
          /\ req'[q].pc \in {"append", "done"} /\ req'[q].attempt < MaxRetries
          /\ req'[q].thread \in {0, n}
      <4>1. CASE o = "ok"
        <5>1. Resolved(q, n)
          BY <2>1, <3>3, <4>1
        <5>2. QED
          BY <5>1, ResolvedFields
      <4>2. CASE o # "ok"
        <5>1. Answer(q, "error")
          BY <2>1, <4>2
        <5>2. /\ \A p \in Request \ {q} : req'[p] = req[p]
              /\ req'[q].pc = "done" /\ req'[q].attempt = 0 /\ req'[q].thread = 0
          BY <5>1, AnsweredFields
        <5>3. QED
          BY <1>1, <5>2
      <4>3. QED
        BY <4>1, <4>2
    <3>5. req'[q].thread <= Len(thread') /\ arrived' <= MaxRequests
      BY <1>1, <1>2, <2>2, <3>2, <3>3, <3>4
    <3>6. req[q].pc \in Resolving /\ req'[q].pc \notin Resolving
      BY <2>2, <3>4 DEF Resolving
    <3>7. QED
      BY <3>2, <3>4, <3>5, <3>6, BoundsStep
  <2>5. QED
    BY <2>3, <2>4
<1>6. ASSUME NEW t \in DOMAIN thread, NEW m \in Message, NEW o \in Outcome, AppendMessage(t, m, o)
      PROVE  Len(thread') = Len(thread)
  <2>1. CASE o = "fail"
    BY <1>6, <2>1 DEF AppendMessage
  <2>2. CASE o # "fail"
    <3>1. thread' = [thread EXCEPT ![t] = Append(@, m)]
      BY <1>6, <2>2 DEF AppendMessage
    <3>2. QED
      BY <1>1, <3>1, AppendedFacts
  <2>3. QED
    BY <2>1, <2>2
<1>7. CASE AppendUser(q)
  <2>1. PICK t \in DOMAIN thread : t = req[q].thread
    BY <1>1, <1>7 DEF TurnOK, AppendUser
  <2>2. PICK o \in Outcome :
           /\ AppendMessage(t, UserMessage(q), o)
           /\ IF o = "ok" THEN Goto(q, "load") ELSE Answer(q, "error")
    BY <1>7, <2>1 DEF AppendUser
  <2>3. UserMessage(q) \in Message
    BY DEF UserMessage, Message
  <2>4. Len(thread') = Len(thread)
    BY <1>6, <2>2, <2>3
  <2>5. arrived' = arrived
    BY <1>7 DEF AppendUser
  <2>6. "load" \notin Resolving
    BY DEF Resolving
  <2>7. QED
    BY <2>2, <2>4, <2>5, <2>6, BoundsKept
<1>8. CASE Store(q)
  <2>1. PICK t \in DOMAIN thread : t = req[q].thread
    BY <1>1, <1>8 DEF TurnOK, Store
  <2>2. PICK o \in Outcome : AppendMessage(t, Reply(q), o)
    BY <1>8, <2>1 DEF Store
  <2>3. Reply(q) \in Message
    BY <1>1, RequestFields DEF Reply, Message
  <2>4. Len(thread') = Len(thread)
    BY <1>6, <2>2, <2>3
  <2>5. arrived' = arrived /\ Answer(q, "ok")
    BY <1>8 DEF Store
  <2>6. QED
    BY <2>4, <2>5, BoundsKept
<1>9. CASE Load(q)
  <2>1. thread' = thread /\ arrived' = arrived
    BY <1>9 DEF Load
  <2>2. PICK z : req' = [req EXCEPT ![q].pc = "route", ![q].sent = z]
    BY <1>9 DEF Load
  <2>3. /\ \A p \in Request \ {q} : req'[p] = req[p]
        /\ req'[q].pc = "route" /\ req'[q].attempt = req[q].attempt
        /\ req'[q].thread = req[q].thread
    BY <1>1, <2>2 DEF ChatRequest
  <2>4. Len(thread') = Len(thread) /\ req'[q].pc \notin Resolving
    BY <2>1, <2>3 DEF Resolving
  <2>5. QED
    BY <1>2, <2>1, <2>3, <2>4, BoundsStep
<1>10. CASE Route(q)
  <2>1. thread' = thread /\ arrived' = arrived /\ (Goto(q, "call") \/ Answer(q, "error"))
    BY <1>10 DEF Route
  <2>2. Len(thread') = Len(thread) /\ "call" \notin Resolving
    BY <2>1 DEF Resolving
  <2>3. QED
    BY <2>1, <2>2, BoundsKept
<1>11. CASE Call(q)
  <2>1. thread' = thread /\ arrived' = arrived
    BY <1>11 DEF Call
  <2>2. Len(thread') = Len(thread)
    BY <2>1
  <2>3. req[q].pc = "call" /\ req[q].pc \notin Resolving
    BY <1>11 DEF Call, Resolving
  <2>4. \/ \E to : req' = [req EXCEPT ![q].asked = to, ![q].attempt = 0, ![q].pc = "store"]
        \/ req[q].attempt + 1 < MaxRetries /\ req' = [req EXCEPT ![q].attempt = @ + 1]
        \/ Answer(q, "error")
    BY <1>11 DEF Call
  <2>5. ASSUME NEW to, req' = [req EXCEPT ![q].asked = to, ![q].attempt = 0, ![q].pc = "store"]
        PROVE  ChatBounds'
    <3>1. /\ \A p \in Request \ {q} : req'[p] = req[p]
          /\ req'[q].pc = "store" /\ req'[q].attempt = 0 /\ req'[q].thread = req[q].thread
      BY <1>1, <2>5 DEF ChatRequest
    <3>2. req'[q].pc \notin Resolving /\ req'[q].attempt < MaxRetries
      BY <1>1, <3>1 DEF Resolving
    <3>3. QED
      BY <1>2, <2>1, <2>2, <3>1, <3>2, BoundsStep
  <2>6. CASE req[q].attempt + 1 < MaxRetries /\ req' = [req EXCEPT ![q].attempt = @ + 1]
    <3>1. PICK n : n = req[q].attempt + 1
      OBVIOUS
    <3>2. req' = [req EXCEPT ![q].attempt = n]
      BY <1>1, <2>6, <3>1
    <3>3. /\ \A p \in Request \ {q} : req'[p] = req[p]
          /\ req'[q].pc = req[q].pc /\ req'[q].attempt = n /\ req'[q].thread = req[q].thread
      BY <1>1, <3>2 DEF ChatRequest
    <3>4. QED
      BY <1>2, <2>1, <2>2, <2>3, <2>6, <3>1, <3>3, BoundsStep
  <2>7. CASE Answer(q, "error")
    BY <2>1, <2>2, <2>7, BoundsKept
  <2>8. QED
    BY <2>4, <2>5, <2>6, <2>7
<1>12. QED
  BY <1>3, <1>4, <1>5, <1>7, <1>8, <1>9, <1>10, <1>11 DEF Handle

(***************************************************************************)
(* Threads, messages and requests keep their types and bounds: no request  *)
(* makes more than one thread or retries beyond chatCompletionMaxRetries,  *)
(* however requests overlap and whichever calls fail.                      *)
(***************************************************************************)
THEOREM ChatTypes == Spec => []TypeOK
<1>1. Init => ChatBounds
  <2>1. SUFFICES ASSUME Init PROVE ChatBounds
    OBVIOUS
  <2>2. Len(thread) = 0 /\ arrived = 0
    BY <2>1 DEF Init
  <2>3. \A q \in Request : req[q].attempt = 0 /\ req[q].thread = 0
    BY <2>1 DEF Init, Idle
  <2>4. Cardinality(Past) \in Nat
    BY PastFacts
  <2>5. QED
    BY <2>2, <2>3, <2>4, ChatAssumption DEF ChatBounds, Past
<1>2. ChatInv /\ ChatBounds /\ [Next]_vars => ChatBounds'
  <2>1. SUFFICES ASSUME ChatInv, ChatBounds, [Next]_vars PROVE ChatBounds'
    OBVIOUS
  <2>2. ASSUME NEW q \in Request, Arrive(q) \/ Handle(q) PROVE ChatBounds'
    BY <2>1, <2>2, ChatBoundsStep
  <2>3. CASE Lapse \/ UNCHANGED vars
    <3>1. UNCHANGED <<thread, req, arrived>>
      BY <2>3 DEF Lapse, vars
    <3>2. QED
      BY <2>1, <3>1 DEF ChatBounds, Resolving
  <2>4. QED
    BY <2>1, <2>2, <2>3 DEF Next
<1>3. ChatInv /\ ChatBounds => TypeOK
  <2>1. SUFFICES ASSUME ChatInv, ChatBounds PROVE TypeOK
    OBVIOUS
  <2>2. /\ thread \in Seq(Seq(Message)) /\ latest \in 0 .. Len(thread) /\ active \in BOOLEAN
        /\ raced \subseteq Request /\ arrived \in Nat
    BY <2>1 DEF ChatInv
  <2>3. MaxRequests \in Nat /\ MaxRetries \in Nat
    BY ChatAssumption
  <2>4. Len(thread) <= MaxRequests
    <3>1. Cardinality(Past) \in Nat /\ Cardinality(Past) <= MaxRequests /\ Len(thread) \in Nat
      BY <2>2, PastFacts
    <3>2. Len(thread) <= Cardinality(Past)
      BY <2>1 DEF ChatBounds, Past
    <3>3. QED
      BY <2>3, <3>1, <3>2
  <2>5. ASSUME NEW q \in Request PROVE req[q] \in RequestState
    <3>1. req[q] \in ChatRequest /\ req[q].attempt < MaxRetries /\ req[q].thread <= Len(thread)
      BY <2>1 DEF ChatInv, ChatBounds
    <3>2. req[q].attempt \in Nat /\ req[q].thread \in Nat
      BY <3>1, RequestFields
    <3>3. req[q].attempt \in 0 .. MaxRetries - 1
      BY <2>3, <3>1, <3>2
    <3>4. req[q].thread \in {0} \cup Request
      BY <2>2, <2>3, <2>4, <3>1, <3>2 DEF Request
    <3>5. QED
      BY <3>1, <3>3, <3>4 DEF ChatRequest, RequestState
  <2>6. req \in [Request -> RequestState]
    BY <2>1, <2>5 DEF ChatInv
  <2>7. latest \in {0} \cup DOMAIN thread /\ arrived \in 0 .. MaxRequests
    BY <2>1, <2>2, <2>3 DEF ChatBounds
  <2>8. QED
    BY <2>2, <2>4, <2>6, <2>7 DEF TypeOK
<1>4. QED
  BY <1>1, <1>2, <1>3, ChatInvariant, PTL DEF Spec
=============================================================================
