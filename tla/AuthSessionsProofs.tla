------------------------ MODULE AuthSessionsProofs --------------------------
(***************************************************************************)
(* Proofs about refresh sessions for every number of accounts, overlapping *)
(* requests, sessions and faults, and about the login rate limiter for     *)
(* every limit, window and number of addresses.                            *)
(***************************************************************************)
EXTENDS AuthSessions, RateLimiter, FiniteSetTheorems, TLAPS

-----------------------------------------------------------------------------
(* Type correctness *)

\* Moving a request to its next call keeps it well typed.
LEMMA GotoType ==
    ASSUME TypeOK, NEW r \in Request, NEW pc,
           pc \in {"loginCredential", "loginCreate", "refreshInvalidate", "refreshUser",
                   "refreshCreate", "logoutInvalidate", "revokeAll"},
           Goto(r, pc)
    PROVE  req' \in [Request -> RequestState]
BY DEF TypeOK, Goto, RequestState

\* Answering a request keeps it well typed.
LEMMA AnswerType ==
    ASSUME TypeOK, NEW r \in Request, Answer(r)
    PROVE  req' \in [Request -> RequestState]
<1>1. Idle \in RequestState
  BY AccountAssumption DEF Idle, RequestState
<1>2. QED
  BY <1>1 DEF TypeOK, Answer

\* A new request is well typed.
LEMMA BeginType ==
    ASSUME TypeOK, NEW r \in Request, NEW u \in User, NEW s \in {0} \cup Session,
           NEW pc \in {"loginUser", "refreshGet", "logoutGet", "revokeUser"},
           Begin(r, pc, u, s)
    PROVE  req' \in [Request -> RequestState]
<1>1. [pc |-> pc, user |-> u, token |-> s] \in RequestState
  BY DEF RequestState
<1>2. QED
  BY <1>1 DEF TypeOK, Begin

\* Ending sessions keeps the table well typed.
LEMMA InvalidateType ==
    ASSUME TypeOK, NEW S, Invalidate(S)
    PROVE  sess' \in [Session -> SessionRow]
<1>1. ASSUME NEW s \in Session PROVE [sess[s] EXCEPT !.state = "ended"] \in SessionRow
  BY DEF TypeOK, SessionRow
<1>2. QED
  BY <1>1 DEF TypeOK, Invalidate

\* A new session row is well typed.
LEMMA CreateType ==
    ASSUME TypeOK, NEW r \in Request, NEW o, NEW parent \in {0} \cup Session,
           CreateSession(r, o, parent)
    PROVE  /\ sess' \in [Session -> SessionRow]
           /\ minted' \in 0 .. MaxSessions
<1> USE AuthSettingsAssumption
<1> DEFINE root == IF parent = 0 THEN minted + 1 ELSE sess[parent].root
           new == [state |-> "active", user |-> req[r].user,
                   expires |-> now + RefreshTTL, known |-> o = "ok",
                   parent |-> parent, root |-> root]
<1>1. minted + 1 \in Session /\ minted' = minted + 1
  BY DEF TypeOK, CreateSession, Session
<1>2. root \in {0} \cup Session
  BY <1>1 DEF TypeOK, SessionRow
<1>3. req[r].user \in User /\ now + RefreshTTL \in Nat /\ (o = "ok") \in BOOLEAN
  BY DEF TypeOK, RequestState
<1>4. sess' = [sess EXCEPT ![minted + 1] = new]
  BY DEF CreateSession
<1>5. new \in SessionRow
  <2> HIDE DEF root
  <2>1. QED
    BY <1>2, <1>3 DEF SessionRow
<1> HIDE DEF new
<1>6. QED
  BY <1>1, <1>4, <1>5 DEF TypeOK, Session

\* Empty tables are well typed.
LEMMA InitType == Init => TypeOK
<1> SUFFICES ASSUME Init PROVE TypeOK
  OBVIOUS
<1> USE AccountAssumption, AuthSettingsAssumption
<1>1. Idle \in RequestState
  BY DEF Idle, RequestState
<1>2. [state |-> "none", user |-> Admin, expires |-> 0,
       known |-> FALSE, parent |-> 0, root |-> 0] \in SessionRow
  BY DEF SessionRow
<1>3. users \in [User -> Account]
  BY DEF Init, Account
<1>4. sess \in [Session -> SessionRow] /\ req \in [Request -> RequestState]
  BY <1>1, <1>2 DEF Init
<1>5. minted \in 0 .. MaxSessions /\ now \in 0 .. MaxTime
  BY DEF Init
<1>6. QED
  BY <1>3, <1>4, <1>5 DEF Init, TypeOK

\* No step of the bootstrap breaks a type.
LEMMA BootstrapType == ASSUME TypeOK, Bootstrap PROVE TypeOK'
<1>1. users' \in [User -> Account]
  BY DEF TypeOK, Bootstrap, BootStart, BootFind, BootCreateUser,
     BootCreateCredential, Account
<1>2. boot' \in {"down", "find", "create", "credential", "up"}
  BY DEF Bootstrap, BootStart, BootFind, BootCreateUser, BootCreateCredential
<1>3. UNCHANGED <<sess, minted, req, now, ended, raced>>
  BY DEF Bootstrap, BootStart, BootFind, BootCreateUser, BootCreateCredential
<1>4. QED
  BY <1>1, <1>2, <1>3 DEF TypeOK

\* Starting a request on a token, or on an account, marks well-typed logins.
LEMMA RacedType ==
    ASSUME TypeOK, NEW r \in Request, NEW S, raced' = raced \cup (InUse(r) \cap S)
    PROVE  raced' \subseteq Session
BY DEF TypeOK, InUse, Roots

\* No step of a request breaks a type.
LEMMA GatewayType == ASSUME TypeOK, NEW r \in Request, Gateway(r) PROVE TypeOK'
<1>1. req[r] \in RequestState
  BY DEF TypeOK
<1>2. CASE Login(r)
  <2>1. req' \in [Request -> RequestState]
    BY <1>2, BeginType DEF Login
  <2>2. QED
    BY <1>2, <2>1 DEF Login, TypeOK
<1>3. ASSUME \/ LoginUser(r) \/ LoginCredential(r) \/ RefreshGet(r) \/ RefreshUser(r)
             \/ LogoutGet(r) \/ RevokeUser(r)
      PROVE  TypeOK'
  <2>1. \/ Answer(r)
        \/ \E pc \in {"loginCredential", "loginCreate", "refreshInvalidate",
                      "refreshCreate", "logoutInvalidate", "revokeAll"} : Goto(r, pc)
    BY <1>3 DEF LoginUser, LoginCredential, RefreshGet, RefreshUser, LogoutGet, RevokeUser
  <2>2. req' \in [Request -> RequestState]
    BY <2>1, GotoType, AnswerType
  <2>3. UNCHANGED <<users, sess, minted, boot, now, ended, raced>>
    BY <1>3 DEF LoginUser, LoginCredential, RefreshGet, RefreshUser, LogoutGet, RevokeUser
  <2>4. QED
    BY <2>2, <2>3 DEF TypeOK
<1>4. ASSUME LoginCreate(r) \/ RefreshCreate(r) PROVE TypeOK'
  <2>1. req[r].token \in {0} \cup Session
    BY <1>1 DEF RequestState
  <2>2. \/ UNCHANGED <<sess, minted>>
        \/ \E o \in Outcome, p \in {0} \cup Session : CreateSession(r, o, p)
    BY <1>4, <2>1 DEF LoginCreate, RefreshCreate
  <2>3. sess' \in [Session -> SessionRow] /\ minted' \in 0 .. MaxSessions
    BY <2>2, CreateType DEF TypeOK
  <2>4. req' \in [Request -> RequestState]
    BY <1>4, AnswerType DEF LoginCreate, RefreshCreate
  <2>5. UNCHANGED <<users, boot, now, ended, raced>>
    BY <1>4 DEF LoginCreate, RefreshCreate
  <2>6. QED
    BY <2>3, <2>4, <2>5 DEF TypeOK
<1>5. ASSUME Refresh(r) \/ Logout(r) \/ RevokeSessions(r) PROVE TypeOK'
  <2>1. PICK u \in User, s \in {0} \cup Session,
             pc \in {"refreshGet", "logoutGet", "revokeUser"},
             S \in SUBSET ({0} \cup Session) :
          Begin(r, pc, u, s) /\ raced' = raced \cup (InUse(r) \cap S)
    <3>1. \A s \in Session : sess[s].user \in User /\ sess[s].root \in {0} \cup Session
      BY DEF TypeOK, SessionRow
    <3>2. CASE Refresh(r)
      BY <3>1, <3>2 DEF Refresh
    <3>3. CASE Logout(r)
      BY <3>1, <3>3 DEF Logout
    <3>4. CASE RevokeSessions(r)
      BY <3>4 DEF RevokeSessions, Roots
    <3>5. QED
      BY <1>5, <3>2, <3>3, <3>4
  <2>2. req' \in [Request -> RequestState]
    BY <2>1, BeginType
  <2>3. raced' \subseteq Session
    BY <2>1, RacedType
  <2>4. UNCHANGED <<users, sess, minted, boot, now, ended>>
    BY <1>5 DEF Refresh, Logout, RevokeSessions
  <2>5. QED
    BY <2>2, <2>3, <2>4 DEF TypeOK
<1>6. CASE RefreshInvalidate(r)
  <2>1. sess' \in [Session -> SessionRow]
    BY <1>6, InvalidateType DEF RefreshInvalidate
  <2>2. req' \in [Request -> RequestState]
    BY <1>6, GotoType, AnswerType DEF RefreshInvalidate
  <2>3. QED
    BY <1>6, <2>1, <2>2 DEF RefreshInvalidate, TypeOK
<1>7. ASSUME LogoutInvalidate(r) \/ RevokeAll(r) PROVE TypeOK'
  <2>1. PICK S : Invalidate(S) /\ ended' = ended \cup Roots(S)
    BY <1>7 DEF LogoutInvalidate, RevokeAll
  <2>2. ended' \subseteq Session
    BY <2>1 DEF Roots, TypeOK
  <2>3. sess' \in [Session -> SessionRow]
    BY <2>1, InvalidateType
  <2>4. req' \in [Request -> RequestState]
    BY <1>7, AnswerType DEF LogoutInvalidate, RevokeAll
  <2>5. QED
    BY <1>7, <2>2, <2>3, <2>4 DEF LogoutInvalidate, RevokeAll, TypeOK
<1>8. QED
  BY <1>2, <1>3, <1>4, <1>5, <1>6, <1>7 DEF Gateway

\* No step breaks a type.
LEMMA NextType == TypeOK /\ [Next]_vars => TypeOK'
<1> SUFFICES ASSUME TypeOK, [Next]_vars PROVE TypeOK'
  OBVIOUS
<1>1. CASE Tick
  BY <1>1, AuthSettingsAssumption DEF Tick, TypeOK
<1>2. ASSUME NEW u \in User, SwitchAccount(u) PROVE TypeOK'
  BY <1>2 DEF SwitchAccount, TypeOK, Account
<1>3. CASE UNCHANGED vars
  BY <1>3 DEF vars, TypeOK
<1>4. QED
  BY <1>1, <1>2, <1>3, BootstrapType, GatewayType DEF Next

(***************************************************************************)
(* Accounts, sessions and requests keep their types, whatever calls fail   *)
(* and however requests overlap.                                           *)
(***************************************************************************)
THEOREM TypeCorrect == Spec => []TypeOK
BY InitType, NextType, PTL DEF Spec

-----------------------------------------------------------------------------
(* Rotation *)

(***************************************************************************)
(* Rows beyond the last one inserted are free; a token that is being       *)
(* exchanged was presented, was found, and is dead once its session was    *)
(* invalidated.                                                            *)
(***************************************************************************)
FreeRows == \A s \in Session : s > minted => sess[s].state = "none"

Exchanging ==
    \A r \in Request :
        /\ req[r].pc \in {"refreshGet", "refreshInvalidate"} => req[r].token \in Session
        /\ req[r].pc = "refreshInvalidate" => sess[req[r].token].state # "none"
        /\ req[r].pc \in {"refreshUser", "refreshCreate"} =>
              req[r].token \in Session /\ sess[req[r].token].state = "ended"

RotationInv == FreeRows /\ Exchanging /\ ExchangedTokenIsDead

\* What a step may do to the rows: a row in the table stays in it, and a dead
\* one stays dead.
RowsOnlyEnd ==
    \A s \in Session : /\ sess[s].state # "none" => sess'[s].state # "none"
                       /\ sess[s].state = "ended" => sess'[s].state = "ended"

\* Invalidation keeps parents and free rows and ends only live rows.
LEMMA InvalidateRows ==
    ASSUME TypeOK, NEW S, Invalidate(S)
    PROVE  /\ RowsOnlyEnd
           /\ \A s \in Session : /\ sess'[s].parent = sess[s].parent
                                 /\ sess[s].state = "none" => sess'[s].state = "none"
                                 /\ s \in S /\ sess[s].state # "none" =>
                                       sess'[s].state = "ended"
<1> SUFFICES ASSUME NEW s \in Session
             PROVE  /\ sess[s].state # "none" => sess'[s].state # "none"
                    /\ sess[s].state = "ended" => sess'[s].state = "ended"
                    /\ sess'[s].parent = sess[s].parent
                    /\ sess[s].state = "none" => sess'[s].state = "none"
                    /\ s \in S /\ sess[s].state # "none" => sess'[s].state = "ended"
  BY DEF RowsOnlyEnd
<1>1. sess[s] \in SessionRow
  BY DEF TypeOK
<1>2. CASE s \in S /\ sess[s].state = "active"
  <2>1. sess'[s] = [sess[s] EXCEPT !.state = "ended"]
    BY <1>2 DEF Invalidate
  <2>2. QED
    BY <1>1, <1>2, <2>1 DEF SessionRow
<1>3. CASE ~(s \in S /\ sess[s].state = "active")
  <2>1. sess'[s] = sess[s]
    BY <1>3 DEF Invalidate
  <2>2. QED
    BY <1>1, <1>3, <2>1 DEF SessionRow
<1>4. QED
  BY <1>2, <1>3

\* A creation fills the first free row.
LEMMA CreateRows ==
    ASSUME TypeOK, FreeRows, NEW r \in Request, NEW o, NEW p, CreateSession(r, o, p)
    PROVE  /\ RowsOnlyEnd
           /\ minted + 1 \in Session /\ minted' = minted + 1
           /\ sess[minted + 1].state = "none"
           /\ sess'[minted + 1].parent = p
           /\ \A s \in Session \ {minted + 1} : sess'[s] = sess[s]
<1> USE AuthSettingsAssumption
<1>1. minted + 1 \in Session /\ minted' = minted + 1
  BY DEF TypeOK, CreateSession, Session
<1>2. sess[minted + 1].state = "none"
  BY <1>1 DEF FreeRows, TypeOK
<1>3. /\ sess'[minted + 1].parent = p
      /\ \A s \in Session \ {minted + 1} : sess'[s] = sess[s]
  BY <1>1 DEF CreateSession, TypeOK
<1>4. QED
  BY <1>1, <1>2, <1>3 DEF RowsOnlyEnd

\* A step that moves no request into the middle of an exchange keeps the
\* requests' part.
LEMMA ExchangingFrame ==
    ASSUME TypeOK, Exchanging, RowsOnlyEnd, NEW r \in Request,
           \A q \in Request \ {r} : req'[q] = req[q],
           \/ req'[r] = req[r]
           \/ req'[r].pc \notin {"refreshGet", "refreshInvalidate",
                                 "refreshUser", "refreshCreate"}
    PROVE  Exchanging'
<1> SUFFICES ASSUME NEW q \in Request
             PROVE  /\ req'[q].pc \in {"refreshGet", "refreshInvalidate"} =>
                          req'[q].token \in Session
                    /\ req'[q].pc = "refreshInvalidate" =>
                          sess'[req'[q].token].state # "none"
                    /\ req'[q].pc \in {"refreshUser", "refreshCreate"} =>
                          req'[q].token \in Session /\ sess'[req'[q].token].state = "ended"
  BY DEF Exchanging
<1>1. CASE req'[q] = req[q]
  BY <1>1 DEF Exchanging, RowsOnlyEnd
<1>2. CASE req'[q] # req[q]
  BY <1>2
<1>3. QED
  BY <1>1, <1>2

\* A step that leaves the table alone keeps its part.
LEMMA TableFrame ==
    ASSUME FreeRows, ExchangedTokenIsDead, UNCHANGED <<sess, minted>>
    PROVE  FreeRows' /\ ExchangedTokenIsDead' /\ RowsOnlyEnd
BY DEF FreeRows, ExchangedTokenIsDead, RowsOnlyEnd

\* So does a step that only ends sessions.
LEMMA TableInvalidate ==
    ASSUME TypeOK, FreeRows, ExchangedTokenIsDead, NEW S, Invalidate(S), UNCHANGED minted
    PROVE  FreeRows' /\ ExchangedTokenIsDead' /\ RowsOnlyEnd
<1>1. \A s \in Session : sess[s].parent \in {0} \cup Session
  BY DEF TypeOK, SessionRow
<1>2. QED
  BY <1>1, InvalidateRows DEF FreeRows, ExchangedTokenIsDead, RowsOnlyEnd

\* A creation keeps the table's part if the exchanged session is dead.
LEMMA TableCreate ==
    ASSUME TypeOK, FreeRows, ExchangedTokenIsDead, NEW r \in Request, NEW o,
           NEW p \in {0} \cup Session, p # 0 => sess[p].state = "ended",
           CreateSession(r, o, p)
    PROVE  FreeRows' /\ ExchangedTokenIsDead' /\ RowsOnlyEnd
<1>1. /\ RowsOnlyEnd
      /\ minted + 1 \in Session /\ minted' = minted + 1
      /\ sess[minted + 1].state = "none"
      /\ sess'[minted + 1].parent = p
      /\ \A s \in Session \ {minted + 1} : sess'[s] = sess[s]
  BY CreateRows
<1>2. FreeRows'
  <2> SUFFICES ASSUME NEW s \in Session, s > minted + 1 PROVE sess'[s].state = "none"
    BY <1>1 DEF FreeRows
  <2>1. s # minted + 1 /\ s > minted
    BY DEF TypeOK, Session
  <2>2. QED
    BY <1>1, <2>1 DEF FreeRows
<1>3. ASSUME NEW s \in Session, sess'[s].parent # 0
      PROVE  sess'[sess'[s].parent].state = "ended"
  <2>1. CASE s = minted + 1
    BY <1>1, <1>3, <2>1 DEF RowsOnlyEnd
  <2>2. CASE s # minted + 1
    <3>1. sess'[s].parent = sess[s].parent /\ sess[s].parent \in Session
      BY <1>1, <1>3, <2>2 DEF TypeOK, SessionRow
    <3>2. QED
      BY <1>1, <1>3, <3>1 DEF ExchangedTokenIsDead, RowsOnlyEnd
  <2>3. QED
    BY <2>1, <2>2
<1>4. QED
  BY <1>1, <1>2, <1>3 DEF ExchangedTokenIsDead

\* What the three ways to move a request do to its state.
LEMMA AnswerFrame ==
    ASSUME TypeOK, NEW r \in Request, Answer(r)
    PROVE  /\ req'[r].pc = "idle" /\ req'[r].token = 0
           /\ \A q \in Request \ {r} : req'[q] = req[q]
BY DEF Answer, Idle, TypeOK

LEMMA GotoFrame ==
    ASSUME TypeOK, NEW r \in Request, NEW pc, Goto(r, pc)
    PROVE  /\ req'[r].pc = pc /\ req'[r].token = req[r].token /\ req'[r].user = req[r].user
           /\ \A q \in Request \ {r} : req'[q] = req[q]
BY DEF Goto, RequestState, TypeOK

LEMMA BeginFrame ==
    ASSUME TypeOK, NEW r \in Request, NEW pc, NEW u, NEW s, Begin(r, pc, u, s)
    PROVE  /\ req'[r].pc = pc /\ req'[r].token = s /\ req'[r].user = u
           /\ \A q \in Request \ {r} : req'[q] = req[q]
BY DEF Begin, TypeOK

\* A request that takes a step in an exchange is as far as its part says.
LEMMA ExchangingMove ==
    ASSUME TypeOK, Exchanging, RowsOnlyEnd, NEW r \in Request,
           \A q \in Request \ {r} : req'[q] = req[q],
           req'[r].pc \in {"refreshGet", "refreshInvalidate", "refreshUser", "refreshCreate"},
           req'[r].token \in Session,
           req'[r].pc = "refreshInvalidate" => sess'[req'[r].token].state # "none",
           req'[r].pc \in {"refreshUser", "refreshCreate"} =>
              sess'[req'[r].token].state = "ended"
    PROVE  Exchanging'
<1> SUFFICES ASSUME NEW q \in Request
             PROVE  /\ req'[q].pc \in {"refreshGet", "refreshInvalidate"} =>
                          req'[q].token \in Session
                    /\ req'[q].pc = "refreshInvalidate" =>
                          sess'[req'[q].token].state # "none"
                    /\ req'[q].pc \in {"refreshUser", "refreshCreate"} =>
                          req'[q].token \in Session /\ sess'[req'[q].token].state = "ended"
  BY DEF Exchanging
<1>1. CASE q = r
  BY <1>1
<1>2. CASE q # r
  BY <1>2 DEF Exchanging, RowsOnlyEnd
<1>3. QED
  BY <1>1, <1>2

\* No step of a request breaks the rotation invariant.
LEMMA GatewayRotation ==
    ASSUME TypeOK, RotationInv, NEW r \in Request, Gateway(r)
    PROVE  RotationInv'
<1> USE DEF RotationInv
<1>1. req[r] \in RequestState
  BY DEF TypeOK
<1>2. ASSUME NEW pc \in {"loginUser", "logoutGet", "revokeUser"}, NEW u, NEW s,
             Begin(r, pc, u, s), UNCHANGED <<sess, minted>>
      PROVE  RotationInv'
  BY <1>2, BeginFrame, TableFrame, ExchangingFrame
<1>3. ASSUME Answer(r), FreeRows', ExchangedTokenIsDead', RowsOnlyEnd
      PROVE  RotationInv'
  BY <1>3, AnswerFrame, ExchangingFrame
<1>4. ASSUME NEW pc \in {"loginCredential", "loginCreate", "logoutInvalidate", "revokeAll"},
             Goto(r, pc), UNCHANGED <<sess, minted>>
      PROVE  RotationInv'
  BY <1>4, GotoFrame, TableFrame, ExchangingFrame
<1>5. CASE Login(r)
  BY <1>2, <1>5 DEF Login
<1>6. CASE LoginUser(r) \/ LoginCredential(r) \/ LogoutGet(r) \/ RevokeUser(r)
  <2>1. UNCHANGED <<sess, minted>>
    BY <1>6 DEF LoginUser, LoginCredential, LogoutGet, RevokeUser
  <2>2. \/ Answer(r)
        \/ \E pc \in {"loginCredential", "loginCreate", "logoutInvalidate", "revokeAll"} :
              Goto(r, pc)
    BY <1>6 DEF LoginUser, LoginCredential, LogoutGet, RevokeUser
  <2>3. QED
    BY <1>3, <1>4, <2>1, <2>2, TableFrame
<1>7. CASE LoginCreate(r) \/ RefreshCreate(r)
  <2>1. \/ UNCHANGED <<sess, minted>>
        \/ \E o \in Outcome, p \in {0} \cup Session :
              (p # 0 => sess[p].state = "ended") /\ CreateSession(r, o, p)
    <3>1. CASE LoginCreate(r)
      BY <3>1 DEF LoginCreate
    <3>2. CASE RefreshCreate(r)
      BY <3>2 DEF RefreshCreate, Exchanging
    <3>3. QED
      BY <1>7, <3>1, <3>2
  <2>2. FreeRows' /\ ExchangedTokenIsDead' /\ RowsOnlyEnd
    BY <2>1, TableFrame, TableCreate
  <2>3. QED
    BY <1>3, <1>7, <2>2 DEF LoginCreate, RefreshCreate
<1>8. CASE Refresh(r)
  <2>1. PICK s \in Session, u \in User : Begin(r, "refreshGet", u, s)
    BY <1>8, SMT DEF Refresh, TypeOK, SessionRow
  <2>2. UNCHANGED <<sess, minted>>
    BY <1>8 DEF Refresh
  <2>3. Exchanging'
    BY <2>1, <2>2, BeginFrame, TableFrame, ExchangingMove
  <2>4. QED
    BY <2>2, <2>3, TableFrame
<1>9. CASE RefreshGet(r)
  <2>1. UNCHANGED <<sess, minted>>
    BY <1>9 DEF RefreshGet
  <2>2. CASE Answer(r)
    BY <1>3, <2>1, <2>2, TableFrame
  <2>3. CASE Goto(r, "refreshInvalidate") /\ ActiveSession(req[r].token)
    <3>1. req[r].token \in Session /\ sess[req[r].token].state # "none"
      BY <1>9, <2>3 DEF RefreshGet, Exchanging, ActiveSession
    <3>2. Exchanging'
      BY <2>1, <2>3, <3>1, GotoFrame, TableFrame, ExchangingMove
    <3>3. QED
      BY <2>1, <3>2, TableFrame
  <2>4. QED
    BY <1>9, <2>2, <2>3 DEF RefreshGet
<1>10. CASE RefreshInvalidate(r)
  <2>1. PICK o \in Outcome :
          /\ Invalidate(IF Commits(o) THEN {req[r].token} ELSE {})
          /\ IF o = "ok" THEN Goto(r, "refreshUser") ELSE Answer(r)
    BY <1>10 DEF RefreshInvalidate
  <2>2. req[r].token \in Session /\ sess[req[r].token].state # "none"
    BY <1>10 DEF RefreshInvalidate, Exchanging
  <2>3. FreeRows' /\ ExchangedTokenIsDead' /\ RowsOnlyEnd
    BY <1>10, <2>1, TableInvalidate DEF RefreshInvalidate
  <2>4. CASE o # "ok"
    BY <1>3, <2>1, <2>3, <2>4
  <2>5. CASE o = "ok"
    <3>1. Invalidate({req[r].token}) /\ Goto(r, "refreshUser")
      BY <2>1, <2>5 DEF Commits
    <3>2. sess'[req[r].token].state = "ended"
      BY <2>2, <3>1, InvalidateRows
    <3>3. Exchanging'
      BY <2>2, <2>3, <3>1, <3>2, GotoFrame, ExchangingMove
    <3>4. QED
      BY <2>3, <3>3
  <2>6. QED
    BY <2>4, <2>5
<1>11. CASE RefreshUser(r)
  <2>1. UNCHANGED <<sess, minted>>
    BY <1>11 DEF RefreshUser
  <2>2. CASE Answer(r)
    BY <1>3, <2>1, <2>2, TableFrame
  <2>3. CASE Goto(r, "refreshCreate")
    <3>1. req[r].token \in Session /\ sess[req[r].token].state = "ended"
      BY <1>11, <2>3 DEF RefreshUser, Exchanging
    <3>2. Exchanging'
      BY <2>1, <2>3, <3>1, GotoFrame, TableFrame, ExchangingMove
    <3>3. QED
      BY <2>1, <3>2, TableFrame
  <2>4. QED
    BY <1>11, <2>2, <2>3 DEF RefreshUser
<1>12. CASE Logout(r) \/ RevokeSessions(r)
  <2>1. UNCHANGED <<sess, minted>>
    BY <1>12 DEF Logout, RevokeSessions
  <2>2. \E pc \in {"logoutGet", "revokeUser"} : \E u, s : Begin(r, pc, u, s)
    BY <1>12 DEF Logout, RevokeSessions
  <2>3. QED
    BY <1>2, <2>1, <2>2
<1>13. CASE LogoutInvalidate(r) \/ RevokeAll(r)
  <2>1. Answer(r) /\ UNCHANGED minted /\ \E S : Invalidate(S)
    BY <1>13 DEF LogoutInvalidate, RevokeAll
  <2>2. QED
    BY <1>3, <2>1, TableInvalidate
<1>14. QED
  BY <1>5, <1>6, <1>7, <1>8, <1>9, <1>10, <1>11, <1>12, <1>13 DEF Gateway

LEMMA RotationAlways == Spec => []RotationInv
<1>1. Init => RotationInv
  <2> SUFFICES ASSUME Init PROVE RotationInv
    OBVIOUS
  <2>1. /\ \A s \in Session : sess[s].state = "none" /\ sess[s].parent = 0
        /\ \A r \in Request : req[r].pc = "idle"
    BY DEF Init, Idle
  <2>2. QED
    BY <2>1 DEF RotationInv, FreeRows, Exchanging, ExchangedTokenIsDead
<1>2. TypeOK /\ RotationInv /\ [Next]_vars => RotationInv'
  <2> SUFFICES ASSUME TypeOK, RotationInv, [Next]_vars PROVE RotationInv'
    OBVIOUS
  <2>1. ASSUME UNCHANGED <<sess, minted, req>> PROVE RotationInv'
    BY <2>1 DEF RotationInv, FreeRows, Exchanging, ExchangedTokenIsDead
  <2>2. CASE Bootstrap
    BY <2>1, <2>2 DEF Bootstrap, BootStart, BootFind, BootCreateUser, BootCreateCredential
  <2>3. CASE Tick
    BY <2>1, <2>3 DEF Tick
  <2>4. ASSUME NEW u \in User, SwitchAccount(u) PROVE RotationInv'
    BY <2>1, <2>4 DEF SwitchAccount
  <2>5. CASE UNCHANGED vars
    BY <2>1, <2>5 DEF vars
  <2>6. QED
    BY <2>2, <2>3, <2>4, <2>5, GatewayRotation DEF Next
<1>3. QED
  BY <1>1, <1>2, TypeCorrect, PTL DEF Spec

(***************************************************************************)
(* A token that was exchanged for a new one is dead, for any number of     *)
(* overlapping requests, failing calls and lost answers.                   *)
(***************************************************************************)
THEOREM ExchangedIsDead == Spec => []ExchangedTokenIsDead
<1>1. RotationInv => ExchangedTokenIsDead
  BY DEF RotationInv
<1>2. QED
  BY <1>1, RotationAlways, PTL

-----------------------------------------------------------------------------
(* One live session for each login *)

Revoking(q) == req[q].pc \in {"revokeUser", "revokeAll"}

\* Does request q work on login c?
WorksOn(q, c) ==
    \E s \in Chain(c) : s = req[q].token \/ (Revoking(q) /\ sess[s].user = req[q].user)

Dead(c) == \A s \in Chain(c) : sess[s].state # "active"

\* Rows of a login are of one account, and free rows belong to none.
LineageOK ==
    /\ \A s \in Session :
          /\ s > minted => sess[s].root = 0
          /\ sess[s].known => s <= minted
          /\ sess[s].root <= minted
          /\ sess[s].root # 0 => sess[s].user = sess[sess[s].root].user
    /\ \A c \in ended : c <= minted

\* A token that is presented is in the table, and is of the account.
TokensOK ==
    \A q \in Request : req[q].token # 0 =>
        req[q].token <= minted /\ sess[req[q].token].user = req[q].user

\* At most one request, or none but revocations, works on a login; it has at most
\* one live session, none once it has ended or while its token is exchanged.
LoginOK(c) ==
    /\ \A p, q \in Request : (p # q /\ WorksOn(p, c) /\ WorksOn(q, c)) => Revoking(p)
    /\ \A s, u \in Chain(c) : (sess[s].state = "active" /\ sess[u].state = "active") => s = u
    /\ c \in ended => Dead(c)
    /\ \A q \in Request : req[q].token \in Chain(c) =>
          /\ req[q].pc \in {"refreshInvalidate", "logoutInvalidate"} =>
                sess[req[q].token].state = "active"
          /\ req[q].pc \in {"refreshUser", "refreshCreate"} => c \notin ended /\ Dead(c)

LoginInv == LineageOK /\ TokensOK /\ \A c \in Session \ raced : LoginOK(c)

\* What the tables hold, and what a chain is.
LEMMA LoginTypes ==
    ASSUME TypeOK
    PROVE  /\ \A q \in Request : req[q].token \in {0} \cup Session
           /\ \A s \in Session : /\ sess[s].root \in {0} \cup Session
                                 /\ sess[s].state \in {"none", "active", "ended"}
                                 /\ s \in Nat /\ s # 0
           /\ \A c : \A s : s \in Chain(c) <=> s \in Session /\ sess[s].root = c
           /\ minted \in Nat
<1>1. \A q \in Request : req[q].token \in {0} \cup Session
  BY DEF TypeOK, RequestState
<1>2. \A s \in Session : /\ sess[s].root \in {0} \cup Session
                         /\ sess[s].state \in {"none", "active", "ended"}
  BY DEF TypeOK, SessionRow
<1>3. \A s \in Session : s \in Nat /\ s # 0
  BY AuthSettingsAssumption DEF Session
<1>4. \A c : \A s : s \in Chain(c) <=> s \in Session /\ sess[s].root = c
  BY DEF Chain
<1>5. minted \in Nat
  BY AuthSettingsAssumption DEF TypeOK
<1>6. QED
  BY <1>1, <1>2, <1>3, <1>4, <1>5

\* A step that leaves the tables alone, and the requests on a login as they are or
\* fewer.
LEMMA LoginMoves ==
    ASSUME TypeOK, LoginInv, NEW r \in Request, UNCHANGED <<sess, minted, ended, raced>>,
           \A q \in Request \ {r} : req'[q] = req[q],
           \/ req'[r].token = 0 /\ ~Revoking(r)'
           \/ /\ req'[r].token = req[r].token /\ req'[r].user = req[r].user
              /\ Revoking(r)' <=> Revoking(r)
              /\ req'[r].pc \in {"refreshInvalidate", "logoutInvalidate"} =>
                    (req[r].token # 0 => sess[req[r].token].state = "active")
              /\ req'[r].pc \in {"refreshUser", "refreshCreate"} =>
                    req[r].pc \in {"refreshUser", "refreshCreate"}
    PROVE  LoginInv'
<1>1. /\ \A q \in Request : req[q].token \in {0} \cup Session
      /\ \A c : \A s : s \in Chain(c) <=> s \in Session /\ sess[s].root = c
      /\ \A s \in Session : s # 0
  BY LoginTypes
<1>2. LineageOK'
  BY DEF LoginInv, LineageOK
<1>3. TokensOK'
  <2>1. SUFFICES ASSUME NEW q \in Request, req'[q].token # 0
                 PROVE  req'[q].token <= minted /\ sess[req'[q].token].user = req'[q].user
    BY DEF TokensOK
  <2>2. req'[q].token = req[q].token /\ req'[q].user = req[q].user
    BY <2>1
  <2>3. QED
    BY <2>1, <2>2 DEF LoginInv, TokensOK
<1>4. ASSUME NEW c \in Session \ raced PROVE LoginOK(c)'
  <2>1. LoginOK(c)
    BY DEF LoginInv
  <2>2. Chain(c)' = Chain(c) /\ (Dead(c)' <=> Dead(c)) /\ 0 \notin Chain(c)
    BY <1>1 DEF Chain, Dead
  <2>3. ASSUME NEW q \in Request, WorksOn(q, c)'
        PROVE  WorksOn(q, c) /\ (Revoking(q) => Revoking(q)')
    BY <2>2, <2>3 DEF WorksOn, Revoking
  <2>4. \A p, q \in Request : (p # q /\ WorksOn(p, c)' /\ WorksOn(q, c)') => Revoking(p)'
    BY <2>1, <2>3 DEF LoginOK
  <2>5. ASSUME NEW q \in Request, req'[q].token \in Chain(c)
        PROVE  /\ req'[q].pc \in {"refreshInvalidate", "logoutInvalidate"} =>
                     sess[req'[q].token].state = "active"
               /\ req'[q].pc \in {"refreshUser", "refreshCreate"} => c \notin ended /\ Dead(c)
    <3>1. req'[q].token = req[q].token /\ req[q].token # 0 /\ req[q].token \in Chain(c)
      BY <2>2, <2>5
    <3>2. CASE q = r
      BY <2>1, <3>1, <3>2 DEF LoginOK
    <3>3. CASE q # r
      BY <2>1, <3>1, <3>3 DEF LoginOK
    <3>4. QED
      BY <3>2, <3>3
  <2>6. \A s, u \in Chain(c) : (sess[s].state = "active" /\ sess[u].state = "active") => s = u
    BY <2>1 DEF LoginOK
  <2>7. c \in ended => Dead(c)
    BY <2>1 DEF LoginOK
  <2>8. QED
    BY <2>2, <2>4, <2>5, <2>6, <2>7 DEF LoginOK
<1>5. QED
  BY <1>2, <1>3, <1>4 DEF LoginInv

\* A request begins on a token or on an account: logins that other requests work on
\* have raced from here on.
LEMMA LoginBegins ==
    ASSUME TypeOK, LoginInv, NEW r \in Request, UNCHANGED <<sess, minted, ended>>,
           \A q \in Request \ {r} : req'[q] = req[q], raced \subseteq raced',
           req'[r].pc \in {"refreshGet", "logoutGet", "revokeUser"},
           req'[r].token # 0 => /\ req'[r].token <= minted
                                /\ sess[req'[r].token].user = req'[r].user,
           \A c \in Session : (WorksOn(r, c)' /\ c \in InUse(r)) => c \in raced'
    PROVE  LoginInv'
<1>1. LineageOK'
  BY DEF LoginInv, LineageOK
<1>2. TokensOK'
  <2>1. SUFFICES ASSUME NEW q \in Request, req'[q].token # 0
                 PROVE  req'[q].token <= minted /\ sess[req'[q].token].user = req'[q].user
    BY DEF TokensOK
  <2>2. CASE q = r
    BY <2>1, <2>2
  <2>3. CASE q # r
    BY <2>1, <2>3 DEF LoginInv, TokensOK
  <2>4. QED
    BY <2>2, <2>3
<1>3. ASSUME NEW c \in Session \ raced' PROVE LoginOK(c)'
  <2>1. LoginOK(c)
    BY <1>3 DEF LoginInv
  <2>2. Chain(c)' = Chain(c) /\ (Dead(c)' <=> Dead(c))
    BY DEF Chain, Dead
  <2>3. ASSUME NEW q \in Request \ {r} PROVE /\ WorksOn(q, c)' <=> WorksOn(q, c)
                                             /\ Revoking(q)' <=> Revoking(q)
    BY <2>2, <2>3 DEF WorksOn, Revoking
  <2>4. ASSUME NEW q \in Request \ {r}, WorksOn(q, c) PROVE c \in InUse(r)
    <3>1. PICK s \in Chain(c) : s = req[q].token \/ (Revoking(q) /\ sess[s].user = req[q].user)
      BY <2>4 DEF WorksOn
    <3>2. s \in Session
      BY DEF Chain
    <3>3. c \in Roots({x \in Session : \/ x = req[q].token
                                      \/ /\ req[q].pc \in {"revokeUser", "revokeAll"}
                                         /\ sess[x].user = req[q].user})
      BY <3>1, <3>2 DEF Roots, Revoking
    <3>4. QED
      BY <3>3 DEF InUse
  <2>5. \A p, q \in Request : (p # q /\ WorksOn(p, c)' /\ WorksOn(q, c)') => Revoking(p)'
    <3>1. SUFFICES ASSUME NEW p \in Request, NEW q \in Request, p # q, WorksOn(p, c)', WorksOn(q, c)'
                   PROVE  Revoking(p)'
      OBVIOUS
    <3>2. CASE p # r /\ q # r
      BY <2>1, <2>3, <3>1, <3>2 DEF LoginOK
    <3>3. CASE p = r \/ q = r
      BY <1>3, <2>3, <2>4, <3>1, <3>3
    <3>4. QED
      BY <3>2, <3>3
  <2>6. ASSUME NEW q \in Request, req'[q].token \in Chain(c)
        PROVE  /\ req'[q].pc \in {"refreshInvalidate", "logoutInvalidate"} =>
                     sess[req'[q].token].state = "active"
               /\ req'[q].pc \in {"refreshUser", "refreshCreate"} => c \notin ended /\ Dead(c)
    <3>1. CASE q = r
      BY <3>1
    <3>2. CASE q # r
      BY <2>1, <2>6, <3>2 DEF LoginOK
    <3>3. QED
      BY <3>1, <3>2
  <2>7. \A s, u \in Chain(c) : (sess[s].state = "active" /\ sess[u].state = "active") => s = u
    BY <2>1 DEF LoginOK
  <2>8. c \in ended => Dead(c)
    BY <2>1 DEF LoginOK
  <2>9. QED
    BY <2>2, <2>5, <2>6, <2>7, <2>8 DEF LoginOK
<1>4. QED
  BY <1>1, <1>2, <1>3 DEF LoginInv

\* Invalidation changes nothing but the state of live rows.
LEMMA InvalidateLineage ==
    ASSUME TypeOK, NEW S, Invalidate(S)
    PROVE  \A s \in Session :
              /\ sess'[s].root = sess[s].root /\ sess'[s].user = sess[s].user
              /\ sess'[s].known = sess[s].known
              /\ sess'[s].state = "active" => sess[s].state = "active" /\ s \notin S
              /\ s \notin S => sess'[s].state = sess[s].state
<1> SUFFICES ASSUME NEW s \in Session
             PROVE  /\ sess'[s].root = sess[s].root /\ sess'[s].user = sess[s].user
                    /\ sess'[s].known = sess[s].known
                    /\ sess'[s].state = "active" => sess[s].state = "active" /\ s \notin S
                    /\ s \notin S => sess'[s].state = sess[s].state
  OBVIOUS
<1>1. sess[s] \in SessionRow
  BY DEF TypeOK
<1>2. CASE s \in S /\ sess[s].state = "active"
  <2>1. sess'[s] = [sess[s] EXCEPT !.state = "ended"]
    BY <1>2 DEF Invalidate
  <2>2. QED
    BY <1>1, <1>2, <2>1 DEF SessionRow
<1>3. CASE ~(s \in S /\ sess[s].state = "active")
  <2>1. sess'[s] = sess[s]
    BY <1>3 DEF Invalidate
  <2>2. QED
    BY <1>3, <2>1
<1>4. QED
  BY <1>2, <1>3

\* A request ends live sessions of logins it works on, and with them all that is
\* live of those logins.
LEMMA LoginEnds ==
    ASSUME TypeOK, LoginInv, NEW r \in Request, NEW S \in SUBSET Session, Invalidate(S),
           UNCHANGED <<minted, raced>>, ended' = ended \/ ended' = ended \cup Roots(S),
           \A s \in S : s = req[r].token \/ (Revoking(r) /\ sess[s].user = req[r].user),
           \A c \in Session \ raced : \A s \in S \cap Chain(c) : Dead(c)',
           \A q \in Request \ {r} : req'[q] = req[q],
           \/ req'[r].token = 0 /\ ~Revoking(r)'
           \/ /\ req'[r].token = req[r].token /\ req'[r].user = req[r].user
              /\ req[r].pc = "refreshInvalidate" /\ req'[r].pc = "refreshUser"
              /\ S = {req[r].token} /\ ended' = ended
    PROVE  LoginInv'
<1>1. /\ \A q \in Request : req[q].token \in {0} \cup Session
      /\ \A s \in Session : sess[s].root \in {0} \cup Session /\ s # 0
      /\ \A c : \A s : s \in Chain(c) <=> s \in Session /\ sess[s].root = c
  BY LoginTypes
<1>2. \A s \in Session :
         /\ sess'[s].root = sess[s].root /\ sess'[s].user = sess[s].user
         /\ sess'[s].known = sess[s].known
         /\ sess'[s].state = "active" => sess[s].state = "active" /\ s \notin S
         /\ s \notin S => sess'[s].state = sess[s].state
  BY InvalidateLineage
<1>3. \A c \in ended' : c <= minted
  <2>1. ASSUME NEW c \in Roots(S) PROVE c <= minted
    <3>1. PICK s \in Chain(c) : s \in S
      BY DEF Roots
    <3>2. s \in Session /\ sess[s].root = c
      BY <1>1, <3>1
    <3>3. QED
      BY <3>2 DEF LoginInv, LineageOK
  <2>2. QED
    BY <2>1 DEF LoginInv, LineageOK
<1>4. LineageOK'
  <2>1. ASSUME NEW s \in Session
        PROVE  /\ s > minted => sess'[s].root = 0
               /\ sess'[s].known => s <= minted
               /\ sess'[s].root <= minted
               /\ sess'[s].root # 0 => sess'[s].user = sess'[sess'[s].root].user
    BY <1>1, <1>2 DEF LoginInv, LineageOK
  <2>2. QED
    BY <1>3, <2>1 DEF LineageOK
<1>5. TokensOK'
  <2>1. SUFFICES ASSUME NEW q \in Request, req'[q].token # 0
                 PROVE  req'[q].token <= minted /\ sess'[req'[q].token].user = req'[q].user
    BY DEF TokensOK
  <2>2. req'[q].token = req[q].token /\ req'[q].user = req[q].user /\ req[q].token \in Session
    BY <1>1, <2>1
  <2>3. QED
    BY <1>2, <2>1, <2>2 DEF LoginInv, TokensOK
<1>6. ASSUME NEW c \in Session \ raced PROVE LoginOK(c)'
  <2>1. LoginOK(c)
    BY DEF LoginInv
  <2>2. Chain(c)' = Chain(c) /\ Chain(c) \subseteq Session
    BY <1>1, <1>2 DEF Chain
  <2>3. Dead(c) => Dead(c)'
    BY <1>2, <2>2 DEF Dead
  <2>4. ASSUME NEW q \in Request, WorksOn(q, c)'
        PROVE  WorksOn(q, c) /\ (Revoking(q) => Revoking(q)')
    <3>1. CASE q # r
      BY <1>2, <2>2, <2>4, <3>1 DEF WorksOn, Revoking
    <3>2. CASE q = r
      BY <1>1, <1>2, <2>2, <2>4, <3>2 DEF WorksOn, Revoking
    <3>3. QED
      BY <3>1, <3>2
  <2>5. \A p, q \in Request : (p # q /\ WorksOn(p, c)' /\ WorksOn(q, c)') => Revoking(p)'
    BY <2>1, <2>4 DEF LoginOK
  <2>6. \A s, u \in Chain(c) : (sess'[s].state = "active" /\ sess'[u].state = "active") => s = u
    BY <1>2, <2>1, <2>2 DEF LoginOK
  <2>7. c \in ended' => Dead(c)'
    <3>1. CASE c \in ended
      BY <2>1, <2>3, <3>1 DEF LoginOK
    <3>2. CASE c \in Roots(S)
      BY <3>2 DEF Roots
    <3>3. QED
      BY <3>1, <3>2
  <2>8. ASSUME NEW q \in Request, req'[q].token \in Chain(c)
        PROVE  /\ req'[q].pc \in {"refreshInvalidate", "logoutInvalidate"} =>
                     sess'[req'[q].token].state = "active"
               /\ req'[q].pc \in {"refreshUser", "refreshCreate"} => c \notin ended' /\ Dead(c)'
    <3>1. CASE q # r
      <4>1. req'[q] = req[q] /\ req[q].token \in Chain(c) /\ WorksOn(q, c)
        BY <2>8, <3>1 DEF WorksOn
      <4>2. CASE req[q].pc \in {"refreshInvalidate", "logoutInvalidate", "refreshUser",
                                "refreshCreate"}
        <5>1. ~Revoking(q)
          BY <4>2 DEF Revoking
        <5>2. ~WorksOn(r, c)
          BY <2>1, <3>1, <4>1, <5>1 DEF LoginOK
        <5>3. S \cap Chain(c) = {}
          BY <5>2 DEF WorksOn
        <5>4. c \notin Roots(S)
          BY <5>3 DEF Roots
        <5>5. req[q].token \notin S /\ req[q].token \in Session
          BY <2>2, <4>1, <5>3
        <5>6. /\ req[q].pc \in {"refreshInvalidate", "logoutInvalidate"} =>
                    sess[req[q].token].state = "active"
              /\ req[q].pc \in {"refreshUser", "refreshCreate"} => c \notin ended /\ Dead(c)
          BY <2>1, <4>1 DEF LoginOK
        <5>7. QED
          BY <1>2, <2>3, <4>1, <5>4, <5>5, <5>6
      <4>3. QED
        BY <4>1, <4>2
    <3>2. CASE q = r
      <4>1. req'[r].token # 0
        BY <1>1, <2>2, <2>8, <3>2
      <4>2. /\ req'[r].token = req[r].token /\ req[r].pc = "refreshInvalidate"
            /\ req'[r].pc = "refreshUser" /\ S = {req[r].token} /\ ended' = ended
        BY <4>1
      <4>3. req[r].token \in S \cap Chain(c)
        BY <2>8, <3>2, <4>2
      <4>4. Dead(c)'
        BY <4>3
      <4>5. sess[req[r].token].state = "active"
        BY <2>1, <4>2, <4>3 DEF LoginOK
      <4>6. c \notin ended
        BY <2>1, <4>3, <4>5 DEF LoginOK, Dead
      <4>7. QED
        BY <3>2, <4>2, <4>4, <4>6
    <3>3. QED
      BY <3>1, <3>2
  <2>9. QED
    BY <2>2, <2>5, <2>6, <2>7, <2>8 DEF LoginOK
<1>7. QED
  BY <1>4, <1>5, <1>6 DEF LoginInv

\* What a creation writes.
LEMMA CreateLineage ==
    ASSUME TypeOK, FreeRows, NEW r \in Request, NEW o, NEW p, CreateSession(r, o, p)
    PROVE  /\ minted + 1 \in Session /\ minted' = minted + 1
           /\ sess'[minted + 1].state = "active" /\ sess'[minted + 1].user = req[r].user
           /\ sess'[minted + 1].root = IF p = 0 THEN minted + 1 ELSE sess[p].root
           /\ \A s \in Session \ {minted + 1} : sess'[s] = sess[s]
<1>1. /\ minted + 1 \in Session /\ minted' = minted + 1
      /\ \A s \in Session \ {minted + 1} : sess'[s] = sess[s]
  BY CreateRows
<1>2. PICK n \in Session : n = minted + 1
  BY <1>1
<1>3. PICK root : root = IF p = 0 THEN minted + 1 ELSE sess[p].root
  OBVIOUS
<1>4. sess' = [sess EXCEPT ![n] = [state |-> "active", user |-> req[r].user,
                                   expires |-> now + RefreshTTL, known |-> o = "ok",
                                   parent |-> p, root |-> root]]
  BY <1>2, <1>3 DEF CreateSession
<1>5. sess'[n].state = "active" /\ sess'[n].user = req[r].user /\ sess'[n].root = root
  BY <1>4 DEF TypeOK
<1>6. QED
  BY <1>1, <1>2, <1>3, <1>5

\* A login starts a chain of its own; a refresh goes on with one that has no live
\* session.
LEMMA LoginCreates ==
    ASSUME TypeOK, FreeRows, LoginInv, NEW r \in Request, NEW o, NEW p \in {0} \cup Session,
           CreateSession(r, o, p), UNCHANGED <<ended, raced>>,
           p # 0 => p = req[r].token /\ req[r].pc = "refreshCreate",
           req'[r].token = 0, ~Revoking(r)',
           \A q \in Request \ {r} : req'[q] = req[q]
    PROVE  LoginInv'
<1>1. /\ \A q \in Request : req[q].token \in {0} \cup Session
      /\ \A s \in Session : sess[s].root \in {0} \cup Session /\ s # 0 /\ s \in Nat
      /\ \A c : \A s : s \in Chain(c) <=> s \in Session /\ sess[s].root = c
      /\ minted \in Nat
  BY LoginTypes
<1>2. PICK n \in Session : n = minted + 1
  BY CreateLineage
<1> DEFINE Old(x) == x \in Nat /\ x <= minted
<1>3. PICK root : root = IF p = 0 THEN n ELSE sess[p].root
  OBVIOUS
<1>a. /\ n \in Nat /\ ~Old(n) /\ n # 0 /\ \A x : Old(x) => x # n /\ x <= n
      /\ \A x \in Nat : x > n => x > minted
  <2>1. minted \in Nat /\ n = minted + 1
    BY <1>1, <1>2
  <2>2. QED
    BY <2>1
<1>b. \A s \in Session : Old(sess[s].root) /\ sess[s].root \in {0} \cup Session
  <2>1. SUFFICES ASSUME NEW s \in Session
                 PROVE  Old(sess[s].root) /\ sess[s].root \in {0} \cup Session
    OBVIOUS
  <2>2. sess[s].root <= minted /\ sess[s].root \in {0} \cup Session
    BY <1>1 DEF LoginInv, LineageOK
  <2>3. sess[s].root \in Nat
    BY <1>1, <2>2
  <2>4. QED
    BY <2>2, <2>3
<1>c. \A q \in Request : req[q].token # 0 => Old(req[q].token) /\ req[q].token \in Session
  <2>1. SUFFICES ASSUME NEW q \in Request, req[q].token # 0
                 PROVE  Old(req[q].token) /\ req[q].token \in Session
    OBVIOUS
  <2>2. req[q].token <= minted /\ req[q].token \in Session
    BY <1>1, <2>1 DEF LoginInv, TokensOK
  <2>3. QED
    BY <1>1, <2>2
<1> HIDE DEF Old
<1>4. /\ minted' = n
      /\ sess'[n].state = "active" /\ sess'[n].user = req[r].user /\ sess'[n].root = root
      /\ \A s \in Session \ {n} : sess'[s] = sess[s]
  BY <1>2, <1>3, CreateLineage
<1>5. root = n \/ (p # 0 /\ root = sess[p].root)
  BY <1>3
<1>6. p # 0 => /\ p = req[r].token /\ req[r].pc = "refreshCreate" /\ sess[p].user = req[r].user
               /\ p # n
  BY <1>1, <1>2 DEF LoginInv, TokensOK
<1>7. LineageOK'
  <2>1. ASSUME NEW s \in Session
        PROVE  /\ s > n => sess'[s].root = 0
               /\ sess'[s].known => s <= n
               /\ sess'[s].root <= n
               /\ sess'[s].root # 0 => sess'[s].user = sess'[sess'[s].root].user
    <3>1. CASE s = n
      <4>1. CASE p = 0
        BY <1>1, <1>3, <1>4, <3>1, <4>1
      <4>2. CASE p # 0
        <5>1. root = sess[p].root /\ root <= n /\ root # n
          BY <1>3, <1>a, <1>b, <4>2
        <5>2. root # 0 => /\ sess[p].user = sess[root].user /\ root \in Session
                          /\ sess'[root] = sess[root]
          BY <1>b, <1>4, <4>2, <5>1 DEF LoginInv, LineageOK
        <5>3. /\ ~(s > n) /\ s <= n
          BY <1>a, <3>1
        <5>4. QED
          BY <1>4, <1>6, <3>1, <4>2, <5>1, <5>2, <5>3
      <4>3. QED
        BY <4>1, <4>2
    <3>2. CASE s # n
      <4>1. sess'[s] = sess[s] /\ (s > n => s > minted)
        BY <1>1, <1>a, <1>4, <3>2
      <4>2. /\ s > minted => sess[s].root = 0
            /\ sess[s].known => s <= minted
            /\ sess[s].root <= minted
            /\ sess[s].root # 0 => sess[s].user = sess[sess[s].root].user
        BY DEF LoginInv, LineageOK
      <4>3. /\ sess[s].root # 0 => sess[s].root \in Session /\ sess[s].root # n
            /\ sess[s].root <= n
        BY <1>a, <1>b
      <4>4. s <= minted => s <= n
        BY <1>1, <1>a DEF Old
      <4>5. sess[s].root # 0 => sess'[sess[s].root] = sess[sess[s].root]
        BY <1>4, <4>3
      <4>6. QED
        BY <4>1, <4>2, <4>3, <4>4, <4>5
    <3>3. QED
      BY <3>1, <3>2
  <2>2. \A c \in ended' : c <= n
    <3>1. \A c \in ended : c <= minted /\ c \in Nat
      BY <1>1 DEF LoginInv, LineageOK, TypeOK
    <3>2. QED
      BY <1>1, <1>2, <3>1
  <2>3. QED
    BY <1>4, <2>1, <2>2 DEF LineageOK
<1>8. TokensOK'
  <2>1. SUFFICES ASSUME NEW q \in Request, req'[q].token # 0
                 PROVE  req'[q].token <= n /\ sess'[req'[q].token].user = req'[q].user
    BY <1>4 DEF TokensOK
  <2>2. req'[q] = req[q] /\ req[q].token \in Session /\ req[q].token # 0
    BY <1>c, <2>1
  <2>3. req[q].token # n /\ req[q].token <= n
    BY <1>a, <1>c, <2>2
  <2>4. QED
    BY <1>4, <2>1, <2>2, <2>3 DEF LoginInv, TokensOK
<1>9. ASSUME NEW c \in Session \ raced PROVE LoginOK(c)'
  <2>1. LoginOK(c)
    BY DEF LoginInv
  <2>2. n \notin Chain(c)
    BY <1>1, <1>2 DEF LoginInv, LineageOK
  <2>3. Chain(c)' = IF c = root THEN Chain(c) \cup {n} ELSE Chain(c)
    BY <1>1, <1>4, <2>2 DEF Chain
  <2>4. \A s \in Chain(c) : s \in Session /\ s # n /\ sess'[s] = sess[s]
    BY <1>1, <1>4, <2>2
  <2>5. ASSUME NEW q \in Request, req'[q].token \in Chain(c)'
        PROVE  q # r /\ req'[q] = req[q] /\ req[q].token \in Chain(c)
    <3>1. req'[q].token # 0
      BY <1>1, <2>3, <2>4, <2>5
    <3>2. q # r /\ req'[q] = req[q]
      BY <3>1
    <3>3. req[q].token # n
      BY <1>1, <1>2, <3>1, <3>2 DEF LoginInv, TokensOK
    <3>4. QED
      BY <2>3, <2>5, <3>2, <3>3
  <2>6. CASE c # root
    <3>1. Chain(c)' = Chain(c) /\ (Dead(c)' <=> Dead(c))
      BY <2>3, <2>4, <2>6 DEF Dead
    <3>2. ASSUME NEW q \in Request, WorksOn(q, c)' PROVE q # r /\ WorksOn(q, c)
      <4>1. q # r
        BY <1>1, <2>4, <3>1, <3>2 DEF WorksOn
      <4>2. QED
        BY <2>4, <3>1, <3>2, <4>1 DEF WorksOn, Revoking
    <3>3. \A q \in Request \ {r} : Revoking(q) => Revoking(q)'
      BY DEF Revoking
    <3>4. \A p2, q \in Request : (p2 # q /\ WorksOn(p2, c)' /\ WorksOn(q, c)') => Revoking(p2)'
      BY <2>1, <3>2, <3>3 DEF LoginOK
    <3>5. \A s, u \in Chain(c) : (sess'[s].state = "active" /\ sess'[u].state = "active") => s = u
      BY <2>1, <2>4 DEF LoginOK
    <3>6. c \in ended => Dead(c)
      BY <2>1 DEF LoginOK
    <3>7. ASSUME NEW q \in Request, req'[q].token \in Chain(c)'
          PROVE  /\ req'[q].pc \in {"refreshInvalidate", "logoutInvalidate"} =>
                       sess'[req'[q].token].state = "active"
                 /\ req'[q].pc \in {"refreshUser", "refreshCreate"} => c \notin ended /\ Dead(c)
      <4>1. req'[q] = req[q] /\ req[q].token \in Chain(c)
        BY <2>5, <3>7
      <4>2. sess'[req[q].token] = sess[req[q].token]
        BY <2>4, <4>1
      <4>3. QED
        BY <2>1, <4>1, <4>2 DEF LoginOK
    <3>8. QED
      BY <3>1, <3>4, <3>5, <3>6, <3>7 DEF LoginOK
  <2>7. CASE c = root
    <3>1. Dead(c) /\ c \notin ended
      <4>1. CASE p = 0
        <5>1. c = n
          BY <1>3, <2>7, <4>1
        <5>2. Chain(c) = {}
          BY <1>1, <1>a, <1>b, <5>1
        <5>3. c \notin ended
          BY <1>1, <1>2, <5>1 DEF LoginInv, LineageOK
        <5>4. QED
          BY <5>2, <5>3 DEF Dead
      <4>2. CASE p # 0
        <5>1. req[r].token \in Chain(c) /\ req[r].pc = "refreshCreate"
          BY <1>1, <1>3, <1>6, <2>7, <4>2
        <5>2. QED
          BY <2>1, <5>1 DEF LoginOK
      <4>3. QED
        BY <4>1, <4>2
    <3>2. ASSUME NEW q \in Request, WorksOn(q, c)' PROVE q # r /\ Revoking(q)'
      <4>1. PICK s \in Chain(c)' : \/ s = req'[q].token
                                   \/ Revoking(q)' /\ sess'[s].user = req'[q].user
        BY <3>2 DEF WorksOn
      <4>2. q # r
        BY <1>1, <2>3, <2>4, <4>1
      <4>3. CASE s = req'[q].token
        <5>1. req[q].token \in Chain(c) /\ WorksOn(q, c)
          BY <2>5, <4>1, <4>3 DEF WorksOn
        <5>2. p # 0
          <6>1. SUFFICES ASSUME p = 0 PROVE FALSE
            OBVIOUS
          <6>2. c = n
            BY <1>3, <2>7, <6>1
          <6>3. sess[req[q].token].root = n /\ req[q].token \in Session
            BY <1>1, <5>1, <6>2
          <6>4. QED
            BY <1>a, <1>b, <6>3
        <5>3. WorksOn(r, c)
          BY <1>1, <1>3, <1>6, <2>7, <5>2 DEF WorksOn
        <5>4. Revoking(q)
          BY <2>1, <4>2, <5>1, <5>3 DEF LoginOK
        <5>5. QED
          BY <4>2, <5>4 DEF Revoking
      <4>4. QED
        BY <4>1, <4>2, <4>3
    <3>3. Chain(c)' = Chain(c) \cup {n}
      BY <2>3, <2>7
    <3>4. \A s, u \in Chain(c)' : (sess'[s].state = "active" /\ sess'[u].state = "active") => s = u
      BY <2>4, <3>1, <3>3 DEF Dead
    <3>5. ASSUME NEW q \in Request, req'[q].token \in Chain(c)'
          PROVE  req'[q].pc \in {"revokeUser", "revokeAll"}
      BY <3>2, <3>5 DEF WorksOn, Revoking
    <3>6. QED
      BY <3>1, <3>2, <3>4, <3>5 DEF LoginOK
  <2>8. QED
    BY <2>6, <2>7
<1>10. QED
  BY <1>7, <1>8, <1>9 DEF LoginInv

\* No step of a request breaks the invariant of the logins.
LEMMA GatewayLogins ==
    ASSUME TypeOK, RotationInv, LoginInv, NEW r \in Request, Gateway(r)
    PROVE  LoginInv'
<1>1. /\ \A q \in Request : req[q].token \in {0} \cup Session
      /\ \A s \in Session : s # 0
      /\ \A c : \A s : s \in Chain(c) <=> s \in Session /\ sess[s].root = c
      /\ FreeRows
  BY LoginTypes DEF RotationInv
<1>2. ASSUME Answer(r) PROVE /\ req'[r].token = 0 /\ ~Revoking(r)'
                             /\ \A q \in Request \ {r} : req'[q] = req[q]
  BY <1>2, AnswerFrame DEF Revoking
<1>3. ASSUME NEW pc \in {"loginCredential", "loginCreate", "refreshInvalidate", "refreshUser",
                         "refreshCreate", "logoutInvalidate", "revokeAll"},
             Goto(r, pc), Revoking(r) <=> pc = "revokeAll"
      PROVE  /\ req'[r].pc = pc /\ req'[r].token = req[r].token /\ req'[r].user = req[r].user
             /\ \A q \in Request \ {r} : req'[q] = req[q]
             /\ Revoking(r)' <=> Revoking(r)
  <2>1. /\ req'[r].pc = pc /\ req'[r].token = req[r].token /\ req'[r].user = req[r].user
        /\ \A q \in Request \ {r} : req'[q] = req[q]
    BY <1>3, GotoFrame
  <2>2. QED
    BY <1>3, <2>1 DEF Revoking
<1>4. CASE Login(r)
  <2>1. PICK u \in User : Begin(r, "loginUser", u, 0)
    BY <1>4 DEF Login
  <2>2. /\ req'[r].pc = "loginUser" /\ req'[r].token = 0
        /\ \A q \in Request \ {r} : req'[q] = req[q]
    BY <2>1, BeginFrame
  <2>3. ~Revoking(r)'
    BY <2>2 DEF Revoking
  <2>4. UNCHANGED <<sess, minted, ended, raced>>
    BY <1>4 DEF Login
  <2>5. QED
    BY <2>2, <2>3, <2>4, LoginMoves
<1>5. CASE \/ LoginUser(r) \/ LoginCredential(r) \/ RefreshGet(r) \/ RefreshUser(r)
           \/ LogoutGet(r) \/ RevokeUser(r)
  <2>1. UNCHANGED <<sess, minted, ended, raced>>
    BY <1>5 DEF LoginUser, LoginCredential, RefreshGet, RefreshUser, LogoutGet, RevokeUser
  <2>2. CASE Answer(r)
    BY <1>2, <2>1, <2>2, LoginMoves
  <2>3. CASE ~Answer(r)
    <3>1. PICK pc \in {"loginCredential", "loginCreate", "refreshInvalidate",
                       "refreshCreate", "logoutInvalidate", "revokeAll"} :
             /\ Goto(r, pc)
             /\ pc \in {"refreshInvalidate", "logoutInvalidate"} => ActiveSession(req[r].token)
             /\ pc = "refreshCreate" => req[r].pc = "refreshUser"
             /\ pc = "revokeAll" <=> req[r].pc = "revokeUser"
             /\ req[r].pc # "revokeAll"
      <4>1. CASE LoginUser(r)
        BY <2>3, <4>1 DEF LoginUser
      <4>2. CASE LoginCredential(r)
        BY <2>3, <4>2 DEF LoginCredential
      <4>3. CASE RefreshGet(r)
        BY <2>3, <4>3 DEF RefreshGet
      <4>4. CASE RefreshUser(r)
        BY <2>3, <4>4 DEF RefreshUser
      <4>5. CASE LogoutGet(r)
        BY <2>3, <4>5 DEF LogoutGet
      <4>6. CASE RevokeUser(r)
        BY <2>3, <4>6 DEF RevokeUser
      <4>7. QED
        BY <1>5, <4>1, <4>2, <4>3, <4>4, <4>5, <4>6
    <3>2. Revoking(r) <=> pc = "revokeAll"
      BY <3>1 DEF Revoking
    <3>3. /\ req'[r].pc = pc /\ req'[r].token = req[r].token /\ req'[r].user = req[r].user
          /\ \A q \in Request \ {r} : req'[q] = req[q]
          /\ Revoking(r)' <=> Revoking(r)
      BY <1>3, <3>1, <3>2
    <3>4. /\ req'[r].pc \in {"refreshInvalidate", "logoutInvalidate"} =>
                (req[r].token # 0 => sess[req[r].token].state = "active")
          /\ req'[r].pc \in {"refreshUser", "refreshCreate"} =>
                req[r].pc \in {"refreshUser", "refreshCreate"}
      BY <3>1, <3>3 DEF ActiveSession
    <3>5. QED
      BY <2>1, <3>3, <3>4, LoginMoves
  <2>4. QED
    BY <2>2, <2>3
<1>6. CASE LoginCreate(r) \/ RefreshCreate(r)
  <2>1. Answer(r) /\ UNCHANGED <<ended, raced>>
    BY <1>6 DEF LoginCreate, RefreshCreate
  <2>2. \/ UNCHANGED <<sess, minted>>
        \/ \E o \in Outcome, p \in {0} \cup Session :
              /\ CreateSession(r, o, p)
              /\ p # 0 => p = req[r].token /\ req[r].pc = "refreshCreate"
    BY <1>1, <1>6 DEF LoginCreate, RefreshCreate
  <2>3. CASE UNCHANGED <<sess, minted>>
    BY <1>2, <2>1, <2>3, LoginMoves
  <2>4. CASE \E o \in Outcome, p \in {0} \cup Session :
                /\ CreateSession(r, o, p)
                /\ p # 0 => p = req[r].token /\ req[r].pc = "refreshCreate"
    <3>1. PICK o \in Outcome, p \in {0} \cup Session :
             /\ CreateSession(r, o, p)
             /\ p # 0 => p = req[r].token /\ req[r].pc = "refreshCreate"
      BY <2>4
    <3>2. QED
      BY <1>1, <1>2, <2>1, <3>1, LoginCreates
  <2>5. QED
    BY <2>2, <2>3, <2>4
<1>7. CASE Refresh(r) \/ Logout(r)
  <2>1. PICK s \in Session, pc \in {"refreshGet", "logoutGet"} :
           /\ sess[s].known /\ Begin(r, pc, sess[s].user, s)
           /\ raced' = raced \cup (InUse(r) \cap {sess[s].root})
    BY <1>7 DEF Refresh, Logout
  <2>2. /\ req'[r].pc = pc /\ req'[r].token = s /\ req'[r].user = sess[s].user
        /\ \A q \in Request \ {r} : req'[q] = req[q]
    BY <2>1, BeginFrame
  <2>3. UNCHANGED <<sess, minted, ended>>
    BY <1>7 DEF Refresh, Logout
  <2>4. s <= minted
    BY <2>1 DEF LoginInv, LineageOK
  <2>5. ASSUME NEW c \in Session, WorksOn(r, c)', c \in InUse(r) PROVE c \in raced'
    <3>1. ~Revoking(r)'
      BY <2>2 DEF Revoking
    <3>2. s \in Chain(c)
      BY <2>2, <2>3, <2>5, <3>1 DEF WorksOn, Chain
    <3>3. QED
      BY <1>1, <2>1, <2>5, <3>2
  <2>6. QED
    BY <2>1, <2>2, <2>3, <2>4, <2>5, LoginBegins
<1>8. CASE RevokeSessions(r)
  <2>1. PICK u \in User :
           /\ Begin(r, "revokeUser", u, 0)
           /\ raced' = raced \cup (InUse(r) \cap Roots({s \in Session : sess[s].user = u}))
    BY <1>8 DEF RevokeSessions
  <2>2. /\ req'[r].pc = "revokeUser" /\ req'[r].token = 0 /\ req'[r].user = u
        /\ \A q \in Request \ {r} : req'[q] = req[q]
    BY <2>1, BeginFrame
  <2>3. UNCHANGED <<sess, minted, ended>>
    BY <1>8 DEF RevokeSessions
  <2>4. ASSUME NEW c \in Session, WorksOn(r, c)', c \in InUse(r) PROVE c \in raced'
    <3>1. PICK s \in Chain(c) : sess[s].user = u
      BY <1>1, <2>2, <2>3, <2>4 DEF WorksOn, Chain
    <3>2. c \in Roots({x \in Session : sess[x].user = u})
      BY <1>1, <3>1 DEF Roots
    <3>3. QED
      BY <2>1, <2>4, <3>2
  <2>5. QED
    BY <2>1, <2>2, <2>3, <2>4, LoginBegins
<1>9. ASSUME NEW S \in SUBSET Session, Invalidate(S), S \subseteq {req[r].token},
             req[r].pc \in {"refreshInvalidate", "logoutInvalidate"},
             NEW c \in Session \ raced, NEW s \in S \cap Chain(c)
      PROVE  Dead(c)'
  <2>1. s = req[r].token /\ S = {s} /\ s \in Chain(c)
    BY <1>9
  <2>2. sess[s].state = "active"
    BY <1>9, <2>1 DEF LoginInv, LoginOK
  <2>3. \A x \in Chain(c) : sess[x].state = "active" => x = s
    BY <2>1, <2>2 DEF LoginInv, LoginOK
  <2>4. \A x \in Session : /\ sess'[x].root = sess[x].root
                           /\ sess'[x].state = "active" => sess[x].state = "active" /\ x \notin S
    BY <1>9, InvalidateLineage
  <2>5. QED
    BY <1>1, <2>1, <2>3, <2>4 DEF Dead, Chain
<1>10. CASE RefreshInvalidate(r)
  <2>1. PICK o \in Outcome :
           /\ Invalidate(IF Commits(o) THEN {req[r].token} ELSE {})
           /\ IF o = "ok" THEN Goto(r, "refreshUser") ELSE Answer(r)
    BY <1>10 DEF RefreshInvalidate
  <2>2. /\ req[r].pc = "refreshInvalidate" /\ UNCHANGED <<minted, ended, raced>>
        /\ req[r].token \in Session
    BY <1>10 DEF RefreshInvalidate, RotationInv, Exchanging
  <2>3. PICK S \in SUBSET Session : /\ S = IF Commits(o) THEN {req[r].token} ELSE {}
                                    /\ Invalidate(S) /\ S \subseteq {req[r].token}
    BY <2>1, <2>2
  <2>4. \A c \in Session \ raced : \A s \in S \cap Chain(c) : Dead(c)'
    BY <1>9, <2>2, <2>3
  <2>5. CASE o = "ok"
    <3>1. S = {req[r].token} /\ Goto(r, "refreshUser")
      BY <2>1, <2>3, <2>5 DEF Commits
    <3>2. /\ req'[r].pc = "refreshUser" /\ req'[r].token = req[r].token
          /\ req'[r].user = req[r].user
          /\ \A q \in Request \ {r} : req'[q] = req[q]
      BY <3>1, GotoFrame
    <3>3. QED
      BY <2>2, <2>3, <2>4, <3>1, <3>2, LoginEnds
  <2>6. CASE o # "ok"
    <3>1. Answer(r)
      BY <2>1, <2>6
    <3>2. QED
      BY <1>2, <2>2, <2>3, <2>4, <3>1, LoginEnds
  <2>7. QED
    BY <2>5, <2>6
<1>11. CASE LogoutInvalidate(r)
  <2>1. PICK o \in Outcome :
           /\ Invalidate(IF Commits(o) THEN {req[r].token} ELSE {})
           /\ ended' = ended \cup Roots(IF Commits(o) THEN {req[r].token} ELSE {})
    BY <1>11 DEF LogoutInvalidate
  <2>2. req[r].pc = "logoutInvalidate" /\ UNCHANGED <<minted, raced>> /\ Answer(r)
    BY <1>11 DEF LogoutInvalidate
  <2>3. CASE req[r].token \in Session
    <3>1. PICK S \in SUBSET Session : /\ Invalidate(S) /\ S \subseteq {req[r].token}
                                      /\ ended' = ended \cup Roots(S)
      BY <2>1, <2>3
    <3>2. \A c \in Session \ raced : \A s \in S \cap Chain(c) : Dead(c)'
      BY <1>9, <2>2, <3>1
    <3>3. QED
      BY <1>2, <2>2, <3>1, <3>2, LoginEnds
  <2>4. CASE req[r].token \notin Session
    <3>1. req[r].token = 0
      BY <1>1, <2>4
    <3>2. Invalidate({}) /\ ended' = ended
      BY <1>1, <2>1, <2>4 DEF Invalidate, Roots, Chain
    <3>3. QED
      BY <1>2, <2>2, <3>2, LoginEnds
  <2>5. QED
    BY <2>3, <2>4
<1>12. CASE RevokeAll(r)
  <2>1. PICK o \in Outcome :
           /\ Invalidate({s \in Session : Commits(o) /\ sess[s].user = req[r].user})
           /\ ended' = ended \cup Roots({s \in Session : Commits(o) /\ sess[s].user = req[r].user})
    BY <1>12 DEF RevokeAll
  <2>2. /\ Revoking(r) /\ UNCHANGED <<minted, raced>> /\ Answer(r)
    BY <1>12 DEF RevokeAll, Revoking
  <2>3. PICK S \in SUBSET Session :
           /\ S = {s \in Session : Commits(o) /\ sess[s].user = req[r].user}
           /\ Invalidate(S) /\ ended' = ended \cup Roots(S)
    BY <2>1
  <2>4. ASSUME NEW c \in Session \ raced, NEW s \in S \cap Chain(c) PROVE Dead(c)'
    <3>1. /\ Commits(o) /\ s \in Session /\ sess[s].user = req[r].user /\ sess[s].root = c
      BY <1>1, <2>3
    <3>2. sess[c].user = req[r].user /\ c # 0
      BY <1>1, <3>1 DEF LoginInv, LineageOK
    <3>3. \A x \in Chain(c) : x \in S
      BY <1>1, <2>3, <3>1, <3>2 DEF LoginInv, LineageOK
    <3>4. \A x \in Session : /\ sess'[x].root = sess[x].root
                             /\ sess'[x].state = "active" => x \notin S
      BY <2>3, InvalidateLineage
    <3>5. QED
      BY <1>1, <3>3, <3>4 DEF Dead, Chain
  <2>5. \A s \in S : Revoking(r) /\ sess[s].user = req[r].user
    BY <2>2, <2>3
  <2>6. QED
    BY <1>2, <2>2, <2>3, <2>4, <2>5, LoginEnds
<1>13. QED
  BY <1>4, <1>5, <1>6, <1>7, <1>8, <1>10, <1>11, <1>12 DEF Gateway

LEMMA LoginAlways == Spec => []LoginInv
<1>1. Init => LoginInv
  <2> SUFFICES ASSUME Init PROVE LoginInv
    OBVIOUS
  <2>1. /\ \A s \in Session : /\ sess[s].state = "none" /\ sess[s].root = 0 /\ ~sess[s].known
                              /\ s \in Nat /\ s # 0
        /\ \A q \in Request : req[q].pc = "idle" /\ req[q].token = 0
        /\ minted = 0 /\ ended = {}
    BY AuthSettingsAssumption DEF Init, Idle, Session
  <2>2. LineageOK
    BY <2>1 DEF LineageOK
  <2>3. TokensOK
    BY <2>1 DEF TokensOK
  <2>4. \A c \in Session : Chain(c) = {}
    BY <2>1 DEF Chain
  <2>5. \A c \in Session : LoginOK(c)
    BY <2>1, <2>4 DEF LoginOK, WorksOn
  <2>6. QED
    BY <2>2, <2>3, <2>5 DEF LoginInv
<1>2. TypeOK /\ RotationInv /\ LoginInv /\ [Next]_vars => LoginInv'
  <2> SUFFICES ASSUME TypeOK, RotationInv, LoginInv, [Next]_vars PROVE LoginInv'
    OBVIOUS
  <2>1. ASSUME UNCHANGED <<sess, minted, req, ended, raced>> PROVE LoginInv'
    BY <2>1 DEF LoginInv, LineageOK, TokensOK, LoginOK, Dead, WorksOn, Revoking, Chain
  <2>2. CASE Bootstrap
    BY <2>1, <2>2 DEF Bootstrap, BootStart, BootFind, BootCreateUser, BootCreateCredential
  <2>3. CASE Tick
    BY <2>1, <2>3 DEF Tick
  <2>4. ASSUME NEW u \in User, SwitchAccount(u) PROVE LoginInv'
    BY <2>1, <2>4 DEF SwitchAccount
  <2>5. CASE UNCHANGED vars
    BY <2>1, <2>5 DEF vars
  <2>6. QED
    BY <2>2, <2>3, <2>4, <2>5, GatewayLogins DEF Next
<1>3. QED
  BY <1>1, <1>2, TypeCorrect, RotationAlways, PTL DEF Spec

(***************************************************************************)
(* A login whose requests do not overlap has one live session at most, and *)
(* none after a logout or a revocation: for any number of accounts, of     *)
(* requests on other logins, and any failed call or lost answer            *)
(* (auth.go: Refresh, Logout, RevokeSessions).                             *)
(***************************************************************************)
THEOREM OneTokenForEachLogin == Spec => []OneTokenPerLogin
<1>1. TypeOK /\ LoginInv => OneTokenPerLogin
  <2> SUFFICES ASSUME TypeOK, LoginInv, NEW c \in Session \ raced,
                      NEW live, live = {s \in Chain(c) : sess[s].state = "active"}
               PROVE  IF c \in ended THEN live = {} ELSE Cardinality(live) <= 1
    BY DEF OneTokenPerLogin
  <2>1. LoginOK(c)
    BY DEF LoginInv
  <2>2. CASE c \in ended
    BY <2>1, <2>2 DEF LoginOK, Dead
  <2>3. CASE live = {}
    <3>1. Cardinality(live) = 0
      BY <2>3, FS_EmptySet
    <3>2. QED
      BY <2>3, <3>1
  <2>4. CASE live # {} /\ c \notin ended
    <3>1. PICK s : s \in live
      BY <2>4
    <3>2. live = {s}
      BY <2>1, <3>1 DEF LoginOK
    <3>3. Cardinality({s}) = 1
      BY FS_Singleton
    <3>4. QED
      BY <2>4, <3>2, <3>3
  <2>5. QED
    BY <2>2, <2>3, <2>4
<1>2. QED
  BY <1>1, TypeCorrect, LoginAlways, PTL

-----------------------------------------------------------------------------
(* The abstract service of sessions *)

\* A step that leaves the table alone maps to none.
LEMMA TableStutters ==
    ASSUME UNCHANGED sess
    PROVE  UNCHANGED SS!vars
BY DEF SS!vars, StateView, OwnerView, FromView

\* What an invalidation does to the rows, as a user of the service sees them.
LEMMA InvalidateView ==
    ASSUME TypeOK, NEW S, Invalidate(S)
    PROVE  /\ StateView' = [s \in Session |-> IF s \in S /\ sess[s].state = "active"
                                              THEN "ended" ELSE sess[s].state]
           /\ OwnerView' = OwnerView /\ FromView' = FromView
<1>1. ASSUME NEW s \in Session
      PROVE  /\ sess'[s].state = IF s \in S /\ sess[s].state = "active"
                                 THEN "ended" ELSE sess[s].state
             /\ sess'[s].user = sess[s].user /\ sess'[s].parent = sess[s].parent
  <2>1. sess[s] \in SessionRow
    BY DEF TypeOK
  <2>2. CASE s \in S /\ sess[s].state = "active"
    <3>1. sess'[s] = [sess[s] EXCEPT !.state = "ended"]
      BY <2>2 DEF Invalidate
    <3>2. QED
      BY <2>1, <2>2, <3>1 DEF SessionRow
  <2>3. CASE ~(s \in S /\ sess[s].state = "active")
    <3>1. sess'[s] = sess[s]
      BY <2>3 DEF Invalidate
    <3>2. QED
      BY <2>3, <3>1
  <2>4. QED
    BY <2>2, <2>3
<1>2. QED
  BY <1>1 DEF StateView, OwnerView, FromView

\* What a creation does to them.
LEMMA CreateView ==
    ASSUME TypeOK, FreeRows, NEW r \in Request, NEW o, NEW p, CreateSession(r, o, p)
    PROVE  SS!Open(minted + 1, req[r].user, p)
<1> DEFINE n == minted + 1
<1>1. n \in Session /\ sess[n].state = "none" /\ \A s \in Session \ {n} : sess'[s] = sess[s]
  BY CreateRows
<1>2. sess'[n].state = "active" /\ sess'[n].user = req[r].user /\ sess'[n].parent = p
  BY <1>1 DEF CreateSession, TypeOK
<1> HIDE DEF n
<1>3. StateView' = [StateView EXCEPT ![n] = "active"]
  BY <1>1, <1>2 DEF StateView
<1>4. OwnerView' = [OwnerView EXCEPT ![n] = req[r].user]
  BY <1>1, <1>2 DEF OwnerView
<1>5. FromView' = [FromView EXCEPT ![n] = p]
  BY <1>1, <1>2 DEF FromView
<1>6. StateView[n] = "none"
  BY <1>1 DEF StateView
<1>7. QED
  BY <1>3, <1>4, <1>5, <1>6 DEF SS!Open, n

\* Every step of a request is one of the service, or none.
LEMMA GatewayRefines ==
    ASSUME TypeOK, RotationInv, TokensOK, NEW r \in Request, Gateway(r)
    PROVE  [SS!Next]_(SS!vars)
<1>1. req[r] \in RequestState
  BY DEF TypeOK
<1>2. CASE Login(r) \/ LoginUser(r) \/ LoginCredential(r) \/ Refresh(r) \/ RefreshGet(r)
           \/ RefreshUser(r) \/ Logout(r) \/ LogoutGet(r) \/ RevokeSessions(r) \/ RevokeUser(r)
  <2>1. UNCHANGED sess
    BY <1>2 DEF Login, LoginUser, LoginCredential, Refresh, RefreshGet, RefreshUser,
                Logout, LogoutGet, RevokeSessions, RevokeUser
  <2>2. QED
    BY <2>1, TableStutters
<1>3. CASE LoginCreate(r)
  <2>1. PICK o \in Outcome : IF Commits(o) THEN CreateSession(r, o, 0)
                                           ELSE UNCHANGED <<sess, minted>>
    BY <1>3 DEF LoginCreate
  <2>2. CASE CreateSession(r, o, 0)
    <3>1. SS!Open(minted + 1, req[r].user, 0) /\ minted + 1 \in Session
      BY <2>2, CreateView, CreateRows DEF RotationInv
    <3>2. req[r].user \in User
      BY <1>1 DEF RequestState
    <3>3. SS!Login(minted + 1)
      BY <3>1, <3>2 DEF SS!Login
    <3>4. QED
      BY <3>1, <3>3 DEF SS!Next
  <2>3. QED
    BY <2>1, <2>2, TableStutters
<1>4. CASE RefreshCreate(r)
  <2> DEFINE p == req[r].token
  <2>1. PICK o \in Outcome : IF Commits(o) THEN CreateSession(r, o, p)
                                           ELSE UNCHANGED <<sess, minted>>
    BY <1>4 DEF RefreshCreate
  <2>2. p \in Session /\ sess[p].state = "ended"
    BY <1>4 DEF RefreshCreate, RotationInv, Exchanging
  <2>3. sess[p].user = req[r].user
    BY <2>2, AuthSettingsAssumption DEF TokensOK, Session
  <2> HIDE DEF p
  <2>4. CASE CreateSession(r, o, p)
    <3>1. SS!Open(minted + 1, req[r].user, p) /\ minted + 1 \in Session
      BY <2>4, CreateView, CreateRows DEF RotationInv
    <3>2. StateView[p] = "ended" /\ OwnerView[p] = req[r].user
      BY <2>2, <2>3 DEF StateView, OwnerView
    <3>3. SS!Exchange(p, minted + 1)
      BY <3>1, <3>2 DEF SS!Exchange
    <3>4. QED
      BY <2>2, <3>1, <3>3 DEF SS!Next
  <2>5. QED
    BY <2>1, <2>4, TableStutters
<1>5. ASSUME NEW t, Invalidate({t}) PROVE [SS!Next]_(SS!vars)
  <2>1. /\ StateView' = [s \in Session |-> IF s \in {t} /\ sess[s].state = "active"
                                           THEN "ended" ELSE sess[s].state]
        /\ OwnerView' = OwnerView /\ FromView' = FromView
    BY <1>5, InvalidateView
  <2>2. CASE t \in Session /\ sess[t].state = "active"
    <3>1. StateView[t] = "active"
      BY <2>2 DEF StateView
    <3>2. StateView' = [StateView EXCEPT ![t] = "ended"]
      BY <2>1, <2>2 DEF StateView
    <3>3. SS!End(t)
      BY <2>1, <3>1, <3>2 DEF SS!End
    <3>4. QED
      BY <2>2, <3>3 DEF SS!Next
  <2>3. CASE ~(t \in Session /\ sess[t].state = "active")
    <3>1. StateView' = StateView
      BY <2>1, <2>3 DEF StateView
    <3>2. QED
      BY <2>1, <3>1 DEF SS!vars
  <2>4. QED
    BY <2>2, <2>3
<1>6. ASSUME Invalidate({}) PROVE [SS!Next]_(SS!vars)
  <2>1. /\ StateView' = [s \in Session |-> IF s \in {} /\ sess[s].state = "active"
                                           THEN "ended" ELSE sess[s].state]
        /\ OwnerView' = OwnerView /\ FromView' = FromView
    BY <1>6, InvalidateView
  <2>2. StateView' = StateView
    BY <2>1 DEF StateView
  <2>3. QED
    BY <2>1, <2>2 DEF SS!vars
<1>7. CASE RefreshInvalidate(r) \/ LogoutInvalidate(r)
  <2>1. PICK o \in Outcome : Invalidate(IF Commits(o) THEN {req[r].token} ELSE {})
    BY <1>7 DEF RefreshInvalidate, LogoutInvalidate
  <2>2. Invalidate({req[r].token}) \/ Invalidate({})
    BY <2>1
  <2>3. QED
    BY <1>5, <1>6, <2>2
<1>8. CASE RevokeAll(r)
  <2> DEFINE u == req[r].user
  <2>1. PICK o \in Outcome : Invalidate({s \in Session : Commits(o) /\ sess[s].user = u})
    BY <1>8 DEF RevokeAll
  <2>2. u \in User
    BY <1>1 DEF RequestState
  <2> HIDE DEF u
  <2>3. CASE Commits(o)
    <3>1. PICK S : S = {s \in Session : Commits(o) /\ sess[s].user = u}
      OBVIOUS
    <3>2. /\ StateView' = [s \in Session |-> IF s \in S /\ sess[s].state = "active"
                                             THEN "ended" ELSE sess[s].state]
          /\ OwnerView' = OwnerView /\ FromView' = FromView
      BY <2>1, <3>1, InvalidateView
    <3>3. StateView' = [s \in Session |-> IF StateView[s] = "active" /\ OwnerView[s] = u
                                          THEN "ended" ELSE StateView[s]]
      BY <2>3, <3>1, <3>2 DEF StateView, OwnerView
    <3>4. SS!Revoke(u)
      BY <3>2, <3>3 DEF SS!Revoke
    <3>5. QED
      BY <2>2, <3>4 DEF SS!Next
  <2>4. CASE ~Commits(o)
    <3>1. {s \in Session : Commits(o) /\ sess[s].user = u} = {}
      BY <2>4
    <3>2. QED
      BY <1>6, <2>1, <3>1
  <2>5. QED
    BY <2>3, <2>4
<1>9. QED
  BY <1>2, <1>3, <1>4, <1>7, <1>8 DEF Gateway

(***************************************************************************)
(* The gateway implements the abstract service of sessions, for any number *)
(* of accounts, sessions and overlapping requests: a token is exchanged    *)
(* only once its own session is over, for a session of the same user; no   *)
(* session comes back or changes hands; a revocation ends all those of its *)
(* user (auth.go: Refresh, Logout, RevokeSessions).                        *)
(***************************************************************************)
THEOREM SessionRefinement == Spec => ImplementsSessionService
<1>1. Init => SS!Init
  <2> SUFFICES ASSUME Init PROVE SS!Init
    OBVIOUS
  <2>1. \A s \in Session : sess[s].state = "none" /\ sess[s].user = Admin /\ sess[s].parent = 0
    BY DEF Init
  <2>2. StateView = [s \in Session |-> "none"] /\ FromView = [s \in Session |-> 0]
    BY <2>1 DEF StateView, FromView
  <2>3. OwnerView \in [Session -> User]
    BY <2>1, AccountAssumption DEF OwnerView
  <2>4. QED
    BY <2>2, <2>3 DEF SS!Init
<1>2. TypeOK /\ RotationInv /\ LoginInv /\ [Next]_vars => [SS!Next]_(SS!vars)
  <2> SUFFICES ASSUME TypeOK, RotationInv, LoginInv, [Next]_vars
               PROVE  [SS!Next]_(SS!vars)
    OBVIOUS
  <2>1. CASE \E r \in Request : Gateway(r)
    BY <2>1, GatewayRefines DEF LoginInv
  <2>2. CASE Bootstrap \/ Tick \/ (\E u \in User : SwitchAccount(u)) \/ UNCHANGED vars
    <3>1. UNCHANGED sess
      BY <2>2 DEF Bootstrap, BootStart, BootFind, BootCreateUser, BootCreateCredential,
                  Tick, SwitchAccount, vars
    <3>2. QED
      BY <3>1, TableStutters
  <2>3. QED
    BY <2>1, <2>2 DEF Next
<1>3. QED
  BY <1>1, <1>2, TypeCorrect, RotationAlways, LoginAlways, PTL
     DEF Spec, ImplementsSessionService, SS!Spec

-----------------------------------------------------------------------------
(* The login rate limiter *)

\* The attempts of a stretch are some of those there are.
LEMMA AttemptsFacts ==
  ASSUME LimiterTypeOK, NEW k \in Key, NEW from \in Nat
  PROVE  /\ granted[k] \in Seq(0 .. MaxClock)
         /\ IsFiniteSet(Attempts(k, from))
         /\ Cardinality(Attempts(k, from)) \in Nat
<1>1. /\ granted[k] \in Seq(0 .. MaxClock) /\ DOMAIN granted[k] = 1 .. Len(granted[k])
      /\ Len(granted[k]) \in Nat
  BY DEF LimiterTypeOK
<1>2. IsFiniteSet(1 .. Len(granted[k]))
  <2>1. \A n \in Nat : IsFiniteSet(1 .. n)
    BY FS_Interval
  <2>2. QED
    BY <1>1, <2>1
<1>3. IsFiniteSet(Attempts(k, from))
  BY <1>1, <1>2, FS_Subset DEF Attempts
<1>4. QED
  BY <1>1, <1>3, FS_CardinalityType

LEMMA SeqElement ==
  ASSUME NEW S, NEW g \in Seq(S), NEW j \in DOMAIN g
  PROVE  g[j] \in S
<1>1. Len(g) \in Nat /\ g \in [1 .. Len(g) -> S]
  OBVIOUS
<1>2. QED
  BY <1>1

\* One more attempt, present, is in the stretches that are under way.
LEMMA AttemptAdded ==
  ASSUME LimiterTypeOK, NEW k \in Key, NEW entry, Grant(k, entry), NEW from \in Nat
  PROVE  /\ granted'[k] = Append(granted[k], clock)
         /\ DOMAIN granted'[k] = DOMAIN granted[k] \cup {Len(granted[k]) + 1}
         /\ granted'[k][Len(granted[k]) + 1] = clock
         /\ \A i \in DOMAIN granted[k] : granted'[k][i] = granted[k][i]
         /\ clock \in from .. from + Window - 1 =>
               /\ Attempts(k, from)' = Attempts(k, from) \cup {Len(granted[k]) + 1}
               /\ Cardinality(Attempts(k, from)') = Cardinality(Attempts(k, from)) + 1
         /\ clock \notin from .. from + Window - 1 => Attempts(k, from)' = Attempts(k, from)
<1>1. granted \in [Key -> Seq(0 .. MaxClock)] /\ clock \in 0 .. MaxClock
  BY DEF LimiterTypeOK
<1>2. granted'[k] = Append(granted[k], clock)
  BY <1>1 DEF Grant
<1>3. PICK g \in Seq(0 .. MaxClock) : g = granted[k]
  BY <1>1
<1>4. /\ Len(g) \in Nat /\ DOMAIN g = 1 .. Len(g)
      /\ DOMAIN Append(g, clock) = 1 .. Len(g) + 1
      /\ Append(g, clock)[Len(g) + 1] = clock
      /\ \A i \in 1 .. Len(g) : Append(g, clock)[i] = g[i]
  BY <1>1
<1>5. DOMAIN Append(g, clock) = DOMAIN g \cup {Len(g) + 1} /\ Len(g) + 1 \notin DOMAIN g
  BY <1>4
<1>6. Attempts(k, from)' =
        {i \in DOMAIN Append(g, clock) : Append(g, clock)[i] \in from .. from + Window - 1}
  BY <1>2, <1>3 DEF Attempts
<1>7. Attempts(k, from) = {i \in DOMAIN g : g[i] \in from .. from + Window - 1}
  BY <1>3 DEF Attempts
<1> DEFINE T == from .. from + Window - 1
           n == Len(g) + 1
           new == Append(g, clock)
<1>8. /\ DOMAIN new = DOMAIN g \cup {n} /\ n \notin DOMAIN g
      /\ new[n] = clock /\ \A i \in DOMAIN g : new[i] = g[i]
  BY <1>4, <1>5
<1>9. CASE clock \in T
  <2>1. Attempts(k, from)' = Attempts(k, from) \cup {n} /\ n \notin Attempts(k, from)
    <3> HIDE DEF new, n, T
    <3>1. {i \in DOMAIN new : new[i] \in T} = {i \in DOMAIN g : g[i] \in T} \cup {n}
      BY <1>8, <1>9
    <3>2. QED
      BY <1>6, <1>7, <1>8, <3>1 DEF new, T
  <2>2. Cardinality(Attempts(k, from)') = Cardinality(Attempts(k, from)) + 1
    BY <2>1, AttemptsFacts, FS_AddElement
  <2>3. QED
    BY <1>2, <1>3, <1>8, <1>9, <2>1, <2>2
<1>10. CASE clock \notin T
  <2>1. Attempts(k, from)' = Attempts(k, from)
    <3> HIDE DEF new, n, T
    <3>1. {i \in DOMAIN new : new[i] \in T} = {i \in DOMAIN g : g[i] \in T}
      BY <1>8, <1>10
    <3>2. QED
      BY <1>6, <1>7, <3>1 DEF new, T
  <2>2. QED
    BY <1>2, <1>3, <1>8, <1>10, <2>1
<1>11. QED
  BY <1>9, <1>10

LEMMA EffectiveFacts == Effective \in Nat \ {0} /\ (Limit > 0 => Effective = Limit)
BY LimiterAssumption DEF Effective

\* The first attempt after a window starts one.
LEMMA FirstKeeps ==
  ASSUME LimiterInv, NEW k \in Key, AllowFirst(k),
         NEW starts \in SUBSET (0 .. MaxClock), Windows(k, starts)
  PROVE  clock \in 0 .. MaxClock /\ Windows(k, starts \cup {clock})'
<1>1. LimiterTypeOK /\ clock \in 0 .. MaxClock /\ clock' = clock
  BY DEF LimiterInv, LimiterTypeOK, AllowFirst, Grant
<1>2. Grant(k, [count |-> 1, windowAt |-> clock])
  BY DEF AllowFirst
<1>3. entries'[k].count = 1 /\ entries'[k].windowAt = clock
  BY <1>1, <1>2 DEF Grant, LimiterTypeOK
<1>4. PICK present \in 0 .. MaxClock : present = clock
  BY <1>1
<1>5. present \in Nat /\ Window \in Nat /\ Window > 0 /\ \A s \in starts : s \in Nat
  BY LimiterAssumption
<1>6. \A s \in starts : s + Window <= present
  <2> SUFFICES ASSUME NEW s \in starts, present < s + Window PROVE FALSE
    BY <1>5
  <2>1. Exists(k) /\ entries[k].windowAt = s
    BY <1>4 DEF Windows
  <2>2. clock - s >= Window
    BY <2>1 DEF AllowFirst, Expired, Age
  <2>3. QED
    BY <1>4, <1>5, <2>2
<1>7. \A i \in DOMAIN granted[k] : granted[k][i] \in Nat /\ granted[k][i] < present
  <2> SUFFICES ASSUME NEW i \in DOMAIN granted[k]
               PROVE  granted[k][i] \in Nat /\ granted[k][i] < present
    OBVIOUS
  <2>0. granted[k] \in Seq(0 .. MaxClock)
    BY <1>1 DEF LimiterTypeOK
  <2>1. granted[k][i] \in 0 .. MaxClock
    BY <2>0, SeqElement
  <2>2. PICK s \in starts : granted[k][i] \in s .. s + Window - 1
    BY DEF Windows, Attempts
  <2>3. QED
    BY <1>5, <1>6, <2>1, <2>2
<1>8. \A s \in starts : Attempts(k, s)' = Attempts(k, s)
  BY <1>1, <1>2, <1>4, <1>5, <1>6, AttemptAdded
<1>9. Attempts(k, present) = {}
  BY <1>5, <1>7 DEF Attempts
<1>10. /\ Attempts(k, present)' = {Len(granted[k]) + 1}
       /\ Cardinality(Attempts(k, present)') = 1
  <2>1. present \in present .. present + Window - 1
    BY <1>5
  <2>2. /\ Attempts(k, present)' = {} \cup {Len(granted[k]) + 1}
        /\ Cardinality(Attempts(k, present)') = Cardinality({}) + 1
    BY <1>1, <1>2, <1>4, <1>5, <1>9, <2>1, AttemptAdded
  <2>3. QED
    BY <2>2, FS_EmptySet
<1>11. /\ DOMAIN granted'[k] = DOMAIN granted[k] \cup {Len(granted[k]) + 1}
       /\ granted'[k][Len(granted[k]) + 1] = present
       /\ \A i \in DOMAIN granted[k] : granted'[k][i] = granted[k][i]
  BY <1>1, <1>2, <1>4, <1>5, AttemptAdded
<1> DEFINE more == starts \cup {present}
<1>12. \A s, u \in more : s < u => s + Window <= u
  <2> SUFFICES ASSUME NEW s \in more, NEW u \in more, s < u PROVE s + Window <= u
    OBVIOUS
  <2>1. CASE s \in starts /\ u \in starts
    BY <2>1 DEF Windows
  <2>2. CASE s = present
    BY <1>5, <1>6, <2>2
  <2>3. CASE s \in starts /\ u = present
    BY <1>6, <2>3
  <2>4. QED
    BY <2>1, <2>2, <2>3
<1>13. \A i \in DOMAIN granted'[k] : /\ granted'[k][i] <= present
                                     /\ \E s \in more : i \in Attempts(k, s)'
  <2> SUFFICES ASSUME NEW i \in DOMAIN granted'[k]
               PROVE  granted'[k][i] <= present /\ \E s \in more : i \in Attempts(k, s)'
    OBVIOUS
  <2>1. CASE i = Len(granted[k]) + 1
    BY <1>5, <1>10, <1>11, <2>1
  <2>2. CASE i \in DOMAIN granted[k]
    <3>1. PICK s \in starts : i \in Attempts(k, s)
      BY <2>2 DEF Windows
    <3>2. QED
      BY <1>5, <1>7, <1>8, <1>11, <2>2, <3>1
  <2>3. QED
    BY <1>11, <2>1, <2>2
<1>14. \A s \in more : /\ \E i \in DOMAIN granted'[k] : granted'[k][i] = s
                       /\ Cardinality(Attempts(k, s)') <= Effective
                       /\ present < s + Window => Exists(k)' /\ entries'[k].windowAt = s
  <2> SUFFICES ASSUME NEW s \in more
               PROVE  /\ \E i \in DOMAIN granted'[k] : granted'[k][i] = s
                      /\ Cardinality(Attempts(k, s)') <= Effective
                      /\ present < s + Window => Exists(k)' /\ entries'[k].windowAt = s
    OBVIOUS
  <2>1. CASE s = present
    <3>1. 1 <= Effective
      BY EffectiveFacts
    <3>2. Cardinality(Attempts(k, present)') <= Effective
      BY <1>10, <3>1
    <3>3. \E i \in DOMAIN granted'[k] : granted'[k][i] = present
      BY <1>11
    <3>4. Exists(k)' /\ entries'[k].windowAt = present
      BY <1>3, <1>4 DEF Exists
    <3>5. QED
      BY <2>1, <3>2, <3>3, <3>4, Zenon
  <2>2. CASE s \in starts
    <3>1. Cardinality(Attempts(k, s)) <= Effective /\ \E i \in DOMAIN granted[k] : granted[k][i] = s
      BY <2>2 DEF Windows
    <3>2. s + Window <= present
      BY <1>6, <2>2
    <3>3. ~(present < s + Window)
      BY <1>5, <2>2, <3>2
    <3>4. Cardinality(Attempts(k, s)') <= Effective
      BY <1>8, <2>2, <3>1
    <3>5. \E i \in DOMAIN granted'[k] : granted'[k][i] = s
      BY <1>11, <3>1
    <3>6. QED
      BY <3>3, <3>4, <3>5, Zenon
  <2>3. QED
    BY <2>1, <2>2
<1>15. /\ entries'[k].windowAt \in more
       /\ entries'[k].count = Cardinality(Attempts(k, present)')
  BY <1>3, <1>4, <1>10
<1>16. QED
  <2>1. Attempts(k, entries[k].windowAt)' = Attempts(k, present)'
    BY <1>3, <1>4 DEF Attempts
  <2>2. Windows(k, more)'
    BY <1>1, <1>4, <1>12, <1>13, <1>14, <1>15, <2>1 DEF Windows
  <2>3. QED
    BY <1>1, <1>4, <2>2

\* One more attempt in a window has room in it.
LEMMA MoreKeeps ==
  ASSUME LimiterInv, NEW k \in Key, AllowMore(k),
         NEW starts \in SUBSET (0 .. MaxClock), Windows(k, starts)
  PROVE  Windows(k, starts)'
<1>1. LimiterTypeOK /\ clock \in 0 .. MaxClock /\ clock' = clock
  BY DEF LimiterInv, LimiterTypeOK, AllowMore, Grant
<1>2. Grant(k, [entries[k] EXCEPT !.count = @ + 1])
  BY DEF AllowMore
<1>3. entries[k] \in [count : Nat, windowAt : 0 .. MaxClock]
  BY <1>1 DEF LimiterTypeOK
<1>4. PICK w \in 0 .. MaxClock, n \in Nat : w = entries[k].windowAt /\ n = entries[k].count
  BY <1>3
<1>5. entries'[k].count = n + 1 /\ entries'[k].windowAt = w
  BY <1>1, <1>2, <1>3, <1>4 DEF Grant, LimiterTypeOK
<1>6. PICK present \in 0 .. MaxClock : present = clock
  BY <1>1
<1>7. present \in Nat /\ w \in Nat /\ Window \in Nat /\ Window > 0 /\ \A s \in starts : s \in Nat
  BY LimiterAssumption
<1>8. Exists(k) /\ present < w + Window /\ n < Limit
  <2>1. Exists(k) /\ ~(present - w >= Window) /\ n < Limit
    BY <1>4, <1>6 DEF AllowMore, Expired, Age
  <2>2. QED
    BY <1>7, <2>1
<1>9. w \in starts /\ n = Cardinality(Attempts(k, w))
  BY <1>4, <1>8 DEF Windows
<1>10. w <= present
  <2>1. PICK i \in DOMAIN granted[k] : granted[k][i] = w
    BY <1>9 DEF Windows
  <2>2. QED
    BY <1>6, <2>1 DEF Windows
<1>11. \A s \in starts : s # w => present >= s + Window
  <2> SUFFICES ASSUME NEW s \in starts, s # w, present < s + Window PROVE FALSE
    BY <1>7
  <2>1. QED
    BY <1>4, <1>6 DEF Windows
<1>12. \A s \in starts : s # w => Attempts(k, s)' = Attempts(k, s)
  BY <1>1, <1>2, <1>6, <1>7, <1>11, AttemptAdded
<1>13. /\ Attempts(k, w)' = Attempts(k, w) \cup {Len(granted[k]) + 1}
       /\ Cardinality(Attempts(k, w)') = n + 1
  <2>1. present \in w .. w + Window - 1
    BY <1>7, <1>8, <1>10
  <2>2. QED
    BY <1>1, <1>2, <1>6, <1>7, <1>9, <2>1, AttemptAdded
<1>14. /\ DOMAIN granted'[k] = DOMAIN granted[k] \cup {Len(granted[k]) + 1}
       /\ granted'[k][Len(granted[k]) + 1] = present
       /\ \A i \in DOMAIN granted[k] : granted'[k][i] = granted[k][i]
  BY <1>1, <1>2, <1>6, <1>7, AttemptAdded
<1>15. \A s, u \in starts : s < u => s + Window <= u
  BY DEF Windows
<1>16. \A i \in DOMAIN granted'[k] : /\ granted'[k][i] <= present
                                     /\ \E s \in starts : i \in Attempts(k, s)'
  <2> SUFFICES ASSUME NEW i \in DOMAIN granted'[k]
               PROVE  granted'[k][i] <= present /\ \E s \in starts : i \in Attempts(k, s)'
    OBVIOUS
  <2>1. CASE i = Len(granted[k]) + 1
    BY <1>7, <1>9, <1>13, <1>14, <2>1
  <2>2. CASE i \in DOMAIN granted[k]
    <3>1. PICK s \in starts : i \in Attempts(k, s)
      BY <2>2 DEF Windows
    <3>2. i \in Attempts(k, s)'
      BY <1>12, <1>13, <3>1
    <3>3. granted[k][i] <= present
      BY <1>6, <2>2 DEF Windows
    <3>4. QED
      BY <1>14, <2>2, <3>2, <3>3
  <2>3. QED
    BY <1>14, <2>1, <2>2
<1>17. \A s \in starts : /\ \E i \in DOMAIN granted'[k] : granted'[k][i] = s
                         /\ Cardinality(Attempts(k, s)') <= Effective
                         /\ present < s + Window => Exists(k)' /\ entries'[k].windowAt = s
  <2> SUFFICES ASSUME NEW s \in starts
               PROVE  /\ \E i \in DOMAIN granted'[k] : granted'[k][i] = s
                      /\ Cardinality(Attempts(k, s)') <= Effective
                      /\ present < s + Window => Exists(k)' /\ entries'[k].windowAt = s
    OBVIOUS
  <2>1. \E i \in DOMAIN granted'[k] : granted'[k][i] = s
    BY <1>14 DEF Windows
  <2>2. Cardinality(Attempts(k, s)') <= Effective
    <3>1. CASE s = w
      <4>1. n + 1 <= Effective
        BY <1>4, <1>8, EffectiveFacts, LimiterAssumption
      <4>2. QED
        BY <1>13, <3>1, <4>1
    <3>2. CASE s # w
      BY <1>12, <3>2 DEF Windows
    <3>3. QED
      BY <3>1, <3>2
  <2>3. present < s + Window => Exists(k)' /\ entries'[k].windowAt = s
    <3>1. n + 1 # 0
      BY <1>4
    <3>2. present < s + Window => s = w
      BY <1>7, <1>11
    <3>3. QED
      BY <1>5, <3>1, <3>2 DEF Exists
  <2>4. QED
    BY <2>1, <2>2, <2>3
<1>18. QED
  <2>1. Attempts(k, entries[k].windowAt)' = Attempts(k, w)'
    BY <1>5 DEF Attempts
  <2>2. entries'[k].windowAt \in starts /\ entries'[k].count = Cardinality(Attempts(k, w)')
    BY <1>5, <1>9, <1>13
  <2>3. QED
    BY <1>1, <1>6, <1>15, <1>16, <1>17, <2>1, <2>2 DEF Windows

\* Time goes on, and an entry may be forgotten when its window is over.
LEMMA WindowsStay ==
  ASSUME LimiterTypeOK, NEW k \in Key, NEW starts \in SUBSET (0 .. MaxClock), Windows(k, starts),
         granted'[k] = granted[k], clock' \in Nat, clock <= clock',
         \/ entries'[k] = entries[k]
         \/ entries'[k] = NoEntry /\ (Exists(k) => Age(k) >= Window)
  PROVE  Windows(k, starts)'
<1>1. clock \in 0 .. MaxClock /\ clock \in Nat
  BY DEF LimiterTypeOK
<1>2. \A s \in starts : s \in Nat /\ Attempts(k, s)' = Attempts(k, s)
  BY DEF Attempts
<1>3. \A s, u \in starts : s < u => s + Window <= u
  BY DEF Windows
<1>4. \A i \in DOMAIN granted'[k] : /\ granted'[k][i] <= clock'
                                    /\ \E s \in starts : i \in Attempts(k, s)'
  <2> SUFFICES ASSUME NEW i \in DOMAIN granted[k]
               PROVE  granted[k][i] <= clock' /\ \E s \in starts : i \in Attempts(k, s)
    BY <1>2
  <2>1. granted[k] \in Seq(0 .. MaxClock)
    BY DEF LimiterTypeOK
  <2>2. granted[k][i] \in 0 .. MaxClock
    BY <2>1, SeqElement
  <2>3. granted[k][i] <= clock /\ \E s \in starts : i \in Attempts(k, s)
    BY DEF Windows
  <2>4. granted[k][i] <= clock'
    BY <1>1, <2>2, <2>3
  <2>5. QED
    BY <2>3, <2>4
<1>5. \A s \in starts : clock' < s + Window => Exists(k)' /\ entries'[k].windowAt = s
  <2> SUFFICES ASSUME NEW s \in starts, clock' < s + Window
               PROVE  Exists(k)' /\ entries'[k].windowAt = s
    OBVIOUS
  <2>1. s \in Nat /\ Window \in Nat
    BY <1>2, LimiterAssumption, Zenon
  <2>2. clock < s + Window
    BY <1>1, <2>1
  <2>3. Exists(k) /\ entries[k].windowAt = s
    BY <2>2 DEF Windows
  <2>4. ~(Age(k) >= Window)
    BY <1>1, <2>1, <2>2, <2>3 DEF Age
  <2>5. QED
    BY <2>3, <2>4 DEF Exists
<1>6. ASSUME Exists(k)'
      PROVE  /\ entries'[k].windowAt \in starts
             /\ entries'[k].count = Cardinality(Attempts(k, entries[k].windowAt)')
  <2>1. entries'[k] = entries[k] /\ Exists(k)
    BY <1>6 DEF Exists, NoEntry
  <2>2. PICK w \in starts : w = entries[k].windowAt
    BY <2>1 DEF Windows
  <2>3. entries[k].count = Cardinality(Attempts(k, w))
    BY <2>1, <2>2 DEF Windows
  <2>4. Attempts(k, entries[k].windowAt)' = Attempts(k, w)'
    BY <2>1, <2>2 DEF Attempts
  <2>5. QED
    BY <1>2, <2>1, <2>2, <2>3, <2>4
<1>7. QED
  BY <1>2, <1>3, <1>4, <1>5, <1>6 DEF Windows

LEMMA LimiterStep == LimiterInv /\ [LimiterNext]_limiterVars => LimiterInv'
<1> SUFFICES ASSUME LimiterInv, [LimiterNext]_limiterVars PROVE LimiterInv'
  OBVIOUS
<1>1. /\ LimiterTypeOK
      /\ entries \in [Key -> [count : Nat, windowAt : 0 .. MaxClock]]
      /\ clock \in 0 .. MaxClock /\ clock \in Nat
      /\ granted \in [Key -> Seq(0 .. MaxClock)]
  BY DEF LimiterInv, LimiterTypeOK
<1>2. NoEntry \in [count : Nat, windowAt : 0 .. MaxClock]
  BY LimiterAssumption DEF NoEntry
<1>3. \A k \in Key : \E starts \in SUBSET (0 .. MaxClock) : Windows(k, starts)
  BY DEF LimiterInv
<1>4. ASSUME NEW k \in Key, NEW entry \in [count : Nat, windowAt : 0 .. MaxClock], Grant(k, entry),
             \E starts \in SUBSET (0 .. MaxClock) : Windows(k, starts)'
      PROVE  LimiterInv'
  <2>1. Append(granted[k], clock) \in Seq(0 .. MaxClock)
    BY <1>1
  <2>2. LimiterTypeOK'
    BY <1>1, <1>4, <2>1 DEF Grant, LimiterTypeOK
  <2>3. ASSUME NEW q \in Key PROVE \E starts \in SUBSET (0 .. MaxClock) : Windows(q, starts)'
    <3>1. CASE q = k
      BY <1>4, <3>1
    <3>2. CASE q # k
      <4>1. entries'[q] = entries[q] /\ granted'[q] = granted[q] /\ clock' = clock
        BY <1>1, <1>4, <3>2 DEF Grant
      <4>2. PICK starts \in SUBSET (0 .. MaxClock) : Windows(q, starts)
        BY <1>3
      <4>3. clock' \in Nat /\ clock <= clock'
        BY <1>1, <4>1
      <4>4. QED
        BY <1>1, <4>1, <4>2, <4>3, WindowsStay
    <3>3. QED
      BY <3>1, <3>2
  <2>4. QED
    BY <2>2, <2>3 DEF LimiterInv
<1>5. ASSUME NEW k \in Key, AllowFirst(k) PROVE LimiterInv'
  <2>1. PICK starts \in SUBSET (0 .. MaxClock) : Windows(k, starts)
    BY <1>3
  <2>2. PICK present \in 0 .. MaxClock : present = clock
    BY <1>1
  <2>3. Windows(k, starts \cup {clock})' /\ clock' = clock
    BY <1>5, <2>1, FirstKeeps DEF AllowFirst, Grant
  <2>4. Windows(k, starts \cup {present})'
    BY <2>2, <2>3
  <2>5. [count |-> 1, windowAt |-> clock] \in [count : Nat, windowAt : 0 .. MaxClock]
    BY <1>1
  <2>6. Grant(k, [count |-> 1, windowAt |-> clock])
    BY <1>5 DEF AllowFirst
  <2>7. \E u \in SUBSET (0 .. MaxClock) : Windows(k, u)'
    BY <2>4
  <2>8. QED
    BY <1>4, <2>5, <2>6, <2>7
<1>6. ASSUME NEW k \in Key, AllowMore(k) PROVE LimiterInv'
  <2>1. PICK starts \in SUBSET (0 .. MaxClock) : Windows(k, starts)
    BY <1>3
  <2>2. Windows(k, starts)'
    BY <1>6, <2>1, MoreKeeps
  <2>3. [entries[k] EXCEPT !.count = @ + 1] \in [count : Nat, windowAt : 0 .. MaxClock]
    BY <1>1, SMTT(30)
  <2>4. Grant(k, [entries[k] EXCEPT !.count = @ + 1])
    BY <1>6 DEF AllowMore
  <2>5. QED
    BY <1>4, <2>2, <2>3, <2>4
<1>7. ASSUME LimiterTypeOK', clock <= clock',
             \A k \in Key :
                \/ granted'[k] = <<>> /\ entries'[k] = NoEntry
                \/ /\ granted'[k] = granted[k]
                   /\ \/ entries'[k] = entries[k]
                      \/ entries'[k] = NoEntry /\ (Exists(k) => Age(k) >= Window)
      PROVE  LimiterInv'
  <2>1. ASSUME NEW k \in Key PROVE \E starts \in SUBSET (0 .. MaxClock) : Windows(k, starts)'
    <3>1. CASE granted'[k] = <<>> /\ entries'[k] = NoEntry
      <4>1. DOMAIN granted'[k] = {} /\ ~Exists(k)'
        BY <3>1 DEF Exists, NoEntry
      <4>2. Windows(k, {})'
        BY <4>1 DEF Windows
      <4>3. QED
        BY <4>2
    <3>2. CASE /\ granted'[k] = granted[k]
               /\ \/ entries'[k] = entries[k]
                  \/ entries'[k] = NoEntry /\ (Exists(k) => Age(k) >= Window)
      <4>1. PICK starts \in SUBSET (0 .. MaxClock) : Windows(k, starts)
        BY <1>3
      <4>2. clock' \in Nat
        BY <1>7 DEF LimiterTypeOK
      <4>3. QED
        BY <1>1, <1>7, <3>2, <4>1, <4>2, WindowsStay
    <3>3. QED
      BY <1>7, <3>1, <3>2
  <2>2. QED
    BY <1>7, <2>1 DEF LimiterInv
<1>8. ASSUME NEW k \in Key, Reset(k) PROVE LimiterInv'
  <2>1. LimiterTypeOK' /\ clock' = clock
    BY <1>1, <1>2, <1>8 DEF Reset, LimiterTypeOK
  <2>2. \A q \in Key : \/ granted'[q] = <<>> /\ entries'[q] = NoEntry
                       \/ granted'[q] = granted[q] /\ entries'[q] = entries[q]
    BY <1>1, <1>8 DEF Reset
  <2>3. clock <= clock'
    BY <1>1, <2>1
  <2>4. QED
    BY <1>7, <2>1, <2>2, <2>3
<1>9. CASE Cleanup
  <2>1. LimiterTypeOK' /\ clock' = clock /\ granted' = granted
    BY <1>1, <1>2, <1>9 DEF Cleanup, LimiterTypeOK
  <2>2. ASSUME NEW k \in Key
        PROVE  \/ entries'[k] = entries[k]
               \/ entries'[k] = NoEntry /\ (Exists(k) => Age(k) >= Window)
    <3>1. Age(k) \in Int
      BY <1>1 DEF Age
    <3>2. Age(k) >= Window * 2 => Age(k) >= Window
      BY <3>1, LimiterAssumption
    <3>3. QED
      BY <1>9, <3>2 DEF Cleanup
  <2>3. clock <= clock'
    BY <1>1, <2>1
  <2>4. QED
    BY <1>7, <2>1, <2>2, <2>3
<1>10. CASE Advance \/ UNCHANGED limiterVars
  <2>1. entries' = entries /\ granted' = granted /\ clock' \in 0 .. MaxClock /\ clock <= clock'
    BY <1>1, <1>10, LimiterAssumption DEF Advance, limiterVars
  <2>2. LimiterTypeOK'
    BY <1>1, <2>1 DEF LimiterTypeOK
  <2>3. QED
    BY <1>7, <2>1, <2>2
<1>11. ASSUME NEW k \in Key, Refuse(k) PROVE LimiterInv'
  BY <1>10, <1>11 DEF Refuse
<1>12. QED
  BY <1>5, <1>6, <1>8, <1>9, <1>10, <1>11 DEF LimiterNext, Allow

\* What the windows say of any stretch of time.
LEMMA StretchBound ==
  ASSUME LimiterTypeOK, NEW k \in Key, NEW starts \in SUBSET (0 .. MaxClock), Windows(k, starts),
         NEW i \in DOMAIN granted[k]
  PROVE  Cardinality(Attempts(k, granted[k][i])) < 2 * Effective
<1>1. PICK t \in 0 .. MaxClock : t = granted[k][i]
  BY SeqElement DEF LimiterTypeOK
<1>2. PICK s \in starts : i \in Attempts(k, s)
  BY DEF Windows
<1>3. t \in Nat /\ s \in Nat /\ Window \in Nat /\ Window > 0 /\ Effective \in Nat /\ Effective > 0
  BY LimiterAssumption, EffectiveFacts
<1>4. s <= t /\ t < s + Window
  BY <1>1, <1>2, <1>3 DEF Attempts
<1>5. PICK j \in DOMAIN granted[k] : granted[k][j] = s
  BY DEF Windows
<1>6. /\ IsFiniteSet(Attempts(k, s)) /\ Cardinality(Attempts(k, s)) \in Nat
      /\ Cardinality(Attempts(k, s)) <= Effective
  BY <1>3, AttemptsFacts DEF Windows
<1>7. j \in Attempts(k, s)
  BY <1>3, <1>5 DEF Attempts
<1>8. CASE s = t
  BY <1>1, <1>3, <1>6, <1>8
<1>9. CASE s < t
  <2> DEFINE early == Attempts(k, t) \cap Attempts(k, s)
             late == Attempts(k, t) \ Attempts(k, s)
  <2>1. IsFiniteSet(Attempts(k, t))
    BY <1>3, AttemptsFacts
  <2>2. early \subseteq Attempts(k, s) \ {j}
    <3>1. j \notin Attempts(k, t)
      BY <1>3, <1>5, <1>9 DEF Attempts
    <3>2. QED
      BY <3>1
  <2>3. /\ IsFiniteSet(Attempts(k, s) \ {j})
        /\ Cardinality(Attempts(k, s) \ {j}) = Cardinality(Attempts(k, s)) - 1
    BY <1>6, <1>7, FS_RemoveElement
  <2>4. IsFiniteSet(early) /\ Cardinality(early) \in Nat /\ Cardinality(early) <= Effective - 1
    <3>1. IsFiniteSet(early) /\ Cardinality(early) <= Cardinality(Attempts(k, s) \ {j})
      BY <2>2, <2>3, FS_Subset
    <3>2. Cardinality(early) \in Nat
      BY <3>1, FS_CardinalityType
    <3>3. QED
      BY <1>3, <1>6, <2>3, <3>1, <3>2
  <2>5. IsFiniteSet(late) /\ Cardinality(late) \in Nat /\ Cardinality(late) <= Effective
    <3>1. IsFiniteSet(late) /\ Cardinality(late) \in Nat
      BY <2>1, FS_Subset, FS_CardinalityType
    <3>2. CASE late = {}
      BY <1>3, <3>2, FS_EmptySet
    <3>3. CASE late # {}
      <4>1. PICK a \in late : TRUE
        BY <3>3
      <4>2. ASSUME NEW b \in late
            PROVE  \E u \in starts : b \in Attempts(k, u) /\ u >= s + Window /\ u < t + Window
        <5>1. b \in DOMAIN granted[k]
          BY DEF Attempts
        <5>2. PICK u \in starts : b \in Attempts(k, u)
          BY <5>1 DEF Windows
        <5>3. PICK x \in 0 .. MaxClock : x = granted[k][b]
          BY <5>1, SeqElement DEF LimiterTypeOK
        <5>4. x \in Nat /\ u \in Nat /\ x \in t .. t + Window - 1 /\ x \in u .. u + Window - 1
              /\ x \notin s .. s + Window - 1
          BY <5>1, <5>2, <5>3 DEF Attempts
        <5>5. s < u /\ u < t + Window
          BY <1>3, <1>4, <5>4
        <5>6. s + Window <= u
          BY <5>5 DEF Windows
        <5>7. QED
          BY <1>3, <5>2, <5>4, <5>5, <5>6
      <4>3. PICK u \in starts : a \in Attempts(k, u) /\ u >= s + Window /\ u < t + Window
        BY <4>1, <4>2
      <4>4. late \subseteq Attempts(k, u)
        <5> SUFFICES ASSUME NEW b \in late PROVE b \in Attempts(k, u)
          OBVIOUS
        <5>1. PICK v \in starts : b \in Attempts(k, v) /\ v >= s + Window /\ v < t + Window
          BY <4>2
        <5>2. u \in Nat /\ v \in Nat
          OBVIOUS
        <5>3. ~(u < v) /\ ~(v < u)
          <6>1. (u < v => u + Window <= v) /\ (v < u => v + Window <= u)
            BY DEF Windows
          <6>2. QED
            BY <1>3, <1>4, <4>3, <5>1, <5>2, <6>1
        <5>4. u = v
          BY <5>2, <5>3
        <5>5. QED
          BY <5>1, <5>4
      <4>5. /\ IsFiniteSet(Attempts(k, u)) /\ Cardinality(Attempts(k, u)) \in Nat
            /\ Cardinality(Attempts(k, u)) <= Effective
        BY AttemptsFacts DEF Windows
      <4>6. Cardinality(late) <= Cardinality(Attempts(k, u))
        BY <4>4, <4>5, FS_Subset
      <4>7. QED
        BY <1>3, <3>1, <4>5, <4>6
    <3>4. QED
      BY <3>2, <3>3
  <2>6. Cardinality(Attempts(k, t)) = Cardinality(early) + Cardinality(late)
    <3>1. early \cap late = {} /\ early \cup late = Attempts(k, t)
      OBVIOUS
    <3> HIDE DEF early, late
    <3>2. Cardinality(early \cup late) =
            Cardinality(early) + Cardinality(late) - Cardinality(early \cap late)
      BY <2>4, <2>5, FS_Union
    <3>3. Cardinality(early \cap late) = 0
      BY <3>1, FS_EmptySet, Zenon
    <3>4. Cardinality(early \cup late) = Cardinality(Attempts(k, t))
      BY <3>1, Zenon
    <3>5. QED
      BY <2>4, <2>5, <3>2, <3>3, <3>4
  <2> HIDE DEF early, late
  <2>7. QED
    BY <1>1, <1>3, <2>4, <2>5, <2>6
<1>10. QED
  BY <1>3, <1>4, <1>8, <1>9

LEMMA LimiterAlways == LimiterSpec => []LimiterInv
<1>1. LimiterInit => LimiterInv
  <2> SUFFICES ASSUME LimiterInit PROVE LimiterInv
    OBVIOUS
  <2>1. LimiterTypeOK
    BY LimiterAssumption DEF LimiterInit, LimiterTypeOK, NoEntry
  <2>2. ASSUME NEW k \in Key PROVE Windows(k, {})
    <3>1. granted[k] = <<>> /\ entries[k].count = 0
      BY DEF LimiterInit, NoEntry
    <3>2. DOMAIN granted[k] = {} /\ ~Exists(k)
      BY <3>1 DEF Exists
    <3>3. QED
      BY <3>2 DEF Windows
  <2>3. QED
    BY <2>1, <2>2 DEF LimiterInv
<1>2. QED
  BY <1>1, LimiterStep, PTL DEF LimiterSpec

(***************************************************************************)
(* No stretch as long as a window sees twice the limit of attempts let     *)
(* through, for any limit, window and number of addresses, whenever the    *)
(* cleanup runs (RateLimiter.Allow, cleanupLoop).                          *)
(***************************************************************************)
THEOREM LimitHolds == LimiterSpec => []BelowTwiceTheLimit
<1>1. LimiterInv => BelowTwiceTheLimit
  BY StretchBound DEF LimiterInv, BelowTwiceTheLimit
<1>2. QED
  BY <1>1, LimiterAlways, PTL

(***************************************************************************)
(* The entries of the limiter and the attempts it has granted keep their   *)
(* types, whatever the limit and the window are.                           *)
(***************************************************************************)
THEOREM LimiterTypes == LimiterSpec => []LimiterTypeOK
<1>1. LimiterInv => LimiterTypeOK
  BY DEF LimiterInv
<1>2. QED
  BY <1>1, LimiterAlways, PTL
=============================================================================
