---------------------------- MODULE AuthSessions ----------------------------
(***************************************************************************)
(* Accounts and refresh sessions: the bootstrap of the admin account, and  *)
(* overlapping login, refresh, logout and revocation requests at the user  *)
(* gateway.  One action per store call; a refresh token is named by the    *)
(* session row that holds its hash.  A gateway that dies or a client that  *)
(* goes away makes the remaining calls of a request fail.                  *)
(***************************************************************************)
EXTENDS Integers, FiniteSets

CONSTANTS
    User,         \* accounts
    Admin,        \* the account bootstrapAdminUser makes
    Request,      \* requests that may overlap
    Faults,       \* faults that may happen: subset of {"fail", "lost"}
    RefreshTTL,   \* life of a refresh token
    MaxSessions,  \* bound: session rows
    MaxTime       \* bound: clock

ASSUME AccountAssumption == Admin \in User
ASSUME AuthSettingsAssumption ==
    /\ Faults \subseteq {"fail", "lost"}
    /\ RefreshTTL \in Nat \ {0}
    /\ MaxSessions \in Nat /\ MaxTime \in Nat

VARIABLES
    users,   \* users and password_credentials tables
    sess,    \* refresh_sessions table
    minted,  \* rows inserted so far
    req,     \* requests of the gateway
    boot,    \* bootstrapAdminUser of the control plane
    now,     \* clock
    ended,   \* logins ended by a logout or a revocation
    raced    \* logins on which requests have overlapped

vars == <<users, sess, minted, req, boot, now, ended, raced>>

-----------------------------------------------------------------------------
Session == 1 .. MaxSessions

\* "bare" is an account without a password, "off" one that is not active.
Account == {"none", "bare", "ready", "off"}

\* parent and root are not columns: the session whose token was exchanged for
\* this one (0 for a login), and the login it comes from.
SessionRow == [state : {"none", "active", "ended"},
               user : User,
               expires : Nat,
               known : BOOLEAN,   \* was the token delivered to the client?
               parent : {0} \cup Session,
               root : {0} \cup Session]

RequestState == [pc : {"idle",
                       "loginUser", "loginCredential", "loginCreate",
                       "refreshGet", "refreshInvalidate", "refreshUser", "refreshCreate",
                       "logoutGet", "logoutInvalidate",
                       "revokeUser", "revokeAll"},
                 user : User,
                 token : {0} \cup Session]   \* token presented

Idle == [pc |-> "idle", user |-> Admin, token |-> 0]

TypeOK ==
    /\ users \in [User -> Account]
    /\ sess \in [Session -> SessionRow]
    /\ minted \in 0 .. MaxSessions
    /\ req \in [Request -> RequestState]
    /\ boot \in {"down", "find", "create", "credential", "up"}
    /\ now \in 0 .. MaxTime
    /\ ended \subseteq Session
    /\ raced \subseteq Session

\* Accounts other than the admin's are made outside this code.
Init ==
    /\ users = [u \in User |-> IF u = Admin THEN "none" ELSE "ready"]
    /\ sess = [s \in Session |-> [state |-> "none", user |-> Admin, expires |-> 0,
                                  known |-> FALSE, parent |-> 0, root |-> 0]]
    /\ minted = 0
    /\ req = [r \in Request |-> Idle]
    /\ boot = "down"
    /\ now = 0
    /\ ended = {}
    /\ raced = {}

-----------------------------------------------------------------------------
Outcome == {"ok"} \cup Faults

Commits(o) == o # "fail"

\* The request goes on with its next call.
Goto(r, pc) == req' = [req EXCEPT ![r].pc = pc]

\* The request is answered, with or without an error.
Answer(r) == req' = [req EXCEPT ![r] = Idle]

Begin(r, pc, u, s) ==
    /\ req[r].pc = "idle"
    /\ req' = [req EXCEPT ![r] = [pc |-> pc, user |-> u, token |-> s]]

-----------------------------------------------------------------------------
(* bootstrapAdminUser *)

\* The control plane starts, for the first time or after an error.  A later
\* start finds the account and changes nothing.
BootStart ==
    /\ boot = "down"
    /\ boot' = "find"
    /\ UNCHANGED <<users, sess, minted, req, now, ended, raced>>

\* An account that exists is left alone, with or without a password.
BootFind ==
    /\ boot = "find"
    /\ \E o \in Outcome :
          boot' = IF o # "ok" THEN "down"
                  ELSE IF users[Admin] = "none" THEN "create" ELSE "up"
    /\ UNCHANGED <<users, sess, minted, req, now, ended, raced>>

BootCreateUser ==
    /\ boot = "create"
    /\ \E o \in Outcome :
          /\ users' = [users EXCEPT ![Admin] = IF Commits(o) THEN "bare" ELSE @]
          /\ boot' = IF o = "ok" THEN "credential" ELSE "down"
    /\ UNCHANGED <<sess, minted, req, now, ended, raced>>

BootCreateCredential ==
    /\ boot = "credential"
    /\ \E o \in Outcome :
          /\ users' = [users EXCEPT ![Admin] =
                         IF Commits(o) /\ @ = "bare" THEN "ready" ELSE @]
          /\ boot' = IF o = "ok" THEN "up" ELSE "down"
    /\ UNCHANGED <<sess, minted, req, now, ended, raced>>

-----------------------------------------------------------------------------
(* Sessions *)

\* The sessions that come from login c, and the logins of the sessions in S.
Chain(c) == {s \in Session : sess[s].root = c}

Roots(S) == {c \in Session : Chain(c) \cap S # {}}

\* CreateRefreshSession.
CreateSession(r, o, parent) ==
    /\ minted < MaxSessions
    /\ minted' = minted + 1
    /\ sess' = [sess EXCEPT ![minted + 1] =
                  [state |-> "active", user |-> req[r].user,
                   expires |-> now + RefreshTTL, known |-> o = "ok",
                   parent |-> parent,
                   root |-> IF parent = 0 THEN minted + 1 ELSE sess[parent].root]]

\* Mutant: a session that was already exchanged is found.
AnySession(s) == sess[s].state # "none" /\ sess[s].expires > now

\* GetActiveRefreshSession finds the row of the token.
ActiveSession(s) == sess[s].state = "active" /\ sess[s].expires > now

\* InvalidateRefreshSession and InvalidateAllUserSessions.
Invalidate(S) ==
    sess' = [s \in Session |->
               IF s \in S /\ sess[s].state = "active"
               THEN [sess[s] EXCEPT !.state = "ended"] ELSE sess[s]]

-----------------------------------------------------------------------------
(* Login *)

\* Requests the rate limiter refuses, and those with a wrong password, change
\* nothing but the audit log.
Login(r) ==
    /\ \E u \in User : Begin(r, "loginUser", u, 0)
    /\ UNCHANGED <<users, sess, minted, boot, now, ended, raced>>

LoginUser(r) ==
    /\ req[r].pc = "loginUser"
    /\ \E o \in Outcome :
          IF o = "ok" /\ users[req[r].user] \in {"bare", "ready"}
          THEN Goto(r, "loginCredential") ELSE Answer(r)
    /\ UNCHANGED <<users, sess, minted, boot, now, ended, raced>>

LoginCredential(r) ==
    /\ req[r].pc = "loginCredential"
    /\ \E o \in Outcome :
          IF o = "ok" /\ users[req[r].user] # "bare"
          THEN Goto(r, "loginCreate") ELSE Answer(r)
    /\ UNCHANGED <<users, sess, minted, boot, now, ended, raced>>

\* completeLogin.
LoginCreate(r) ==
    /\ req[r].pc = "loginCreate"
    /\ \E o \in Outcome : IF Commits(o) THEN CreateSession(r, o, 0)
                                        ELSE UNCHANGED <<sess, minted>>
    /\ Answer(r)
    /\ UNCHANGED <<users, boot, now, ended, raced>>

-----------------------------------------------------------------------------
(* Refresh, logout, revocation *)

\* Logins that another request is working on.
InUse(r) ==
    UNION {Roots({s \in Session : \/ s = req[q].token
                                 \/ /\ req[q].pc \in {"revokeUser", "revokeAll"}
                                    /\ sess[s].user = req[q].user}) :
           q \in Request \ {r}}

\* A client presents a token it was given, however old.  Validation of the
\* token's signature refuses an expired one.
Refresh(r) ==
    /\ \E s \in Session :
          /\ sess[s].known /\ sess[s].expires > now
          /\ Begin(r, "refreshGet", sess[s].user, s)
          /\ raced' = raced \cup (InUse(r) \cap {sess[s].root})
    /\ UNCHANGED <<users, sess, minted, boot, now, ended>>

RefreshGet(r) ==
    /\ req[r].pc = "refreshGet"
    /\ \E o \in Outcome :
          IF o = "ok" /\ ActiveSession(req[r].token)
          THEN Goto(r, "refreshInvalidate") ELSE Answer(r)
    /\ UNCHANGED <<users, sess, minted, boot, now, ended, raced>>

\* Mutant: an error of the invalidation is only logged.
RefreshInvalidateBestEffort(r) ==
    /\ req[r].pc = "refreshInvalidate"
    /\ \E o \in Outcome : Invalidate(IF Commits(o) THEN {req[r].token} ELSE {})
    /\ Goto(r, "refreshUser")
    /\ UNCHANGED <<users, minted, boot, now, ended, raced>>

\* The old token dies before anything can go wrong with the new one.
RefreshInvalidate(r) ==
    /\ req[r].pc = "refreshInvalidate"
    /\ \E o \in Outcome :
          /\ Invalidate(IF Commits(o) THEN {req[r].token} ELSE {})
          /\ IF o = "ok" THEN Goto(r, "refreshUser") ELSE Answer(r)
    /\ UNCHANGED <<users, minted, boot, now, ended, raced>>

RefreshUser(r) ==
    /\ req[r].pc = "refreshUser"
    /\ \E o \in Outcome :
          IF o = "ok" /\ users[req[r].user] \in {"bare", "ready"}
          THEN Goto(r, "refreshCreate") ELSE Answer(r)
    /\ UNCHANGED <<users, sess, minted, boot, now, ended, raced>>

RefreshCreate(r) ==
    /\ req[r].pc = "refreshCreate"
    /\ \E o \in Outcome : IF Commits(o) THEN CreateSession(r, o, req[r].token)
                                        ELSE UNCHANGED <<sess, minted>>
    /\ Answer(r)
    /\ UNCHANGED <<users, boot, now, ended, raced>>

Logout(r) ==
    /\ \E s \in Session :
          /\ sess[s].known
          /\ Begin(r, "logoutGet", sess[s].user, s)
          /\ raced' = raced \cup (InUse(r) \cap {sess[s].root})
    /\ UNCHANGED <<users, sess, minted, boot, now, ended>>

\* A token that is not found, and an error, end the request with success.
LogoutGet(r) ==
    /\ req[r].pc = "logoutGet"
    /\ \E o \in Outcome :
          IF o = "ok" /\ ActiveSession(req[r].token)
          THEN Goto(r, "logoutInvalidate") ELSE Answer(r)
    /\ UNCHANGED <<users, sess, minted, boot, now, ended, raced>>

\* Its error is ignored.
LogoutInvalidate(r) ==
    /\ req[r].pc = "logoutInvalidate"
    /\ \E o \in Outcome :
          LET S == IF Commits(o) THEN {req[r].token} ELSE {}
          IN  Invalidate(S) /\ ended' = ended \cup Roots(S)
    /\ Answer(r)
    /\ UNCHANGED <<users, minted, boot, now, raced>>

RevokeSessions(r) ==
    /\ \E u \in User :
          /\ Begin(r, "revokeUser", u, 0)
          /\ raced' = raced \cup (InUse(r) \cap Roots({s \in Session : sess[s].user = u}))
    /\ UNCHANGED <<users, sess, minted, boot, now, ended>>

RevokeUser(r) ==
    /\ req[r].pc = "revokeUser"
    /\ \E o \in Outcome :
          IF o = "ok" /\ users[req[r].user] # "none"
          THEN Goto(r, "revokeAll") ELSE Answer(r)
    /\ UNCHANGED <<users, sess, minted, boot, now, ended, raced>>

RevokeAll(r) ==
    /\ req[r].pc = "revokeAll"
    /\ \E o \in Outcome :
          LET S == {s \in Session : Commits(o) /\ sess[s].user = req[r].user}
          IN  Invalidate(S) /\ ended' = ended \cup Roots(S)
    /\ Answer(r)
    /\ UNCHANGED <<users, minted, boot, now, raced>>

-----------------------------------------------------------------------------
(* Environment *)

Tick ==
    /\ now < MaxTime
    /\ now' = now + 1
    /\ UNCHANGED <<users, sess, minted, req, boot, ended, raced>>

\* is_active is set by operators.
SwitchAccount(u) ==
    /\ users[u] \in {"ready", "off"}
    /\ users' = [users EXCEPT ![u] = IF @ = "ready" THEN "off" ELSE "ready"]
    /\ UNCHANGED <<sess, minted, req, boot, now, ended, raced>>

-----------------------------------------------------------------------------
Bootstrap == BootStart \/ BootFind \/ BootCreateUser \/ BootCreateCredential

Gateway(r) ==
    \/ Login(r) \/ LoginUser(r) \/ LoginCredential(r) \/ LoginCreate(r)
    \/ Refresh(r) \/ RefreshGet(r) \/ RefreshInvalidate(r)
    \/ RefreshUser(r) \/ RefreshCreate(r)
    \/ Logout(r) \/ LogoutGet(r) \/ LogoutInvalidate(r)
    \/ RevokeSessions(r) \/ RevokeUser(r) \/ RevokeAll(r)

Next ==
    \/ Bootstrap
    \/ \E r \in Request : Gateway(r)
    \/ Tick
    \/ \E u \in User : SwitchAccount(u)

Spec == Init /\ [][Next]_vars

-----------------------------------------------------------------------------
(* Properties *)

(***************************************************************************)
(* Rotation: when a session was created in exchange for a token, that      *)
(* token's own session is over, whatever calls failed or were not answered *)
(* and however many refreshes of it overlap.                               *)
(***************************************************************************)
ExchangedTokenIsDead ==
    \A s \in Session :
        sess[s].parent # 0 => sess[sess[s].parent].state = "ended"

(***************************************************************************)
(* A login whose requests came one after the other has at most one live    *)
(* session, and none once a logout or a revocation has ended it: no token  *)
(* of its past, and no unanswered call, brings it back.                    *)
(***************************************************************************)
OneTokenPerLogin ==
    \A c \in Session \ raced :
        LET live == {s \in Chain(c) : sess[s].state = "active"}
        IN  IF c \in ended THEN live = {} ELSE Cardinality(live) <= 1

-----------------------------------------------------------------------------
(* Refinement *)

StateView == [s \in Session |-> sess[s].state]
OwnerView == [s \in Session |-> sess[s].user]
FromView == [s \in Session |-> sess[s].parent]

SS == INSTANCE SessionService WITH
        NoSession <- 0, state <- StateView, owner <- OwnerView, from <- FromView

(***************************************************************************)
(* The store calls of overlapping requests, some of which fail or are not  *)
(* answered, implement SessionService: a token is only ever exchanged once *)
(* its own session is over, for a session of the same user; a session that *)
(* is over stays over; and a revocation leaves its user none.              *)
(***************************************************************************)
ImplementsSessionService == SS!Spec
=============================================================================
