--------------------------- MODULE SessionService ---------------------------
(***************************************************************************)
(* What the user gateway promises about refresh sessions, with no requests,*)
(* store calls, failures or clock: a session is opened by a login, or in   *)
(* exchange for one that is already over and for the user of that one; it  *)
(* ends alone or with all the sessions of its user; and it never comes     *)
(* back, changes hands or gets another origin.                             *)
(***************************************************************************)
CONSTANTS User,
          Session,
          NoSession  \* what a login is exchanged for

VARIABLES state,  \* "none", "active" or "ended"
          owner,  \* the user of each session that was opened
          from    \* the session it was exchanged for

vars == <<state, owner, from>>

Init ==
    /\ state = [s \in Session |-> "none"]
    /\ owner \in [Session -> User]
    /\ from = [s \in Session |-> NoSession]

Open(s, u, p) ==
    /\ state[s] = "none"
    /\ state' = [state EXCEPT ![s] = "active"]
    /\ owner' = [owner EXCEPT ![s] = u]
    /\ from' = [from EXCEPT ![s] = p]

Login(s) == \E u \in User : Open(s, u, NoSession)

Exchange(p, s) == state[p] = "ended" /\ Open(s, owner[p], p)

End(s) ==
    /\ state[s] = "active"
    /\ state' = [state EXCEPT ![s] = "ended"]
    /\ UNCHANGED <<owner, from>>

Revoke(u) ==
    /\ state' = [s \in Session |-> IF state[s] = "active" /\ owner[s] = u
                                   THEN "ended" ELSE state[s]]
    /\ UNCHANGED <<owner, from>>

Next ==
    \/ \E s \in Session : Login(s) \/ End(s)
    \/ \E p, s \in Session : Exchange(p, s)
    \/ \E u \in User : Revoke(u)

Spec == Init /\ [][Next]_vars
=============================================================================
