---------------------------- MODULE RateLimiter -----------------------------
(***************************************************************************)
(* The login rate limiter of the user gateway: fixed windows that start    *)
(* with the first attempt, a table shared by all requests under one mutex, *)
(* and a goroutine that deletes old entries.  The mutex makes each         *)
(* operation one step.                                                     *)
(***************************************************************************)
EXTENDS Integers, Sequences, FiniteSets

CONSTANTS
    Key,      \* client addresses
    Limit,    \* attempts per window
    Window,   \* length of a window
    MaxClock  \* bound: clock

ASSUME LimiterAssumption == Limit \in Nat /\ Window \in Nat \ {0} /\ MaxClock \in Nat

VARIABLES
    entries,  \* the table
    clock,    \* clock
    granted   \* times of the attempts let through since the key was last reset

limiterVars == <<entries, clock, granted>>

-----------------------------------------------------------------------------
NoEntry == [count |-> 0, windowAt |-> 0]   \* a stored entry counts from 1

LimiterTypeOK ==
    /\ entries \in [Key -> [count : Nat, windowAt : 0 .. MaxClock]]
    /\ clock \in 0 .. MaxClock
    /\ granted \in [Key -> Seq(0 .. MaxClock)]

LimiterInit ==
    /\ entries = [k \in Key |-> NoEntry]
    /\ clock = 0
    /\ granted = [k \in Key |-> <<>>]

Exists(k) == entries[k].count # 0

Age(k) == clock - entries[k].windowAt

Expired(k) == ~Exists(k) \/ Age(k) >= Window

Grant(k, entry) ==
    /\ entries' = [entries EXCEPT ![k] = entry]
    /\ granted' = [granted EXCEPT ![k] = Append(@, clock)]
    /\ UNCHANGED clock

\* The first attempt of a window is let through whatever the limit.
AllowFirst(k) ==
    /\ Expired(k)
    /\ Grant(k, [count |-> 1, windowAt |-> clock])

AllowMore(k) ==
    /\ ~Expired(k)
    /\ entries[k].count < Limit
    /\ Grant(k, [entries[k] EXCEPT !.count = @ + 1])

Full(k) == ~Expired(k) /\ entries[k].count >= Limit

Refuse(k) == Full(k) /\ UNCHANGED limiterVars

Allow(k) == AllowFirst(k) \/ AllowMore(k) \/ Refuse(k)

\* Mutant: entries are deleted before their window is over.
CleanupEarly ==
    /\ entries' = [k \in Key |-> IF Exists(k) /\ Age(k) * 2 >= Window
                                 THEN NoEntry ELSE entries[k]]
    /\ UNCHANGED <<clock, granted>>

\* One round of cleanupLoop.
Cleanup ==
    /\ entries' = [k \in Key |-> IF Exists(k) /\ Age(k) >= Window * 2
                                 THEN NoEntry ELSE entries[k]]
    /\ UNCHANGED <<clock, granted>>

\* A restart of the gateway does the same to every key: the table is in memory.
Reset(k) ==
    /\ entries' = [entries EXCEPT ![k] = NoEntry]
    /\ granted' = [granted EXCEPT ![k] = <<>>]
    /\ UNCHANGED clock

Advance ==
    /\ clock < MaxClock
    /\ clock' = clock + 1
    /\ UNCHANGED <<entries, granted>>

LimiterNext == (\E k \in Key : Allow(k) \/ Reset(k)) \/ Cleanup \/ Advance

LimiterSpec == LimiterInit /\ [][LimiterNext]_limiterVars
-----------------------------------------------------------------------------
(* Properties *)

\* A limit below 1 still lets the first attempt of a window through.
Effective == IF Limit < 1 THEN 1 ELSE Limit

\* The attempts of a stretch of time as long as a window.
Attempts(k, from) == {i \in DOMAIN granted[k] : granted[k][i] \in from .. from + Window - 1}

(***************************************************************************)
(* No stretch of time as long as a window sees twice the limit: windows    *)
(* that follow each other and the deletion of entries never add up to      *)
(* more.  A stretch may be taken to start with an attempt let through.     *)
(***************************************************************************)
BelowTwiceTheLimit ==
    \A k \in Key : \A i \in DOMAIN granted[k] :
        Cardinality(Attempts(k, granted[k][i])) < 2 * Effective

-----------------------------------------------------------------------------
(* The inductive invariant behind it *)

\* The windows there have been since a key was reset, given by the times they
\* started, which the table forgets: they do not overlap, each starts with an
\* attempt and has no more than the limit, and no attempt is outside of them.  One
\* that is not over has its entry.
Windows(k, starts) ==
    /\ \A s, u \in starts : s < u => s + Window <= u
    /\ \A i \in DOMAIN granted[k] : /\ granted[k][i] <= clock
                                    /\ \E s \in starts : i \in Attempts(k, s)
    /\ \A s \in starts : /\ \E i \in DOMAIN granted[k] : granted[k][i] = s
                         /\ Cardinality(Attempts(k, s)) <= Effective
                         /\ clock < s + Window => Exists(k) /\ entries[k].windowAt = s
    /\ Exists(k) => /\ entries[k].windowAt \in starts
                    /\ entries[k].count = Cardinality(Attempts(k, entries[k].windowAt))

LimiterInv ==
    /\ LimiterTypeOK
    /\ \A k \in Key : \E starts \in SUBSET (0 .. MaxClock) : Windows(k, starts)
=============================================================================
