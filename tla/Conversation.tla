---------------------------- MODULE Conversation ----------------------------
(***************************************************************************)
(* What the chat of the user gateway promises about the threads of a user, *)
(* with no requests in flight, agents, retries or failing calls: threads   *)
(* only grow; the message of a request is stored at most once; so is the   *)
(* reply to it, in the thread of the message and after it; and what it     *)
(* replies to was said in that thread, never in another one.               *)
(***************************************************************************)
EXTENDS Naturals, Sequences

CONSTANT Request

VARIABLE log  \* messages of each thread, threads in the order they were made

vars == <<log>>

Question(q) == [role |-> "user", of |-> q, to |-> 0]

ReplyOf(q, to) == [role |-> "assistant", of |-> q, to |-> to]

Asked(q, t) == \E i \in DOMAIN log[t] : log[t][i] = Question(q)

\* Is there a message of request q in any thread, in this role?
Stored(q, role) ==
    \E t \in DOMAIN log : \E i \in DOMAIN log[t] : log[t][i].of = q /\ log[t][i].role = role

Add(t, msg) == log' = [log EXCEPT ![t] = Append(@, msg)]

Init == log = <<>>

Begin == log' = Append(log, <<>>)

Ask(q, t) ==
    /\ ~Stored(q, "user")
    /\ Add(t, Question(q))

\* An agent that was sent no message of a user replies to none.
Answer(q, t) ==
    /\ Asked(q, t) /\ ~Stored(q, "assistant")
    /\ \E to \in {0} \cup Request : (to # 0 => Asked(to, t)) /\ Add(t, ReplyOf(q, to))

Next == Begin \/ \E q \in Request, t \in DOMAIN log : Ask(q, t) \/ Answer(q, t)

Spec == Init /\ [][Next]_vars
=============================================================================
