-------------------------------- MODULE Chat --------------------------------
(***************************************************************************)
(* The chat threads of one (user, project) pair, and the requests that     *)
(* work on them at the user gateway: POST /v1/chat/completions, answered   *)
(* by the project manager agent or by direct inference, and POST           *)
(* /v1/chat/threads.  One action per store call or attempt.  A message is  *)
(* named by the request it belongs to.  AppendChatMessage takes its time   *)
(* stamp, inserts and updates the thread in one step, so that threads have *)
(* an order of their updated_at and messages one of their created_at.      *)
(***************************************************************************)
EXTENDS Integers, Sequences, FiniteSets, SequencesExt

CONSTANTS
    MaxRequests,   \* bound: requests, numbered in the order they arrive
    MaxInFlight,   \* bound: requests in flight at once
    Faults,        \* store faults that may happen
    HistoryLimit,  \* chatHistoryLimit
    CharBudget,    \* chatHistoryCharBudget
    UserSize,      \* characters of a user's message
    ReplySize,     \* characters of a reply
    MaxRetries     \* chatCompletionMaxRetries

\* "fail": nothing is stored; "inserted": a message is stored, its thread is
\* not updated; "lost": everything is stored.  The caller sees an error.
ASSUME ChatAssumption ==
    /\ Faults \subseteq {"fail", "inserted", "lost"}
    /\ HistoryLimit \in Nat \ {0} /\ MaxRetries \in Nat \ {0}
    /\ CharBudget \in Nat /\ UserSize \in Nat /\ ReplySize \in Nat
    /\ MaxRequests \in Nat /\ MaxInFlight \in Nat

VARIABLES
    thread,   \* messages of each thread, threads in the order they were made
    latest,   \* the thread with the latest updated_at; 0: there is none
    active,   \* was it updated within the inactivity threshold?
    req,      \* requests
    arrived,  \* requests that have arrived
    raced     \* requests that have overlapped another one

vars == <<thread, latest, active, req, arrived, raced>>

-----------------------------------------------------------------------------
Request == 1 .. MaxRequests

\* A reply says which request's message it answers: 0 if no user's.
Message == [role : {"user", "assistant"}, of : Request, to : {0} \cup Request]

UserMessage(q) == [role |-> "user", of |-> q, to |-> 0]

Kind == {"pm", "direct", "noUser", "newThread"}

RequestState == [pc : {"idle", "find", "create", "append", "load", "route",
                       "call", "store", "done"},
                 kind : Kind,
                 thread : {0} \cup Request,
                 sent : Seq(Message),           \* contextMessages
                 attempt : 0 .. MaxRetries - 1,
                 asked : {0} \cup Request,      \* whose message was answered
                 answer : {"none", "ok", "error"}]

Idle == [pc |-> "idle", kind |-> "pm", thread |-> 0, sent |-> <<>>,
         attempt |-> 0, asked |-> 0, answer |-> "none"]

TypeOK ==
    /\ thread \in Seq(Seq(Message)) /\ Len(thread) <= MaxRequests
    /\ latest \in {0} \cup DOMAIN thread
    /\ active \in BOOLEAN
    /\ req \in [Request -> RequestState]
    /\ arrived \in 0 .. MaxRequests
    /\ raced \subseteq Request

Init ==
    /\ thread = <<>>
    /\ latest = 0
    /\ active = FALSE
    /\ req = [q \in Request |-> Idle]
    /\ arrived = 0
    /\ raced = {}

InFlight == {q \in Request : req[q].pc \notin {"idle", "done"}}

-----------------------------------------------------------------------------
(* The store *)

Outcome == {"ok"} \cup Faults

ReadOutcome == Outcome \ {"inserted", "lost"}

\* updated_at of thread t becomes the latest.
Touch(t) == latest' = t /\ active' = TRUE

\* CreateChatThread and the second half of GetOrCreateActiveChatThread.
CreateThread(o) ==
    IF o = "fail" THEN UNCHANGED <<thread, latest, active>>
    ELSE /\ thread' = Append(thread, <<>>)
         /\ Touch(Len(thread) + 1)

\* AppendChatMessage.
AppendMessage(t, msg, o) ==
    /\ thread' = IF o = "fail" THEN thread ELSE [thread EXCEPT ![t] = Append(@, msg)]
    /\ IF o \in {"ok", "lost"} THEN Touch(t) ELSE UNCHANGED <<latest, active>>

\* Mutant: the messages of all threads of the user.
ListAllMessages(t) ==
    LET all == FlattenSeq(thread)
    IN  SubSeq(all, 1, IF Len(all) > HistoryLimit THEN HistoryLimit ELSE Len(all))

\* ListChatMessages: the oldest messages, up to a limit.
ListMessages(t) ==
    SubSeq(thread[t], 1, IF Len(thread[t]) > HistoryLimit THEN HistoryLimit
                                                          ELSE Len(thread[t]))

-----------------------------------------------------------------------------
(* Context sent to an agent *)

SizeOf(msg) == IF msg.role = "user" THEN UserSize ELSE ReplySize

\* Characters of the last messages, from the i-th on.
Chars(msgs, i) ==
    FoldSeq(LAMBDA msg, n : n + SizeOf(msg), 0, SubSeq(msgs, i, Len(msgs)))

\* Mutant: the walk starts at the old end.
TrimFromOldest(msgs) ==
    SubSeq(msgs, 1, Max({i \in 1 .. Len(msgs) :
                           \A j \in 2 .. i : Chars(SubSeq(msgs, 1, j), 1) <= CharBudget}))

\* trimHistoryToCharBudget.
TrimHistory(msgs) ==
    LET start == Min({i \in 1 .. Len(msgs) :
                        \A j \in i .. Len(msgs) - 1 : Chars(msgs, j) <= CharBudget})
    IN  SubSeq(msgs, start, Len(msgs))

\* The agent takes the last user message for the current one.
LastUserMessage(msgs) ==
    LET i == SelectLastInSeq(msgs, LAMBDA msg : msg.role = "user")
    IN  IF i = 0 THEN 0 ELSE msgs[i].of

StripToCurrentMessage(msgs) == <<Last(msgs)>>

-----------------------------------------------------------------------------
(* What one attempt may come to: content that answers request "to", nothing, *)
(* an error that is worth a retry, the end of the time, or another error.    *)

Content(q) == [is |-> "content", to |-> q]
Failure(is) == [is |-> is, to |-> 0]

\* The agent loop with its tools: its output may only announce a tool call.
RunCompletion(msgs) ==
    {Content(LastUserMessage(msgs)), Failure("empty"), Failure("announced"), Failure("transient")}

CallInference(msgs) ==
    {Content(LastUserMessage(msgs)), Failure("empty"), Failure("transient")}

\* A capable model runs the loop, another one, or an announcement, is one call.
GetCompletionContent(msgs) ==
    {r \in RunCompletion(msgs) : r.is # "announced"} \cup CallInference(msgs)

\* An empty first run is repeated with the last message alone; errors and a
\* second empty run are answered with status 500.
ResolveContent(msgs) ==
    {r \in GetCompletionContent(msgs) \cup GetCompletionContent(StripToCurrentMessage(msgs)) :
       r.is # "empty"} \cup {Failure("transient")}

\* The worker's proxy passes the agent's answer on or gives up on the agent.
ForwardManagedProxyRequest(results) == results \cup {Failure("transient")}

\* It refuses requests for a service it does not know, too.
HandleManagedServiceProxy(results) == ForwardManagedProxyRequest(results) \cup {Failure("other")}

CallChatCompletion(msgs) ==
    HandleManagedServiceProxy(ResolveContent(msgs))
      \cup {Failure("transient"), Failure("deadline"), Failure("other")}

CallGenerate(q) ==
    {Content(q), Failure("transient"), Failure("deadline"), Failure("other")}

-----------------------------------------------------------------------------
(* Requests *)

Goto(q, pc) == req' = [req EXCEPT ![q].pc = pc]

\* The request is answered, and what it held is gone.  Error answers, 400 to
\* 504, are not told apart.
Answer(q, answer) == req' = [req EXCEPT ![q] = [Idle EXCEPT !.pc = "done", !.answer = answer]]

\* Requests that fail authentication or decoding change nothing.
Arrive(q) ==
    /\ q = arrived + 1 /\ Cardinality(InFlight) < MaxInFlight
    /\ arrived' = q
    /\ \E kind \in Kind :
          req' = [req EXCEPT ![q].kind = kind,
                             ![q].pc = IF kind = "newThread" THEN "create" ELSE "find"]
    /\ raced' = IF InFlight = {} THEN raced ELSE raced \cup InFlight \cup {q}
    /\ UNCHANGED <<thread, latest, active>>

\* The thread is known; only now is a request without a user message refused.
Resolved(q, t) ==
    CASE req[q].kind = "newThread" -> Answer(q, "ok")
      [] req[q].kind = "noUser"    -> Answer(q, "error")
      [] OTHER -> req' = [req EXCEPT ![q].thread = t, ![q].pc = "append"]

\* Mutant: the query orders by created_at, and ascending.
FindOldest(q) ==
    /\ req[q].pc = "find"
    /\ \E o \in ReadOutcome :
          IF o = "ok" /\ active THEN Resolved(q, 1) ELSE Goto(q, "create")
    /\ UNCHANGED <<thread, latest, active, arrived, raced>>

\* Any error of the query, not only "not found", leads to a new thread.
Find(q) ==
    /\ req[q].pc = "find"
    /\ \E o \in ReadOutcome :
          IF o = "ok" /\ active THEN Resolved(q, latest) ELSE Goto(q, "create")
    /\ UNCHANGED <<thread, latest, active, arrived, raced>>

Create(q) ==
    /\ req[q].pc = "create"
    /\ \E o \in Outcome :
          /\ CreateThread(o)
          /\ IF o = "ok" THEN Resolved(q, Len(thread) + 1) ELSE Answer(q, "error")
    /\ UNCHANGED <<arrived, raced>>

AppendUser(q) ==
    /\ req[q].pc = "append"
    /\ \E o \in Outcome :
          /\ AppendMessage(req[q].thread, UserMessage(q), o)
          /\ IF o = "ok" THEN Goto(q, "load") ELSE Answer(q, "error")
    /\ UNCHANGED <<arrived, raced>>

\* Without history the agent gets the messages of the request alone.
Load(q) ==
    /\ req[q].pc = "load"
    /\ \E o \in ReadOutcome :
          req' = [req EXCEPT ![q].pc = "route",
                             ![q].sent = IF o = "ok" THEN TrimHistory(ListMessages(req[q].thread))
                                                     ELSE <<UserMessage(q)>>]
    /\ UNCHANGED <<thread, latest, active, arrived, raced>>

\* No node reports a ready agent, or no inference address is configured.
Route(q) ==
    /\ req[q].pc = "route"
    /\ \E up \in BOOLEAN : IF up THEN Goto(q, "call") ELSE Answer(q, "error")
    /\ UNCHANGED <<thread, latest, active, arrived, raced>>

\* Mutant: retries are not counted.
CallUncounted(q) ==
    /\ req[q].pc = "call"
    /\ \/ req' = [req EXCEPT ![q].attempt = (@ + 1) % MaxRetries]
       \/ Answer(q, "error")
    /\ UNCHANGED <<thread, latest, active, arrived, raced>>

\* One attempt of runCompletionWithRetry.
Call(q) ==
    /\ req[q].pc = "call"
    /\ \E r \in IF req[q].kind = "pm" THEN CallChatCompletion(req[q].sent) ELSE CallGenerate(q) :
          CASE r.is = "content" ->
                 req' = [req EXCEPT ![q].asked = r.to, ![q].attempt = 0, ![q].pc = "store"]
            [] r.is = "transient" /\ req[q].attempt + 1 < MaxRetries ->
                 req' = [req EXCEPT ![q].attempt = @ + 1]
            [] OTHER -> Answer(q, "error")
    /\ UNCHANGED <<thread, latest, active, arrived, raced>>

Reply(q) == [role |-> "assistant", of |-> q, to |-> req[q].asked]

\* Mutant: the active thread is looked up again.
StoreInActive(q) ==
    /\ req[q].pc = "store"
    /\ \E o \in Outcome : AppendMessage(latest, Reply(q), o)
    /\ Answer(q, "ok")
    /\ UNCHANGED <<arrived, raced>>

\* An error is only logged.
Store(q) ==
    /\ req[q].pc = "store"
    /\ \E o \in Outcome : AppendMessage(req[q].thread, Reply(q), o)
    /\ Answer(q, "ok")
    /\ UNCHANGED <<arrived, raced>>

\* The user is silent for longer than the threshold, which no request outlives.
Lapse ==
    /\ InFlight = {}
    /\ active
    /\ active' = FALSE
    /\ UNCHANGED <<thread, latest, req, arrived, raced>>

Handle(q) ==
    \/ Find(q) \/ Create(q) \/ AppendUser(q) \/ Load(q)
    \/ Route(q) \/ Call(q) \/ Store(q)

Next == (\E q \in Request : Arrive(q) \/ Handle(q)) \/ Lapse

\* Every call a request makes returns, so some request that is not answered
\* goes on.
Fairness == WF_vars(\E q \in Request : Handle(q))

Spec == Init /\ [][Next]_vars /\ Fairness

-----------------------------------------------------------------------------
(* Properties *)

Position(q) == SelectInSeq(thread[req[q].thread], LAMBDA msg : msg = UserMessage(q))

(***************************************************************************)
(* The agent answers the message it was sent last: while a thread is no    *)
(* longer than the history limit, the reply to a request that overlapped   *)
(* no other is a reply to its own message, whatever was trimmed, whichever *)
(* load failed and however often the agent was asked.                      *)
(***************************************************************************)
OwnTurnAnswered ==
    \A q \in Request \ raced :
        (req[q].pc = "store" /\ Position(q) <= HistoryLimit) => req[q].asked = q

(***************************************************************************)
(* A user whose requests never overlap always writes to the thread that    *)
(* was made last, so that POST /v1/chat/threads does start a fresh         *)
(* conversation: no failed or half-done store call brings an older thread  *)
(* back.                                                                   *)
(***************************************************************************)
SerialUsesNewest ==
    raced = {} => \A q \in InFlight : req[q].thread \in {0, Len(thread)}

(***************************************************************************)
(* A reply is stored once, only for a request that succeeded, in the       *)
(* thread of its question and after it; directly after it if the request   *)
(* overlapped no other.                                                    *)
(***************************************************************************)
RepliesFollowQuestions ==
    \A t \in DOMAIN thread : \A i \in DOMAIN thread[t] :
        LET msg == thread[t][i]
        IN  msg.role = "assistant" =>
              /\ req[msg.of].answer = "ok"
              /\ \E j \in 1 .. i - 1 :
                    /\ thread[t][j] = UserMessage(msg.of)
                    /\ msg.of \notin raced => j = i - 1
              /\ \A j \in 1 .. i - 1 : thread[t][j] # msg

(***************************************************************************)
(* However its calls fail, the gateway always comes to rest: retries end,  *)
(* and no request that has arrived goes without an answer.                 *)
(***************************************************************************)
EveryRequestAnswered == []<>(InFlight = {})

(***************************************************************************)
(* What trimHistoryToCharBudget says of itself: the current user turn is   *)
(* never dropped from what an agent is sent, here as long as no requests   *)
(* overlap.                                                                *)
(***************************************************************************)
CurrentTurnNeverDropped ==
    raced = {} => \A q \in Request :
        req[q].sent # <<>> => UserMessage(q) \in ToSet(req[q].sent)
-----------------------------------------------------------------------------
(* The inductive invariant behind the safety properties *)

\* Is the message of request q in thread t?
AskedIn(t, q) == \E i \in DOMAIN thread[t] : thread[t][i] = UserMessage(q)

\* Requests, without the bounds of RequestState.
ChatRequest == [pc : {"idle", "find", "create", "append", "load", "route",
                      "call", "store", "done"},
                kind : Kind, thread : Nat, sent : Seq(Message), attempt : Nat,
                asked : {0} \cup Request, answer : {"none", "ok", "error"}]

\* Requests that are in flight together have raced, and those to come are idle.
FlightOK ==
    /\ \A p, q \in InFlight : p # q => q \in raced
    /\ \A q \in Request : q > arrived => req[q] = Idle

\* A request writes its message once, to a thread that exists; if it overlaps no
\* other one, its message stays the last of the thread until it is answered, and
\* of what an agent is sent.
TurnOK(q) ==
    LET t == req[q].thread
        own == q \notin raced /\ Len(thread[t]) <= HistoryLimit
    IN  /\ req[q].pc # "done" => req[q].answer = "none"
        /\ req[q].pc \in {"idle", "find", "create"} => t = 0
        /\ req[q].pc \in {"append", "load", "route", "call", "store"} => t \in DOMAIN thread
        /\ req[q].pc \in {"idle", "find", "create", "append"} =>
              \A u \in DOMAIN thread : ~AskedIn(u, q)
        /\ req[q].pc \in {"load", "route", "call", "store"} =>
              /\ AskedIn(t, q)
              /\ q \notin raced => \A i \in DOMAIN thread[t] :
                                      thread[t][i] = UserMessage(q) <=> i = Len(thread[t])
        /\ req[q].pc \in {"route", "call"} =>
              req[q].sent # <<>> /\ (own => Last(req[q].sent) = UserMessage(q))
        /\ req[q].pc = "store" => (own => req[q].asked = q)

ChatInv ==
    /\ thread \in Seq(Seq(Message)) /\ latest \in 0 .. Len(thread) /\ active \in BOOLEAN
    /\ active => latest # 0
    /\ req \in [Request -> ChatRequest] /\ raced \subseteq Request
    /\ arrived \in Nat
    /\ FlightOK
    /\ \A q \in Request : TurnOK(q)
    /\ raced = {} => latest = Len(thread)
    /\ SerialUsesNewest
    /\ RepliesFollowQuestions

\* Each request makes one thread at most, and retries no more than it may.
Resolving == {"idle", "find", "create"}

ChatBounds ==
    /\ arrived <= MaxRequests
    /\ \A q \in Request : req[q].attempt < MaxRetries /\ req[q].thread <= Len(thread)
    /\ Len(thread) <= Cardinality({q \in Request : req[q].pc \notin Resolving})

-----------------------------------------------------------------------------
(* Refinement *)

\* Is message m in thread t?
SaidIn(t, m) == t \in DOMAIN thread /\ \E i \in DOMAIN thread[t] : thread[t][i] = m

\* What an agent was sent, and what it has answered, was said in the thread of
\* the request.
ContextOK(q) ==
    /\ req[q].pc \in {"route", "call"} =>
          \A i \in DOMAIN req[q].sent : SaidIn(req[q].thread, req[q].sent[i])
    /\ req[q].pc = "store" =>
          req[q].asked = 0 \/ SaidIn(req[q].thread, UserMessage(req[q].asked))

\* What users have said is what AppendUser writes.
WrittenOK ==
    \A t \in DOMAIN thread : \A i \in DOMAIN thread[t] :
        thread[t][i].role = "user" => thread[t][i] = UserMessage(thread[t][i].of)

ContextInv == WrittenOK /\ \A q \in Request : ContextOK(q)

CV == INSTANCE Conversation WITH log <- thread

(***************************************************************************)
(* The requests, with their retries, failures and overlaps, implement      *)
(* Conversation: no message or reply is lost from a thread, stored twice   *)
(* or stored elsewhere, and no reply answers what was said in another      *)
(* thread, even while the user works on several at a time.                 *)
(***************************************************************************)
ImplementsConversation == CV!Spec
=============================================================================
