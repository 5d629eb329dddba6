------------------------------ MODULE Telemetry -----------------------------
(***************************************************************************)
(* The telemetry database of a worker node.  The node manager and the      *)
(* worker API have it open at the same time.  Their loggers insert events  *)
(* from goroutines of their own, at any time after the event and in any    *)
(* order; the node manager records its boot and its shutdown and deletes   *)
(* old events every hour; clients of the worker API read the events of one *)
(* service page by page.                                                   *)
(*                                                                         *)
(* Nothing in the program fills the tables of containers and of container  *)
(* events, so they are left out.  VACUUM changes nothing that is seen.     *)
(* Messages are their size.  Log ids are random, so an event takes any     *)
(* number that is free; its time is as coarse as the clock (seconds in the *)
(* code), so that several events share one.                                *)
(***************************************************************************)
EXTENDS Integers, Sequences, FiniteSets, SequencesExt

CONSTANTS
    MaxBoots,   \* bound: starts of the node manager
    MaxEvents,  \* bound: log events
    MaxHour,    \* bound: the clock
    KeepFor,    \* age above which an event is deleted
    Sizes,      \* sizes of events in a response
    MaxBytes,   \* maxLogRespBytes
    PageLimit   \* limit of a query

ASSUME TelemetryAssumption ==
    /\ {MaxBoots, MaxEvents, MaxHour, KeepFor, MaxBytes} \subseteq Nat
    /\ Sizes \subseteq Nat /\ PageLimit \in Nat \ {0}

VARIABLES
    logEvent,   \* log_event
    inserting,  \* events whose goroutine has not inserted them yet
    logged,     \* log ids given to events so far
    nodeBoot,   \* node_boot
    boot,       \* number of starts of the node manager
    managerUp,  \* is the node manager running?
    opened,     \* processes that have the database open
    skip,       \* NODE_SKIP_NODE_BOOT_RECORD in the environment of the node manager
    workerRuns, \* has this start of the node manager started the worker API?
    query,      \* a client that reads events
    hour        \* the clock

telemetryVars == <<logEvent, inserting, logged, nodeBoot, boot, managerUp, opened, skip,
                   workerRuns, query, hour>>

-----------------------------------------------------------------------------
EventId == 1 .. MaxEvents
Writer == {"node_manager", "worker_api"}
LogEvent == [id : EventId, at : 0 .. MaxHour, source : Writer, size : Sizes]

NoQuery == [pc |-> "idle", source |-> "worker_api", offset |-> 0, seen |-> <<>>,
            limitedBy |-> "none", calm |-> TRUE]

TelemetryTypeOK ==
    /\ logEvent \subseteq LogEvent
    /\ inserting \subseteq LogEvent
    /\ logged \subseteq EventId
    /\ nodeBoot \subseteq (1 .. MaxBoots) \X Writer
    /\ boot \in 0 .. MaxBoots
    /\ opened \subseteq Writer
    /\ managerUp \in BOOLEAN /\ skip \in BOOLEAN /\ workerRuns \in BOOLEAN
    /\ query \in [pc : {"idle", "ask", "told"}, source : Writer,
                  offset : 0 .. MaxEvents, seen : Seq(LogEvent),
                  limitedBy : {"none", "count", "bytes"},
                  calm : BOOLEAN]   \* was no event inserted or deleted since it began?
    /\ hour \in 0 .. MaxHour

TelemetryInit ==
    /\ logEvent = {} /\ inserting = {} /\ logged = {}
    /\ nodeBoot = {} /\ boot = 0
    /\ managerUp = FALSE /\ opened = {} /\ skip = FALSE /\ workerRuns = FALSE
    /\ query = NoQuery
    /\ hour = 0

-----------------------------------------------------------------------------
\* log_event becomes new, and clients in the middle of a list may notice.
ChangeEvents(new) ==
    /\ logEvent' = new
    /\ query' = IF new = logEvent \/ query.pc = "idle" THEN query
                ELSE [query EXCEPT !.calm = FALSE]

OpenFor(w) == opened \cup {w}

\* InsertNodeBoot by w of the n-th start; its error is only logged.
InsertNodeBoot(n, w) == {nodeBoot, nodeBoot \cup {<<n, w>>}}

\* runMain of the node manager: Open may fail, which leaves the node without
\* telemetry, and so may the insert of the boot.  Once the database is open
\* the worker API is told not to record the boot.
BootManager ==
    /\ ~managerUp /\ boot < MaxBoots
    /\ managerUp' = TRUE
    /\ boot' = boot + 1
    /\ workerRuns' = FALSE
    /\ \/ /\ opened' = OpenFor("node_manager")
          /\ nodeBoot' \in InsertNodeBoot(boot', "node_manager")
          /\ skip' = TRUE
       \/ skip' = FALSE /\ UNCHANGED <<opened, nodeBoot>>
    /\ UNCHANGED <<logEvent, inserting, logged, query, hour>>

\* Mutant: the worker API always records the boot.
NeverSkips(container) == FALSE

\* A container is always told not to record it.
SkipsBoot(container) == skip \/ container

\* recordNodeBoot of the worker API.
RecordNodeBoot(container) ==
    IF SkipsBoot(container) THEN {nodeBoot} ELSE InsertNodeBoot(boot, "worker_api")

\* runMain of the worker API, as a container or as a process that inherits the
\* environment; or one that an earlier node manager started goes on.
BootWorker ==
    /\ managerUp /\ ~workerRuns
    /\ workerRuns' = TRUE
    /\ \/ \E container \in BOOLEAN :
             \/ opened' = OpenFor("worker_api") /\ nodeBoot' \in RecordNodeBoot(container)
             \/ opened' = opened \ {"worker_api"} /\ UNCHANGED nodeBoot
       \/ UNCHANGED <<opened, nodeBoot>>
    /\ UNCHANGED <<logEvent, inserting, logged, boot, managerUp, skip, query, hour>>

\* LogHandler.Handle of a process that has the database open.
Log(w) ==
    /\ w \in opened
    /\ \E id \in EventId \ logged, size \in Sizes :
          /\ logged' = logged \cup {id}
          /\ inserting' = inserting \cup
                {[id |-> id, at |-> hour, source |-> w, size |-> size]}
    /\ UNCHANGED <<logEvent, nodeBoot, boot, managerUp, opened, skip, workerRuns, query, hour>>

\* InsertLogEvent in the goroutine of an event; an error is ignored.
InsertLogEvent(e) ==
    /\ e \in inserting
    /\ inserting' = inserting \ {e}
    /\ \/ ChangeEvents(logEvent \cup {e})
       \/ UNCHANGED <<logEvent, query>>
    /\ UNCHANGED <<logged, nodeBoot, boot, managerUp, opened, skip, workerRuns, hour>>

\* The process and its goroutines are gone.
ProcessEnds(w) ==
    /\ opened' = opened \ {w}
    /\ inserting' = {e \in inserting : e.source # w}
    /\ skip' = (skip /\ w # "node_manager")

\* The deferred functions of the node manager: recordNodeManagerShutdown, and
\* Close.  After a signal the context of the insert is cancelled and the
\* event is not recorded; it is when the node manager gives up by itself.
ShutdownManager ==
    /\ managerUp
    /\ managerUp' = FALSE
    /\ ProcessEnds("node_manager")
    /\ \/ /\ "node_manager" \in opened
          /\ \E id \in EventId \ logged, size \in Sizes :
                /\ logged' = logged \cup {id}
                /\ ChangeEvents(logEvent \cup {[id |-> id, at |-> hour,
                                                source |-> "node_manager", size |-> size]})
       \/ UNCHANGED <<logEvent, logged, query>>
    /\ UNCHANGED <<nodeBoot, boot, workerRuns, hour>>

StopWorkerAPI ==
    /\ "worker_api" \in opened
    /\ ProcessEnds("worker_api")
    /\ query' = NoQuery
    /\ UNCHANGED <<logEvent, logged, nodeBoot, boot, managerUp, workerRuns, hour>>

\* Mutant: log events are kept as long as container events.
RetentionCutoffOfContainers == hour - KeepFor - MaxHour

RetentionCutoff == hour - KeepFor

\* EnforceRetention, at the start of the node manager and every hour.
EnforceRetention ==
    /\ "node_manager" \in opened
    /\ \E e \in logEvent : e.at < RetentionCutoff
    /\ ChangeEvents({e \in logEvent : e.at >= RetentionCutoff})
    /\ UNCHANGED <<inserting, logged, nodeBoot, boot, managerUp, opened, skip, workerRuns, hour>>

-----------------------------------------------------------------------------
(* Queries *)

\* Order("occurred_at, log_id"): events of one time come in any order, but
\* always in the same.
Precedes(d, e) == d.at < e.at \/ (d.at = e.at /\ d.id < e.id)

\* In that order: the n-th event has n - 1 before it.
EventsOf(source) ==
    LET events == {e \in logEvent : e.source = source}
    IN  [n \in 1 .. Cardinality(events) |->
            CHOOSE e \in events : Cardinality({d \in events : Precedes(d, e)}) = n - 1]

\* Mutant: no more events are asked for than are shown.
FetchedExactly(source, offset) ==
    SubSeq(EventsOf(source), offset + 1,
           IF offset + PageLimit < Len(EventsOf(source))
           THEN offset + PageLimit ELSE Len(EventsOf(source)))

\* The query: from the offset on, one event more than the limit.
Fetched(source, offset) ==
    SubSeq(EventsOf(source), offset + 1,
           IF offset + PageLimit + 1 < Len(EventsOf(source))
           THEN offset + PageLimit + 1 ELSE Len(EventsOf(source)))

Bytes(rows, n) == FoldLeft(LAMBDA sum, e : sum + e.size, 0, SubSeq(rows, 1, n))

\* applyLogTruncation: the first event that does not fit ends the list.
FitsIn(rows) ==
    CHOOSE n \in 0 .. Len(rows) :
        /\ \A m \in 1 .. n : Bytes(rows, m) <= MaxBytes
        /\ n < Len(rows) => ~(Bytes(rows, n + 1) <= MaxBytes)

\* One page of QueryLogs; the client goes on while there is a next_page_token.
QueryLogs ==
    /\ query.pc = "ask"
    /\ LET rows == Fetched(query.source, query.offset)
           fits == FitsIn(rows)
           more == fits > PageLimit
           shown == SubSeq(rows, 1, IF more THEN PageLimit ELSE fits)
       IN  query' = [query EXCEPT !.pc = IF more THEN "ask" ELSE "told",
                                  !.seen = @ \o shown,
                                  !.offset = IF more THEN @ + PageLimit ELSE @,
                                  !.limitedBy = IF fits < Len(rows) THEN "bytes"
                                                ELSE IF more THEN "count" ELSE "none"]
    /\ UNCHANGED <<logEvent, inserting, logged, nodeBoot, boot, managerUp, opened, skip, workerRuns, hour>>

\* handleQueryLogs: a query without a source is refused.
BeginQuery ==
    /\ "worker_api" \in opened /\ query.pc = "idle"
    /\ \E source \in Writer : query' = [NoQuery EXCEPT !.pc = "ask", !.source = source]
    /\ UNCHANGED <<logEvent, inserting, logged, nodeBoot, boot, managerUp, opened, skip, workerRuns, hour>>

EndQuery ==
    /\ query.pc = "told"
    /\ query' = NoQuery
    /\ UNCHANGED <<logEvent, inserting, logged, nodeBoot, boot, managerUp, opened, skip, workerRuns, hour>>

TelemetryTick ==
    /\ hour < MaxHour /\ hour' = hour + 1
    /\ UNCHANGED <<logEvent, inserting, logged, nodeBoot, boot, managerUp, opened, skip, workerRuns, query>>

TelemetryNext ==
    \/ BootManager \/ BootWorker \/ ShutdownManager \/ StopWorkerAPI
    \/ \E w \in Writer : Log(w)
    \/ \E e \in inserting : InsertLogEvent(e)
    \/ EnforceRetention
    \/ BeginQuery \/ QueryLogs \/ EndQuery
    \/ TelemetryTick

\* The ticker of the retention loop goes on while the node manager runs.
TelemetryFairness == WF_telemetryVars(EnforceRetention)

TelemetrySpec == TelemetryInit /\ [][TelemetryNext]_telemetryVars /\ TelemetryFairness

-----------------------------------------------------------------------------
(* The inductive invariant behind BootRecordedOnce *)

\* Boots are recorded as they happen, by one of the two; the node manager has not
\* recorded the current one while the worker API may still do so.
BootsKept ==
    /\ \A b \in nodeBoot : b[1] <= boot
    /\ \A b, d \in nodeBoot : b[1] = d[1] => b = d
    /\ managerUp /\ ~skip => <<boot, "node_manager">> \notin nodeBoot

BootInv ==
    /\ boot \in 0 .. MaxBoots
    /\ nodeBoot \subseteq (1 .. MaxBoots) \X Writer
    /\ managerUp \in BOOLEAN /\ skip \in BOOLEAN /\ (managerUp => boot >= 1)
    /\ BootsKept

-----------------------------------------------------------------------------
(* Properties *)

(***************************************************************************)
(* A client that follows the page tokens to the end, and is told on the    *)
(* last page that the answer is not limited, has seen every event of its   *)
(* source once, if none was inserted or deleted on the way.  The order is  *)
(* the query's, which within one second is not that of occurrence.         *)
(***************************************************************************)
TruncationIsTold ==
    (query.pc = "told" /\ query.calm /\ query.limitedBy = "none") =>
        query.seen = EventsOf(query.source)

(***************************************************************************)
(* A start of the node is recorded at most once, although both processes   *)
(* can record it and neither knows whether the other could.                *)
(***************************************************************************)
BootRecordedOnce == \A n \in 1 .. MaxBoots : Cardinality({b \in nodeBoot : b[1] = n}) <= 1

(***************************************************************************)
(* An event that has become too old goes in the end, unless the node       *)
(* manager stops, even if it was inserted only after its age was up.       *)
(***************************************************************************)
EventsAgeOut ==
    \A id \in EventId :
        (\E e \in logEvent : e.id = id /\ e.at < hour - KeepFor)
            ~> ("node_manager" \notin opened \/ \A e \in logEvent : e.id # id)

-----------------------------------------------------------------------------
(* The inductive invariant behind TruncationIsTold *)

\* While no event comes or goes, a client has seen the events up to its offset.
SeenSoFar ==
    /\ query.offset <= Len(EventsOf(query.source))
    /\ query.seen = SubSeq(EventsOf(query.source), 1, query.offset)

QueryInv ==
    /\ IsFiniteSet(logEvent)
    /\ query \in [pc : {"idle", "ask", "told"}, source : Writer, offset : Nat, seen : {query.seen},
                  limitedBy : {"none", "count", "bytes"}, calm : BOOLEAN]
    /\ query.pc = "ask" /\ query.calm => SeenSoFar
    /\ TruncationIsTold

-----------------------------------------------------------------------------
(* The inductive invariant behind TelemetryTypeOK *)

\* Every event has a log id of its own, and its goroutine inserts that one.
EventsKept ==
    /\ \A e \in logEvent \cup inserting : e.id \in logged
    /\ \A d, e \in logEvent \cup inserting : d.id = e.id => d = e

\* What TruncationIsTold means for a client: the events of its source and no other,
\* none twice, an older one before a younger one.
SeenEachOnce ==
    (query.pc = "told" /\ query.calm /\ query.limitedBy = "none") =>
        /\ ToSet(query.seen) = {e \in logEvent : e.source = query.source}
        /\ \A i, j \in DOMAIN query.seen :
              i < j => /\ query.seen[i] # query.seen[j]
                       /\ query.seen[i].at <= query.seen[j].at
=============================================================================
