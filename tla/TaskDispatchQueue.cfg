\* Two tasks share the queue and are cancelled while they are dispatched; a
\* user waits for one of them.  The store does not fail.
CONSTANTS
    Task = {t1, t2}
    Request = {r1}
    NoTask = NoTask
    MaxJobs = 2
    MaxAttempts = 2
    MaxCrashes = 0
    Client = {c1}
    Owned = {t2}
    Faults = {}
SPECIFICATION FairClientSpec
VIEW WithoutRuns
INVARIANTS
    SettledTaskHasNoOpenJob
PROPERTIES
    EveryWaitEnds
    EveryJobSettles
