\* Three requests of one user, two at a time, and a store that never fails.
SPECIFICATION Spec
CONSTANTS
    MaxRequests = 3
    MaxInFlight = 2
    Faults = {}
    HistoryLimit = 3
    CharBudget = 3
    UserSize = 1
    ReplySize = 2
    MaxRetries = 2
\* Requests are numbered and bounded: all of them are answered in the end.
CHECK_DEADLOCK FALSE
INVARIANT
    CurrentTurnNeverDropped
