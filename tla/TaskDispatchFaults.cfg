\* One task fought over by three requests, with every store fault, the
\* code's three attempts and one control-plane restart, while a user follows it.
CONSTANTS
    Task = {t1}
    Request = {r1, r2, r3}
    NoTask = NoTask
    MaxJobs = 2
    MaxAttempts = 3
    MaxCrashes = 1
    Client = {c1}
    Owned = {t1}
    Faults = {"fail", "lost"}
SPECIFICATION ClientSpec
SYMMETRY RequestSymmetry
INVARIANTS
    CompletedTaskKeepsResult
    RetryBudget
    EndShownIsTheEnd
PROPERTIES
    ResultWrittenOnce
    ImplementsTaskService
