\* One restart against "so state survives restarts".
CONSTANTS
    Task = {t1}
    Request = {r1}
    NoTask = NoTask
    MaxJobs = 1
    MaxAttempts = 3
    MaxCrashes = 1
    Faults = {}
SPECIFICATION FairSpec
PROPERTY
    QueueSurvivesRestart
