\* One node, and the placement of the PMA on two, with failing and
\* unacknowledged calls and three stops; two managed services and two starts;
\* two log events, two boots and events kept one hour.
CONSTANTS
    Node = {1, 2}
    Override = FALSE
    Faults = {"fail", "lost"}
    MaxStops = 3
    Service = {"pma", "tool"}
    MaxStarts = 2
    MaxNow = 1
    MaxBoots = 2
    MaxEvents = 2
    MaxHour = 2
    KeepFor = 1
    Sizes = {1, 2}
    MaxBytes = 2
    PageLimit = 1
SPECIFICATION MCSpec
INVARIANTS
    DispatchableWasServing
    ReadyPMAHasToken
    StoredTokensHaveTheirKey
    UsedTokenIsCurrent
    TruncationIsTold
    BootRecordedOnce
PROPERTIES
    SyncedMeansDesired
    EventsAgeOut
