SPECIFICATION MCSpec
CONSTANTS
    MaxRequests = 3
    MaxInFlight = 2
    Faults = {"fail", "inserted", "lost"}
    HistoryLimit = 3
    CharBudget = 3
    UserSize = 1
    ReplySize = 2
    MaxRetries = 2
    k1 = k1
    k2 = k2
    Key <- TwoKeys
    PrefScopes <- TwoScopes
    PrefKeys = 2
    ListLimit = 1
    PrefFaults = {"fail", "lost"}
    MaxCalls = 2
    MaxOpenCalls = 2
    Limit = 2
    Window = 2
    MaxClock = 5
    User = {"u1", "u2"}
    MaxSkills = 1
    SkillSlot = {1, 2}
    SkillFaults = {"fail", "lost"}
    Operation = {"chat", "embed"}
    MaxRules = 2
    MaxExpiry = 1
    EgressFaults = {"fail"}
    Process = {p1, p2}
    GatewayURL = {"gw1", "gw2"}
    MaxTokens = 3
    CliFaults = {"fail", "lost", "killed"}
\* Requests and calls are numbered and bounded: all are answered in the end.
CHECK_DEADLOCK FALSE
INVARIANTS
    OwnTurnAnswered
    SerialUsesNewest
    RepliesFollowQuestions
    BelowTwiceTheLimit
    ExpectedVersionHonoured
    ListIsComplete
    SkillsStayWithOwners
    OkMeansWritten
    AllowedWasPermitted
    StoredLoginIsGood
PROPERTIES
    EveryRequestAnswered
    DeletedStaysDeleted
    ImplementsConversation
