SPECIFICATION Spec
CONSTANTS
    admin = admin
    r1 = r1
    r2 = r2
    User <- OneUser
    Admin = admin
    Request <- TwoRequests
    Faults = {"fail", "lost"}
    RefreshTTL = 1
    MaxSessions = 3
    MaxTime = 1
SYMMETRY Symmetry
INVARIANTS
    ExchangedTokenIsDead
    OneTokenPerLogin
