\* Two overlapping start requests against "At most one active workflow per task".
CONSTANTS
    t1 = t1
    d1 = d1
    Task = {t1}
    Deps <- NoDeps
    Planned = {}
    Holder = {h1, h2}
    NoHolder = NoHolder
    NoTask = NoTask
    InFlight = 2
    TTL = {1}
    MaxTime = 3
    MaxFresh = 1
SPECIFICATION Spec
INVARIANT
    AtMostOneActive
