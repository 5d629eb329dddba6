\* Two runners, whose start and release requests do not overlap, over four ticks of the clock.
CONSTANTS
    t1 = t1
    d1 = d1
    Task = {t1}
    Deps <- NoDeps
    Planned = {}
    Holder = {h1, h2}
    NoHolder = NoHolder
    NoTask = NoTask
    InFlight = 1
    TTL = {1, 2}
    MaxTime = 4
    MaxFresh = 2
SPECIFICATION Spec
SYMMETRY HolderSymmetry
INVARIANTS
    AtMostOneActive
