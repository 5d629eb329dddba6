\* Overlapping requests of two runners: t1 waits for d1, and no task
\* had a lease before.
CONSTANTS
    t1 = t1
    d1 = d1
    Task = {t1, d1}
    Deps <- DepsOnD1
    Planned = {t1}
    Holder = {h1, h2}
    NoHolder = NoHolder
    NoTask = NoTask
    InFlight = 2
    TTL = {1}
    MaxTime = 0
    MaxFresh = 0
SPECIFICATION Spec
SYMMETRY HolderSymmetry
INVARIANTS
    DependenciesFirst
