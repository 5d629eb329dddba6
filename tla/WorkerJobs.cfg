\* Two calls of every kind, for one job or for jobs that share a name.
CONSTANTS
    Job <- Ids
    Dir = {"a_b", "a.b", "root"}
    Root = "root"
    Name = {"a-b", "a_b", "-"}
    DirOf <- Dirs
    NameOf <- Pods
    Call = {1, 2}
    Workload <- Submitted
    NoCall = NoCall
    Steps = 1
\* All calls of the instance may have been made.
CHECK_DEADLOCK FALSE
SPECIFICATION Spec
INVARIANTS
    CompletedMeansDone
    RunsAreKeptApart
    NothingLeftBehind
PROPERTIES
    EveryCallEnds
