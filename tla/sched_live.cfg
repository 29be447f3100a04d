SPECIFICATION FairSpec
CONSTANTS
    Task = {t1}
    Dir = {d1}
    DirOf <- OneDirectory
    Executor = {e1}
    Canceller = {c1, c2}
    Stopper = {s1}
    Caps <- WriteTasks
    InitialPolicies = {"exclusive", "shared", "none"}
    MaxConcurrent = 1
    MaxOutput = 1
    Disturbances = {}
INVARIANTS
    GaplessLog
    StatusIsLastLifecycleEvent
    EventsAreJustified
PROPERTIES
    RunningEnds
    PreparationLeadsOn
