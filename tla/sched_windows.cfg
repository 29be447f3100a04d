SPECIFICATION Spec
CONSTANTS
    Task = {t1, t2, t3, t4}
    Dir = {d1}
    DirOf <- OneDirectory
    Executor = {e1, e2, e3}
    Canceller = {c1}
    Stopper = {}
    Caps <- OneShellTask
    InitialPolicies = {"shared"}
    MaxConcurrent = 2
    MaxOutput = 0
    Disturbances = {}
\* A state in which two calls overlap in a window is checked, and not continued;
\* neither is one in which a task is created that no executor is about.
CONSTRAINTS Windows Targeted
SYMMETRY ReaderSymmetry
INVARIANTS
    ExclusiveLocks
    TerminalHoldsNoLock
    CapacityRespected
    PreparedHoldsLock
    RunsAtMostOnce
    WritersRunAlone
PROPERTIES
    TerminalIsFinal
    ImplementsLifecycle
