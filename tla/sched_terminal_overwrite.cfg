SPECIFICATION Spec
CONSTANTS
    Task = {t1}
    Dir = {d1}
    DirOf <- OneDirectory
    Executor = {e1}
    Canceller = {c1}
    Stopper = {}
    Caps <- WriteTasks
    InitialPolicies = {"exclusive"}
    MaxConcurrent = 1
    MaxOutput = 0
    Disturbances = {}
PROPERTY
    TerminalIsFinal
