SPECIFICATION Spec
CONSTANTS
    Task = {t1}
    Dir = {d1}
    DirOf <- OneDirectory
    Executor = {e1, e2}
    Canceller = {}
    Stopper = {}
    Caps <- WriteTasks
    InitialPolicies = {"exclusive"}
    MaxConcurrent = 2
    MaxOutput = 1
    Disturbances = {"crash", "store_error", "grant"}
SYMMETRY Symmetry
INVARIANTS
    TypeOK
    IInv
