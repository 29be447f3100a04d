SPECIFICATION Spec
CONSTANTS
    Acp = {a1, a2}
    Http = {}
    Request = {r1}
    Resolver = {v1, v2}
    OtherFrames = {}
    MaxFrames = 1
    Inherited = {}
    MayCrash = FALSE
SYMMETRY Symmetry
CHECK_DEADLOCK FALSE
INVARIANTS
    WaiterIsAwaited
PROPERTIES
    PromiseKept
