SPECIFICATION Spec
CONSTANTS
    Daemon = {d1, d2}
    Threshold = 1
    Skew = 1
    MaxTime = 2
    Remote = {r1}
    Mover = {m1}
    Capacity = 3
    Outcomes = {"completed"}
    MaxFrames = 2
    MaxCuts = 1
CHECK_DEADLOCK FALSE
INVARIANTS
    DispatchedOnce
    CallbacksAscend
    OnlineIsFresh
PROPERTIES
    IdentityIsStable
    EndIsReported
