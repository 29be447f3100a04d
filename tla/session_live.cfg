SPECIFICATION Spec
CONSTANTS
    Acp = {a1}
    Http = {h1}
    Request = {r1}
    Resolver = {v1}
    OtherFrames = {"delta", "no_request_id"}
    MaxFrames = 1
    Inherited = {"stdin", "stdout", "stderr"}
    MayCrash = TRUE
CHECK_DEADLOCK FALSE
PROPERTIES
    DecisionReachesSession
    SessionReturnsOrWaits
    CancelReturns
