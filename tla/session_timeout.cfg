SPECIFICATION Spec
CONSTANTS
    Acp = {a1}
    Http = {h1}
    Request = {r1}
    Resolver = {v1}
    OtherFrames = {"delta", "no_request_id"}
    MaxFrames = 2
    Inherited = {}
    MayCrash = TRUE
CHECK_DEADLOCK FALSE
PROPERTIES
    TimeoutTerminates
