SPECIFICATION Spec
CONSTANTS
    Task = {t1}
    Dir = {d1}
    DirOf <- OneDirectory
    Writer = {w1, w2}
    Stream = {s1}
    StreamTask <- WatchOne
    Cursors = {3}
    Outcomes = {"cancelled"}
    Capacity = 1
    MaxRows = 6
    MaxConnects = 2
CHECK_DEADLOCK FALSE
INVARIANTS
    FramesAscend
    OnlyOvertakenIsSkipped
    ClosesAfterTerminal
PROPERTIES
    StreamEnds
    GoneClientIsReaped
