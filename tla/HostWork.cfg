CONSTANTS
    c1 = c1
    a1 = a1
    a2 = a2
    q1 = q1
    q2 = q2
    MaxAttempts = 3
    MaxGenerations = 5
SPECIFICATION HostSpec
INVARIANTS
    OutputIsWhole
    WorkRunsOnce
    ChildrenAccounted
    ViewsAgree
    SessionSound
PROPERTIES
    LateChangesNothing
    WorkEnds
CHECK_DEADLOCK FALSE
