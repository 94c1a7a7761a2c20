CONSTANTS
    c1 = c1
    c2 = c2
    s1 = s1
    s2 = s2
    p1 = p1
    p2 = p2
    p3 = p3
    Keys = {"a"}
    QueueSize = 2
    MaxEpoch = 1
    MaxCalls = 3
    MaxGeneration = 2
SPECIFICATION HostSpec
INVARIANTS
    NothingStaysPressed
    ConfiguredAsVerified
    ConfirmedAsSeen
PROPERTIES
    StaleChangesNothing
    BackendSpec
    AbandonedEnds
CHECK_DEADLOCK FALSE
