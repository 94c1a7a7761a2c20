SPECIFICATION Spec
CONSTANTS
    Keys = {"a"}
    QueueSize = 2
    MaxEpoch = 1
    MaxCalls = 3
    MaxGeneration = 2
INVARIANTS
    PredecessorReleased
CHECK_DEADLOCK FALSE
