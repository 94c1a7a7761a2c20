SPECIFICATION DepartureSpec
CONSTANTS
    MaxAttempts = 2
    MaxProcesses = 2
    MaxWork = 1
INVARIANTS
    LeaseIsIdle
    StopsOnlyTheGone
    DrainInvariant
PROPERTIES
    IdleExit
    AdmissionReturns
    LeaveCompletes
CHECK_DEADLOCK FALSE
