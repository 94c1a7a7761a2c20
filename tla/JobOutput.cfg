SPECIFICATION FairSpec
CONSTANTS
    Writers = {"reader", "task"}
    Sizes = {1}
    MaxBytes = 2
    MaxChunks = 2
    MaxCrashes = 0
    GuardHeld = TRUE
PROPERTIES
    SubscribersSeeExit
CHECK_DEADLOCK FALSE
