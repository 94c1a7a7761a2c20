SPECIFICATION Spec
CONSTANTS
    MaxOps = 2
    MaxFiles = 4
    Lockers = {p1, p2}
    MaxStops = 2
INVARIANTS
    StoreInvariant
PROPERTIES
    RecordSpec
CHECK_DEADLOCK FALSE
