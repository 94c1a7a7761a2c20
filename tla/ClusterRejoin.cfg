SPECIFICATION PartSpec
CONSTANTS
    A = A  B = B
    o1 = o1  o2 = o2  o3 = o3  o4 = o4  g1 = g1  l1 = l1
    Nodes = {A, B}
    Root = A
    Ops = {o1, o2, o3, o4}
    LeaveOps = {l1}
    Grants = {g1}
    MaxIncarnation = 2
    MAX_HISTORY = 5
    MAX_ACTIVE = 1
    MaxEpoch = 2
SYMMETRY Symmetry
INVARIANTS
    RejoinInstalls
CHECK_DEADLOCK FALSE
