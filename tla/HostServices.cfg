CONSTANTS
    c1 = c1
    c2 = c2
    s1 = s1
    k1 = k1
    k2 = k2
    m1 = m1
    m2 = m2
    w1 = w1
    v1 = v1
    u1 = u1
    u2 = u2
    o1 = o1
    g1 = g1
    g2 = g2
    Nodes = {n1, n2}
    Founder = n1
    MaxEpoch = 3
    MaxCalls = 1
SPECIFICATION HostSpec
INVARIANTS
    ServesSoundly
    OnlyPrimaryWrites
    ChallengesSound
PROPERTIES
    IdentityIsOnce
    NothingAfterRemoval
    RequestsEnd
CHECK_DEADLOCK FALSE
