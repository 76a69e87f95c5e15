\* Three calls on a cache of every size up to more than they can fill.
CONSTANTS
    p1 = p1
    p2 = p2
    v1 = v1
    v2 = v2
    x1 = x1
    x2 = x2
    x3 = x3
    c1 = c1
    c2 = c2
    c3 = c3
    a1 = a1
    a2 = a2
    b1 = b1
    m1 = m1
    m2 = m2
    Doc <- MCDoc
    Provider <- MCProvider
    BatchSize = 2
    Limits = {0, 1, 3, 8}
    Default = 8
    NoHash = NoHash
    MaxCalls = 3
SPECIFICATION ESpec
CHECK_DEADLOCK FALSE
INVARIANTS
    CacheSound
    OwnVectors
    RetriesPayTheRest
