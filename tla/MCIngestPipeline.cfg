SPECIFICATION FairSpec
CONSTANTS
    w1 = w1  w2 = w2  p1 = p1  p2 = p2  p3 = p3  v1 = v1  v2 = v2  v3 = v3
    A = A  m1 = m1  m2 = m2
    Worker = {w1, w2}
    Path = {p1, p2, p3}
    Content = {v1, v2}
    Coll = {A}
    Model = {m1, m2}
    First <- MCFirst
    Job <- MCJob
    JobsOf <- MCJobsOf
    MaxFiles = 2
    MaxVersions <- MCVersions
    Gone = Gone  NoRow = NoRow  NoJob = NoJob
INVARIANTS
    TypeOK
    SettledIsCurrent
    TextNotOlderThanHash
    BatchAccountsForAll
PROPERTIES
    BatchesEnd
