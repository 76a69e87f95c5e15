SPECIFICATION Spec
CONSTANTS
    w1 = w1  w2 = w2  p1 = p1  p2 = p2  p3 = p3  v1 = v1  v2 = v2  v3 = v3
    A = A  m1 = m1  m2 = m2
    Worker = {w1}
    Path = {p1, p2, p3}
    Content = {v1}
    Coll = {A}
    Model = {m1, m2}
    First <- MCFirst
    Job <- MCJob
    JobsOf <- MCModelJobsOf
    MaxFiles = 2
    MaxVersions <- MCNoVersions
    Gone = Gone  NoRow = NoRow  NoJob = NoJob
INVARIANTS
    ReindexChangesModel
