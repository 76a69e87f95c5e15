\* Preparations that die and are resumed, in one database.
CONSTANTS
    q1 = q1
    q2 = q2
    q3 = q3
    f1 = f1
    f2 = f2
    f3 = f3
    w1 = w1
    w2 = w2
    fixtures = fixtures
    Absent = Absent
    Torn = Torn
    Whole = Whole
    Docs <- MCDocs
    Blank = {3}
    Queries <- MCQueries
    Judged <- MCJudged
    Requests <- MCRequests
    Unlimited = Unlimited
    DefaultDir = DefaultDir
    Given <- MCGiven
    FixtureRequest <- MCFixtureRequest
    FixtureRules <- MCFixtureRules
    ExpectEmpty = {f2}
    Words <- MCWords
    MaxRuns = 4
    TopK = 2
    ChunkMultiplier = 2
    Nothing = Nothing
SPECIFICATION Spec
\* Eval is called MaxRuns times.
CHECK_DEADLOCK FALSE
INVARIANTS
    TypeOK
    CorpusSound
    IndexIsCorpus
    GradesDocuments
