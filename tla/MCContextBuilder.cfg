SPECIFICATION Spec
CONSTANTS
    r1 = r1
    r2 = r2
    r3 = r3
    r4 = r4
    ka = ka
    kb = kb
    kc = kc
    Row = {r1, r2, r3, r4}
    DedupeKey <- MCKey
    ChildLength <- MCChild
    ParentLength <- MCParent
    PathLength <- MCPath
    Request <- MCRequest
    DenseResult <- MCDense
    LexicalResult <- MCLexical
    Logit <- MCLogit
    RerankN = 2
    MinScore <- MCMinScore
    MinBm25 <- MCMinBm25
    MinRrf <- MCMinRrf
INVARIANTS
    TypeOK
    FusionRespectsChannels
    AsManyAsAsked
    PacksAPrefix
    TruncatedIfTooLong
    PackedWithinBudget
    FusedHighIsAgreed
CHECK_DEADLOCK FALSE
