\* A server whose local provider loads a model and whose openai has no key.
CONSTANTS
    f1 = f1
    f2 = f2
    outside = outside
    d1 = d1
    local = local
    openai = openai
    mock = mock
    m1 = m1
    m2 = m2
    t1 = t1
    t2 = t2
    Thread = {t1, t2}
    File = {f1, f2, outside}
    Folder = {d1}
    FilesIn <- MCFilesIn
    Allowed = {f1, f2, d1}
    Provider = {local, mock, openai}
    Configured = local
    Unnamed = Unnamed
    Keyless = {openai}
    Lazy = {local}
    ServerModel = m1
    Request <- MCRequest
    Earlier <- MCEarlier
    MaxRequests = 3
    MaxChanges = 2
    Changing = {f1, f2, d1}
CHECK_DEADLOCK FALSE
SPECIFICATION Spec
INVARIANTS
    TypeOK
    ProvidersAreShared
    AnswersAreTrue
PROPERTIES
    EveryRequestAnswered
