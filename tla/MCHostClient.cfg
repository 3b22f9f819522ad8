SPECIFICATION FairSpec
CONSTANTS
    c1 = c1
    c2 = c2
    h1 = h1
    h2 = h2
    p1 = p1
    p2 = p2
    d1 = d1
    Hosts = {h1, h2}
    Documents = {d1}
    NoDocument = NoDocument
    Ports = {p1}
    NoPort = NoPort
    NoFile = NoFile
    MaxAttempts = 2
    Calls = {c1}
    Tools = {"get", "execute"}
    Filters <- MCFilters
    AnyDocument = AnyDocument
    None = None
INVARIANTS TypeOK RightTarget ErrorMeansNoRequest JournalCoversWork
PROPERTIES AnswerIsOutcome EveryCallAnswered DescriptorCatchesUp
CHECK_DEADLOCK FALSE
