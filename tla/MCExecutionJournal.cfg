\* Two threads of one process and one of another, two days.
SPECIFICATION Spec
CONSTANTS
    p1 = p1
    p2 = p2
    t1 = t1
    t2 = t2
    t3 = t3
    Processes = {p1, p2}
    Threads = {t1, t2, t3}
    Home <- TwoProcesses
    Days = {d1, d2}
    Limit = 2
    NotRead = NotRead
    Zeros = Zeros
    NoRecord = NoRecord
    MaxRecords = 3
SYMMETRY Symmetry
\* The number of records is bounded.
CHECK_DEADLOCK FALSE
INVARIANTS TypeOK TamperEvident ReturnedIsOnRecord
PROPERTIES ForestRefined
