SPECIFICATION Spec
CONSTANTS
    c1 = c1
    c2 = c2
    c3 = c3
    s1 = s1
    n1 = n1
    d1 = d1
    d2 = d2
    Calls = {c1, c2, c3}
    Sessions = {s1}
    Nonces = {n1}
    Documents = {d1}
    NoDocument = NoDocument
    None = None
    Capabilities <- DefaultRegistry
    Advertised <- MCAdvertised
    Contents <- MCContents
    MaxStarts = 2
SYMMETRY Symmetry
INVARIANTS
    TypeOK
    IInv
    ApprovedOnce
    EndedSessionNeverReachesHost
    RejectedMeansNoWork
    EvidenceOfEveryEffect
CHECK_DEADLOCK FALSE
