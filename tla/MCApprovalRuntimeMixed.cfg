SPECIFICATION Spec
CONSTANTS
    c1 = c1
    c2 = c2
    c3 = c3
    s1 = s1
    n1 = n1
    d1 = d1
    d2 = d2
    Calls = {c1, c2}
    Sessions = {s1}
    Nonces = {n1}
    Documents = {d1, d2}
    NoDocument = NoDocument
    None = None
    Capabilities <- MCCapabilities
    Advertised <- MCAdvertised
    Contents <- MixedContents
    MaxStarts = 1
SYMMETRY Symmetry
INVARIANTS
    OnlyApprovedReachHost
    VerifiedMeansReadBack
CHECK_DEADLOCK FALSE
