\* Selections and captures without an open document (no symmetry: liveness).
SPECIFICATION FairSpec
CONSTANTS
    Host = "revit"
    Kinds = {"selection", "capture"}
    Requests = {r1, r2}
    Documents = {}
    NoDocument = NoDocument
    NoTarget = NoTarget
    NoRequest = NoRequest
    MaxQueued = 1
    MaxHandlers = 2
CHECK_DEADLOCK FALSE
PROPERTIES AcceptedGetsOutcome SelectionAnswered
