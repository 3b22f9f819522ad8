\* AutoCAD: a confirmed cancellation against the UI thread.
SPECIFICATION Spec
CONSTANTS
    Host = "autocad"
    Kinds = {"write"}
    Requests = {r1}
    Documents = {d1}
    NoDocument = NoDocument
    NoTarget = NoTarget
    NoRequest = NoRequest
    MaxQueued = 1
    MaxHandlers = 1
CHECK_DEADLOCK FALSE
INVARIANTS CancelExcludesRun
