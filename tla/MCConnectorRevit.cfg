\* Revit: a read and a write may be in flight, two documents, a queue of one.
SPECIFICATION Spec
CONSTANTS
    Host = "revit"
    Kinds = {"read", "write"}
    Requests = {r1, r2}
    Documents = {d1, d2}
    NoDocument = NoDocument
    NoTarget = NoTarget
    NoRequest = NoRequest
    MaxQueued = 1
    MaxHandlers = 2
SYMMETRY Symmetry
\* The application may shut down: after Dispose nothing is left to do.
CHECK_DEADLOCK FALSE
INVARIANTS IInv OutcomeMatchesWork WakeupPending AuditTruthful FailureLeavesNoChange
PROPERTIES TerminalIsFinal LedgerRefined RunsOnTarget
