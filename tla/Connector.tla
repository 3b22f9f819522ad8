------------------------------ MODULE Connector ------------------------------
(***************************************************************************)
(* One BIM Bridge connector inside a running Revit or AutoCAD process.     *)
(*                                                                         *)
(* Three kinds of threads share a request object and a queue:              *)
(*   - the HTTP handlers of ConnectorServer, one per POST /v1/execute or   *)
(*     GET /v1/selection, each step between two lock regions an action;    *)
(*   - the Autodesk UI thread, which drains the queue in Execute (Revit,   *)
(*     woken by an ExternalEvent) or ProcessPending (AutoCAD, every idle   *)
(*     tick) and at the end disposes the server;                           *)
(*   - later handlers of POST /v1/requests/<id>/cancel.                    *)
(* A handler is named by the request it created.                           *)
(*                                                                         *)
(* An operator Action_Fault is a faulty variant of Action; no action uses  *)
(* one.  They exist to show that the properties notice such a fault.       *)
(***************************************************************************)
EXTENDS Integers, Sequences, FiniteSets

CONSTANTS
    Requests,      \* the requests clients may send
    Documents,     \* the documents that can be open
    NoDocument,    \* no document is active
    NoTarget,      \* ExpectedTarget == null
    NoRequest,     \* the UI thread holds no request
    Host,          \* "revit" or "autocad"
    Kinds,         \* the kinds of request the clients send
    MaxQueued,     \* ConnectorOptions.MaxQueuedRequests
    MaxHandlers    \* HTTP handlers the thread pool runs at the same time

AllKinds == {"selection", "read", "write", "capture"}

ASSUME HostAssumption == Host \in {"revit", "autocad"}
\* view.capture is a Revit capability; AutoCAD answers it with 409.
ASSUME KindsAssumption ==
    Kinds \subseteq AllKinds \ (IF Host = "revit" THEN {} ELSE {"capture"})
ASSUME RequestsAssumption == IsFiniteSet(Requests) /\ NoRequest \notin Requests
ASSUME DocumentsAssumption == {NoDocument, NoTarget} \cap Documents = {}
ASSUME LimitAssumption == MaxQueued \in Nat \ {0} /\ MaxHandlers \in Nat \ {0}

VARIABLES
    status,      \* _status of each request object
    kind,        \* Kind, Mode and Operation of each request
    target,      \* document of ExpectedTarget
    expired,     \* requests whose DeadlineUtc has passed
    handler,     \* where the HTTP handler of each request is
    registered,  \* keys of ConnectorServer._requests
    queue,       \* the executor's ConcurrentQueue
    event,       \* the Revit ExternalEvent is pending
    open,        \* the server was not disposed
    uiPc,        \* where the UI thread is
    cur,         \* the request the UI thread holds
    uiResult,    \* the completion the UI thread is about to report
    active,      \* the application's active document
    cached,      \* _cachedInfo.Document
    moved,       \* history: code run in this drain activated another document
    runs,        \* history: how often the work of each request was performed
    committed,   \* history: requests whose write reached the document
    denied,      \* history: requests whose ExternalEvent.Raise was denied
    confirmed,   \* history: requests whose cancellation was answered with 200
    audit        \* lines of the host's audit log

requestVars == <<status, kind, target, expired>>
serverVars  == <<handler, registered, open, confirmed, denied>>
uiVars      == <<uiPc, cur, uiResult>>
docVars     == <<active, cached, moved>>
workVars    == <<runs, committed>>
vars == <<requestVars, serverVars, queue, event, uiVars, docVars, workVars, audit>>

Terminal == {"succeeded", "failed", "rejected", "expired", "cancelled"}
Statuses == {"queued", "waiting", "running"} \cup Terminal

Serving == {"count", "add", "submit", "enqueue", "raise", "respond", "wait", "giveUp"}
Replied == {"refused", "accepted", "answered", "timedOut", "error"}
UiSteps == {"idle", "take", "check", "deadline", "guard", "start", "run", "complete", "audit"}

Targets == Documents \cup {NoTarget}

TypeOK ==
    /\ status \in [Requests -> Statuses]
    /\ kind \in [Requests -> AllKinds \cup {"unsent"}]
    /\ target \in [Requests -> Targets]
    /\ expired \subseteq Requests
    /\ handler \in [Requests -> {"unsent"} \cup Serving \cup Replied]
    /\ registered \subseteq Requests
    /\ queue \in Seq(Requests)
    /\ event \in BOOLEAN
    /\ open \in BOOLEAN
    /\ uiPc \in UiSteps
    /\ cur \in Requests \cup {NoRequest}
    /\ (uiPc \in {"idle", "take"}) <=> (cur = NoRequest)
    /\ uiResult \in {"none", "succeeded", "failed"}
    /\ (uiPc = "complete") <=> (uiResult # "none")
    /\ active \in Documents \cup {NoDocument}
    /\ cached \in Documents \cup {NoDocument}
    /\ moved \in BOOLEAN
    /\ runs \in [Requests -> Nat]
    /\ committed \subseteq Requests
    /\ denied \subseteq Requests
    /\ confirmed \subseteq Requests
    /\ audit \in Seq([request : Requests, status : Statuses])

Init ==
    /\ status = [r \in Requests |-> "queued"]
    /\ kind = [r \in Requests |-> "unsent"]
    /\ target = [r \in Requests |-> NoTarget]
    /\ expired = {}
    /\ handler = [r \in Requests |-> "unsent"]
    /\ registered = {}
    /\ queue = << >>
    /\ event = FALSE
    /\ open = TRUE
    /\ uiPc = "idle"
    /\ cur = NoRequest
    /\ uiResult = "none"
    /\ active \in Documents \cup {NoDocument}
    /\ cached = NoDocument
    /\ moved = FALSE
    /\ runs = [r \in Requests |-> 0]
    /\ committed = {}
    /\ denied = {}
    /\ confirmed = {}
    /\ audit = << >>

-----------------------------------------------------------------------------
(* ConnectorRequest: each of these runs under the request's own lock.      *)

\* SetStatus says nothing when the request is already terminal.
SetStatus(r, s) == status' = [status EXCEPT ![r] = IF @ \in Terminal THEN @ ELSE s]

Complete_Overwrites(r, s) == status' = [status EXCEPT ![r] = s]

Complete(r, s) == status' = [status EXCEPT ![r] = IF @ \in Terminal THEN @ ELSE s]

Cancellable_WhileRunning(r) == status[r] \notin Terminal

\* The states in which TryCancel returns true.
Cancellable(r) == status[r] \notin Terminal \cup {"running"}

\* The clock passes the deadline of a request that was created.
DeadlinePasses(r) ==
    /\ kind[r] # "unsent"
    /\ r \notin expired
    /\ expired' = expired \cup {r}
    /\ UNCHANGED <<status, kind, target, serverVars, queue, event, uiVars, docVars, workVars, audit>>

-----------------------------------------------------------------------------
(* HTTP handlers                                                           *)

HandlerGoes(r, from, to) ==
    /\ handler[r] = from
    /\ handler' = [handler EXCEPT ![r] = to]

\* A valid request arrives and its ConnectorRequest is built; an invalid one
\* is answered without a change of state.  A selection names no target.
Receive(r, k, t) ==
    /\ open
    /\ Cardinality({q \in Requests : handler[q] \in Serving}) < MaxHandlers
    /\ k = "selection" => t = NoTarget
    /\ HandlerGoes(r, "unsent", "count")
    /\ kind' = [kind EXCEPT ![r] = k]
    /\ target' = [target EXCEPT ![r] = t]
    /\ UNCHANGED <<status, expired, registered, open, confirmed, denied, queue, event, uiVars,
                   docVars, workVars, audit>>

ActiveRequests == {q \in registered : status[q] \notin Terminal}

\* TryQueue first counts the requests that are not terminal ...
TryQueueCount(r) ==
    /\ IF Cardinality(ActiveRequests) >= MaxQueued
       THEN HandlerGoes(r, "count", "refused")
       ELSE HandlerGoes(r, "count", "add")
    /\ UNCHANGED <<requestVars, registered, open, confirmed, denied, queue, event, uiVars, docVars,
                   workVars, audit>>

\* ... and then adds, with no lock over the two.
TryQueueAdd(r) ==
    /\ HandlerGoes(r, "add", "submit")
    /\ registered' = registered \cup {r}
    /\ UNCHANGED <<requestVars, open, confirmed, denied, queue, event, uiVars, docVars, workVars, audit>>

SubmitWaiting(r) ==
    /\ HandlerGoes(r, "submit", "enqueue")
    /\ SetStatus(r, "waiting")
    /\ UNCHANGED <<kind, target, expired, registered, open, confirmed, denied, queue, event, uiVars,
                   docVars, workVars, audit>>

SubmitEnqueue(r) ==
    /\ HandlerGoes(r, "enqueue", IF Host = "revit" THEN "raise" ELSE "respond")
    /\ queue' = Append(queue, r)
    /\ UNCHANGED <<requestVars, registered, open, confirmed, denied, event, uiVars, docVars, workVars,
                   audit>>

SubmitRaised_OnlyForFirst(r) ==
    /\ open
    /\ HandlerGoes(r, "raise", "respond")
    /\ event' = (event \/ Len(queue) = 1)
    /\ UNCHANGED <<requestVars, registered, open, confirmed, denied, queue, uiVars, docVars,
                   workVars, audit>>

\* ExternalEvent.Raise returned Accepted or Pending.
SubmitRaised(r) ==
    /\ open
    /\ HandlerGoes(r, "raise", "respond")
    /\ event' = TRUE
    /\ UNCHANGED <<requestVars, registered, open, confirmed, denied, queue, uiVars, docVars, workVars,
                   audit>>

SubmitDenied_NotReported(r) ==
    /\ open
    /\ HandlerGoes(r, "raise", "respond")
    /\ denied' = denied \cup {r}
    /\ UNCHANGED <<requestVars, registered, open, confirmed, queue, event, uiVars, docVars,
                   workVars, audit>>

\* Raise returned Denied or TimedOut: the request stays in the queue.
SubmitDenied(r) ==
    /\ open
    /\ HandlerGoes(r, "raise", "respond")
    /\ Complete(r, "failed")
    /\ denied' = denied \cup {r}
    /\ UNCHANGED <<kind, target, expired, registered, open, confirmed, queue, event, uiVars,
                   docVars, workVars, audit>>

\* The ExternalEvent was disposed with the server: Raise throws, 500 is sent.
SubmitThrows(r) ==
    /\ ~open
    /\ HandlerGoes(r, "raise", "error")
    /\ UNCHANGED <<requestVars, registered, open, confirmed, denied, queue, event, uiVars, docVars,
                   workVars, audit>>

\* HandleExecute answers 202 with the request id; HandleSelection waits.
Respond(r) ==
    /\ HandlerGoes(r, "respond", IF kind[r] = "selection" THEN "wait" ELSE "accepted")
    /\ UNCHANGED <<requestVars, registered, open, confirmed, denied, queue, event, uiVars, docVars,
                   workVars, audit>>

WaitCompleted(r) ==
    /\ status[r] \in Terminal
    /\ HandlerGoes(r, "wait", "answered")
    /\ UNCHANGED <<requestVars, registered, open, confirmed, denied, queue, event, uiVars, docVars,
                   workVars, audit>>

WaitTimesOut_NotWhileRunning(r) ==
    /\ r \in expired
    /\ status[r] \notin Terminal \cup {"running"}
    /\ HandlerGoes(r, "wait", "giveUp")
    /\ UNCHANGED <<requestVars, registered, open, confirmed, denied, queue, event, uiVars,
                   docVars, workVars, audit>>

\* The wait is one second longer than the request's own deadline.
WaitTimesOut(r) ==
    /\ r \in expired
    /\ status[r] \notin Terminal
    /\ HandlerGoes(r, "wait", "giveUp")
    /\ UNCHANGED <<requestVars, registered, open, confirmed, denied, queue, event, uiVars, docVars,
                   workVars, audit>>

\* TryCancel may come too late; 504 is answered in either case.
GiveUp(r) ==
    /\ HandlerGoes(r, "giveUp", "timedOut")
    /\ status' = [status EXCEPT ![r] = IF Cancellable(r) THEN "cancelled" ELSE @]
    /\ UNCHANGED <<kind, target, expired, registered, open, confirmed, denied, queue, event, uiVars,
                   docVars, workVars, audit>>

\* POST /v1/requests/<id>/cancel by a client that got the id with its 202.
\* A refused cancellation (409) changes nothing.
Cancel(r) ==
    /\ handler[r] = "accepted"
    /\ r \in registered
    /\ Cancellable(r)
    /\ status' = [status EXCEPT ![r] = "cancelled"]
    /\ confirmed' = confirmed \cup {r}
    /\ UNCHANGED <<kind, target, expired, handler, registered, open, denied, queue, event,
                   uiVars, docVars, workVars, audit>>

-----------------------------------------------------------------------------
(* UI thread                                                               *)

UiGoes(from, to) == uiPc = from /\ uiPc' = to

UiBegin_StaleInfo ==
    /\ open
    /\ UiGoes("idle", "take")
    /\ Host = "revit" => event
    /\ event' = FALSE
    /\ moved' = FALSE
    /\ UNCHANGED <<requestVars, serverVars, queue, cur, uiResult, active, cached, workVars,
                   audit>>

\* Revit calls Execute for a pending event and clears it first; AutoCAD calls
\* ProcessPending on every idle tick.  Both begin with RefreshCachedInfo.
UiBegin ==
    /\ open
    /\ UiGoes("idle", "take")
    /\ Host = "revit" => event
    /\ event' = FALSE
    /\ cached' = active
    /\ moved' = FALSE
    /\ UNCHANGED <<requestVars, serverVars, queue, cur, uiResult, active, workVars, audit>>

UiTake ==
    /\ UiGoes("take", "check")
    /\ queue # << >>
    /\ cur' = Head(queue)
    /\ queue' = Tail(queue)
    /\ UNCHANGED <<requestVars, serverVars, event, uiResult, docVars, workVars, audit>>

UiDrained ==
    /\ UiGoes("take", "idle")
    /\ queue = << >>
    /\ cached' = active
    /\ moved' = FALSE
    /\ UNCHANGED <<requestVars, serverVars, queue, event, cur, uiResult, active, workVars, audit>>

\* "if (request.IsTerminal) continue;"
UiCheck ==
    /\ uiPc = "check"
    /\ IF status[cur] \in Terminal
       THEN uiPc' = "take" /\ cur' = NoRequest
       ELSE uiPc' = "deadline" /\ UNCHANGED cur
    /\ UNCHANGED <<requestVars, serverVars, queue, event, uiResult, docVars, workVars, audit>>

UiExpire_NoContinue ==
    /\ UiGoes("deadline", "guard")
    /\ cur \in expired
    /\ Complete(cur, "expired")
    /\ UNCHANGED <<kind, target, expired, serverVars, queue, event, cur, uiResult, docVars,
                   workVars, audit>>

UiExpire ==
    /\ UiGoes("deadline", "audit")
    /\ cur \in expired
    /\ Complete(cur, "expired")
    /\ UNCHANGED <<kind, target, expired, serverVars, queue, event, cur, uiResult, docVars,
                   workVars, audit>>

UiInTime ==
    /\ UiGoes("deadline", "guard")
    /\ cur \notin expired
    /\ UNCHANGED <<requestVars, serverVars, queue, event, cur, uiResult, docVars, workVars, audit>>

\* ConnectorTargetGuard.Validate.  The fields that name the process never
\* change in a process: a mismatch there is a document that is never active.
TargetValid(t) == t = NoTarget \/ (cached # NoDocument /\ t = cached)

UiReject ==
    /\ UiGoes("guard", "audit")
    /\ ~TargetValid(target[cur])
    /\ Complete(cur, "rejected")
    /\ UNCHANGED <<kind, target, expired, serverVars, queue, event, cur, uiResult, docVars,
                   workVars, audit>>

UiOnTarget ==
    /\ UiGoes("guard", "start")
    /\ TargetValid(target[cur])
    /\ UNCHANGED <<requestVars, serverVars, queue, event, cur, uiResult, docVars, workVars, audit>>

UiStart ==
    /\ UiGoes("start", "run")
    /\ SetStatus(cur, "running")
    /\ UNCHANGED <<kind, target, expired, serverVars, queue, event, cur, uiResult, docVars,
                   workVars, audit>>

\* Code may activate another document: code of a read request runs with no
\* open Revit transaction, and AutoCAD accepts a switch under a document lock.
Activatable(k) ==
    {active} \cup (IF k = "read" \/ (k = "write" /\ Host = "autocad") THEN Documents ELSE {})

UiRun_CommitsAlways(ok, d) ==
    /\ UiGoes("run", "complete")
    /\ ok => active # NoDocument
    /\ d \in IF active = NoDocument THEN {NoDocument} ELSE Activatable(kind[cur])
    /\ runs' = [runs EXCEPT ![cur] = @ + 1]
    /\ committed' = IF kind[cur] = "write" THEN committed \cup {cur} ELSE committed
    /\ uiResult' = IF ok THEN "succeeded" ELSE "failed"
    /\ active' = d
    /\ moved' = (moved \/ d # active)
    /\ UNCHANGED <<requestVars, serverVars, queue, event, cur, cached, audit>>

\* ExecuteSelection, ExecuteViewCapture or ExecuteCode.  Without an active
\* document the work fails at once; otherwise it returns or throws, and a write
\* is committed or rolled back before it reports.
UiRun(ok, d) ==
    /\ UiGoes("run", "complete")
    /\ ok => active # NoDocument
    /\ d \in IF active = NoDocument THEN {NoDocument} ELSE Activatable(kind[cur])
    /\ runs' = [runs EXCEPT ![cur] = @ + 1]
    /\ committed' = IF ok /\ kind[cur] = "write" THEN committed \cup {cur} ELSE committed
    /\ uiResult' = IF ok THEN "succeeded" ELSE "failed"
    /\ active' = d
    /\ moved' = (moved \/ d # active)
    /\ UNCHANGED <<requestVars, serverVars, queue, event, cur, cached, audit>>

UiComplete_Forgotten ==
    /\ UiGoes("complete", "audit")
    /\ uiResult' = "none"
    /\ UNCHANGED <<requestVars, serverVars, queue, event, cur, docVars, workVars, audit>>

UiComplete ==
    /\ UiGoes("complete", "audit")
    /\ Complete(cur, uiResult)
    /\ uiResult' = "none"
    /\ UNCHANGED <<kind, target, expired, serverVars, queue, event, cur, docVars, workVars, audit>>

\* AuditLog.TryWrite appends the snapshot or swallows the I/O error.
UiAudit ==
    /\ UiGoes("audit", "take")
    /\ cur' = NoRequest
    /\ \/ audit' = Append(audit, [request |-> cur, status |-> status[cur]])
       \/ UNCHANGED audit
    /\ UNCHANGED <<requestVars, serverVars, queue, event, uiResult, docVars, workVars>>

\* Revit's OnIdling handler (AutoCAD's is ProcessPending itself).
IdleRefresh ==
    /\ Host = "revit"
    /\ open
    /\ uiPc = "idle"
    /\ cached' = active
    /\ UNCHANGED <<requestVars, serverVars, queue, event, uiVars, active, moved, workVars, audit>>

\* The user opens, closes or activates a document while the UI thread is free.
UserSwitches(d) ==
    /\ open
    /\ uiPc = "idle"
    /\ d # active
    /\ active' = d
    /\ UNCHANGED <<requestVars, serverVars, queue, event, uiVars, cached, moved, workVars, audit>>

\* OnShutdown or Terminate: ConnectorServer.Dispose on the UI thread.  A handler
\* already past Receive keeps running, and a request added after the sweep
\* stays as it is.
Dispose ==
    /\ open
    /\ uiPc = "idle"
    /\ open' = FALSE
    /\ status' = [r \in Requests |->
                    IF r \in registered /\ Cancellable(r) THEN "cancelled" ELSE status[r]]
    /\ registered' = {}
    /\ UNCHANGED <<kind, target, expired, handler, confirmed, denied, queue, event, uiVars,
                   docVars, workVars, audit>>

-----------------------------------------------------------------------------

HandlerStep(r) ==
    \/ TryQueueCount(r) \/ TryQueueAdd(r)
    \/ SubmitWaiting(r) \/ SubmitEnqueue(r)
    \/ SubmitRaised(r) \/ SubmitDenied(r) \/ SubmitThrows(r)
    \/ Respond(r) \/ WaitCompleted(r) \/ WaitTimesOut(r) \/ GiveUp(r)

UiStep ==
    \/ UiBegin \/ UiTake \/ UiDrained \/ UiCheck
    \/ UiExpire \/ UiInTime \/ UiReject \/ UiOnTarget \/ UiStart
    \/ \E ok \in BOOLEAN, d \in Documents \cup {NoDocument} : UiRun(ok, d)
    \/ UiComplete \/ UiAudit

Environment ==
    \/ \E r \in Requests : DeadlinePasses(r) \/ Cancel(r)
    \/ \E r \in Requests, k \in Kinds, t \in Targets : Receive(r, k, t)
    \/ \E d \in Documents \cup {NoDocument} : UserSwitches(d)
    \/ IdleRefresh
    \/ Dispose

Next ==
    \/ \E r \in Requests : HandlerStep(r)
    \/ UiStep
    \/ Environment

Spec == Init /\ [][Next]_vars

\* The thread pool runs every handler, and time passes.
HandlerFairness ==
    \A r \in Requests : WF_vars(HandlerStep(r)) /\ WF_vars(DeadlinePasses(r))

\* The application keeps returning to its message loop and the code it is
\* given terminates.  A modal dialog may block the UI thread for ever, so only
\* properties that need it assume it.
UiFairness == WF_vars(UiStep)

FairSpec == Spec /\ HandlerFairness

-----------------------------------------------------------------------------
(* Properties                                                              *)

\* A terminal status is never replaced: a late completion, a late SetStatus or
\* a second cancellation of ConnectorRequest loses against the first one.
TerminalIsFinal ==
    [][\A r \in Requests : status[r] \in Terminal => status'[r] = status[r]]_vars

\* What a client reads agrees with what happened on the UI thread: "rejected"
\* and "expired" were never run, "succeeded" was, and a write that "succeeded"
\* is in the document.
OutcomeMatchesWork ==
    \A r \in Requests :
        /\ status[r] \in {"rejected", "expired"} => runs[r] = 0
        /\ status[r] = "succeeded" => runs[r] = 1
        /\ status[r] = "succeeded" /\ kind[r] = "write" => r \in committed

\* No lost wakeup: while the Revit UI thread sleeps, a queued request that still
\* waits for an answer has a pending event, unless its handler is about to raise
\* it (Submit enqueues before it raises).
Queued(r) == \E i \in 1 .. Len(queue) : queue[i] = r
WakeupPending ==
    Host = "revit" /\ open /\ uiPc = "idle" =>
        \A r \in Requests :
            Queued(r) /\ status[r] \notin Terminal => event \/ handler[r] = "raise"

\* TryQueue counts and adds without a lock, so handlers that counted together
\* may overshoot the limit, but by less than the handlers there are.
QueueOvershoot == Cardinality(ActiveRequests) <= MaxQueued + MaxHandlers - 1

\* A request runs in the document its target names, unless code that ran before
\* it in the same drain activated another one: the guard compares with
\* _cachedInfo, which a drain refreshes only at its start and its end.
RunsOnTarget ==
    [][\A r \in Requests :
          runs'[r] # runs[r] /\ target[r] # NoTarget /\ ~moved => active = target[r]]_vars

\* The audit log has at most one line for a request, and the status in it is the
\* one every later poll of the request returns.
AuditTruthful ==
    /\ \A i, j \in 1 .. Len(audit) : audit[i].request = audit[j].request => i = j
    /\ \A i \in 1 .. Len(audit) :
          /\ audit[i].status = status[audit[i].request]
          /\ audit[i].status \in Terminal

\* Seen from outside, a connector is a ledger of requests that run at most once
\* and get at most one outcome.
Outcome ==
    [r \in Requests |-> IF handler[r] = "refused" THEN "refused"
                        ELSE IF status[r] \in Terminal THEN status[r] ELSE "open"]
Ledger == INSTANCE RequestLedger WITH outcome <- Outcome
LedgerRefined == Ledger!LedgerSpec

\* A request that was accepted with 202 gets an outcome, unless the application
\* shuts down, as long as the UI thread keeps running.
AcceptedGetsOutcome ==
    UiFairness => \A r \in Requests : handler[r] = "accepted" ~> status[r] \in Terminal \/ ~open

\* GET /v1/selection is answered even when the UI thread never comes back: the
\* wait is bounded and the handler gives up.
SelectionAnswered ==
    \A r \in Requests : handler[r] = "wait" ~> handler[r] \in {"answered", "timedOut"}

\* protocol.md: "Cancellation is confirmed only before an Autodesk operation
\* enters the running state."  A request whose cancellation was confirmed with
\* 200 would then never run.  UiCheck, UiInTime, UiOnTarget and UiStart are not
\* atomic, and UiStart ignores that SetStatus had no effect.
CancelExcludesRun == \A r \in confirmed : runs[r] = 0

\* A write that is reported as failed left no change in the document.  The one
\* exception is Revit's Submit: it enqueues first, so a Raise that is denied can
\* report a failure for a request the UI thread took all the same.
FailureLeavesNoChange ==
    \A r \in Requests : status[r] = "failed" /\ r \in committed => r \in denied
=============================================================================
