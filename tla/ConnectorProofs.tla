--------------------------- MODULE ConnectorProofs ---------------------------
(***************************************************************************)
(* Proofs about Connector, for every set of requests and documents, both   *)
(* hosts and every queue limit.                                            *)
(***************************************************************************)
EXTENDS Connector, SequenceTheorems, FiniteSetTheorems, TLAPS

-----------------------------------------------------------------------------
(* The inductive invariant.  It follows one request through its life: not  *)
(* yet enqueued, pending (in the queue or held before its work starts),    *)
(* being performed, done.                                                  *)

NotEnqueued == {"unsent", "count", "add", "submit", "enqueue", "refused"}
Added == {"submit", "enqueue", "raise", "respond", "wait", "giveUp",
          "accepted", "answered", "timedOut", "error"}
BeforeWork == {"check", "deadline", "guard", "start", "run"}

Held(r) == cur = r /\ uiPc \in BeforeWork
Pending(r) == Queued(r) \/ Held(r)
Audited(r) == \E i \in 1 .. Len(audit) : audit[i].request = r

\* Statuses that only the UI thread gives, when it is done with a request.
Settled == {"rejected", "expired", "succeeded"}

\* The queue holds no request twice, and not the one the UI thread holds.
QueueInv ==
    /\ \A i, j \in 1 .. Len(queue) : queue[i] = queue[j] => i = j
    /\ \A r \in Requests : cur = r => ~Queued(r)

\* A request that was not enqueued yet is known to its own handler only.
FreshInv ==
    \A r \in Requests :
        handler[r] \in NotEnqueued =>
            /\ ~Queued(r)
            /\ cur # r
            /\ runs[r] = 0
            /\ status[r] \in {"queued", "waiting", "cancelled"}
            /\ ~Audited(r)
            /\ handler[r] \in {"unsent", "count", "add", "refused"} => status[r] = "queued"

\* Work that was not performed yet: no run, no outcome of the UI thread.
PendingInv ==
    \A r \in Requests :
        Pending(r) => runs[r] = 0 /\ status[r] \notin Settled /\ ~Audited(r)

\* What the UI thread knows about the request it holds.
HeldInv ==
    /\ uiPc = "run" => status[cur] \in Terminal \cup {"running"}
    /\ uiPc = "complete" =>
          /\ runs[cur] = 1
          /\ status[cur] \notin Settled
          /\ ~Audited(cur)
          /\ uiResult = "succeeded" /\ kind[cur] = "write" => cur \in committed
          /\ uiResult = "failed" => cur \notin committed
    /\ uiPc = "audit" => status[cur] \in Terminal /\ ~Audited(cur)

\* How the status, the work and its effect on the document go together.
WorkInv ==
    \A r \in Requests :
        /\ runs[r] \in 0 .. 1
        /\ runs[r] = 1 => status[r] \in Terminal \cup {"running"}
        /\ r \in committed => runs[r] = 1
        /\ status[r] = "failed" => r \in denied \/ (runs[r] = 1 /\ r \notin committed)

\* _requests holds requests whose handler passed TryAdd.
RegisteredInv == \A r \in registered : handler[r] \in Added

\* The descriptor the guard reads is the truth until code run in the same drain
\* moves to another document, and the guard's answer stays true until the run.
TargetInv ==
    /\ uiPc # "idle" /\ ~moved => cached = active
    /\ uiPc \in {"start", "run"} /\ target[cur] # NoTarget => target[cur] = cached

IInv ==
    /\ TypeOK
    /\ QueueInv
    /\ FreshInv
    /\ PendingInv
    /\ HeldInv
    /\ WorkInv
    /\ RegisteredInv
    /\ TargetInv
    /\ OutcomeMatchesWork
    /\ WakeupPending
    /\ AuditTruthful

-----------------------------------------------------------------------------
(* Type correctness                                                        *)

LEMMA TypeInit == Init => TypeOK
<1> SUFFICES ASSUME Init PROVE TypeOK
  OBVIOUS
<1>1. queue \in Seq(Requests) /\ audit \in Seq([request : Requests, status : Statuses])
  BY DEF Init
<1>2. runs \in [Requests -> Nat]
  BY DEF Init
<1> QED
  BY <1>1, <1>2, RequestsAssumption
  DEF Init, TypeOK, Statuses, AllKinds, Targets, Serving, Replied, UiSteps

LEMMA TypeHandler ==
    ASSUME TypeOK, NEW r \in Requests, HandlerStep(r)
    PROVE  TypeOK'
<1> USE DEF TypeOK, Statuses, Terminal, Serving, Replied, HandlerGoes, SetStatus, Complete,
            requestVars, uiVars, docVars, workVars
<1>1. CASE TryQueueCount(r) BY <1>1 DEF TryQueueCount
<1>2. CASE TryQueueAdd(r) BY <1>2 DEF TryQueueAdd
<1>3. CASE SubmitWaiting(r) BY <1>3 DEF SubmitWaiting
<1>4. CASE SubmitEnqueue(r) BY <1>4 DEF SubmitEnqueue
<1>5. CASE SubmitRaised(r) BY <1>5 DEF SubmitRaised
<1>6. CASE SubmitDenied(r) BY <1>6 DEF SubmitDenied
<1>7. CASE SubmitThrows(r) BY <1>7 DEF SubmitThrows
<1>8. CASE Respond(r) BY <1>8 DEF Respond
<1>9. CASE WaitCompleted(r) BY <1>9 DEF WaitCompleted
<1>10. CASE WaitTimesOut(r) BY <1>10 DEF WaitTimesOut
<1>11. CASE GiveUp(r) BY <1>11 DEF GiveUp
<1> QED BY <1>1, <1>2, <1>3, <1>4, <1>5, <1>6, <1>7, <1>8, <1>9, <1>10, <1>11 DEF HandlerStep

LEMMA TypeUi == ASSUME TypeOK, UiStep PROVE TypeOK'
<1> USE RequestsAssumption DEF TypeOK, Statuses, Terminal, UiSteps, UiGoes, SetStatus, Complete,
            requestVars, serverVars, docVars, workVars
<1>1. CASE UiBegin BY <1>1 DEF UiBegin
<1>2. CASE UiTake BY <1>2 DEF UiTake
<1>3. CASE UiDrained BY <1>3 DEF UiDrained
<1>4. CASE UiCheck BY <1>4 DEF UiCheck
<1>5. CASE UiExpire BY <1>5 DEF UiExpire
<1>6. CASE UiInTime BY <1>6 DEF UiInTime
<1>7. CASE UiReject BY <1>7 DEF UiReject
<1>8. CASE UiOnTarget BY <1>8 DEF UiOnTarget
<1>9. CASE UiStart BY <1>9 DEF UiStart
<1>10. ASSUME NEW ok \in BOOLEAN, NEW d \in Documents \cup {NoDocument}, UiRun(ok, d)
       PROVE  TypeOK'
  BY <1>10 DEF UiRun
<1>11. CASE UiComplete BY <1>11 DEF UiComplete
<1>12. CASE UiAudit
  <2>1. cur \in Requests /\ status[cur] \in Statuses
    BY <1>12 DEF UiAudit
  <2> DEFINE Lines == [request : Requests, status : Statuses]
             line == [request |-> cur, status |-> status[cur]]
  <2>2. line \in Lines
    BY <2>1
  <2>3. audit' = Append(audit, line) \/ audit' = audit
    BY <1>12 DEF UiAudit
  <2>4. audit' \in Seq(Lines)
    <3> HIDE DEF Lines, line
    <3>1. audit \in Seq(Lines)
      BY DEF Lines
    <3>2. Append(audit, line) \in Seq(Lines)
      BY <2>2, <3>1, AppendProperties
    <3> QED BY <2>3, <3>1, <3>2
  <2> QED BY <1>12, <2>4 DEF UiAudit
<1> QED
  BY <1>1, <1>2, <1>3, <1>4, <1>5, <1>6, <1>7, <1>8, <1>9, <1>10, <1>11, <1>12 DEF UiStep

LEMMA TypeEnvironment == ASSUME TypeOK, Environment PROVE TypeOK'
<1> USE KindsAssumption DEF TypeOK, Statuses, Terminal, AllKinds, Targets, Serving, Replied,
            HandlerGoes, requestVars, serverVars, uiVars, docVars, workVars
<1>1. ASSUME NEW r \in Requests, DeadlinePasses(r) PROVE TypeOK'
  BY <1>1 DEF DeadlinePasses
<1>2. ASSUME NEW r \in Requests, Cancel(r) PROVE TypeOK'
  BY <1>2 DEF Cancel
<1>3. ASSUME NEW r \in Requests, NEW k \in Kinds, NEW t \in Targets, Receive(r, k, t)
      PROVE  TypeOK'
  BY <1>3 DEF Receive
<1>4. ASSUME NEW d \in Documents \cup {NoDocument}, UserSwitches(d) PROVE TypeOK'
  BY <1>4 DEF UserSwitches
<1>5. CASE IdleRefresh BY <1>5 DEF IdleRefresh
<1>6. CASE Dispose BY <1>6 DEF Dispose
<1> QED BY <1>1, <1>2, <1>3, <1>4, <1>5, <1>6 DEF Environment

LEMMA TypeNext == TypeOK /\ [Next]_vars => TypeOK'
<1>1. TypeOK /\ UNCHANGED vars => TypeOK'
  BY DEF TypeOK, vars, requestVars, serverVars, uiVars, docVars, workVars
<1> QED BY <1>1, TypeHandler, TypeUi, TypeEnvironment DEF Next

\* Every variable keeps its type, whatever the requests, the documents and the
\* limits are.
THEOREM TypeCorrect == Spec => []TypeOK
BY TypeInit, TypeNext, PTL DEF Spec








-----------------------------------------------------------------------------
(* The inductive invariant is preserved: one lemma per action, and in it   *)
(* first the parts the action leaves alone or that keep themselves, then   *)
(* the parts that need others.                                             *)

\* The line UiAudit appends is the last one, and the others stay.
LEMMA AuditLine ==
    ASSUME TypeOK, UiAudit, audit' # audit
    PROVE  /\ Len(audit') = Len(audit) + 1
           /\ \A i \in 1 .. Len(audit) : audit'[i] = audit[i]
           /\ audit'[Len(audit) + 1].request = cur
           /\ audit'[Len(audit) + 1].status = status[cur]
<1>1. audit' = Append(audit, [request |-> cur, status |-> status[cur]])
  BY DEF UiAudit
<1>2. audit \in Seq([request : Requests, status : Statuses])
  BY DEF TypeOK
<1> QED BY <1>1, <1>2

LEMMA AuditedGrows ==
    ASSUME TypeOK, UiAudit
    PROVE  \A r \in Requests : Audited(r)' => Audited(r) \/ r = cur
<1>1. CASE audit' = audit
  BY <1>1 DEF Audited
<1>2. CASE audit' # audit
  <2>1. Len(audit) \in Nat
    BY DEF TypeOK
  <2>2. \A i \in 1 .. Len(audit') : i \in 1 .. Len(audit) \/ i = Len(audit) + 1
    BY <1>2, <2>1, AuditLine
  <2> QED BY <1>2, <2>2, AuditLine DEF Audited
<1> QED BY <1>1, <1>2

LEMMA AuditRequests ==
    ASSUME TypeOK
    PROVE  \A i \in 1 .. Len(audit) : audit[i].request \in Requests
<1>1. audit \in Seq([request : Requests, status : Statuses])
  BY DEF TypeOK
<1>2. \A i \in 1 .. Len(audit) : audit[i] \in [request : Requests, status : Statuses]
  BY <1>1, ElementOfSeq
<1> QED BY <1>2

\* A step of a handler that touches no status and not the queue.
LEMMA HandlerFrame ==
    ASSUME IInv,
           UNCHANGED <<status, kind, target, queue, uiVars, docVars, workVars, denied, audit>>
    PROVE  QueueInv' /\ PendingInv' /\ HeldInv' /\ WorkInv' /\ TargetInv' /\
           OutcomeMatchesWork' /\ AuditTruthful'
<1> USE DEF IInv, uiVars, docVars, workVars
<1>1. QueueInv' BY DEF QueueInv, Queued
<1>2. PendingInv' BY DEF PendingInv, Pending, Held, Queued, Audited
<1>3. HeldInv' BY DEF HeldInv, Audited
<1>4. WorkInv' /\ TargetInv' /\ OutcomeMatchesWork'
  BY DEF WorkInv, TargetInv, OutcomeMatchesWork
<1>5. AuditTruthful' BY DEF AuditTruthful
<1> QED BY <1>1, <1>2, <1>3, <1>4, <1>5

LEMMA InvTryQueueCount ==
    ASSUME IInv, TypeOK', NEW r \in Requests, TryQueueCount(r)
    PROVE  IInv'
<1> USE RequestsAssumption, HostAssumption DEF TryQueueCount, IInv, TypeOK, Terminal, Statuses,
             HandlerGoes, SetStatus, Complete, Cancellable,
             requestVars, serverVars, uiVars, docVars,
             workVars
<1>1. UNCHANGED <<status, kind, target, queue, uiVars, docVars, workVars, denied, audit>>
  OBVIOUS
<1>2. QueueInv' /\ PendingInv' /\ HeldInv' /\ WorkInv' /\ TargetInv' /\ OutcomeMatchesWork' /\
      AuditTruthful'
  BY <1>1, HandlerFrame
<1>3. FreshInv'
  BY DEF FreshInv, NotEnqueued, Queued, Audited
<1>4. RegisteredInv'
  BY DEF RegisteredInv, Added
<1>5. WakeupPending'
  BY DEF WakeupPending, Queued
<1> QED BY <1>2, <1>3, <1>4, <1>5 DEF IInv

LEMMA InvTryQueueAdd ==
    ASSUME IInv, TypeOK', NEW r \in Requests, TryQueueAdd(r)
    PROVE  IInv'
<1> USE RequestsAssumption, HostAssumption DEF TryQueueAdd, IInv, TypeOK, Terminal, Statuses,
             HandlerGoes, SetStatus, Complete, Cancellable,
             requestVars, serverVars, uiVars, docVars,
             workVars
<1>1. UNCHANGED <<status, kind, target, queue, uiVars, docVars, workVars, denied, audit>>
  OBVIOUS
<1>2. QueueInv' /\ PendingInv' /\ HeldInv' /\ WorkInv' /\ TargetInv' /\ OutcomeMatchesWork' /\
      AuditTruthful'
  BY <1>1, HandlerFrame
<1>3. FreshInv'
  BY DEF FreshInv, NotEnqueued, Queued, Audited
<1>4. RegisteredInv'
  BY DEF RegisteredInv, Added
<1>5. WakeupPending'
  BY DEF WakeupPending, Queued
<1> QED BY <1>2, <1>3, <1>4, <1>5 DEF IInv

LEMMA InvSubmitWaiting ==
    ASSUME IInv, TypeOK', NEW r \in Requests, SubmitWaiting(r)
    PROVE  IInv'
<1> USE RequestsAssumption, HostAssumption DEF SubmitWaiting, IInv, TypeOK, Terminal, Statuses,
             HandlerGoes, SetStatus, Complete, Cancellable,
             requestVars, serverVars, uiVars, docVars,
             workVars
<1>1. FreshInv' /\ PendingInv' /\ WakeupPending'
  BY DEF FreshInv, NotEnqueued, Queued, Audited, PendingInv, Pending, Held, BeforeWork,
         Settled, WakeupPending
<1>2. RegisteredInv' /\ TargetInv' /\ OutcomeMatchesWork' /\ AuditTruthful'
  BY DEF RegisteredInv, Added, TargetInv, TargetValid, OutcomeMatchesWork, Settled,
         AuditTruthful
<1>3. QueueInv'
  BY DEF QueueInv, Queued, FreshInv, NotEnqueued, Audited
<1>4. HeldInv'
  BY DEF HeldInv, Settled, Audited, FreshInv, NotEnqueued, Queued
<1>5. WorkInv'
  BY DEF WorkInv, FreshInv, NotEnqueued, Queued, Audited
<1> QED BY <1>1, <1>2, <1>3, <1>4, <1>5 DEF IInv

LEMMA InvSubmitEnqueue ==
    ASSUME IInv, TypeOK', NEW r \in Requests, SubmitEnqueue(r)
    PROVE  IInv'
<1> USE RequestsAssumption, HostAssumption DEF SubmitEnqueue, IInv, TypeOK, Terminal, Statuses,
             HandlerGoes, SetStatus, Complete, Cancellable,
             requestVars, serverVars, uiVars, docVars,
             workVars
<1>1. FreshInv' /\ HeldInv' /\ WorkInv' /\ RegisteredInv' /\ TargetInv' /\ OutcomeMatchesWork' /\
      WakeupPending' /\ AuditTruthful'
  BY DEF FreshInv, NotEnqueued, Queued, Audited, HeldInv, Settled, WorkInv, RegisteredInv,
         Added, TargetInv, TargetValid, OutcomeMatchesWork, WakeupPending, AuditTruthful
<1>2. QueueInv'
  BY DEF QueueInv, Queued, FreshInv, NotEnqueued, Audited
<1>3. PendingInv'
  <2>1. \A q \in Requests : Queued(q)' => Queued(q) \/ q = r
    BY DEF Queued
  <2>2. \A q \in Requests : (Held(q)' <=> Held(q)) /\ (Audited(q)' <=> Audited(q))
    BY DEF Held, Audited
  <2>3. runs' = runs /\ status' = status
    OBVIOUS
  <2> QED BY <2>1, <2>2, <2>3 DEF PendingInv, Pending, FreshInv, NotEnqueued, Settled
<1> QED BY <1>1, <1>2, <1>3 DEF IInv

LEMMA InvSubmitRaised ==
    ASSUME IInv, TypeOK', NEW r \in Requests, SubmitRaised(r)
    PROVE  IInv'
<1> USE RequestsAssumption, HostAssumption DEF SubmitRaised, IInv, TypeOK, Terminal, Statuses,
             HandlerGoes, SetStatus, Complete, Cancellable,
             requestVars, serverVars, uiVars, docVars,
             workVars
<1>1. UNCHANGED <<status, kind, target, queue, uiVars, docVars, workVars, denied, audit>>
  OBVIOUS
<1>2. QueueInv' /\ PendingInv' /\ HeldInv' /\ WorkInv' /\ TargetInv' /\ OutcomeMatchesWork' /\
      AuditTruthful'
  BY <1>1, HandlerFrame
<1>3. FreshInv'
  BY DEF FreshInv, NotEnqueued, Queued, Audited
<1>4. RegisteredInv'
  BY DEF RegisteredInv, Added
<1>5. WakeupPending'
  BY DEF WakeupPending, Queued
<1> QED BY <1>2, <1>3, <1>4, <1>5 DEF IInv

LEMMA InvSubmitDenied ==
    ASSUME IInv, TypeOK', NEW r \in Requests, SubmitDenied(r)
    PROVE  IInv'
<1> USE RequestsAssumption, HostAssumption DEF SubmitDenied, IInv, TypeOK, Terminal, Statuses,
             HandlerGoes, SetStatus, Complete, Cancellable,
             requestVars, serverVars, uiVars, docVars,
             workVars
<1>1. FreshInv' /\ PendingInv' /\ HeldInv' /\ WorkInv' /\ RegisteredInv' /\ TargetInv' /\
      OutcomeMatchesWork' /\ WakeupPending' /\ AuditTruthful'
  BY DEF FreshInv, NotEnqueued, Queued, Audited, PendingInv, Pending, Held, BeforeWork,
         Settled, HeldInv, WorkInv, RegisteredInv, Added, TargetInv, TargetValid,
         OutcomeMatchesWork, WakeupPending, AuditTruthful
<1>2. QueueInv'
  BY DEF QueueInv, Queued, FreshInv, NotEnqueued, Audited
<1> QED BY <1>1, <1>2 DEF IInv

LEMMA InvSubmitThrows ==
    ASSUME IInv, TypeOK', NEW r \in Requests, SubmitThrows(r)
    PROVE  IInv'
<1> USE RequestsAssumption, HostAssumption DEF SubmitThrows, IInv, TypeOK, Terminal, Statuses,
             HandlerGoes, SetStatus, Complete, Cancellable,
             requestVars, serverVars, uiVars, docVars,
             workVars
<1>1. UNCHANGED <<status, kind, target, queue, uiVars, docVars, workVars, denied, audit>>
  OBVIOUS
<1>2. QueueInv' /\ PendingInv' /\ HeldInv' /\ WorkInv' /\ TargetInv' /\ OutcomeMatchesWork' /\
      AuditTruthful'
  BY <1>1, HandlerFrame
<1>3. FreshInv'
  BY DEF FreshInv, NotEnqueued, Queued, Audited
<1>4. RegisteredInv'
  BY DEF RegisteredInv, Added
<1>5. WakeupPending'
  BY DEF WakeupPending, Queued
<1> QED BY <1>2, <1>3, <1>4, <1>5 DEF IInv

LEMMA InvRespond ==
    ASSUME IInv, TypeOK', NEW r \in Requests, Respond(r)
    PROVE  IInv'
<1> USE RequestsAssumption, HostAssumption DEF Respond, IInv, TypeOK, Terminal, Statuses,
             HandlerGoes, SetStatus, Complete, Cancellable,
             requestVars, serverVars, uiVars, docVars,
             workVars
<1>1. UNCHANGED <<status, kind, target, queue, uiVars, docVars, workVars, denied, audit>>
  OBVIOUS
<1>2. QueueInv' /\ PendingInv' /\ HeldInv' /\ WorkInv' /\ TargetInv' /\ OutcomeMatchesWork' /\
      AuditTruthful'
  BY <1>1, HandlerFrame
<1>3. FreshInv'
  BY DEF FreshInv, NotEnqueued, Queued, Audited
<1>4. RegisteredInv'
  BY DEF RegisteredInv, Added
<1>5. WakeupPending'
  BY DEF WakeupPending, Queued
<1> QED BY <1>2, <1>3, <1>4, <1>5 DEF IInv

LEMMA InvWaitCompleted ==
    ASSUME IInv, TypeOK', NEW r \in Requests, WaitCompleted(r)
    PROVE  IInv'
<1> USE RequestsAssumption, HostAssumption DEF WaitCompleted, IInv, TypeOK, Terminal, Statuses,
             HandlerGoes, SetStatus, Complete, Cancellable,
             requestVars, serverVars, uiVars, docVars,
             workVars
<1>1. UNCHANGED <<status, kind, target, queue, uiVars, docVars, workVars, denied, audit>>
  OBVIOUS
<1>2. QueueInv' /\ PendingInv' /\ HeldInv' /\ WorkInv' /\ TargetInv' /\ OutcomeMatchesWork' /\
      AuditTruthful'
  BY <1>1, HandlerFrame
<1>3. FreshInv'
  BY DEF FreshInv, NotEnqueued, Queued, Audited
<1>4. RegisteredInv'
  BY DEF RegisteredInv, Added
<1>5. WakeupPending'
  BY DEF WakeupPending, Queued
<1> QED BY <1>2, <1>3, <1>4, <1>5 DEF IInv

LEMMA InvWaitTimesOut ==
    ASSUME IInv, TypeOK', NEW r \in Requests, WaitTimesOut(r)
    PROVE  IInv'
<1> USE RequestsAssumption, HostAssumption DEF WaitTimesOut, IInv, TypeOK, Terminal, Statuses,
             HandlerGoes, SetStatus, Complete, Cancellable,
             requestVars, serverVars, uiVars, docVars,
             workVars
<1>1. UNCHANGED <<status, kind, target, queue, uiVars, docVars, workVars, denied, audit>>
  OBVIOUS
<1>2. QueueInv' /\ PendingInv' /\ HeldInv' /\ WorkInv' /\ TargetInv' /\ OutcomeMatchesWork' /\
      AuditTruthful'
  BY <1>1, HandlerFrame
<1>3. FreshInv'
  BY DEF FreshInv, NotEnqueued, Queued, Audited
<1>4. RegisteredInv'
  BY DEF RegisteredInv, Added
<1>5. WakeupPending'
  BY DEF WakeupPending, Queued
<1> QED BY <1>2, <1>3, <1>4, <1>5 DEF IInv

LEMMA InvGiveUp ==
    ASSUME IInv, TypeOK', NEW r \in Requests, GiveUp(r)
    PROVE  IInv'
<1> USE RequestsAssumption, HostAssumption DEF GiveUp, IInv, TypeOK, Terminal, Statuses,
             HandlerGoes, SetStatus, Complete, Cancellable,
             requestVars, serverVars, uiVars, docVars,
             workVars
<1>1. FreshInv' /\ PendingInv' /\ HeldInv' /\ WorkInv' /\ RegisteredInv' /\ TargetInv' /\
      OutcomeMatchesWork' /\ WakeupPending' /\ AuditTruthful'
  BY DEF FreshInv, NotEnqueued, Queued, Audited, PendingInv, Pending, Held, BeforeWork,
         Settled, HeldInv, WorkInv, RegisteredInv, Added, TargetInv, TargetValid,
         OutcomeMatchesWork, WakeupPending, AuditTruthful
<1>2. QueueInv'
  BY DEF QueueInv, Queued, FreshInv, NotEnqueued, Audited
<1> QED BY <1>1, <1>2 DEF IInv

LEMMA InvUiBegin ==
    ASSUME IInv, TypeOK', UiBegin
    PROVE  IInv'
<1> USE RequestsAssumption, HostAssumption DEF UiBegin, IInv, TypeOK, Terminal, Statuses,
             UiGoes, SetStatus, Complete, Cancellable,
             requestVars, serverVars, uiVars, docVars,
             workVars
<1>1. QueueInv' /\ FreshInv' /\ PendingInv' /\ HeldInv' /\ WorkInv' /\ RegisteredInv' /\ TargetInv' /\
      OutcomeMatchesWork' /\ WakeupPending' /\ AuditTruthful'
  BY DEF QueueInv, Queued, FreshInv, NotEnqueued, Audited, PendingInv, Pending, Held,
         BeforeWork, Settled, HeldInv, WorkInv, RegisteredInv, Added, TargetInv, TargetValid,
         OutcomeMatchesWork, WakeupPending, AuditTruthful
<1> QED BY <1>1 DEF IInv

LEMMA InvUiTake ==
    ASSUME IInv, TypeOK', UiTake
    PROVE  IInv'
<1> USE RequestsAssumption, HostAssumption DEF UiTake, IInv, TypeOK, Terminal, Statuses,
             UiGoes, SetStatus, Complete, Cancellable,
             requestVars, serverVars, uiVars, docVars,
             workVars
<1>1. FreshInv' /\ PendingInv' /\ HeldInv' /\ WorkInv' /\ RegisteredInv' /\ TargetInv' /\
      OutcomeMatchesWork' /\ WakeupPending' /\ AuditTruthful'
  BY DEF FreshInv, NotEnqueued, Queued, Audited, PendingInv, Pending, Held, BeforeWork,
         Settled, HeldInv, WorkInv, RegisteredInv, Added, TargetInv, TargetValid,
         OutcomeMatchesWork, WakeupPending, AuditTruthful
<1>2. QueueInv'
  <2>1. Len(queue) \in Nat \ {0} /\ Len(queue') = Len(queue) - 1 /\ cur' = queue[1]
    OBVIOUS
  <2>2. \A i \in 1 .. Len(queue') : i + 1 \in 1 .. Len(queue) /\ queue'[i] = queue[i + 1]
    BY <2>1, HeadTailProperties
  <2>3. \A i, j \in 1 .. Len(queue) : queue[i] = queue[j] => i = j
    BY DEF QueueInv
  <2>4. 1 \in 1 .. Len(queue)
    BY <2>1
  <2> HIDE DEF UiTake, TypeOK, IInv
  <2>5. \A i, j \in 1 .. Len(queue') : queue'[i] = queue'[j] => i = j
    <3> TAKE i, j \in 1 .. Len(queue')
    <3>1. queue'[i] = queue'[j] => i + 1 = j + 1
      BY <2>2, <2>3
    <3> QED BY <3>1, <2>1
  <2>6. \A i \in 1 .. Len(queue') : queue'[i] # cur'
    <3> TAKE i \in 1 .. Len(queue')
    <3>1. queue'[i] = cur' => i + 1 = 1
      BY <2>1, <2>2, <2>3, <2>4
    <3> QED BY <3>1, <2>1
  <2> QED BY <2>5, <2>6 DEF QueueInv, Queued
<1> QED BY <1>1, <1>2 DEF IInv

LEMMA InvUiDrained ==
    ASSUME IInv, TypeOK', UiDrained
    PROVE  IInv'
<1> USE RequestsAssumption, HostAssumption DEF UiDrained, IInv, TypeOK, Terminal, Statuses,
             UiGoes, SetStatus, Complete, Cancellable,
             requestVars, serverVars, uiVars, docVars,
             workVars
<1>1. QueueInv' /\ FreshInv' /\ PendingInv' /\ HeldInv' /\ WorkInv' /\ RegisteredInv' /\ TargetInv' /\
      OutcomeMatchesWork' /\ WakeupPending' /\ AuditTruthful'
  BY DEF QueueInv, Queued, FreshInv, NotEnqueued, Audited, PendingInv, Pending, Held,
         BeforeWork, Settled, HeldInv, WorkInv, RegisteredInv, Added, TargetInv, TargetValid,
         OutcomeMatchesWork, WakeupPending, AuditTruthful
<1> QED BY <1>1 DEF IInv

LEMMA InvUiCheck ==
    ASSUME IInv, TypeOK', UiCheck
    PROVE  IInv'
<1> USE RequestsAssumption, HostAssumption DEF UiCheck, IInv, TypeOK, Terminal, Statuses,
             UiGoes, SetStatus, Complete, Cancellable,
             requestVars, serverVars, uiVars, docVars,
             workVars
<1>1. QueueInv' /\ FreshInv' /\ PendingInv' /\ HeldInv' /\ WorkInv' /\ RegisteredInv' /\ TargetInv' /\
      OutcomeMatchesWork' /\ WakeupPending' /\ AuditTruthful'
  BY DEF QueueInv, Queued, FreshInv, NotEnqueued, Audited, PendingInv, Pending, Held,
         BeforeWork, Settled, HeldInv, WorkInv, RegisteredInv, Added, TargetInv, TargetValid,
         OutcomeMatchesWork, WakeupPending, AuditTruthful
<1> QED BY <1>1 DEF IInv

LEMMA InvUiExpire ==
    ASSUME IInv, TypeOK', UiExpire
    PROVE  IInv'
<1> USE RequestsAssumption, HostAssumption DEF UiExpire, IInv, TypeOK, Terminal, Statuses,
             UiGoes, SetStatus, Complete, Cancellable,
             requestVars, serverVars, uiVars, docVars,
             workVars
<1>1. QueueInv' /\ FreshInv' /\ WorkInv' /\ RegisteredInv' /\ TargetInv' /\ WakeupPending' /\ AuditTruthful'
  BY DEF QueueInv, Queued, FreshInv, NotEnqueued, Audited, WorkInv, RegisteredInv, Added,
         TargetInv, TargetValid, WakeupPending, AuditTruthful
<1>2. PendingInv'
  BY DEF PendingInv, Pending, Held, Queued, Audited, BeforeWork, Settled, QueueInv
<1>3. HeldInv'
  BY DEF HeldInv, Settled, Audited, PendingInv, Pending, Held, Queued, BeforeWork
<1>4. OutcomeMatchesWork'
  BY DEF OutcomeMatchesWork, Settled, PendingInv, Pending, Held, Queued, Audited, BeforeWork
<1> QED BY <1>1, <1>2, <1>3, <1>4 DEF IInv

LEMMA InvUiInTime ==
    ASSUME IInv, TypeOK', UiInTime
    PROVE  IInv'
<1> USE RequestsAssumption, HostAssumption DEF UiInTime, IInv, TypeOK, Terminal, Statuses,
             UiGoes, SetStatus, Complete, Cancellable,
             requestVars, serverVars, uiVars, docVars,
             workVars
<1>1. QueueInv' /\ FreshInv' /\ PendingInv' /\ HeldInv' /\ WorkInv' /\ RegisteredInv' /\ TargetInv' /\
      OutcomeMatchesWork' /\ WakeupPending' /\ AuditTruthful'
  BY DEF QueueInv, Queued, FreshInv, NotEnqueued, Audited, PendingInv, Pending, Held,
         BeforeWork, Settled, HeldInv, WorkInv, RegisteredInv, Added, TargetInv, TargetValid,
         OutcomeMatchesWork, WakeupPending, AuditTruthful
<1> QED BY <1>1 DEF IInv

LEMMA InvUiReject ==
    ASSUME IInv, TypeOK', UiReject
    PROVE  IInv'
<1> USE RequestsAssumption, HostAssumption DEF UiReject, IInv, TypeOK, Terminal, Statuses,
             UiGoes, SetStatus, Complete, Cancellable,
             requestVars, serverVars, uiVars, docVars,
             workVars
<1>1. QueueInv' /\ FreshInv' /\ WorkInv' /\ RegisteredInv' /\ TargetInv' /\ WakeupPending' /\ AuditTruthful'
  BY DEF QueueInv, Queued, FreshInv, NotEnqueued, Audited, WorkInv, RegisteredInv, Added,
         TargetInv, TargetValid, WakeupPending, AuditTruthful
<1>2. PendingInv'
  BY DEF PendingInv, Pending, Held, Queued, Audited, BeforeWork, Settled, QueueInv
<1>3. HeldInv'
  BY DEF HeldInv, Settled, Audited, PendingInv, Pending, Held, Queued, BeforeWork
<1>4. OutcomeMatchesWork'
  BY DEF OutcomeMatchesWork, Settled, PendingInv, Pending, Held, Queued, Audited, BeforeWork
<1> QED BY <1>1, <1>2, <1>3, <1>4 DEF IInv

LEMMA InvUiOnTarget ==
    ASSUME IInv, TypeOK', UiOnTarget
    PROVE  IInv'
<1> USE RequestsAssumption, HostAssumption DEF UiOnTarget, IInv, TypeOK, Terminal, Statuses,
             UiGoes, SetStatus, Complete, Cancellable,
             requestVars, serverVars, uiVars, docVars,
             workVars
<1>1. QueueInv' /\ FreshInv' /\ PendingInv' /\ HeldInv' /\ WorkInv' /\ RegisteredInv' /\ TargetInv' /\
      OutcomeMatchesWork' /\ WakeupPending' /\ AuditTruthful'
  BY DEF QueueInv, Queued, FreshInv, NotEnqueued, Audited, PendingInv, Pending, Held,
         BeforeWork, Settled, HeldInv, WorkInv, RegisteredInv, Added, TargetInv, TargetValid,
         OutcomeMatchesWork, WakeupPending, AuditTruthful
<1> QED BY <1>1 DEF IInv

LEMMA InvUiStart ==
    ASSUME IInv, TypeOK', UiStart
    PROVE  IInv'
<1> USE RequestsAssumption, HostAssumption DEF UiStart, IInv, TypeOK, Terminal, Statuses,
             UiGoes, SetStatus, Complete, Cancellable,
             requestVars, serverVars, uiVars, docVars,
             workVars
<1>1. QueueInv' /\ FreshInv' /\ PendingInv' /\ HeldInv' /\ WorkInv' /\ RegisteredInv' /\ TargetInv' /\
      OutcomeMatchesWork' /\ WakeupPending' /\ AuditTruthful'
  BY DEF QueueInv, Queued, FreshInv, NotEnqueued, Audited, PendingInv, Pending, Held,
         BeforeWork, Settled, HeldInv, WorkInv, RegisteredInv, Added, TargetInv, TargetValid,
         OutcomeMatchesWork, WakeupPending, AuditTruthful
<1> QED BY <1>1 DEF IInv

LEMMA InvUiRun ==
    ASSUME IInv, TypeOK', NEW ok \in BOOLEAN, NEW d \in Documents \cup {NoDocument}, UiRun(ok, d)
    PROVE  IInv'
<1> USE RequestsAssumption, HostAssumption DEF UiRun, IInv, TypeOK, Terminal, Statuses, UiGoes,
             SetStatus, Complete, Cancellable, requestVars,
             serverVars, uiVars, docVars, workVars
<1>1. QueueInv' /\ FreshInv' /\ WakeupPending'
  BY DEF QueueInv, Queued, FreshInv, NotEnqueued, Audited, WakeupPending
<1>2. RegisteredInv' /\ TargetInv' /\ AuditTruthful'
  BY DEF RegisteredInv, Added, TargetInv, TargetValid, AuditTruthful
<1>3. PendingInv'
  BY DEF PendingInv, Pending, Held, Queued, Audited, BeforeWork, Settled, QueueInv
<1>4. HeldInv'
  BY DEF HeldInv, Settled, Audited, PendingInv, Pending, Held, Queued, BeforeWork, WorkInv
<1>5. WorkInv'
  BY DEF WorkInv, PendingInv, Pending, Held, Queued, Audited, BeforeWork, Settled, HeldInv
<1>6. OutcomeMatchesWork'
  BY DEF OutcomeMatchesWork, Settled, PendingInv, Pending, Held, Queued, Audited, BeforeWork
<1> QED BY <1>1, <1>2, <1>3, <1>4, <1>5, <1>6 DEF IInv

LEMMA InvUiComplete ==
    ASSUME IInv, TypeOK', UiComplete
    PROVE  IInv'
<1> USE RequestsAssumption, HostAssumption DEF UiComplete, IInv, TypeOK, Terminal, Statuses,
             UiGoes, SetStatus, Complete, Cancellable,
             requestVars, serverVars, uiVars, docVars,
             workVars
<1>1. QueueInv' /\ FreshInv' /\ HeldInv' /\ RegisteredInv' /\ TargetInv' /\ WakeupPending' /\ AuditTruthful'
  BY DEF QueueInv, Queued, FreshInv, NotEnqueued, Audited, HeldInv, Settled, RegisteredInv,
         Added, TargetInv, TargetValid, WakeupPending, AuditTruthful
<1>2. PendingInv'
  BY DEF PendingInv, Pending, Held, Queued, Audited, BeforeWork, Settled, QueueInv
<1>3. WorkInv'
  BY DEF WorkInv, HeldInv, Settled, Audited
<1>4. OutcomeMatchesWork'
  BY DEF OutcomeMatchesWork, Settled, HeldInv, Audited
<1> QED BY <1>1, <1>2, <1>3, <1>4 DEF IInv

LEMMA InvUiAudit ==
    ASSUME IInv, TypeOK', UiAudit
    PROVE  IInv'
<1> USE RequestsAssumption, HostAssumption DEF UiAudit, IInv, TypeOK, Terminal, Statuses,
             UiGoes, SetStatus, Complete, Cancellable,
             requestVars, serverVars, uiVars, docVars,
             workVars
<1>1. QueueInv' /\ HeldInv' /\ WorkInv' /\ RegisteredInv' /\ TargetInv' /\ OutcomeMatchesWork' /\
      WakeupPending'
  BY DEF QueueInv, Queued, HeldInv, Settled, Audited, WorkInv, RegisteredInv, Added, TargetInv,
         TargetValid, OutcomeMatchesWork, WakeupPending
<1>2. FreshInv'
  <2>1. \A r \in Requests : Audited(r)' => Audited(r) \/ r = cur
    BY AuditedGrows
  <2>2. \A r \in Requests : Queued(r)' <=> Queued(r)
    BY DEF Queued
  <2> QED BY <2>1, <2>2 DEF FreshInv, NotEnqueued
<1>3. PendingInv'
  <2>1. \A r \in Requests : Audited(r)' => Audited(r) \/ r = cur
    BY AuditedGrows
  <2>2. \A r \in Requests : (Queued(r)' <=> Queued(r)) /\ ~Held(r)'
    BY DEF Queued, Held, BeforeWork
  <2> QED BY <2>1, <2>2 DEF PendingInv, Pending, QueueInv, Settled
<1>4. AuditTruthful'
  <2>1. CASE UNCHANGED audit
    BY <2>1 DEF AuditTruthful
  <2>2. CASE audit' # audit
    <3>1. \A i \in 1 .. Len(audit) : audit[i].request # cur
      BY DEF HeldInv, Audited
    <3>2. status[cur] \in Terminal
      BY DEF HeldInv
    <3>3. /\ Len(audit') = Len(audit) + 1
          /\ \A i \in 1 .. Len(audit) : audit'[i] = audit[i]
          /\ audit'[Len(audit) + 1].request = cur
          /\ audit'[Len(audit) + 1].status = status[cur]
      BY <2>2, AuditLine
    <3>4. status' = status /\ Len(audit) \in Nat
      OBVIOUS
    <3> HIDE DEF UiAudit, TypeOK, IInv
    <3>5. AuditTruthful
      BY DEF IInv
    <3>6. \A i \in 1 .. Len(audit') : i \in 1 .. Len(audit) \/ i = Len(audit) + 1
      BY <3>3, <3>4
    <3>7. \A i, j \in 1 .. Len(audit') : audit'[i].request = audit'[j].request => i = j
      BY <3>1, <3>3, <3>5, <3>6 DEF AuditTruthful
    <3>8. \A i \in 1 .. Len(audit') :
             /\ audit'[i].status = status[audit'[i].request]
             /\ audit'[i].status \in Terminal
      BY <3>2, <3>3, <3>5, <3>6 DEF AuditTruthful
    <3> QED BY <3>4, <3>7, <3>8 DEF AuditTruthful
  <2> QED BY <2>1, <2>2
<1> QED BY <1>1, <1>2, <1>3, <1>4 DEF IInv

LEMMA InvDeadlinePasses ==
    ASSUME IInv, TypeOK', NEW r \in Requests, DeadlinePasses(r)
    PROVE  IInv'
<1> USE RequestsAssumption, HostAssumption DEF DeadlinePasses, IInv, TypeOK, Terminal,
             Statuses, UiGoes, SetStatus, Complete,
             Cancellable, requestVars, serverVars, uiVars,
             docVars, workVars
<1>1. UNCHANGED <<status, kind, target, queue, uiVars, docVars, workVars, denied, audit>>
  OBVIOUS
<1>2. QueueInv' /\ PendingInv' /\ HeldInv' /\ WorkInv' /\ TargetInv' /\ OutcomeMatchesWork' /\
      AuditTruthful'
  BY <1>1, HandlerFrame
<1>3. FreshInv'
  BY DEF FreshInv, NotEnqueued, Queued, Audited
<1>4. RegisteredInv'
  BY DEF RegisteredInv, Added
<1>5. WakeupPending'
  BY DEF WakeupPending, Queued
<1> QED BY <1>2, <1>3, <1>4, <1>5 DEF IInv

LEMMA InvCancel ==
    ASSUME IInv, TypeOK', NEW r \in Requests, Cancel(r)
    PROVE  IInv'
<1> USE RequestsAssumption, HostAssumption DEF Cancel, IInv, TypeOK, Terminal, Statuses,
             UiGoes, SetStatus, Complete, Cancellable,
             requestVars, serverVars, uiVars, docVars,
             workVars
<1>1. FreshInv' /\ PendingInv' /\ HeldInv' /\ WorkInv' /\ RegisteredInv' /\ TargetInv' /\
      OutcomeMatchesWork' /\ WakeupPending' /\ AuditTruthful'
  BY DEF FreshInv, NotEnqueued, Queued, Audited, PendingInv, Pending, Held, BeforeWork,
         Settled, HeldInv, WorkInv, RegisteredInv, Added, TargetInv, TargetValid,
         OutcomeMatchesWork, WakeupPending, AuditTruthful
<1>2. QueueInv'
  BY DEF QueueInv, Queued, FreshInv, NotEnqueued, Audited
<1> QED BY <1>1, <1>2 DEF IInv

LEMMA InvReceive ==
    ASSUME IInv, TypeOK', NEW r \in Requests, NEW k \in Kinds, NEW t \in Targets, Receive(r, k, t)
    PROVE  IInv'
<1> USE RequestsAssumption, HostAssumption DEF Receive, IInv, TypeOK, Terminal, Statuses,
             HandlerGoes, SetStatus, Complete, Cancellable,
             requestVars, serverVars, uiVars, docVars,
             workVars
<1>1. QueueInv'
  BY DEF QueueInv, Queued
<1>2. FreshInv'
  BY DEF FreshInv, NotEnqueued, Queued, Audited
<1>3. PendingInv'
  BY DEF PendingInv, Pending, Held, Queued, Audited, BeforeWork, Settled
<1>4. WorkInv'
  BY DEF WorkInv
<1>5. RegisteredInv'
  BY DEF RegisteredInv, Added
<1>6. WakeupPending'
  BY DEF WakeupPending, Queued
<1>7. AuditTruthful'
  BY DEF AuditTruthful
<1>8. HeldInv'
  BY DEF HeldInv, Settled, Audited, FreshInv, NotEnqueued, Queued
<1>9. TargetInv'
  BY DEF TargetInv, TargetValid, FreshInv, NotEnqueued, Queued, Audited
<1>10. OutcomeMatchesWork'
  BY DEF OutcomeMatchesWork, Settled, FreshInv, NotEnqueued, Queued, Audited
<1> QED BY <1>1, <1>2, <1>3, <1>4, <1>5, <1>6, <1>7, <1>8, <1>9, <1>10 DEF IInv

LEMMA InvUserSwitches ==
    ASSUME IInv, TypeOK', NEW d \in Documents \cup {NoDocument}, UserSwitches(d)
    PROVE  IInv'
<1> USE RequestsAssumption, HostAssumption DEF UserSwitches, IInv, TypeOK, Terminal, Statuses,
             UiGoes, SetStatus, Complete, Cancellable,
             requestVars, serverVars, uiVars, docVars,
             workVars
<1>1. QueueInv' /\ FreshInv' /\ PendingInv' /\ HeldInv' /\ WorkInv' /\ RegisteredInv' /\ TargetInv' /\
      OutcomeMatchesWork' /\ WakeupPending' /\ AuditTruthful'
  BY DEF QueueInv, Queued, FreshInv, NotEnqueued, Audited, PendingInv, Pending, Held,
         BeforeWork, Settled, HeldInv, WorkInv, RegisteredInv, Added, TargetInv, TargetValid,
         OutcomeMatchesWork, WakeupPending, AuditTruthful
<1> QED BY <1>1 DEF IInv

LEMMA InvIdleRefresh ==
    ASSUME IInv, TypeOK', IdleRefresh
    PROVE  IInv'
<1> USE RequestsAssumption, HostAssumption DEF IdleRefresh, IInv, TypeOK, Terminal, Statuses,
             UiGoes, SetStatus, Complete, Cancellable,
             requestVars, serverVars, uiVars, docVars,
             workVars
<1>1. QueueInv' /\ FreshInv' /\ PendingInv' /\ HeldInv' /\ WorkInv' /\ RegisteredInv' /\ TargetInv' /\
      OutcomeMatchesWork' /\ WakeupPending' /\ AuditTruthful'
  BY DEF QueueInv, Queued, FreshInv, NotEnqueued, Audited, PendingInv, Pending, Held,
         BeforeWork, Settled, HeldInv, WorkInv, RegisteredInv, Added, TargetInv, TargetValid,
         OutcomeMatchesWork, WakeupPending, AuditTruthful
<1> QED BY <1>1 DEF IInv

LEMMA InvDispose ==
    ASSUME IInv, TypeOK', Dispose
    PROVE  IInv'
<1> USE RequestsAssumption, HostAssumption DEF Dispose, IInv, TypeOK, Terminal, Statuses,
             UiGoes, SetStatus, Complete, Cancellable,
             requestVars, serverVars, uiVars, docVars,
             workVars
<1>1. QueueInv'
  BY DEF QueueInv, Queued
<1>2. PendingInv'
  BY DEF PendingInv, Pending, Held, Queued, Audited, BeforeWork, Settled
<1>3. HeldInv'
  BY DEF HeldInv, Settled, Audited
<1>4. WorkInv'
  BY DEF WorkInv
<1>5. RegisteredInv'
  BY DEF RegisteredInv, Added
<1>6. TargetInv'
  BY DEF TargetInv, TargetValid
<1>7. OutcomeMatchesWork'
  BY DEF OutcomeMatchesWork, Settled
<1>8. WakeupPending'
  BY DEF WakeupPending, Queued
<1>9. FreshInv'
  <2>1. \A r \in Requests :
           status'[r] = status[r] \/ (status'[r] = "cancelled" /\ r \in registered)
    OBVIOUS
  <2>2. \A r \in Requests : (Queued(r)' <=> Queued(r)) /\ (Audited(r)' <=> Audited(r))
    BY DEF Queued, Audited
  <2>3. \A r \in registered : handler[r] \notin {"unsent", "count", "add", "refused"}
    BY DEF RegisteredInv, Added
  <2>4. handler' = handler /\ cur' = cur /\ runs' = runs
    OBVIOUS
  <2>5. FreshInv
    OBVIOUS
  <2> HIDE DEF Dispose, TypeOK, IInv
  <2> QED BY <2>1, <2>2, <2>3, <2>4, <2>5 DEF FreshInv, NotEnqueued
<1>10. AuditTruthful'
  <2>1. \A r \in Requests : status[r] \in Terminal => status'[r] = status[r]
    OBVIOUS
  <2>2. \A i \in 1 .. Len(audit) : audit[i].request \in Requests
    BY AuditRequests
  <2> QED BY <2>1, <2>2 DEF AuditTruthful
<1> QED BY <1>1, <1>2, <1>3, <1>4, <1>5, <1>6, <1>7, <1>8, <1>9, <1>10 DEF IInv

LEMMA InvInit == Init => IInv
<1> SUFFICES ASSUME Init PROVE IInv
  OBVIOUS
<1>1. TypeOK
  BY TypeInit
<1>2. \A r \in Requests : ~Queued(r) /\ ~Audited(r) /\ ~Held(r)
  BY DEF Init, Queued, Audited, Held, BeforeWork
<1>3. QueueInv /\ AuditTruthful
  BY <1>2 DEF Init, QueueInv, AuditTruthful
<1>4. FreshInv /\ PendingInv /\ WakeupPending
  BY <1>2, RequestsAssumption DEF Init, FreshInv, PendingInv, Pending, WakeupPending, Settled
<1>5. HeldInv /\ WorkInv /\ RegisteredInv /\ TargetInv /\ OutcomeMatchesWork
  BY DEF Init, HeldInv, WorkInv, RegisteredInv, TargetInv, OutcomeMatchesWork
<1> QED BY <1>1, <1>3, <1>4, <1>5 DEF IInv

LEMMA InvNext == IInv /\ [Next]_vars => IInv'
<1> SUFFICES ASSUME IInv, [Next]_vars PROVE IInv'
  OBVIOUS
<1>1. TypeOK'
  BY TypeNext DEF IInv
<1>2. ASSUME NEW r \in Requests, HandlerStep(r) PROVE IInv'
  BY <1>1, <1>2, InvTryQueueCount, InvTryQueueAdd, InvSubmitWaiting, InvSubmitEnqueue,
     InvSubmitRaised, InvSubmitDenied, InvSubmitThrows, InvRespond, InvWaitCompleted,
     InvWaitTimesOut, InvGiveUp
  DEF HandlerStep
<1>3. CASE UiStep
  BY <1>1, <1>3, InvUiBegin, InvUiTake, InvUiDrained, InvUiCheck, InvUiExpire, InvUiInTime,
     InvUiReject, InvUiOnTarget, InvUiStart, InvUiRun, InvUiComplete, InvUiAudit
  DEF UiStep
<1>4. CASE Environment
  BY <1>1, <1>4, InvDeadlinePasses, InvCancel, InvReceive, InvUserSwitches, InvIdleRefresh,
     InvDispose
  DEF Environment
<1>5. CASE UNCHANGED vars
  <2> USE <1>5 DEF vars, requestVars, serverVars, uiVars, docVars, workVars
  <2>1. QueueInv' /\ FreshInv' /\ PendingInv'
    BY DEF IInv, QueueInv, FreshInv, PendingInv, Pending, Held, Queued, Audited
  <2>2. HeldInv' /\ WorkInv' /\ RegisteredInv' /\ TargetInv'
    BY DEF IInv, HeldInv, WorkInv, RegisteredInv, TargetInv, Audited
  <2>3. OutcomeMatchesWork' /\ WakeupPending' /\ AuditTruthful'
    BY DEF IInv, OutcomeMatchesWork, WakeupPending, AuditTruthful, Queued
  <2> QED BY <1>1, <2>1, <2>2, <2>3 DEF IInv
<1> QED BY <1>2, <1>3, <1>4, <1>5 DEF Next

\* The invariant that the safety properties below follow from.
THEOREM Invariance == Spec => []IInv
BY InvInit, InvNext, PTL DEF Spec

-----------------------------------------------------------------------------
(* Safety                                                                  *)

\* For every number of requests, "rejected" and "expired" mean not performed,
\* "succeeded" means performed once, and a successful write is in the document.
THEOREM OutcomeCorrect == Spec => []OutcomeMatchesWork
<1>1. IInv => OutcomeMatchesWork
  BY DEF IInv
<1> QED BY <1>1, Invariance, PTL

\* A Revit request that waits in the queue of a sleeping UI thread has a pending
\* ExternalEvent, or its handler is about to raise it.
THEOREM NoLostWakeup == Spec => []WakeupPending
<1>1. IInv => WakeupPending
  BY DEF IInv
<1> QED BY <1>1, Invariance, PTL

\* The audit log names a request at most once, with its final status.
THEOREM AuditCorrect == Spec => []AuditTruthful
<1>1. IInv => AuditTruthful
  BY DEF IInv
<1> QED BY <1>1, Invariance, PTL

\* Only a denied Raise lets a request be reported as failed whose write is in
\* the document.
THEOREM FailureCorrect == Spec => []FailureLeavesNoChange
<1>1. IInv => FailureLeavesNoChange
  BY DEF IInv, WorkInv, FailureLeavesNoChange
<1> QED BY <1>1, Invariance, PTL

LEMMA TerminalStep ==
    ASSUME IInv, [Next]_vars, NEW r \in Requests, status[r] \in Terminal
    PROVE  status'[r] = status[r]
<1> USE RequestsAssumption DEF IInv, TypeOK, SetStatus, Complete, Cancellable,
            requestVars, serverVars, uiVars, docVars, workVars
<1>1. ASSUME NEW q \in Requests, HandlerStep(q) PROVE status'[r] = status[r]
  <2>1. CASE SubmitWaiting(q) \/ SubmitDenied(q) \/ GiveUp(q)
    BY <2>1 DEF SubmitWaiting, SubmitDenied, GiveUp
  <2>2. CASE TryQueueCount(q) \/ TryQueueAdd(q) \/ SubmitEnqueue(q) \/ SubmitRaised(q)
             \/ SubmitThrows(q) \/ Respond(q) \/ WaitCompleted(q) \/ WaitTimesOut(q)
    BY <2>2 DEF TryQueueCount, TryQueueAdd, SubmitEnqueue, SubmitRaised, SubmitThrows, Respond,
                WaitCompleted, WaitTimesOut
  <2> QED BY <1>1, <2>1, <2>2 DEF HandlerStep
<1>2. CASE UiStep
  <2>1. CASE UiExpire \/ UiReject \/ UiStart \/ UiComplete
    BY <2>1 DEF UiExpire, UiReject, UiStart, UiComplete, UiGoes
  <2>2. CASE UiBegin \/ UiTake \/ UiDrained \/ UiCheck \/ UiInTime \/ UiOnTarget \/ UiAudit
    BY <2>2 DEF UiBegin, UiTake, UiDrained, UiCheck, UiInTime, UiOnTarget, UiAudit
  <2>3. ASSUME NEW ok \in BOOLEAN, NEW d \in Documents \cup {NoDocument}, UiRun(ok, d)
        PROVE  status'[r] = status[r]
    BY <2>3 DEF UiRun
  <2> QED BY <1>2, <2>1, <2>2, <2>3 DEF UiStep
<1>3. CASE Environment
  BY <1>3 DEF Environment, DeadlinePasses, Cancel, Receive, UserSwitches, IdleRefresh, Dispose
<1>4. CASE UNCHANGED vars
  BY <1>4 DEF vars
<1> QED BY <1>1, <1>2, <1>3, <1>4 DEF Next

\* No thread ever replaces a terminal status, so every poll that saw one sees the
\* same one from then on.
THEOREM TerminalCorrect == Spec => TerminalIsFinal
<1>1. IInv /\ [Next]_vars
        => [\A r \in Requests : status[r] \in Terminal => status'[r] = status[r]]_vars
  BY TerminalStep
<1> QED BY <1>1, Invariance, PTL DEF Spec, TerminalIsFinal

LEMMA OnlyUiRunRuns ==
    ASSUME IInv, [Next]_vars, NEW r \in Requests, runs'[r] # runs[r]
    PROVE  /\ r = cur
           /\ uiPc = "run"
<1> USE DEF IInv, TypeOK, requestVars, serverVars, uiVars, docVars, workVars
<1>1. ASSUME NEW q \in Requests, HandlerStep(q) PROVE FALSE
  BY <1>1 DEF HandlerStep, TryQueueCount, TryQueueAdd, SubmitWaiting, SubmitEnqueue,
              SubmitRaised, SubmitDenied, SubmitThrows, Respond, WaitCompleted,
              WaitTimesOut, GiveUp
<1>2. CASE UiStep
  <2>1. ASSUME NEW ok \in BOOLEAN, NEW d \in Documents \cup {NoDocument}, UiRun(ok, d)
        PROVE  r = cur /\ uiPc = "run"
    BY <2>1 DEF UiRun, UiGoes
  <2>2. CASE ~\E ok \in BOOLEAN, d \in Documents \cup {NoDocument} : UiRun(ok, d)
    BY <1>2, <2>2 DEF UiStep, UiBegin, UiTake, UiDrained, UiCheck, UiExpire, UiInTime,
                      UiReject, UiOnTarget, UiStart, UiComplete, UiAudit
  <2> QED BY <2>1, <2>2
<1>3. CASE Environment
  BY <1>3 DEF Environment, DeadlinePasses, Cancel, Receive, UserSwitches, IdleRefresh, Dispose
<1>4. CASE UNCHANGED vars
  BY <1>4 DEF vars
<1> QED BY <1>1, <1>2, <1>3, <1>4 DEF Next

\* A request with a target runs in exactly that document unless code run earlier
\* in the same drain moved to another one.
THEOREM TargetCorrect == Spec => RunsOnTarget
<1>1. ASSUME IInv, [Next]_vars, NEW r \in Requests,
             runs'[r] # runs[r], target[r] # NoTarget, ~moved
      PROVE  active = target[r]
  <2>1. r = cur /\ uiPc = "run"
    BY <1>1, OnlyUiRunRuns
  <2> QED BY <1>1, <2>1 DEF IInv, TargetInv
<1>2. IInv /\ [Next]_vars
        => [\A r \in Requests :
              runs'[r] # runs[r] /\ target[r] # NoTarget /\ ~moved => active = target[r]]_vars
  BY <1>1
<1> QED BY <1>2, Invariance, PTL DEF Spec, RunsOnTarget

\* The UI thread has found the request without an outcome and has not performed
\* it yet: what CancelExcludesRun overlooks, between UiCheck and UiRun.
Passed(r) == cur = r /\ uiPc \in {"deadline", "guard", "start", "run"}

\* A request that has its outcome is over, unless the UI thread is past its check.
Over(r, n) == status[r] \in Terminal /\ ~Passed(r) /\ runs[r] = n

LEMMA OverStep ==
    ASSUME IInv, [Next]_vars, NEW r \in Requests, NEW n \in Nat, Over(r, n)
    PROVE  Over(r, n)'
<1>1. status'[r] \in Terminal
  BY TerminalStep DEF Over
<1>2. runs'[r] = n
  <2>1. ~(r = cur /\ uiPc = "run")
    BY DEF Over, Passed
  <2> QED BY <2>1, OnlyUiRunRuns DEF Over
<1>3. ~Passed(r)'
  <2>1. ASSUME NEW q \in Requests, HandlerStep(q) PROVE UNCHANGED <<cur, uiPc>>
    BY <2>1 DEF HandlerStep, TryQueueCount, TryQueueAdd, SubmitWaiting, SubmitEnqueue,
                SubmitRaised, SubmitDenied, SubmitThrows, Respond, WaitCompleted,
                WaitTimesOut, GiveUp, uiVars
  <2>2. CASE UiStep
    <3>1. CASE UiCheck
      BY <3>1 DEF UiCheck, Over, Passed
    <3>2. ASSUME UiStep, ~UiCheck PROVE Passed(r)' => Passed(r)
      BY <3>2 DEF UiStep, UiBegin, UiTake, UiDrained, UiExpire, UiInTime, UiReject, UiOnTarget,
                  UiStart, UiRun, UiComplete, UiAudit, UiGoes, Passed
    <3> QED BY <2>2, <3>1, <3>2 DEF Over
  <2>3. Environment \/ UNCHANGED vars => UNCHANGED <<cur, uiPc>>
    BY DEF Environment, DeadlinePasses, Cancel, Receive, UserSwitches, IdleRefresh, Dispose,
           vars, uiVars
  <2> QED BY <2>1, <2>2, <2>3 DEF Next, Over, Passed
<1> QED BY <1>1, <1>2, <1>3 DEF Over

\* An outcome a request gets before the UI thread looks at it is kept: whether it
\* was cancelled, given up by its selection, refused by Raise or swept at the end,
\* the request is not performed afterwards, wherever it is in the queue.  The one
\* race that is left is with a UI thread that is between its check and its run.
THEOREM OutcomeExcludesRun ==
    Spec => \A r \in Requests : \A n \in Nat :
               [](status[r] \in Terminal /\ ~Passed(r) /\ runs[r] = n => [](runs[r] = n))
<1> SUFFICES ASSUME NEW r \in Requests, NEW n \in Nat
             PROVE  Spec => [](Over(r, n) => [](runs[r] = n))
  BY DEF Over
<1>1. IInv /\ Over(r, n) /\ [Next]_vars => Over(r, n)'
  BY OverStep
<1>2. Over(r, n) => runs[r] = n
  BY DEF Over
<1> QED BY <1>1, <1>2, Invariance, PTL DEF Spec

-----------------------------------------------------------------------------
(* How far a request is from its outcome: the UI thread takes requests in  *)
(* the order they were enqueued, and settles the one it holds.             *)

\* Steps of the UI thread until it takes the next request.
PcRank ==
    CASE uiPc = "check" -> 7 [] uiPc = "deadline" -> 6 [] uiPc = "guard" -> 5
      [] uiPc = "start" -> 4 [] uiPc = "run" -> 3 [] uiPc = "complete" -> 2
      [] uiPc = "audit" -> 1 [] uiPc = "idle" -> 1 [] OTHER -> 0

Place(r) == CHOOSE i \in 1 .. Len(queue) : queue[i] = r

\* Steps of the UI thread, at most, until it is done with a request it has.
Turn(r) == Queued(r) \/ cur = r
StepsAhead(r) == IF cur = r THEN PcRank ELSE PcRank + 8 * Place(r)

\* No request is in the queue twice.
PlaceInv == \A r \in Requests : \A i \in 1 .. Len(queue) : queue[i] = r => Place(r) = i

LEMMA PlaceIs == IInv => PlaceInv
BY DEF IInv, QueueInv, Place, PlaceInv

LEMMA PlaceIsNext == IInv' => PlaceInv'
BY PlaceIs, PTL

LEMMA AheadTyped ==
    ASSUME IInv, NEW r \in Requests, Turn(r)
    PROVE  PcRank \in Nat /\ StepsAhead(r) \in Nat /\ (cur # r => Place(r) \in Nat)
<1>1. PcRank \in Nat
  BY DEF PcRank
<1>2. cur # r => Place(r) \in Nat
  BY PlaceIs DEF Turn, Queued, PlaceInv
<1> QED BY <1>1, <1>2 DEF StepsAhead

\* A request that is appended is the last one, ...
LEMMA AppendAhead ==
    ASSUME IInv, IInv', NEW q \in Requests, SubmitEnqueue(q), NEW r \in Requests, Turn(r)
    PROVE  Turn(r)' /\ StepsAhead(r)' = StepsAhead(r)
<1>1. queue \in Seq(Requests) /\ QueueInv /\ QueueInv'
  BY DEF IInv, TypeOK
<1>2. queue' = Append(queue, q) /\ UNCHANGED <<cur, uiPc>>
  BY DEF SubmitEnqueue, uiVars
<1>3. PcRank' = PcRank
  BY <1>2 DEF PcRank
<1>4. CASE cur = r
  BY <1>2, <1>3, <1>4 DEF Turn, StepsAhead
<1>5. CASE cur # r
  <2>1. PICK i \in 1 .. Len(queue) : queue[i] = r
    BY <1>5 DEF Turn, Queued
  <2>2. i \in 1 .. Len(queue') /\ queue'[i] = r
    BY <1>1, <1>2, <2>1, AppendProperties
  <2>3. Place(r) = i
    BY <2>1, PlaceIs DEF PlaceInv
  <2>4. Place(r)' = i
    BY <2>2, PlaceIsNext DEF PlaceInv
  <2> QED BY <1>2, <1>3, <1>5, <2>2, <2>3, <2>4 DEF Turn, Queued, StepsAhead
<1> QED BY <1>4, <1>5

\* ... and the first one is taken, so that all others move up.
LEMMA TakeAhead ==
    ASSUME IInv, IInv', UiTake, NEW r \in Requests, Turn(r)
    PROVE  Turn(r)' /\ StepsAhead(r)' = StepsAhead(r) - 1
<1>1. queue \in Seq(Requests) /\ QueueInv /\ QueueInv' /\ queue # << >>
  BY DEF IInv, TypeOK, UiTake
<1>2. queue' = Tail(queue) /\ cur' = queue[1] /\ uiPc = "take" /\ uiPc' = "check" /\ cur = NoRequest
  BY <1>1, HeadTailProperties DEF UiTake, UiGoes, IInv, TypeOK
<1>3. PcRank = 0 /\ PcRank' = 7 /\ cur # r
  BY <1>2, RequestsAssumption DEF PcRank
<1>4. PICK i \in 1 .. Len(queue) : queue[i] = r
  BY <1>3 DEF Turn, Queued
<1>5. Place(r) = i
  BY <1>4, PlaceIs DEF PlaceInv
<1>6. CASE i = 1
  BY <1>2, <1>3, <1>4, <1>5, <1>6 DEF Turn, StepsAhead
<1>7. CASE i # 1
  <2>1. i - 1 \in 1 .. Len(queue') /\ queue'[i - 1] = r
    BY <1>1, <1>2, <1>4, <1>7, HeadTailProperties
  <2>2. Place(r)' = i - 1
    BY <2>1, PlaceIsNext DEF PlaceInv
  <2>3. cur' # r
    BY <1>1, <1>2, <1>4, <1>7 DEF QueueInv
  <2> QED BY <1>3, <1>5, <2>1, <2>2, <2>3 DEF Turn, Queued, StepsAhead
<1> QED BY <1>6, <1>7

\* What else the UI thread does brings it nearer to its next request, and it does
\* not leave one before it has an outcome.
LEMMA UiAhead ==
    ASSUME IInv, UiStep, ~UiTake, NEW r \in Requests, Turn(r)
    PROVE  \/ status'[r] \in Terminal /\ ~Turn(r)'
           \/ Turn(r)' /\ StepsAhead(r)' < StepsAhead(r)
<1>1. queue' = queue
  BY DEF UiStep, UiBegin, UiDrained, UiCheck, UiExpire, UiInTime, UiReject, UiOnTarget, UiStart,
         UiRun, UiComplete, UiAudit
<1>2. Place(r)' = Place(r) /\ (Queued(r)' <=> Queued(r))
  BY <1>1 DEF Place, Queued
<1>3. Queued(r) /\ cur # r => Place(r) \in Nat
  BY AheadTyped
<1>4. (cur = r => ~Queued(r)) /\ cur \in Requests \cup {NoRequest} /\ uiPc \in UiSteps
  BY DEF IInv, QueueInv, TypeOK
<1>5. ASSUME cur' = cur, PcRank' < PcRank
      PROVE  Turn(r)' /\ StepsAhead(r)' < StepsAhead(r)
  <2>1. PcRank \in Int /\ PcRank' \in Int
    BY DEF PcRank
  <2>2. Turn(r)'
    BY <1>2, <1>5 DEF Turn
  <2>3. CASE cur = r
    BY <1>5, <2>2, <2>3, Zenon DEF StepsAhead
  <2>4. CASE cur # r
    <3>1. StepsAhead(r) = PcRank + 8 * Place(r) /\ StepsAhead(r)' = PcRank' + 8 * Place(r)
      BY <1>2, <1>5, <2>4 DEF StepsAhead
    <3>2. Place(r) \in Nat
      BY <2>4, AheadTyped
    <3> HIDE DEF StepsAhead, PcRank
    <3> QED BY <1>5, <2>1, <2>2, <3>1, <3>2
  <2> QED BY <2>3, <2>4
<1>6. ASSUME cur' = NoRequest, uiPc' = "take", uiPc # "take", cur # NoRequest,
             status'[cur] \in Terminal
      PROVE  \/ status'[r] \in Terminal /\ ~Turn(r)'
             \/ Turn(r)' /\ StepsAhead(r)' < StepsAhead(r)
  <2>1. CASE cur = r
    BY <1>2, <1>4, <1>6, <2>1, RequestsAssumption DEF Turn
  <2>2. CASE cur # r
    <3>1. Queued(r) /\ cur' # r /\ PcRank' = 0 /\ PcRank \in 1 .. 7
      BY <1>4, <1>6, <2>2, RequestsAssumption DEF Turn, PcRank, UiSteps, IInv, TypeOK
    <3> QED BY <1>2, <1>3, <2>2, <3>1 DEF Turn, StepsAhead
  <2> QED BY <2>1, <2>2
<1>7. CASE UiBegin \/ UiExpire \/ UiInTime \/ UiReject \/ UiOnTarget \/ UiStart \/ UiComplete
  BY <1>5, <1>7 DEF UiBegin, UiExpire, UiInTime, UiReject, UiOnTarget, UiStart, UiComplete, UiGoes,
     PcRank
<1>8. ASSUME NEW ok \in BOOLEAN, NEW d \in Documents \cup {NoDocument}, UiRun(ok, d)
      PROVE  Turn(r)' /\ StepsAhead(r)' < StepsAhead(r)
  BY <1>5, <1>8 DEF UiRun, UiGoes, PcRank
<1>9. ~UiDrained
  <2>1. ASSUME UiDrained PROVE Len(queue) = 0 /\ cur = NoRequest
    BY <2>1, EmptySeq DEF UiDrained, UiGoes, IInv, TypeOK
  <2> QED BY <2>1, RequestsAssumption DEF Turn, Queued
<1>10. CASE UiCheck
  <2>1. CASE status[cur] \in Terminal
    <3>1. status' = status /\ cur # NoRequest
      BY <1>10 DEF UiCheck, requestVars, IInv, TypeOK
    <3> QED BY <1>6, <1>10, <2>1, <3>1 DEF UiCheck
  <2>2. CASE status[cur] \notin Terminal
    BY <1>5, <1>10, <2>2 DEF UiCheck, PcRank
  <2> QED BY <2>1, <2>2
<1>11. CASE UiAudit
  <2>1. status' = status /\ cur # NoRequest /\ status[cur] \in Terminal
    BY <1>11 DEF UiAudit, UiGoes, requestVars, IInv, TypeOK, HeldInv
  <2> QED BY <1>6, <1>11, <2>1 DEF UiAudit, UiGoes
<1> QED BY <1>7, <1>8, <1>9, <1>10, <1>11 DEF UiStep

\* A request the UI thread has got is settled after a number of its steps that
\* depends only on the requests before it in the queue: each step brings it nearer,
\* and no handler, cancellation or new request ever puts it back.  With
\* NoLostWakeup, AcceptedGetsOutcome needs only that the UI thread takes its steps.
DrainBounds ==
    [][\A r \in Requests : Turn(r) =>
          IF UiStep
          THEN \/ status'[r] \in Terminal /\ ~Turn(r)'
               \/ Turn(r)' /\ StepsAhead(r)' < StepsAhead(r)
          ELSE Turn(r)' /\ StepsAhead(r)' = StepsAhead(r)]_vars

\* DrainBounds holds, and what it counts down is a number: a request the UI thread
\* has got is settled in the end if that thread goes on.
THEOREM DrainCorrect ==
    Spec => DrainBounds /\ [](\A r \in Requests : Turn(r) => StepsAhead(r) \in Nat)
<1>1. ASSUME IInv, IInv', [Next]_vars, NEW r \in Requests, Turn(r)
      PROVE  IF UiStep
             THEN \/ status'[r] \in Terminal /\ ~Turn(r)'
                  \/ Turn(r)' /\ StepsAhead(r)' < StepsAhead(r)
             ELSE Turn(r)' /\ StepsAhead(r)' = StepsAhead(r)
  <2>1. ASSUME UNCHANGED <<queue, cur, uiPc>>
        PROVE  Turn(r)' /\ StepsAhead(r)' = StepsAhead(r)
    BY <1>1, <2>1 DEF Turn, Queued, StepsAhead, PcRank, Place
  <2>2. CASE UiStep
    <3>1. CASE UiTake
      <4>1. StepsAhead(r) \in Int
        BY <1>1, AheadTyped
      <4> QED BY <1>1, <2>2, <3>1, <4>1, TakeAhead
    <3>2. CASE ~UiTake
      BY <1>1, <2>2, <3>2, UiAhead
    <3> QED BY <3>1, <3>2
  <2>3. CASE ~UiStep
    <3>1. ASSUME NEW q \in Requests, HandlerStep(q)
          PROVE  Turn(r)' /\ StepsAhead(r)' = StepsAhead(r)
      <4>1. CASE SubmitEnqueue(q)
        BY <1>1, <4>1, AppendAhead
      <4>2. CASE ~SubmitEnqueue(q)
        BY <2>1, <3>1, <4>2 DEF HandlerStep, TryQueueCount, TryQueueAdd, SubmitWaiting,
           SubmitRaised, SubmitDenied, SubmitThrows, Respond, WaitCompleted, WaitTimesOut, GiveUp,
           uiVars
      <4> QED BY <4>1, <4>2
    <3>2. Environment \/ UNCHANGED vars => UNCHANGED <<queue, cur, uiPc>>
      BY DEF Environment, DeadlinePasses, Cancel, Receive, UserSwitches, IdleRefresh,
         Dispose, vars, uiVars
    <3> QED BY <1>1, <2>1, <2>3, <3>1, <3>2 DEF Next
  <2> QED BY <2>2, <2>3
<1>2. IInv /\ IInv' /\ [Next]_vars => [\A r \in Requests : Turn(r) =>
          IF UiStep
          THEN \/ status'[r] \in Terminal /\ ~Turn(r)'
               \/ Turn(r)' /\ StepsAhead(r)' < StepsAhead(r)
          ELSE Turn(r)' /\ StepsAhead(r)' = StepsAhead(r)]_vars
  BY <1>1
<1>3. IInv => \A r \in Requests : Turn(r) => StepsAhead(r) \in Nat
  BY AheadTyped
<1> QED BY <1>2, <1>3, Invariance, PTL DEF Spec, DrainBounds

-----------------------------------------------------------------------------
(* How far the queue may overshoot.  The requests that count against the   *)
(* limit, now or after the TryAdd their handler is about to do, only grow   *)
(* when a handler counts, and that handler saw fewer than MaxQueued.        *)

ServingNow == {r \in Requests : handler[r] \in Serving}
Adding == {r \in Requests : handler[r] = "add"}
Charged == ActiveRequests \cup Adding

OvershootInv ==
    /\ Cardinality(ServingNow) <= MaxHandlers
    /\ Cardinality(Charged) <= MaxQueued + MaxHandlers - 1

LEMMA FiniteRequests ==
    ASSUME NEW S \in SUBSET Requests, NEW T \in SUBSET S
    PROVE  /\ IsFiniteSet(S)
           /\ Cardinality(S) \in Nat
           /\ Cardinality(T) <= Cardinality(S)
<1>1. IsFiniteSet(S)
  BY RequestsAssumption, FS_Subset
<1> QED BY <1>1, FS_CardinalityType, FS_Subset

LEMMA UnionBound ==
    ASSUME NEW S \in SUBSET Requests, NEW T \in SUBSET Requests
    PROVE  Cardinality(S \cup T) <= Cardinality(S) + Cardinality(T)
<1>1. IsFiniteSet(S) /\ IsFiniteSet(T) /\ IsFiniteSet(S \cap T)
  BY RequestsAssumption, FS_Subset
<1>2. Cardinality(S) \in Nat /\ Cardinality(T) \in Nat /\ Cardinality(S \cap T) \in Nat
  BY <1>1, FS_CardinalityType
<1>3. Cardinality(S \cup T) = Cardinality(S) + Cardinality(T) - Cardinality(S \cap T)
  BY <1>1, FS_Union
<1> QED BY <1>2, <1>3

\* Only a request that arrives adds to the handlers that run.
LEMMA ServingStep ==
    ASSUME IInv, [Next]_vars,
           ~\E r \in Requests, k \in Kinds, t \in Targets : Receive(r, k, t)
    PROVE  ServingNow' \subseteq ServingNow
<1> USE DEF IInv, TypeOK, ServingNow, serverVars
<1>1. ASSUME NEW q \in Requests, HandlerStep(q) PROVE ServingNow' \subseteq ServingNow
  BY <1>1 DEF HandlerStep, TryQueueCount, TryQueueAdd, SubmitWaiting, SubmitEnqueue,
              SubmitRaised, SubmitDenied, SubmitThrows, Respond, WaitCompleted,
              WaitTimesOut, GiveUp, HandlerGoes, Serving
<1>2. CASE UiStep
  BY <1>2 DEF UiStep, UiBegin, UiTake, UiDrained, UiCheck, UiExpire, UiInTime, UiReject,
              UiOnTarget, UiStart, UiRun, UiComplete, UiAudit
<1>3. CASE Environment
  BY <1>3 DEF Environment, DeadlinePasses, Cancel, UserSwitches, IdleRefresh, Dispose
<1>4. CASE UNCHANGED vars
  BY <1>4 DEF vars
<1> QED BY <1>1, <1>2, <1>3, <1>4 DEF Next

\* Where handlers and _requests go in a step that is no count.
LEMMA RegisteredStep ==
    ASSUME IInv, [Next]_vars, ~\E q \in Requests : TryQueueCount(q), NEW r \in Requests
    PROVE  /\ handler'[r] = "add" => handler[r] = "add"
           /\ r \in registered' => r \in registered \/ handler[r] = "add"
<1> USE DEF IInv, TypeOK, serverVars
<1>1. ASSUME NEW q \in Requests, HandlerStep(q)
      PROVE  /\ handler'[r] = "add" => handler[r] = "add"
             /\ r \in registered' => r \in registered \/ handler[r] = "add"
  BY <1>1 DEF HandlerStep, TryQueueAdd, SubmitWaiting, SubmitEnqueue,
              SubmitRaised, SubmitDenied, SubmitThrows, Respond, WaitCompleted,
              WaitTimesOut, GiveUp, HandlerGoes
<1>2. CASE UiStep
  BY <1>2 DEF UiStep, UiBegin, UiTake, UiDrained, UiCheck, UiExpire, UiInTime, UiReject,
              UiOnTarget, UiStart, UiRun, UiComplete, UiAudit
<1>3. CASE Environment
  BY <1>3 DEF Environment, DeadlinePasses, Cancel, Receive, UserSwitches, IdleRefresh, Dispose,
              HandlerGoes
<1>4. CASE UNCHANGED vars
  BY <1>4 DEF vars
<1> QED BY <1>1, <1>2, <1>3, <1>4 DEF Next

LEMMA ChargedStep ==
    ASSUME IInv, IInv', [Next]_vars, ~\E q \in Requests : TryQueueCount(q)
    PROVE  Charged' \subseteq Charged
<1>1. SUFFICES ASSUME NEW r \in Charged' PROVE r \in Charged
  OBVIOUS
<1>2. r \in Requests
  BY <1>1 DEF Charged, ActiveRequests, Adding, IInv, TypeOK
<1>3. /\ handler'[r] = "add" => handler[r] = "add"
      /\ r \in registered' => r \in registered \/ handler[r] = "add"
  BY <1>2, RegisteredStep
<1>4. status[r] \in Terminal => status'[r] \in Terminal
  BY <1>2, TerminalStep
<1> QED BY <1>1, <1>2, <1>3, <1>4 DEF Charged, ActiveRequests, Adding

\* The handler that counts is the only one whose request joins the charged ones,
\* and it is one of the handlers that run.
LEMMA ChargedByCount ==
    ASSUME IInv, OvershootInv, NEW r \in Requests, TryQueueCount(r)
    PROVE  Cardinality(Charged') <= MaxQueued + MaxHandlers - 1
<1> USE LimitAssumption
<1>1. Charged \in SUBSET Requests /\ ActiveRequests \in SUBSET Requests /\
      ServingNow \in SUBSET Requests /\ Adding \in SUBSET Requests
  BY DEF Charged, ActiveRequests, Adding, ServingNow, IInv, TypeOK
<1>2. CASE Cardinality(ActiveRequests) >= MaxQueued
  <2>1. Charged' \subseteq Charged
    BY <1>2 DEF TryQueueCount, HandlerGoes, Charged, ActiveRequests, Adding, IInv, TypeOK,
                requestVars
  <2> QED BY <1>1, <2>1, FiniteRequests DEF OvershootInv
<1>3. CASE Cardinality(ActiveRequests) < MaxQueued
  <2>1. handler[r] = "count" /\ handler' = [handler EXCEPT ![r] = "add"]
        /\ UNCHANGED <<registered, status>>
    <3>1. ~(Cardinality(ActiveRequests) >= MaxQueued)
      BY <1>1, <1>3, FiniteRequests
    <3> QED BY <3>1 DEF TryQueueCount, HandlerGoes, requestVars
  <2>2. Adding' = Adding \cup {r} /\ ActiveRequests' = ActiveRequests
    BY <2>1 DEF Adding, ActiveRequests, IInv, TypeOK
  <2>3. Adding \cup {r} \subseteq ServingNow
    BY <2>1 DEF Adding, ServingNow, Serving
  <2>4. Cardinality(Adding \cup {r}) <= MaxHandlers
        /\ Cardinality(Adding \cup {r}) \in Nat
    <3>1. Adding \cup {r} \in SUBSET ServingNow /\ Adding \cup {r} \in SUBSET Requests
      BY <1>1, <2>3
    <3>2. Cardinality(Adding \cup {r}) <= Cardinality(ServingNow)
      BY <1>1, <3>1, FiniteRequests
    <3>3. Cardinality(Adding \cup {r}) \in Nat /\ Cardinality(ServingNow) \in Nat
      BY <1>1, <3>1, FiniteRequests
    <3> QED BY <3>2, <3>3 DEF OvershootInv
  <2>5. /\ Cardinality(Charged') <= Cardinality(ActiveRequests) + Cardinality(Adding \cup {r})
        /\ Cardinality(Charged') \in Nat
        /\ Cardinality(ActiveRequests) \in Nat
    <3>1. Charged' = ActiveRequests \cup (Adding \cup {r})
      BY <2>2 DEF Charged
    <3>2. Adding \cup {r} \in SUBSET Requests /\ Charged' \in SUBSET Requests
      BY <1>1, <3>1
    <3> QED BY <1>1, <3>1, <3>2, UnionBound, FiniteRequests
  <2> QED BY <1>3, <2>4, <2>5
<1> QED BY <1>1, <1>2, <1>3, FiniteRequests

LEMMA OvershootInit == Init => OvershootInv
<1> SUFFICES ASSUME Init PROVE OvershootInv
  OBVIOUS
<1>1. ServingNow = {} /\ Charged = {}
  BY DEF Init, ServingNow, Serving, Charged, ActiveRequests, Adding
<1> QED BY <1>1, FS_EmptySet, LimitAssumption DEF OvershootInv

LEMMA OvershootNext == ASSUME IInv, IInv', OvershootInv, [Next]_vars PROVE OvershootInv'
<1> USE LimitAssumption
<1>1. ServingNow \in SUBSET Requests /\ Charged \in SUBSET Requests
  BY DEF Charged, ActiveRequests, Adding, ServingNow, IInv, TypeOK
<1>2. Cardinality(ServingNow') <= MaxHandlers
  <2>1. CASE \E r \in Requests, k \in Kinds, t \in Targets : Receive(r, k, t)
    <3>1. PICK r \in Requests, k \in Kinds, t \in Targets : Receive(r, k, t)
      BY <2>1
    <3>2. Cardinality(ServingNow) < MaxHandlers
      BY <3>1 DEF Receive, ServingNow
    <3>3. ServingNow' = ServingNow \cup {r}
      BY <3>1 DEF Receive, HandlerGoes, ServingNow, Serving, IInv, TypeOK
    <3>4. IsFiniteSet(ServingNow) /\ Cardinality(ServingNow) \in Nat
      BY <1>1, FiniteRequests
    <3>5. Cardinality(ServingNow') \in {Cardinality(ServingNow), Cardinality(ServingNow) + 1}
      BY <3>3, <3>4, FS_AddElement
    <3> QED BY <3>2, <3>4, <3>5
  <2>2. CASE ~\E r \in Requests, k \in Kinds, t \in Targets : Receive(r, k, t)
    BY <1>1, <2>2, ServingStep, FiniteRequests DEF OvershootInv
  <2> QED BY <2>1, <2>2
<1>3. Cardinality(Charged') <= MaxQueued + MaxHandlers - 1
  <2>1. CASE \E r \in Requests : TryQueueCount(r)
    BY <2>1, ChargedByCount
  <2>2. CASE ~\E r \in Requests : TryQueueCount(r)
    BY <1>1, <2>2, ChargedStep, FiniteRequests DEF OvershootInv
  <2> QED BY <2>1, <2>2
<1> QED BY <1>2, <1>3 DEF OvershootInv

\* TryQueue counts and adds without a lock, and yet the requests that wait for an
\* outcome exceed the queue limit by less than the number of concurrent handlers.
THEOREM QueueBounded == Spec => []QueueOvershoot
<1>1. OvershootInv /\ IInv => QueueOvershoot
  <2> SUFFICES ASSUME OvershootInv, IInv PROVE QueueOvershoot
    OBVIOUS
  <2>1. Charged \in SUBSET Requests /\ ActiveRequests \subseteq Charged
    BY DEF Charged, ActiveRequests, Adding, IInv, TypeOK
  <2>2. Cardinality(ActiveRequests) \in Nat /\ Cardinality(Charged) \in Nat
        /\ Cardinality(ActiveRequests) <= Cardinality(Charged)
    BY <2>1, FiniteRequests
  <2> QED BY <2>2, LimitAssumption DEF OvershootInv, QueueOvershoot
<1>2. Spec => []OvershootInv
  <2>1. IInv /\ IInv' /\ OvershootInv /\ [Next]_vars => OvershootInv'
    BY OvershootNext
  <2> QED BY <2>1, OvershootInit, Invariance, PTL DEF Spec
<1> QED BY <1>1, <1>2, Invariance, PTL

-----------------------------------------------------------------------------
(* After Dispose.  Its sweep settles every request that is registered; one  *)
(* whose handler was before the TryAdd then comes too late for it.          *)

\* Requests that were let in and have no outcome.
Unsettled == {r \in Requests : handler[r] \notin {"unsent", "refused"} /\ status[r] \notin Terminal}

\* Until Dispose every request whose handler has added it is registered, and only
\* the one the UI thread is working on cannot be cancelled.
SweepInv ==
    /\ open => \A r \in Requests : handler[r] \in Added => r \in registered
    /\ \A r \in Requests : status[r] = "running" => cur = r /\ uiPc \in {"run", "complete"}

StopInv == ~open => uiPc = "idle" /\ Cardinality(Unsettled) <= MaxHandlers

LEMMA SweepHandler ==
    ASSUME IInv, SweepInv, NEW q \in Requests, HandlerStep(q)
    PROVE  SweepInv'
<1> USE RequestsAssumption DEF IInv, TypeOK, SweepInv, HandlerGoes, SetStatus, Complete, Cancellable,
        Added, Terminal, requestVars, serverVars, uiVars, docVars, workVars
<1>1. CASE TryQueueCount(q) \/ TryQueueAdd(q) \/ SubmitEnqueue(q)
  BY <1>1 DEF TryQueueCount, TryQueueAdd, SubmitEnqueue
<1>2. CASE SubmitWaiting(q)
  BY <1>2 DEF SubmitWaiting
<1>3. CASE SubmitRaised(q) \/ SubmitDenied(q) \/ SubmitThrows(q)
  BY <1>3 DEF SubmitRaised, SubmitDenied, SubmitThrows
<1>4. CASE Respond(q) \/ WaitCompleted(q) \/ WaitTimesOut(q) \/ GiveUp(q)
  BY <1>4 DEF Respond, WaitCompleted, WaitTimesOut, GiveUp
<1> QED BY <1>1, <1>2, <1>3, <1>4 DEF HandlerStep

LEMMA SweepUi ==
    ASSUME IInv, SweepInv, UiStep
    PROVE  SweepInv'
<1> USE RequestsAssumption DEF IInv, TypeOK, SweepInv, UiGoes, SetStatus, Complete, Terminal,
        Statuses, requestVars, serverVars, uiVars, docVars, workVars
<1>1. CASE UiBegin \/ UiTake \/ UiDrained \/ UiCheck
  BY <1>1 DEF UiBegin, UiTake, UiDrained, UiCheck
<1>2. CASE UiExpire \/ UiInTime \/ UiReject \/ UiOnTarget
  BY <1>2 DEF UiExpire, UiInTime, UiReject, UiOnTarget
<1>3. CASE UiStart
  BY <1>3 DEF UiStart
<1>4. CASE UiComplete \/ UiAudit
  BY <1>4 DEF UiComplete, UiAudit
<1>5. ASSUME NEW ok \in BOOLEAN, NEW d \in Documents \cup {NoDocument}, UiRun(ok, d)
      PROVE  SweepInv'
  BY <1>5 DEF UiRun
<1> QED BY <1>1, <1>2, <1>3, <1>4, <1>5 DEF UiStep

LEMMA SweepNext ==
    ASSUME IInv, SweepInv, [Next]_vars
    PROVE  SweepInv'
<1>1. CASE Environment
  <2> USE DEF IInv, TypeOK, SweepInv, HandlerGoes, Added, Terminal, requestVars, uiVars, serverVars
  <2>1. ASSUME NEW r \in Requests, DeadlinePasses(r) PROVE SweepInv'
    BY <2>1 DEF DeadlinePasses
  <2>2. ASSUME NEW r \in Requests, Cancel(r) PROVE SweepInv'
    BY <2>2 DEF Cancel
  <2>3. ASSUME NEW r \in Requests, NEW k \in Kinds, NEW t \in Targets, Receive(r, k, t)
        PROVE  SweepInv'
    BY <2>3 DEF Receive
  <2>4. ASSUME NEW d \in Documents \cup {NoDocument}, UserSwitches(d) PROVE SweepInv'
    BY <2>4 DEF UserSwitches
  <2>5. CASE IdleRefresh
    BY <2>5 DEF IdleRefresh
  <2>6. CASE Dispose
    BY <2>6 DEF Dispose
  <2> QED BY <1>1, <2>1, <2>2, <2>3, <2>4, <2>5, <2>6 DEF Environment
<1>2. CASE UNCHANGED vars
  BY <1>2 DEF SweepInv, vars, requestVars, serverVars, uiVars
<1> QED BY <1>1, <1>2, SweepHandler, SweepUi DEF Next

LEMMA SweepLeaves == ASSUME IInv, SweepInv, Dispose PROVE Unsettled' \subseteq ServingNow
<1>1. SUFFICES ASSUME NEW r \in Unsettled' PROVE r \in ServingNow
  OBVIOUS
<1>2. r \in Requests /\ handler[r] \notin {"unsent", "refused"} /\ status'[r] \notin Terminal
  BY <1>1 DEF Unsettled, Dispose
<1>3. status[r] # "running"
  BY <1>2 DEF Dispose, SweepInv
<1>4. r \notin registered
  BY <1>2, <1>3 DEF Dispose, Cancellable, Terminal
<1>5. handler[r] \in {"count", "add"}
  BY <1>2, <1>4 DEF Dispose, SweepInv, Added, IInv, TypeOK, Serving, Replied
<1> QED BY <1>2, <1>5 DEF ServingNow, Serving

\* Nothing is let in and nothing is done for anyone once the server is disposed.
LEMMA NothingAfterStop ==
    ASSUME IInv, ~open, uiPc = "idle", [Next]_vars
    PROVE  /\ ~open' /\ uiPc' = "idle"
           /\ UNCHANGED <<runs, committed, active, audit>>
           /\ Unsettled' \subseteq Unsettled
<1>1. /\ ~open' /\ uiPc' = "idle"
      /\ UNCHANGED <<runs, committed, active, audit>>
      /\ \A r \in Requests : handler[r] \in {"unsent", "refused"} => handler'[r] = handler[r]
  <2> USE DEF IInv, TypeOK, uiVars, docVars, workVars, serverVars
  <2>1. ASSUME NEW q \in Requests, HandlerStep(q)
        PROVE  /\ UNCHANGED <<open, uiPc, runs, committed, active, audit>>
               /\ \A r \in Requests :
                     handler[r] \in {"unsent", "refused"} => handler'[r] = handler[r]
    BY <2>1 DEF HandlerStep, TryQueueCount, TryQueueAdd, SubmitWaiting, SubmitEnqueue,
                SubmitRaised, SubmitDenied, SubmitThrows, Respond, WaitCompleted,
                WaitTimesOut, GiveUp, HandlerGoes
  <2>2. ~UiStep
    BY DEF UiStep, UiBegin, UiTake, UiDrained, UiCheck, UiExpire, UiInTime, UiReject,
           UiOnTarget, UiStart, UiRun, UiComplete, UiAudit, UiGoes
  <2>3. Environment => \E r \in Requests : DeadlinePasses(r) \/ Cancel(r)
    BY DEF Environment, Receive, UserSwitches, IdleRefresh, Dispose
  <2>4. ASSUME NEW r \in Requests, DeadlinePasses(r) \/ Cancel(r)
        PROVE  UNCHANGED <<open, uiPc, runs, committed, active, audit, handler>>
    BY <2>4 DEF DeadlinePasses, Cancel
  <2>5. CASE UNCHANGED vars
    BY <2>5 DEF vars
  <2> QED BY <2>1, <2>2, <2>3, <2>4, <2>5 DEF Next
<1>2. ASSUME NEW r \in Requests, status[r] \in Terminal PROVE status'[r] \in Terminal
  BY <1>2, TerminalStep
<1> QED BY <1>1, <1>2 DEF Unsettled

LEMMA StopNext == ASSUME IInv, OvershootInv, SweepInv, StopInv, [Next]_vars PROVE StopInv'
<1>1. CASE ~open
  <2>1. Unsettled \in SUBSET Requests /\ Cardinality(Unsettled) <= MaxHandlers /\ uiPc = "idle"
    BY <1>1 DEF Unsettled, StopInv
  <2>2. Unsettled' \subseteq Unsettled /\ uiPc' = "idle"
    BY <1>1, <2>1, NothingAfterStop
  <2>3. /\ Cardinality(Unsettled') <= Cardinality(Unsettled)
        /\ Cardinality(Unsettled') \in Nat /\ Cardinality(Unsettled) \in Nat
    BY <2>1, <2>2, FiniteRequests
  <2> QED BY <2>1, <2>2, <2>3, LimitAssumption DEF StopInv
<1>2. CASE Dispose
  <2>1. Unsettled' \subseteq ServingNow /\ ServingNow \in SUBSET Requests
    BY <1>2, SweepLeaves DEF ServingNow
  <2>2. /\ Cardinality(Unsettled') <= Cardinality(ServingNow)
        /\ Cardinality(Unsettled') \in Nat /\ Cardinality(ServingNow) \in Nat
    BY <2>1, FiniteRequests
  <2>3. uiPc' = "idle"
    BY <1>2 DEF Dispose, uiVars
  <2> QED BY <2>2, <2>3, LimitAssumption DEF StopInv, OvershootInv
<1>3. CASE open /\ ~Dispose
  <2>1. open' = open
    BY <1>3 DEF Next, HandlerStep, TryQueueCount, TryQueueAdd, SubmitWaiting, SubmitEnqueue,
       SubmitRaised, SubmitDenied, SubmitThrows, Respond, WaitCompleted, WaitTimesOut, GiveUp,
       UiStep, UiBegin, UiTake, UiDrained, UiCheck, UiExpire, UiInTime, UiReject, UiOnTarget,
       UiStart, UiRun, UiComplete, UiAudit, Environment, DeadlinePasses, Cancel, Receive,
       UserSwitches, IdleRefresh, serverVars, vars
  <2> QED BY <1>3, <2>1 DEF StopInv
<1> QED BY <1>1, <1>2, <1>3

\* Dispose sweeps _requests once, and handlers that are past their checks go on.
\* Still no work is done, no document touched and no line logged for a request
\* after it, and at most as many requests as there are concurrent handlers are
\* left without an outcome, however many were queued.
THEOREM StopCorrect ==
    Spec => /\ [](~open => Cardinality(Unsettled) <= MaxHandlers)
            /\ [][~open => /\ ~open' /\ Unsettled' \subseteq Unsettled
                           /\ UNCHANGED <<runs, committed, active, audit>>]_vars
<1>1. Spec => []OvershootInv
  <2>1. IInv /\ IInv' /\ OvershootInv /\ [Next]_vars => OvershootInv'
    BY OvershootNext
  <2> QED BY <2>1, OvershootInit, Invariance, PTL DEF Spec
<1>2. Init => SweepInv /\ StopInv
  BY DEF Init, SweepInv, Added, StopInv
<1>3. IInv /\ OvershootInv /\ SweepInv /\ StopInv /\ [Next]_vars => (SweepInv /\ StopInv)'
  BY SweepNext, StopNext
<1>4. StopInv => (~open => Cardinality(Unsettled) <= MaxHandlers)
  BY DEF StopInv
<1>5. IInv /\ StopInv /\ [Next]_vars
        => [~open => /\ ~open' /\ Unsettled' \subseteq Unsettled
                     /\ UNCHANGED <<runs, committed, active, audit>>]_vars
  BY NothingAfterStop DEF StopInv
<1> QED BY <1>1, <1>2, <1>3, <1>4, <1>5, Invariance, PTL DEF Spec

-----------------------------------------------------------------------------
(* The connector implements the ledger of RequestLedger: every step of its *)
(* threads is one entry in the ledger or leaves it as it is.               *)

\* A step that gives no terminal status and refuses nobody is not in the ledger.
LEMMA LedgerStutters ==
    ASSUME \A r \in Requests :
              /\ status'[r] = status[r] \/ {status[r], status'[r]} \cap Terminal = {}
              /\ handler'[r] = "refused" <=> handler[r] = "refused"
    PROVE  Outcome' = Outcome
<1>1. \A r \in Requests : status'[r] \in Terminal <=> status[r] \in Terminal
  OBVIOUS
<1>2. \A r \in Requests :
         (IF handler'[r] = "refused" THEN "refused"
          ELSE IF status'[r] \in Terminal THEN status'[r] ELSE "open")
       = (IF handler[r] = "refused" THEN "refused"
          ELSE IF status[r] \in Terminal THEN status[r] ELSE "open")
  BY <1>1
<1> QED BY <1>2 DEF Outcome

\* A terminal status given to an open request is an entry in the ledger, when the
\* status agrees with the work done so far.
LEMMA LedgerDecides ==
    ASSUME TypeOK, NEW r \in Requests, NEW s \in Terminal,
           status[r] \notin Terminal, handler[r] # "refused",
           status' = [status EXCEPT ![r] = s], runs' = runs,
           \A q \in Requests : handler'[q] = "refused" <=> handler[q] = "refused",
           s \in {"rejected", "expired", "cancelled"} => runs[r] = 0,
           s = "succeeded" => runs[r] = 1
    PROVE  Ledger!LedgerNext
<1>1. Outcome[r] = "open"
  BY DEF Outcome
<1>2. Outcome' = [Outcome EXCEPT ![r] = s]
  <2>1. \A q \in Requests : status'[q] = IF q = r THEN s ELSE status[q]
    BY DEF TypeOK
  <2>2. \A q \in Requests :
           (IF handler'[q] = "refused" THEN "refused"
            ELSE IF status'[q] \in Terminal THEN status'[q] ELSE "open")
         = [Outcome EXCEPT ![r] = s][q]
    BY <2>1 DEF Outcome
  <2> QED BY <2>2 DEF Outcome
<1>3. s \in Ledger!Outcomes
  BY DEF Ledger!Outcomes, Terminal
<1>4. Ledger!Decide(r, s)
  BY <1>1, <1>2, <1>3 DEF Ledger!Decide, Ledger!NotPerformed, Terminal
<1> QED BY <1>3, <1>4 DEF Ledger!LedgerNext

\* A request that was never started can still be cancelled, and then no work of
\* it was performed.
LEMMA CancellableNotRun ==
    ASSUME IInv, NEW r \in Requests, Cancellable(r)
    PROVE  runs[r] = 0
BY DEF IInv, WorkInv, Cancellable

LEMMA LedgerHandler ==
    ASSUME IInv, NEW r \in Requests, HandlerStep(r)
    PROVE  Ledger!LedgerNext \/ (Outcome' = Outcome /\ runs' = runs)
<1> USE DEF IInv, TypeOK, HandlerGoes, requestVars, workVars
<1>1. CASE TryQueueCount(r) /\ handler'[r] = "refused"
  <2>1. handler[r] = "count" /\ status[r] = "queued" /\ runs[r] = 0
    BY <1>1 DEF TryQueueCount, FreshInv, NotEnqueued
  <2>2. Outcome[r] = "open"
    BY <2>1 DEF Outcome, Terminal
  <2>3. handler' = [handler EXCEPT ![r] = "refused"] /\ status' = status /\ runs' = runs
    BY <1>1 DEF TryQueueCount
  <2>4. Outcome' = [Outcome EXCEPT ![r] = "refused"]
    BY <2>3 DEF Outcome
  <2>5. Ledger!Decide(r, "refused")
    BY <2>1, <2>2, <2>3, <2>4 DEF Ledger!Decide, Ledger!NotPerformed
  <2> QED BY <2>5 DEF Ledger!LedgerNext, Ledger!Outcomes
<1>2. CASE TryQueueCount(r) /\ handler'[r] # "refused"
  <2>1. \A q \in Requests : handler'[q] = "refused" <=> handler[q] = "refused"
    BY <1>2 DEF TryQueueCount
  <2> QED BY <1>2, <2>1, LedgerStutters DEF TryQueueCount
<1>3. CASE TryQueueAdd(r) \/ SubmitEnqueue(r) \/ SubmitRaised(r) \/ SubmitThrows(r)
           \/ Respond(r) \/ WaitCompleted(r) \/ WaitTimesOut(r)
  <2>1. /\ \A q \in Requests : handler'[q] = "refused" <=> handler[q] = "refused"
        /\ status' = status
        /\ runs' = runs
    BY <1>3 DEF TryQueueAdd, SubmitEnqueue, SubmitRaised, SubmitThrows, Respond, WaitCompleted,
                WaitTimesOut
  <2> QED BY <2>1, LedgerStutters
<1>4. CASE SubmitWaiting(r)
  <2>1. /\ \A q \in Requests : handler'[q] = "refused" <=> handler[q] = "refused"
        /\ \A q \in Requests :
              status'[q] = status[q] \/ {status[q], status'[q]} \cap Terminal = {}
        /\ runs' = runs
    BY <1>4 DEF SubmitWaiting, SetStatus, Terminal
  <2> QED BY <2>1, LedgerStutters
<1>5. CASE SubmitDenied(r) \/ GiveUp(r)
  <2> DEFINE s == IF SubmitDenied(r) THEN "failed" ELSE "cancelled"
  <2>1. /\ \A q \in Requests : handler'[q] = "refused" <=> handler[q] = "refused"
        /\ handler[r] # "refused"
        /\ runs' = runs
    BY <1>5 DEF SubmitDenied, GiveUp
  <2>2. \/ status' = status
        \/ /\ status[r] \notin Terminal
           /\ status' = [status EXCEPT ![r] = s]
           /\ s = "cancelled" => Cancellable(r)
    BY <1>5 DEF SubmitDenied, GiveUp, Complete, Cancellable
  <2>3. s \in Terminal /\ s \in {"failed", "cancelled"}
    BY DEF Terminal
  <2>4. s = "cancelled" /\ Cancellable(r) => runs[r] = 0
    BY CancellableNotRun
  <2> HIDE DEF s
  <2>5. CASE status' = status
    BY <2>1, <2>5, LedgerStutters
  <2>6. CASE status' # status
    <3>1. s \in {"rejected", "expired", "cancelled"} => runs[r] = 0
      BY <2>2, <2>3, <2>4, <2>6
    <3> QED BY <2>1, <2>2, <2>3, <2>6, <3>1, LedgerDecides
  <2> QED BY <2>5, <2>6
<1> QED BY <1>1, <1>2, <1>3, <1>4, <1>5 DEF HandlerStep

\* The UI thread completes the request it holds: that is the ledger's entry,
\* unless the request got its outcome from another thread before.
LEMMA LedgerCompletes ==
    ASSUME IInv, cur \in Requests, NEW s \in {"succeeded", "failed", "rejected", "expired"},
           Complete(cur, s), handler' = handler, runs' = runs,
           s \in {"rejected", "expired"} => runs[cur] = 0,
           s = "succeeded" => runs[cur] = 1
    PROVE  Ledger!LedgerNext \/ (Outcome' = Outcome /\ runs' = runs)
<1> USE DEF IInv
<1>1. handler[cur] # "refused"
  BY DEF FreshInv, NotEnqueued
<1>2. CASE status[cur] \in Terminal
  <2>1. status' = status
    BY <1>2 DEF Complete, TypeOK
  <2> QED BY <2>1, LedgerStutters
<1>3. CASE status[cur] \notin Terminal
  <2>1. status' = [status EXCEPT ![cur] = s]
    BY <1>3 DEF Complete
  <2>2. s \in Terminal /\ s # "cancelled"
    BY DEF Terminal
  <2> QED BY <1>1, <1>3, <2>1, <2>2, LedgerDecides
<1> QED BY <1>2, <1>3

LEMMA LedgerUi ==
    ASSUME IInv, UiStep
    PROVE  Ledger!LedgerNext \/ (Outcome' = Outcome /\ runs' = runs)
<1> USE RequestsAssumption DEF IInv, TypeOK, UiGoes, requestVars, serverVars, workVars
<1>1. CASE UiBegin \/ UiTake \/ UiDrained \/ UiCheck \/ UiInTime \/ UiOnTarget \/ UiAudit
  <2>1. status' = status /\ handler' = handler /\ runs' = runs
    BY <1>1 DEF UiBegin, UiTake, UiDrained, UiCheck, UiInTime, UiOnTarget, UiAudit
  <2> QED BY <2>1, LedgerStutters
<1>2. CASE UiStart
  <2>1. /\ handler' = handler
        /\ \A r \in Requests :
              status'[r] = status[r] \/ {status[r], status'[r]} \cap Terminal = {}
        /\ runs' = runs
    BY <1>2 DEF UiStart, SetStatus, Terminal
  <2> QED BY <2>1, LedgerStutters
<1>3. CASE UiExpire \/ UiReject
  <2>1. cur \in Requests /\ runs[cur] = 0 /\ handler' = handler /\ runs' = runs
    BY <1>3 DEF UiExpire, UiReject, PendingInv, Pending, Held, BeforeWork
  <2>2. Complete(cur, "expired") \/ Complete(cur, "rejected")
    BY <1>3 DEF UiExpire, UiReject
  <2> QED BY <2>1, <2>2, LedgerCompletes
<1>4. CASE UiComplete
  <2>1. /\ cur \in Requests /\ runs[cur] = 1 /\ handler' = handler /\ runs' = runs
        /\ uiResult \in {"succeeded", "failed"}
        /\ Complete(cur, uiResult)
    BY <1>4 DEF UiComplete, HeldInv
  <2> QED BY <2>1, LedgerCompletes
<1>5. ASSUME NEW ok \in BOOLEAN, NEW d \in Documents \cup {NoDocument}, UiRun(ok, d)
      PROVE  Ledger!LedgerNext
  <2>1. cur \in Requests /\ runs[cur] = 0 /\ status[cur] \notin Settled
    BY <1>5 DEF UiRun, PendingInv, Pending, Held, BeforeWork
  <2>2. handler[cur] # "refused"
    BY <2>1 DEF FreshInv, NotEnqueued
  <2>3. Outcome[cur] \in Ledger!MayStillRun
    BY <2>1, <2>2 DEF Outcome, Ledger!MayStillRun, Settled, Terminal
  <2>4. status' = status /\ handler' = handler /\ runs' = [runs EXCEPT ![cur] = 1]
    BY <1>5, <2>1 DEF UiRun
  <2>5. Outcome' = Outcome
    BY <2>4, LedgerStutters
  <2>6. Ledger!Run(cur)
    BY <2>1, <2>3, <2>4, <2>5 DEF Ledger!Run
  <2> QED BY <2>1, <2>6 DEF Ledger!LedgerNext
<1> QED BY <1>1, <1>2, <1>3, <1>4, <1>5 DEF UiStep

LEMMA LedgerEnvironment ==
    ASSUME IInv, Environment
    PROVE  Ledger!LedgerNext \/ (Outcome' = Outcome /\ runs' = runs)
<1> USE DEF IInv, TypeOK, requestVars, serverVars, workVars
<1>1. ASSUME NEW r \in Requests, Cancel(r) PROVE Ledger!LedgerNext
  <2>1. /\ handler[r] # "refused" /\ handler' = handler /\ runs' = runs
        /\ Cancellable(r) /\ status' = [status EXCEPT ![r] = "cancelled"]
    BY <1>1 DEF Cancel
  <2>2. status[r] \notin Terminal /\ "cancelled" \in Terminal
    BY <2>1 DEF Cancellable, Terminal
  <2>3. runs[r] = 0
    BY <2>1, CancellableNotRun
  <2> QED BY <2>1, <2>2, <2>3, LedgerDecides
<1>2. CASE Dispose
  <2> DEFINE S == {r \in Requests : r \in registered /\ Cancellable(r)}
  <2>1. \A r \in S : Outcome[r] = "open" /\ runs[r] = 0
    <3> TAKE r \in S
    <3>1. handler[r] # "refused" /\ status[r] \notin Terminal
      BY DEF RegisteredInv, Added, Cancellable
    <3> QED BY <3>1, CancellableNotRun DEF Outcome
  <2>2. /\ handler' = handler /\ runs' = runs
        /\ status' = [r \in Requests |-> IF r \in S THEN "cancelled" ELSE status[r]]
    BY <1>2 DEF Dispose
  <2>3. \A r \in S : handler[r] # "refused"
    BY DEF RegisteredInv, Added
  <2>4. Outcome' = [r \in Requests |-> IF r \in S THEN "cancelled" ELSE Outcome[r]]
    <3>1. \A r \in Requests :
             (IF handler'[r] = "refused" THEN "refused"
              ELSE IF status'[r] \in Terminal THEN status'[r] ELSE "open")
           = (IF r \in S THEN "cancelled" ELSE Outcome[r])
      <4> HIDE DEF S
      <4> QED BY <2>2, <2>3 DEF Outcome, Terminal
    <3> HIDE DEF S
    <3> QED BY <3>1 DEF Outcome
  <2>5. Ledger!CancelAll(S)
    <3> HIDE DEF S
    <3> QED BY <2>1, <2>2, <2>4 DEF Ledger!CancelAll
  <2> QED BY <2>5 DEF Ledger!LedgerNext
<1>3. CASE ~Dispose /\ ~(\E r \in Requests : Cancel(r))
  <2>1. /\ status' = status /\ runs' = runs
        /\ \A r \in Requests : handler'[r] = "refused" <=> handler[r] = "refused"
    BY <1>3 DEF Environment, DeadlinePasses, Receive, HandlerGoes, UserSwitches, IdleRefresh
  <2> QED BY <2>1, LedgerStutters
<1> QED BY <1>1, <1>2, <1>3

\* Every behaviour of a connector is a behaviour of the ledger: each request
\* runs at most once and gets at most one outcome, which agrees with the work.
THEOREM LedgerCorrect == Spec => LedgerRefined
<1>1. Init => Ledger!LedgerInit
  BY DEF Init, Ledger!LedgerInit, Outcome, Terminal
<1>2. IInv /\ [Next]_vars => [Ledger!LedgerNext]_(Ledger!ledgerVars)
  <2>1. CASE UNCHANGED vars
    BY <2>1 DEF vars, requestVars, serverVars, workVars, Outcome, Ledger!ledgerVars
  <2> QED BY <2>1, LedgerHandler, LedgerUi, LedgerEnvironment DEF Next, Ledger!ledgerVars
<1> QED BY <1>1, <1>2, Invariance, PTL DEF Spec, LedgerRefined, Ledger!LedgerSpec

\* What is promised of a request whoever keeps the ledger.
PromiseInv ==
    /\ runs \in [Requests -> {0, 1}]
    /\ \A r \in Requests :
          /\ Outcome[r] \in {"refused", "rejected", "expired"} => runs[r] = 0
          /\ Outcome[r] = "succeeded" => runs[r] = 1

\* The ledger itself promises what its clients rely on, be they the runtime behind
\* a connector or HostClient, which knows connectors by their ledger only: one run
\* at most, none for a request that was refused, rejected or expired, one for a
\* request that succeeded, and an outcome for good.
THEOREM LedgerPromises ==
    Ledger!LedgerSpec =>
        /\ []PromiseInv
        /\ [][\A r \in Requests : Outcome[r] # "open" => Outcome'[r] = Outcome[r]]_(Ledger!ledgerVars)
<1> USE DEF Ledger!ledgerVars, Ledger!LedgerNext, Ledger!Run, Ledger!Decide, Ledger!CancelAll,
            Ledger!NotPerformed, Ledger!MayStillRun, Ledger!Outcomes
<1>1. DOMAIN Outcome = Requests
  BY DEF Outcome
<1>2. Ledger!LedgerInit => PromiseInv
  BY DEF Ledger!LedgerInit, PromiseInv
<1>3. PromiseInv /\ [Ledger!LedgerNext]_(Ledger!ledgerVars) => PromiseInv'
  <2> HIDE DEF Outcome
  <2> QED BY <1>1 DEF PromiseInv
<1>4. [Ledger!LedgerNext]_(Ledger!ledgerVars)
        => [\A r \in Requests : Outcome[r] # "open" => Outcome'[r] = Outcome[r]]_(Ledger!ledgerVars)
  <2> HIDE DEF Outcome
  <2> QED BY <1>1
<1> QED BY <1>2, <1>3, <1>4, PTL DEF Ledger!LedgerSpec
=============================================================================
