# Verification of BIM Bridge

TLA+ models of the BIM Bridge (AEC Codex) connector, host client, runtime, provider
manager and installer, the TLC configurations that check them on small instances, and TLAPS proofs
of what matters most for instances of every size. All paths below are relative to the
repository; a module `M` is `M.tla` in this directory.

1. [The system](#1-the-system)
2. [Plan](#2-plan)
3. [The modules and the code](#3-the-modules-and-the-code)
4. [What the runs check](#4-what-the-runs-check)
5. [What is proved](#5-what-is-proved)
6. [Disagreements with the documentation](#6-disagreements-with-the-documentation)
7. [What is not modelled, and what the models abstract from](#7-what-is-not-modelled-and-what-the-models-abstract-from)
8. [Running it](#8-running-it)

## 1. The system

A coding agent talks MCP over stdin/stdout to a Python process
(`plugins/*/mcp-server/aec_mcp_server.py`), which owns the *runtime*
(`runtime/aec_runtime`). The runtime checks a request against sessions, policy and
approvals, journals it, and sends it over loopback HTTP to a *connector*, a C# plug-in
inside a running Revit or AutoCAD (`src/BimBridge.*`), where the Autodesk UI thread
executes it. Other tools come from third-party MCP servers that the runtime starts as
child processes. A PowerShell script installs all of it for one user.

```
agent --MCP--> mcp server --> BimBridgeRuntime --+--> ProviderManager --pipes--> provider processes
                                |  sessions      |
                                |  approvals     +--> hosts.py --HTTP--> ConnectorServer --queue--> UI thread
                                |  journal                                  ^                          |
                                +-- reads descriptor files <----------------+---- instance registry <--+
```

| Component | State | Operations | Hard parts |
| --- | --- | --- | --- |
| Connector server, request lifecycle (`ConnectorServer.cs`, `ConnectorContracts.cs`) | the request table, one lock per request object | execute, selection, poll, cancel, dispose | handlers run concurrently with each other and with the UI thread; the queue limit is counted without a lock; waits time out |
| Revit and AutoCAD executors | a concurrent queue, the cached descriptor, the ExternalEvent | submit, drain, idle refresh | wake-ups, late cancellation, a document guard that reads a cache, code that changes the active document |
| Host audit log | a file | one line per finished request | written after the outcome became visible |
| Instance registry | one descriptor file per host process | write, delete; read by the runtime | stale and duplicate descriptors after a crash |
| Sessions and approvals (`security.py`) | sessions, the signing secret, consumed nonces | open, close, validate, issue, verify and consume | replays, two threads with one grant, restarts that forget nonces |
| Policy, capabilities, routing (`policy.py`, `capabilities.py`) | a registry | evaluate, resolve | order of the rules; preference; `prepare` and `execute` route each for themselves, with other advertised capabilities |
| Runtime service (`service.py`) | composes the others | prepare, execute, session and approval tools, version 1 tools | exceptions between journalling, dispatch and result |
| Host client (`hosts.py`) | none | select a target, post, poll, cancel | lost answers, deadlines, cancellation |
| Verification (`verification.py`) | none | read back, verdict, normalise a host result | each declared check is a request of its own that may fail after the effect |
| Audit trail and journal (`audit.py`) | the last records in memory; one hash-chained file a day | record, write | several processes with cached hashes on one file, failed appends, crashes in the middle of a line, another day between two locks |
| Provider runtime (`providers.py`) | the active generation, child processes, pending calls | list, search, schema, invoke, reload, retire, close | reloads while calls run, late answers, crashes, drain threads |
| Windows installer (`Install-BimBridge.ps1`) | directories, files, MCP registrations, the rollback directory | install, uninstall, roll back | exceptions and crashes at every step |

What makes each of them correct: a request runs at most once, in the document it names,
and is reported as what happened (connector); nothing critical runs without a grant of its
own, nothing runs for a session that is over, and every effect is in the journal before
it can happen (runtime); a call is served by the process and in the document it selected,
is always answered, and the answer is what that process did (host client); a caller gets the
answer to its own request from the provider the configuration names, or an error, and its tool
is called at most once and on record (providers); what was journalled cannot be taken out of the
files unnoticed (journal); an attempt that fails leaves
everything as it was (installer). `PROJECT.json` lists every component with its status
and, under `hazards`, the places where the code could go wrong in ways a test would
hardly reach, with the properties that would notice.

## 2. Plan

In the order of importance. All of it exists.

| | Module | Composes | Abstract specification | Properties and theorems |
| --- | --- | --- | --- | --- |
| 1 | `Connector` | server, handlers, both executors, audit log | `RequestLedger` | outcomes agree with work, no lost wake-up, final outcomes, limits, a bound on the way to an outcome; all but liveness **proved**, with the refinement |
| 2 | `ApprovalRuntime` | sessions, approvals, policy, `Routing`, service, journal order, host outcome, verification | | approved once, only what was approved, evidence of every effect, verified means read back; **proved** |
| 3 | `Routing` | `capabilities.resolve` over any candidates | | the selected candidate is the best and the only best one; **proved** |
| 4 | `ExecutionJournal` | audit trails and journals of several processes on the files of several days | `EvidenceForest` | tamper evidence, what returned is on disk; **proved**, with the refinement |
| 5 | `Providers` | manager, child processes, readers, drain threads | | generations, orphans, cross talk; **proved** |
| 6 | `ProviderFacade` | `Providers`, the provider tools of the service, their journal records | `RequestLedger` | at most one call, on record, every request answered; all but liveness **proved**, with the refinement |
| 7 | `InstallTransaction` | installer | | nothing lost, rollback, completeness; **proved** |
| 8 | `InstanceRegistry` | descriptor files of several hosts | | stale and lost files; its part of `TypeOK` **proved** with `HostClient`'s |
| 9 | `HostClient` | `InstanceRegistry`, MCP loop, version 1 tools, hosts.py | `RequestLedger` stands for the connectors | right target, truthful answers, what an error means, bounded waits; all but liveness **proved** |

Conventions that hold in every module: sets of requests, calls, documents, files are
CONSTANTS with named assumptions, as weak as the code allows; an action is named after the
operation or the step it models and stands for everything the code does between two points
where another thread could be seen; invariants are conjunctions of named parts; no module
with or below a theorem declares a RECURSIVE operator. An operator `X_Fault` (for example
`Complete_Overwrites`) is a faulty variant of `X`, which no action uses. Replacing `X` by
it must break a property, and `PROJECT.json` says which.

## 3. The modules and the code

### Connector, RequestLedger

One connector in one host process. `status[r]` is `ConnectorRequest._status`; `SetStatus`,
`Complete` and `Cancellable` are the three methods that guard it under its lock.
`handler[r]` is the program counter of the HTTP handler that created `r`
(`TryQueueCount`, `TryQueueAdd`: `TryQueue`; `SubmitWaiting`, `SubmitEnqueue`,
`SubmitRaised`/`SubmitDenied`/`SubmitThrows`: `Submit` of the executors; `Respond`,
`WaitCompleted`, `WaitTimesOut`, `GiveUp`: the two kinds of answers). The UI thread goes
through `UiBegin`, `UiTake`, `UiCheck`, `UiExpire`/`UiInTime`, `UiReject`/`UiOnTarget`,
`UiStart`, `UiRun`, `UiComplete`, `UiAudit`, in the order of `Execute` and
`ProcessPending`, one action per test, because a cancellation may fall between any two of
them. `Host` selects the Revit behaviour (external event, activation only in reads) or
the AutoCAD one. `Dispose` ends the server; deadlines pass, users switch documents and
clients cancel at any time.

`RequestLedger` says what a client may rely on: a request runs at most once, gets at most
one outcome, and an outcome that says "not performed" is not followed by a run. It
deliberately allows work after "cancelled" and "failed", see section 6.

### ApprovalRuntime, Routing

Calls of `prepare` and `execute` of `BimBridgeRuntime` for contract-v2 requests, each on a
thread of its own, with everything they consult. The program counter follows `execute`:
`target` (exact target), `route`, `session`, `grant` (signature, expiry, binding), `nonce`
(the locked test-and-add of `verify`), `prepared`, `decided`, `starting`, `dispatch`,
`waiting`, `verifying`, `completing`, and the exception paths `failing` and `rejecting`. A grant is the
record of what its signature covers; `secret` counts process starts, since every start
draws a new secret. `Restart` loses sessions, consumed nonces and running calls, as the
code keeps these in memory. The journal may raise at every append. Threads are modelled
although the stdio server handles one message at a time: `SessionRegistry`,
`ApprovalAuthority` and the trail have locks for embeddings that call them from several
threads, and a property that depends on a single caller would hide what these locks are
for.

`Routing` is `CapabilityRegistry.resolve`: `Supports` and `Eligible` filter the candidates
of a capability, `Before` is the key by which the code sorts, `First` the candidate it
takes. `prepare` routes with the capabilities it is given, `execute` with those of the
target, so the two may disagree; the grant names the provider and `execute` compares it.
After an effect that succeeded, verification reads back one declared check after the other;
each may be met, not met or fail, and the verdict weakens the status of the result.

### ExecutionJournal, EvidenceForest

Every MCP server is a process with an `AuditTrail` and an `ExecutionJournal`; all of them
append to one file a day. `Keep` is `record` up to its sink, under the trail's lock;
`Acquire` is `write` entering its own lock and finding the hash to name, in its cache or
with `_read_last_hash`; `AppendReturns` and `AppendRaises` end it. Between the two locks
another thread may overtake. An append that raises, and a process that dies in one, leave
nothing, the line, the line without its newline or the beginning of it, and
`_read_last_hash` finds zeros behind such a piece. Two processes that cache the same hash
fork the chain, so a file is not the list that the word chain suggests. `EvidenceForest`
says what it still is, namely a forest of entries that only grows, and `TamperEvident` what
a reader can still conclude: no record can be removed without a later one of its writer
naming what is missing.

### Providers, ProviderFacade

`ProviderManager` and `ChildMcpProcess` for one provider id: the operations of the
manager, the child processes, one reader thread per process, one drain thread per retired
object. Of the operations `names` and `probe` are `list` without and with probe, `probe` also
stands for `search`, `get` and `schema` are called so in the code, `preview`, `read` and `write`
are the three ways through `invoke`. `Stat`, `Load` and `Swap`
are separate steps of `reload` because the file may be replaced between them; each look-up
of the provider reloads again, so a single `invoke` runs through them up to four times
(`stage`). `Register`, `Send`, `Receive`, `ReceiveError`, `TimesOut` are `call`; `Deliver`,
`ReaderEnds`, `ReaderDies` the reader; `DrainEnds`, `DrainCloses` the thread of `retire`.
`MaxConcurrent = 1` is the stdio server, larger values are embeddings with threads.

`ProviderFacade` puts the service on top: `invoke_provider` asks for the schema to classify
the tool (`Classified` refuses a read of what is no read), looks the provider up again for
its application (`Targeted`; without a running instance once more for its release,
`Released`) and for its trust, journals the plan (`Planned`) and only then invokes;
`Completed` and `Failed` journal the end, `RecordRaises` is the journal that raises in any
of these places. Each look-up is an operation of `Providers` with a reload of its own, up
to nine in one call, so a call may meet as many generations as the file has versions.
`get` is an operation of the manager that no tool offers (`ToolsAssumption`).

### InstanceRegistry, HostClient

`InstanceRegistry` is what other processes see of a host: its descriptor file. A host
binds a port and writes its first descriptor (`Start`, `Replace`); on idle ticks it writes
again when the content changed or the file is gone (`Refresh`, `UpToDate`). A replacement
may fail because a reader has the file open, is tried again (`ReplaceRetried`) and given
up (`WriteFails`); it may also take the old file with it, which `File.Replace` without a
backup does not exclude. `Stop` deletes the file, `Crash` leaves it, and a host that
starts later may get the port the file names.

`HostClient` extends it with the version 1 tools, from `tools/call` to the answer. The
server handles one call at a time. `List` and `ReadFile` are the loop of `load_instances`,
one file per step, as files change under it; `Select` wants exactly one match. `Planned`
is `_plan_connector` with its journal record. `connector_request` is split where the world
can change: `Connects` or `ConnectFails`, then what becomes of the exchange
(`ReceiveError`, `ReceiveValue`, `ReceiveId`, `ReceiveStatus`, `ReceiveCancelled`, or
`ExchangeRaises`: a time-out or a broken connection, which is neither a `URLError` nor a
`RuntimeError`). `Loop` polls until the deadline and then cancels. `Record` journals the
outcome and answers; `RecordRaises` is the journal that raises in its place. At the other
end a connector authorises the token and does with a request what `RequestLedger` allows:
`LedgerCorrect` proves that a connector does no more than that.

### InstallTransaction

The script `Install-BimBridge.ps1` from staging to commit, attempt after attempt. The
content of a path is the number of the attempt that put it there. `Throw` may happen at
every step of the `try` block and starts the `catch` block (`RestorePath`, `RestoreMcp`,
`RestoreServers`, `Discard`), which itself may throw (`RestoreThrows`); the process may
die at any step. `BackupPath`, `Place` and `RestorePath` move one path at a time.

## 4. What the runs check

Runs of the same module ask different questions with different small instances; each
property has a mutant that breaks it under the run's own configuration.

| Run | Instance | Shows |
| --- | --- | --- |
| `connector_revit` | two requests that read or write, two documents, limit 1, Revit | outcomes agree with work, no lost wake-up, truthful audit, terminal statuses are final, work runs in its target until code of the drain moves away, the ledger is implemented; the inductive invariant of the proofs (which contains the type invariant) |
| `connector_live` | two selections or captures, limit 1 | accepted requests get an outcome if the UI thread keeps running; selections are answered even if it stops for ever |
| `connector_cancel_race` | one request, AutoCAD | the disagreement of section 6 |
| `approval_runtime` | three calls, one session, one nonce, two starts, the default registry | one grant, one effect; evidence; ended sessions; the inductive invariant of the proofs |
| `approval_mixed` | two calls, requests one field apart, a capability with two candidates, checks to read back | a grant serves only the request, the effect and the provider it was issued for; verified means that every declared check was read back |
| `execution_journal` | two threads of one process and one of another, two days, three records | nothing can be removed unnoticed; what returned is on disk once; the forest is implemented |
| `provider_facade` | one probe, preview or read, two writes of the config, three processes | pending is exact, no orphans, at most one call of the tool, on record, every request is answered |
| `providers_threads` | two threads, two config versions, two processes | no answer goes to another request; what is active is what the file says |
| `providers_stale_access` | one read | the disagreement of section 6 |
| `host_client` | one call of either kind, two hosts, one port, one document, two attempts to write | the right process and document, truthful answers, an error before acceptance means no request, the journal covers the work, every call is answered, descriptors catch up |
| `install_transaction` | two attempts, three directories, three files | nothing is lost, only fresh files are left by a rollback, success is complete |
| `install_blocked` | one attempt | the disagreement of section 6 |

**Bounds.** The races of the connector are between one request's handler, its canceller
and the UI thread, or between two requests that share the queue, a drain or the
ExternalEvent; two requests have all of these, and compete for a queue of one. How far more
handlers overshoot the limit is proved (`QueueBounded`), as is everything for AutoCAD.
Two documents are needed for a target that is wrong. In the runtime, a replay needs two
calls and one grant; the third call can be a `prepare` that burns the grant, and two
starts make a grant outlive the process that forgot its nonce. The journal needs two
threads of a process for its locks, a second process for a fork, a second day for a record
that goes to another file than the one before it, and a third record to name these two. A
provider needs a second config version for a replaced generation and a second process for one
that crashed; the facade gets a third of each, for a generation that is replaced by its predecessor. Two
callers can reload or start it at once. A call goes to the wrong process only if a second
host takes over the port of a crashed one, for which one port and two hosts suffice; a
document and the absence of one make a stale descriptor. One call is enough, since calls
do not overlap and leave nothing behind but the journal. The installer needs a
second attempt to meet what the first one left behind. `MaxStarts`, `MaxRecords`,
`MaxVersions`, `MaxProcesses`, `MaxAttempts` are bounds of the models, not of the code;
`MaxQueued` and `MaxHandlers` are parameters of the code and its thread pool. Symmetry is used
over requests, calls, threads and days, never in runs that check liveness.

**Deadlock.** The runs say `CHECK_DEADLOCK FALSE` where the system really stops: the host
application exits, the interpreter exits, the last attempt of the installer has ended.
The approval runs do so too when every call has ended.

**Fairness.** `HandlerFairness`: the .NET thread pool runs each handler and deadlines
pass. `UiFairness`: the host application returns to its message loop and the code it is
given terminates; only `AcceptedGetsOutcome` assumes it, as its premise. `SelectionAnswered`
does without: a modal dialog may block the UI thread, which is what its time-out is for.
`FacadeSpec` of `ProviderFacade`: the server's thread is scheduled, its time-outs pass and a
request fits into the pipe; nothing is assumed of providers, readers and drain threads.
`FairSpec` of `HostClient`: the server is scheduled, its deadline passes, a socket gives up
after its time-out;
`RegistryFairness`: the application becomes idle again and again, and no reader keeps a
descriptor open for ever, so a replacement that is tried again and again succeeds (strong
fairness of `Replace`). Nothing is assumed of what connectors do with a call.

## 5. What is proved

All proofs are for any finite number of requests (connector), any sets of calls, sessions,
nonces, requests and any registry (runtime), any processes, threads, days and limit
(journal), any calls, descriptors, config versions and child processes (providers), any
hosts, ports, documents, selectors and calls (host client), any paths, orders and number of
attempts (installer). They assume only the named assumptions of the modules, which every run
evaluates.

- `ConnectorProofs`: `TypeCorrect`, `OutcomeCorrect`, `NoLostWakeup`, `AuditCorrect`,
  `FailureCorrect`, `TerminalCorrect`, `TargetCorrect`. They follow from `Invariance`,
  whose `IInv` follows a request through its life: not yet enqueued (`FreshInv`), queued or
  held before its work (`PendingInv`), in the hands of the UI thread (`HeldInv`), done
  (`WorkInv`). None of the properties is inductive by itself: that "succeeded" implies one
  run needs that the UI thread holds a request that is not in the queue and was never run
  (`QueueInv`, `PendingInv`), and that the guard's answer is still true at the run needs
  that the cache is the truth until code of the drain moved (`TargetInv`). One lemma per
  action.

  `QueueBounded`: no more than `MaxQueued + MaxHandlers - 1` requests are active.
  `OvershootInv` bounds the active requests together with those a handler has counted for
  and not yet added (`Charged`): these only grow when a handler counts, and that handler saw
  fewer than `MaxQueued`, while at most `MaxHandlers - 1` others had counted.

  `OutcomeExcludesRun` says how far the disagreement of `CancelExcludesRun` goes: an outcome
  given before the UI thread has looked at the request is kept, so only a UI thread between its
  check and its run (`Passed`) performs a request that is over.

  `DrainCorrect` is the safety half of `AcceptedGetsOutcome`: each step of the UI thread lowers
  `StepsAhead` of every request it has got, until that request is settled, and nobody else's
  step raises it (`DrainBounds`); what it counts is the place in the queue.

  `StopCorrect`: after Dispose nothing more is run, committed or logged, and at most
  `MaxHandlers` requests are left without an outcome, those whose handlers were before their
  TryAdd when the sweep came. Until then whatever was added is registered, and while the UI
  thread is idle whatever is registered can be cancelled (`SweepInv`).

  `LedgerCorrect`: every behaviour of the connector is one of `RequestLedger`, since each step
  either gives an open request its outcome, performs it, or leaves the ledger alone.
  `LedgerPromises` is about the ledger alone: what its clients, `HostClient` among them, may
  conclude from it.
- `ApprovalProofs`: `TypeCorrect`, `ApprovedOnceCorrect`, `OnlyApprovedCorrect`,
  `SessionCorrect`, `RejectedCorrect`, `EvidenceCorrect`, from an invariant with one part
  for each concern: the phase of a call (`PhaseInv`), what the signature check established
  (`SignedInv`), which nonces approved calls have used up and in which process
  (`ApprovedInv`: a grant of an earlier process can no longer be used, one of this process
  has its nonce in `consumed`), late calls (`LateInv`), the journal (`JournalInv`), what was read
  back (`VerifiedInv`: the verdict of a call agrees with the checks it has behind it), from
  which `VerifiedCorrect`.
- `RoutingProofs`: `RoutingIsDeterministic`, the candidate `resolve` takes is eligible and
  comes before every other eligible one. `Before` is a strict total order on candidates with
  different ids, which is `CandidatesAssumption` of `ApprovalRuntime`, and a finite set has a
  first element in such an order.
- `JournalProofs`: `TypeCorrect`, `TamperCorrect`, `RecordCorrect`, and `ForestCorrect`, the
  refinement of `EvidenceForest`. The invariant says that a record in a thread's hands is in
  no file (`FreshInv`), that a thread in an append names what its process remembers
  (`LockInv`), that what is remembered or about to be named is in the file (`LinkInv`), and
  that the only returned record of a process which no later one names is the one it remembers
  (`NamedInv`). From the last, the next append of that process names it.
- `ProvidersProofs`: `TypeCorrect`, `NoCrossTalkCorrect`, `ActiveCorrect`,
  `NoOrphansCorrect`. `AnswerInv`: the table of an object holds the exchanges under way, each
  under an id of its own (`IdInv`), and what is in the pipes of the object's processes under the
  id of a request that waits is that request or its answer (`MessageInv`). An id that is drawn is above all in the pipes,
  therefore late answers match nobody. `ConfigInv`: a reload stamps the generation with an
  mtime it looked at before it read the content, so if the stamp is the current mtime the
  content is the current one. `OrphanInv`, for one caller at a time only: the object that
  caller works with is the active one until its next look-up, and when it starts a process the
  earlier one is dead (`HoldInv`), so no object ever has two that run.
- `FacadeProofs`, on top of these: `CalledOnceCorrect`, `OnRecordCorrect`, and
  `FacadeTypeCorrect`, `FacadeNoCrossTalk`, `FacadeNoOrphans`, which carry the manager's
  invariants over to its use by the service: an operation that follows another within one
  call enters the manager as a new one does (`Enters`). Of one operation, `ToolInv`
  says at which look-up it may be (`StageInv`) and that the tool is called between the third
  and the fourth, once (`CalledInv`), for any number of threads: `EachCallsOnce`. Of a call,
  `PhaseInv` ties its phase to the operation of the manager and to its records, and `Serial`
  says that one call is served at a time, from which `NoOrphans` needs no assumption on
  `MaxConcurrent`. `FacadeLedger`: the provider tools implement `RequestLedger` as connectors
  do. `CallsAdvance` is the safety half of `OperationEnds`: a rank made of the operation, the
  look-up and the step, which each step of the call lowers and no other step raises.
  `UnwrittenStaysRead` says how far the disagreement of `ReadStaysRead` goes: all generations
  of a file that is not written are the same (`FirstInv`), so threads, crashes and restarts do
  not suffice for it.
- `HostClientProofs`: `TypeCorrect`, `RightTargetCorrect`, `ErrorCorrect`, `JournalCorrect`,
  `AnswerCorrect`. The invariant says of each call what was selected (`SelectInv`), that it has
  at most one message on its way, under the descriptor it selected (`WireInv`), what an answer
  it has not read yet tells (`ReplyInv`), what the connector has of it in each phase
  (`PhaseInv`), what it is about to say and has said (`EndInv`), what is journalled
  (`JournalInv`) and where work was done (`TargetInv`). That a RuntimeError from the POST means
  no request, for instance, is inductive only together with the fact that no such POST is still
  on its way. A step is a step of one call, with hosts coming and going, or only decides
  requests (`SameCall`), so each part is shown for one call and left alone in the others. The
  registry's part of `TypeOK` is proved on the way. `WorkedAtMostOnce`: hosts work on a call
  once at most, because nobody has while its GET is on its way or its request has not run
  (`OnceInv`). `DeadlineCorrect` is the safety half of `EveryCallAnswered`: once its deadline
  has passed a call has at most six steps left, and only its own steps change their number
  (`DeadlineBounds`).
- `InstallProofs`: `TypeCorrect`, `NothingLostCorrect`, `RollbackCorrect`, `SuccessCorrect`.
  `PathInv` follows each path: while the attempt still answers for it (`Recorded`), the rollback
  directory has what was there and the disk only what the attempt put there; before and
  after, the disk has what was there, or a fresh file a rollback leaves. It needs that no path is
  recorded twice (`WantedOrder`), that the records are a beginning of what is wanted
  (`ProgressInv`), and that nothing an earlier attempt left is mistaken for something of this
  one (`ContentsInv`). `PlacedInv` counts what has been put in place.

Only model-checked: the liveness properties `AcceptedGetsOutcome`, `SelectionAnswered`,
`OperationEnds`, `EveryCallAnswered` and `DescriptorCatchesUp`, as the provers do not treat
fairness. For the first, the third and the fourth the bounds above leave one thing to the runs,
that the next step can always be taken and is. Every other property that a passing run checks
is a theorem. `ReadStaysRead`, `CancelExcludesRun` and `RestoreNotBlocked` do not hold.

## 6. Disagreements with the documentation

Runs marked `violation` in `PROJECT.json` check one sentence of the documentation which
the code does not keep. `findings` quotes each.

- `CancelExcludesRun`: a confirmed cancellation may be followed by a run, if the UI thread had
  checked the request before (`OutcomeExcludesRun`).
- `ReadStaysRead`: `invoke` may call a read in a generation that classifies it as a write, if
  the config was written meanwhile (`UnwrittenStaysRead`).
- `RestoreNotBlocked`: a rollback stops at the first file that the attempt replaced. (A file
  that the attempt wrote where there was none stays as well: `OnlyFreshFilesLeft` says that
  this is the most a completed rollback leaves.)

`RunsOnTarget` has its exception for a reason: the document guard of both executors
compares with a cache that is refreshed before and after a drain, so a write may run
outside its target once code of the same drain has activated another document.

With several calling threads, which the stdio server does not have, two more things happen
in `Providers` that no run asks about: the drain thread may close a replaced process under
a request registered after it looked, and two threads may both start a process.

## 7. What is not modelled, and what the models abstract from

Components with status `not_modelled` are listed in `PROJECT.json` with the reason. The
abstractions that matter when reading a property:

- Connector: authentication, parsing and JSON are pure. Compiling and running code is one
  step with a result; a write transaction either commits or leaves nothing. After the
  outcome of a request no memory is freed, as in the code.
- Approval runtime: hashes and signatures are the values they are computed from, so they
  have no collisions. `exact` folds the tests for instance, process, document, release and
  API variant of a target. The connector's answer is one step: it ran, or it was refused
  (rejected and expired are one). A check of the verification is met, not met or fails; it
  is a plain request without a document guard, so what it reads is what is active by then.
  `RoutePlan.fallback` is not modelled, as nothing calls it. `execute` dispatches
  to the connector whatever candidate was selected, and the sort key begins with the
  priority, where `docs/architecture.md` speaks of the narrowest provider; both are modelled
  as coded.
- Journal: SHA-256 is injective, and a record is its own hash. The append of one short line is
  one step of the file system: that the Windows C runtime seeks and writes in two steps, so
  that another process could overwrite a line, is not modelled. Clocks of processes and
  threads may disagree on the day. Redaction and JSON are data.
- Host client: a host names its instance id, process and token together; `filter` says
  which hosts a selector admits. A GET is served in one step. `Reports` gives
  the outcome in the ledger. Which document is active is
  what the host last cached. Answers that are no JSON objects are not modelled.
- Providers: one provider id. The modification time tells two writes of the config apart.
  The reader thread runs as soon as its process does. Drawing an id and registering it is
  one step. A second message for a waiter that is full is dropped, where the code would
  block the reader thread. What `list` and `search` report as an error of the provider is
  `raised`, as it is for the other operations. The facade's application is one the runtime
  supports. A record that raises leaves no durable line, here and in the other clients of the
  journal; what it may leave is `ExecutionJournal`'s subject.
- Installer: a move succeeds or throws as a whole. Every install state owns the same paths,
  all of them paths of this version. Which products exist and which manifests are wanted are
  inputs.

## 8. Running it

```
tlc -workers 2 -config MCConnectorRevit.cfg MCConnector     # one run; PROJECT.json lists them
tlapm ConnectorProofs.tla                                   # and every module named *Proofs
```

The longest run is `connector_revit`, with almost three minutes; `providers_threads`,
`host_client`, `connector_live` and `provider_facade` take one to two minutes each. Proving
everything from nothing takes some fifteen minutes.
