------------------------------ MODULE Providers ------------------------------
(***************************************************************************)
(* ProviderManager and ChildMcpProcess for one provider id: generations of *)
(* the config file, the child processes they start, the calls to them.     *)
(*                                                                         *)
(* A call is one operation of ProviderManager on a thread of its own.  A   *)
(* ChildMcpProcess object is named by the order in which it was made, and  *)
(* so is a process; 0 is None.  Besides the callers there are one reader   *)
(* thread per process and one drain thread per retired object.  X_Fault    *)
(* operators are faulty variants of X that no action uses.                 *)
(***************************************************************************)
EXTENDS Integers, Sequences, FiniteSets

CONSTANTS
    Calls,          \* operations of the manager
    Operations,     \* what callers ask for
    MaxConcurrent,  \* callers at a time: 1 in the stdio MCP server
    Descriptors,    \* what the config may say about the provider
    NoFile, NoEntry, BadFile, \* it is missing, without the provider, invalid
    Stopped,        \* the message _fail_pending puts into a waiter
    LongCalls,      \* calls may take longer than the 30 seconds of retire
    MaxVersions,    \* bound: how often the config file is written
    MaxProcesses    \* bound: how many processes are spawned

AllOperations == {"names", "probe", "get", "schema", "preview", "read", "write"}

\* "manifest": what toolAccess of the descriptor says about the tool callers
\* use.  "hint": what the annotations or the name in the catalog of the
\* provider's process say about it.
DescriptorType ==
    [manifest : {"read", "write", "none"}, hint : {"read", "write", "absent"}]

ASSUME OperationsAssumption == Operations \subseteq AllOperations
ASSUME DescriptorsAssumption ==
    Descriptors \subseteq DescriptorType /\ {NoFile, NoEntry, BadFile} \cap Descriptors = {}
ASSUME BoundsAssumption ==
    MaxConcurrent \in Nat /\ MaxVersions \in Nat \ {0} /\ MaxProcesses \in Nat
ASSUME LongCallsAssumption == LongCalls \in BOOLEAN

VARIABLES
    file,     \* the config file: how often it was written, what it says
    loaded,   \* config_mtime, -1 before the first load
    active,   \* the object in ProviderManager.providers
    objects,  \* ChildMcpProcess objects
    procs,    \* processes with their reader thread
    exited,   \* the atexit handler ran
    pc,       \* where each call is; list and search report what is raised
    op,       \* its operation
    stage,    \* how many times it has looked the provider up
    seen,     \* the mtime its reload has read
    parsed,   \* what its reload has read from the file
    child,    \* the object it works with
    method,   \* the method of its request
    id,       \* the id of its request
    waiter,   \* the queue of size one it waits on
    sent      \* history: the tools/call requests: call, object, id

configVars == <<file, loaded, active>>
localVars == <<op, stage, seen, parsed, child>>
callVars == <<method, id, waiter>>
vars == <<configVars, objects, procs, exited, pc, localVars, callVars, sent>>

Contents == Descriptors \cup {NoFile, NoEntry, BadFile}
Methods == {"none", "initialize", "tools/list", "tools/call"}
Messages == [id : Nat, call : Calls, method : Methods]
Steps == {"stat", "load", "swap", "lookup", "start", "spawn", "tools", "listed",
          "register", "send", "wait", "abort"}

TypeOK ==
    /\ file \in [version : 1 .. MaxVersions, content : Contents]
    /\ loaded \in -1 .. MaxVersions
    /\ active \in 0 .. Len(objects)
    /\ objects \in Seq([descriptor : Descriptors, process : 0 .. Len(procs), cached : BOOLEAN,
                        nextId : Nat, pending : SUBSET (Nat \X Calls),
                        drain : {"none", "draining", "closing", "closed"}])
    /\ procs \in Seq([object : 1 .. Len(objects), state : {"running", "crashed", "closed"},
                      reading : BOOLEAN, in : SUBSET Messages, out : SUBSET Messages])
    /\ exited \in BOOLEAN
    /\ pc \in [Calls -> {"idle", "returned", "raised"} \cup Steps]
    /\ op \in [Calls -> AllOperations \cup {"none"}]
    /\ stage \in [Calls -> 0 .. 4]
    /\ seen \in [Calls -> -1 .. MaxVersions]
    /\ parsed \in [Calls -> Contents]
    /\ child \in [Calls -> 0 .. Len(objects)]
    /\ method \in [Calls -> Methods]
    /\ id \in [Calls -> Nat]
    /\ waiter \in [Calls -> SUBSET (Messages \cup {Stopped})]
    /\ \A c \in Calls : Cardinality(waiter[c]) <= 1
    \* pending holds exactly the exchanges that are under way
    /\ \A k \in 1 .. Len(objects) :
          objects[k].pending =
              {<<id[c], c>> : c \in {d \in Calls : pc[d] \in {"send", "wait"} /\ child[d] = k}}
    /\ sent \subseteq Calls \X (1 .. Len(objects)) \X Nat

Init ==
    /\ file \in [version : {1}, content : Contents]
    /\ loaded = -1
    /\ active = 0
    /\ objects = << >>
    /\ procs = << >>
    /\ exited = FALSE
    /\ pc = [c \in Calls |-> "idle"]
    /\ op = [c \in Calls |-> "none"]
    /\ stage = [c \in Calls |-> 0]
    /\ seen = [c \in Calls |-> -1]
    /\ parsed = [c \in Calls |-> NoFile]
    /\ child = [c \in Calls |-> 0]
    /\ method = [c \in Calls |-> "none"]
    /\ id = [c \in Calls |-> 0]
    /\ waiter = [c \in Calls |-> {}]
    /\ sent = {}

Busy(c) == pc[c] \in Steps

Goes(c, from, to) ==
    /\ pc[c] = from
    /\ pc' = [pc EXCEPT ![c] = to]

-----------------------------------------------------------------------------
(* reload, and the look-up that follows it                                 *)

\* The provider config is written or deleted by its installer or the user.
ConfigChanges(content) ==
    /\ file.version < MaxVersions
    /\ file' = [version |-> file.version + 1, content |-> content]
    /\ UNCHANGED <<loaded, active, objects, procs, exited, pc, localVars, callVars, sent>>

\* None when there is no file.
Mtime == IF file.content = NoFile THEN 0 ELSE file.version

Begin(c, o) ==
    /\ ~exited
    /\ Cardinality({d \in Calls : Busy(d)}) < MaxConcurrent
    /\ Goes(c, "idle", "stat")
    /\ op' = [op EXCEPT ![c] = o]
    /\ stage' = [stage EXCEPT ![c] = 1]
    /\ UNCHANGED <<configVars, objects, procs, exited, seen, parsed, child, callVars, sent>>

Stat(c) ==
    /\ Goes(c, "stat", IF Mtime = loaded THEN "lookup" ELSE IF Mtime = 0 THEN "swap" ELSE "load")
    /\ seen' = [seen EXCEPT ![c] = IF Mtime = loaded THEN -1 ELSE Mtime]
    /\ UNCHANGED <<configVars, objects, procs, exited, op, stage, parsed, child, callVars, sent>>

\* The locals of reload go out of scope.
ReloadEnds(c) ==
    /\ seen' = [seen EXCEPT ![c] = -1]
    /\ parsed' = [parsed EXCEPT ![c] = NoFile]

\* What cannot be read or parsed leaves the previous generation active.
Load(c) ==
    /\ IF file.content \in {NoFile, BadFile}
       THEN /\ Goes(c, "load", "lookup")
            /\ ReloadEnds(c)
       ELSE /\ Goes(c, "load", "swap")
            /\ parsed' = [parsed EXCEPT ![c] = file.content]
            /\ seen' = seen
    /\ UNCHANGED <<configVars, objects, procs, exited, op, stage, child, callVars, sent>>

NewObject(d) ==
    [descriptor |-> d, process |-> 0, cached |-> FALSE, nextId |-> 1, pending |-> {},
     drain |-> "none"]

\* retire starts a drain thread for each object that was replaced.
Retired_Kept(k) == objects
Retired(k) == IF k = 0 THEN objects ELSE [objects EXCEPT ![k].drain = "draining"]

Stamp_Now(c) == Mtime
Stamp(c) == seen[c]

\* The next generation keeps the object of an unchanged descriptor.
Swap(c) ==
    /\ Goes(c, "swap", "lookup")
    /\ ReloadEnds(c)
    /\ loaded' = Stamp(c)
    /\ IF parsed[c] \in {NoFile, NoEntry}
       THEN active' = 0 /\ objects' = Retired(active)
       ELSE IF active # 0 /\ objects[active].descriptor = parsed[c]
       THEN UNCHANGED <<active, objects>>
       ELSE /\ active' = Len(objects) + 1
            /\ objects' = Append(Retired(active), NewObject(parsed[c]))
    /\ UNCHANGED <<file, procs, exited, op, stage, child, callVars, sent>>

\* classify_access of a tool from one object's catalog with the descriptor of
\* another.
Access(tools, d) == IF d.manifest # "none" THEN d.manifest ELSE tools.hint

\* get raises when the provider is gone; list and search skip it.
LookupFails(c) ==
    /\ active = 0
    /\ Goes(c, "lookup", IF op[c] \in {"names", "probe"} THEN "returned" ELSE "raised")
    /\ UNCHANGED <<configVars, objects, procs, exited, localVars, callVars, sent>>

\* The first and the third look-up of a call give it the object to call.
LookupChild(c) ==
    /\ active # 0
    /\ stage[c] \in {1, 3}
    /\ Goes(c, "lookup", IF op[c] \in {"names", "get"} THEN "returned"
                       ELSE "start")
    /\ child' = [child EXCEPT ![c] = active]
    /\ UNCHANGED <<configVars, objects, procs, exited, op, stage, seen, parsed, callVars, sent>>

\* The second one serves to classify the tool; it decides whether a call of
\* invoke goes on to the provider.
LookupAccess(c) ==
    /\ active # 0
    /\ stage[c] = 2
    /\ LET access == Access(objects[child[c]].descriptor, objects[active].descriptor)
           refused == op[c] = "read" /\ access # "read"
       IN  /\ Goes(c, "lookup", IF refused THEN "raised"
                                ELSE IF op[c] = "schema" THEN "returned" ELSE "stat")
           /\ stage' = [stage EXCEPT ![c] = IF op[c] = "preview" THEN 4 ELSE 3]
    /\ UNCHANGED <<configVars, objects, procs, exited, op, seen, parsed, child, callVars, sent>>

\* The fourth one is for the providerVersion in the result.
LookupVersion(c) ==
    /\ active # 0
    /\ stage[c] = 4
    /\ Goes(c, "lookup", "returned")
    /\ UNCHANGED <<configVars, objects, procs, exited, localVars, callVars, sent>>

-----------------------------------------------------------------------------
(* ChildMcpProcess.start and tools                                         *)

Alive(k) == objects[k].process # 0 /\ procs[objects[k].process].state = "running"

\* Nothing is locked between this check and the assignment of the process.
StartChecks(c) ==
    /\ Goes(c, "start", IF Alive(child[c]) THEN "tools" ELSE "spawn")
    /\ UNCHANGED <<configVars, objects, procs, exited, localVars, callVars, sent>>

NewProcess(k) ==
    [object |-> k, state |-> "running", reading |-> TRUE, in |-> {}, out |-> {}]

\* The tools of an earlier process stay cached.
Spawn(c) ==
    /\ Len(procs) < MaxProcesses
    /\ Goes(c, "spawn", "register")
    /\ procs' = Append(procs, NewProcess(child[c]))
    /\ objects' = [objects EXCEPT ![child[c]].process = Len(procs) + 1]
    /\ method' = [method EXCEPT ![c] = "initialize"]
    /\ UNCHANGED <<configVars, exited, localVars, id, waiter, sent>>

SpawnFails(c) ==
    /\ Goes(c, "spawn", "raised")
    /\ UNCHANGED <<configVars, objects, procs, exited, localVars, callVars, sent>>

ToolsCached(c) ==
    /\ Goes(c, "tools", "listed")
    /\ objects[child[c]].cached
    /\ UNCHANGED <<configVars, objects, procs, exited, localVars, callVars, sent>>

ListTools(c) ==
    /\ Goes(c, "tools", "register")
    /\ ~objects[child[c]].cached
    /\ method' = [method EXCEPT ![c] = "tools/list"]
    /\ UNCHANGED <<configVars, objects, procs, exited, localVars, id, waiter, sent>>

\* What tools returns is tools_cache once more; close may have reset it to
\* None, which the callers cannot iterate over.
UseTools(c) ==
    LET found == objects[child[c]].descriptor.hint # "absent"
        next == IF ~objects[child[c]].cached THEN "raised"
                ELSE IF op[c] = "probe" THEN "returned"
                ELSE IF ~found THEN "raised"
                ELSE IF stage[c] = 1 THEN "stat" ELSE "register"
    IN
        /\ Goes(c, "listed", next)
        /\ stage' = [stage EXCEPT ![c] = IF next = "stat" THEN 2 ELSE @]
        /\ method' = [method EXCEPT ![c] = IF next = "register" THEN "tools/call" ELSE @]
        /\ UNCHANGED <<configVars, objects, procs, exited, op, seen, parsed, child, id, waiter,
                       sent>>

-----------------------------------------------------------------------------
(* ChildMcpProcess.call                                                    *)

NextId_FirstFree(k) == 2 + Cardinality(objects[k].pending)
NextId(k) == objects[k].nextId + 1

Register(c) ==
    LET k == child[c]
        n == NextId(k)
    IN
        /\ Goes(c, "register", "send")
        /\ objects' = [objects EXCEPT ![k].nextId = n, ![k].pending = @ \cup {<<n, c>>}]
        /\ id' = [id EXCEPT ![c] = n]
        /\ UNCHANGED <<configVars, procs, exited, localVars, method, waiter, sent>>

Message(c) == [id |-> id[c], call |-> c, method |-> method[c]]

Send(c) ==
    LET k == child[c] IN
        /\ Goes(c, "send", "wait")
        /\ Alive(k)
        /\ procs' = [procs EXCEPT ![objects[k].process].in = @ \cup {Message(c)}]
        /\ sent' = IF method[c] = "tools/call" THEN sent \cup {<<c, k, id[c]>>} ELSE sent
        /\ UNCHANGED <<configVars, objects, exited, localVars, callVars>>

\* The finally clause of call; its request and its waiter are local to it.
Unregistered_Kept(c) == objects
Unregistered(c) == [objects EXCEPT ![child[c]].pending = @ \ {<<id[c], c>>}]

CallEnds(c) ==
    /\ method' = [method EXCEPT ![c] = "none"]
    /\ id' = [id EXCEPT ![c] = 0]
    /\ waiter' = [waiter EXCEPT ![c] = {}]

CallFails_Retried(c, step) ==
    /\ Goes(c, step, CASE method[c] = "initialize" -> "abort"
                       [] method[c] = "tools/call" -> "stat"
                       [] OTHER -> "raised")
    /\ CallEnds(c)
    /\ objects' = Unregistered(c)
    /\ UNCHANGED <<configVars, procs, exited, localVars, sent>>

\* start closes the process it could not initialize.
CallFails(c, step) ==
    /\ Goes(c, step, IF method[c] = "initialize" THEN "abort" ELSE "raised")
    /\ CallEnds(c)
    /\ objects' = Unregistered(c)
    /\ UNCHANGED <<configVars, procs, exited, localVars, sent>>

SendFails(c) == CallFails(c, "send") /\ ~Alive(child[c])

\* An answer; start goes on with a notification, for which the process has to
\* be there still.
Receive(c) ==
    /\ waiter[c] \notin {{}, {Stopped}}
    /\ Goes(c, "wait", CASE method[c] = "initialize" -> IF Alive(child[c]) THEN "tools" ELSE "abort"
                         [] method[c] = "tools/list" -> "listed"
                         [] OTHER -> "stat")
    /\ stage' = [stage EXCEPT ![c] = IF method[c] = "tools/call" THEN 4 ELSE @]
    /\ CallEnds(c)
    /\ objects' = [Unregistered(c) EXCEPT ![child[c]].cached = @ \/ method[c] = "tools/list"]
    /\ UNCHANGED <<configVars, procs, exited, op, seen, parsed, child, sent>>

\* An error, of the process or from _fail_pending, or an unusable result.
ReceiveError(c) == waiter[c] # {} /\ CallFails(c, "wait")

Expired_IfAlive(c) == waiter[c] = {} /\ Alive(child[c])
Expired(c) == waiter[c] = {}

TimesOut(c) == CallFails(c, "wait") /\ Expired(c)

\* close, whoever calls it, stops the process the object has now.
ClosedProcs(k) ==
    IF Alive(k) THEN [procs EXCEPT ![objects[k].process].state = "closed"] ELSE procs
ClosedObjects(k) == [objects EXCEPT ![k].process = 0, ![k].cached = FALSE]

Abort(c) ==
    /\ Goes(c, "abort", "raised")
    /\ procs' = ClosedProcs(child[c])
    /\ objects' = ClosedObjects(child[c])
    /\ UNCHANGED <<configVars, exited, localVars, callVars, sent>>

-----------------------------------------------------------------------------
(* The process, its reader and the drain thread                            *)

Answers(p, m) ==
    /\ procs[p].state = "running"
    /\ m \in procs[p].in
    /\ procs' = [procs EXCEPT ![p].in = @ \ {m}, ![p].out = @ \cup {m}]
    /\ UNCHANGED <<configVars, objects, exited, pc, localVars, callVars, sent>>

Crashes(p) ==
    /\ procs[p].state = "running"
    /\ procs' = [procs EXCEPT ![p].state = "crashed"]
    /\ UNCHANGED <<configVars, objects, exited, pc, localVars, callVars, sent>>

\* A waiter that is full stays as it is: nobody reads a second message.
Put(c, m) == IF waiter[c] = {} THEN {m} ELSE waiter[c]

Waiting(k, n) == {c \in Calls : <<n, c>> \in objects[k].pending}

\* The reader finds the waiter by the id alone.
Deliver(p, m) ==
    /\ procs[p].reading
    /\ m \in procs[p].out
    /\ procs' = [procs EXCEPT ![p].out = @ \ {m}]
    /\ waiter' = [c \in Calls |-> IF c \in Waiting(procs[p].object, m.id)
                                  THEN Put(c, m) ELSE waiter[c]]
    /\ UNCHANGED <<configVars, objects, exited, pc, localVars, method, id, sent>>

\* At the end of the output the reader fails whatever is pending, the requests
\* to a later process of the same object included.
ReaderEnds(p) ==
    /\ procs[p].state # "running"
    /\ procs[p].reading
    /\ procs[p].out = {} \/ procs[p].state = "closed"
    /\ procs' = [procs EXCEPT ![p].reading = FALSE]
    /\ waiter' = [c \in Calls |-> IF <<id[c], c>> \in objects[procs[p].object].pending
                                  THEN Put(c, Stopped) ELSE waiter[c]]
    /\ UNCHANGED <<configVars, objects, exited, pc, localVars, method, id, sent>>

\* close closes the stream the reader reads, whose exception ends the thread.
ReaderDies(p) ==
    /\ procs[p].state = "closed"
    /\ procs[p].reading
    /\ procs' = [procs EXCEPT ![p].reading = FALSE]
    /\ UNCHANGED <<configVars, objects, exited, pc, localVars, callVars, sent>>

\* The drain thread stops waiting when nothing is pending or after 30 seconds.
DrainEnds(k) ==
    /\ ~exited
    /\ objects[k].drain = "draining"
    /\ objects[k].pending = {} \/ LongCalls
    /\ objects' = [objects EXCEPT ![k].drain = "closing"]
    /\ UNCHANGED <<configVars, procs, exited, pc, localVars, callVars, sent>>

DrainCloses(k) ==
    /\ ~exited
    /\ objects[k].drain = "closing"
    /\ procs' = ClosedProcs(k)
    /\ objects' = [ClosedObjects(k) EXCEPT ![k].drain = "closed"]
    /\ UNCHANGED <<configVars, exited, pc, localVars, callVars, sent>>

\* ProviderManager.close at exit, after the callers; drain threads are daemons
\* and end with the interpreter.
Exit ==
    /\ ~exited
    /\ \A c \in Calls : ~Busy(c)
    /\ exited' = TRUE
    /\ active' = 0
    /\ IF active = 0 THEN UNCHANGED <<objects, procs>>
       ELSE procs' = ClosedProcs(active) /\ objects' = ClosedObjects(active)
    /\ UNCHANGED <<file, loaded, pc, localVars, callVars, sent>>

-----------------------------------------------------------------------------

CallStep(c) ==
    \/ Stat(c) \/ Load(c) \/ Swap(c)
    \/ LookupFails(c) \/ LookupChild(c) \/ LookupAccess(c) \/ LookupVersion(c)
    \/ StartChecks(c) \/ Spawn(c) \/ SpawnFails(c)
    \/ ToolsCached(c) \/ ListTools(c) \/ UseTools(c)
    \/ Register(c) \/ Send(c) \/ SendFails(c)
    \/ Receive(c) \/ ReceiveError(c) \/ TimesOut(c) \/ Abort(c)

ProcessStep(p) == (\E m \in procs[p].in : Answers(p, m)) \/ Crashes(p)

ReaderStep(p) == (\E m \in procs[p].out : Deliver(p, m)) \/ ReaderEnds(p) \/ ReaderDies(p)

DrainStep(k) == DrainEnds(k) \/ DrainCloses(k)

\* What goes on beside the callers.
OthersStep ==
    \/ \E content \in Contents : ConfigChanges(content)
    \/ \E p \in 1 .. Len(procs) : ProcessStep(p) \/ ReaderStep(p)
    \/ \E k \in 1 .. Len(objects) : DrainStep(k)

Next ==
    \/ OthersStep
    \/ \E c \in Calls, o \in Operations : Begin(c, o)
    \/ \E c \in Calls : CallStep(c)
    \/ Exit

Spec == Init /\ [][Next]_vars
-----------------------------------------------------------------------------
(* Properties                                                              *)

\* Reloads of several threads leave the generation the file describes: once
\* its mtime is the one that was loaded, the active object has its descriptor,
\* however the file was replaced between stat, read and swap.
ActiveMatchesConfig ==
    loaded = Mtime /\ file.content # BadFile /\ ~exited =>
        IF active = 0 THEN file.content \in {NoFile, NoEntry}
        ELSE objects[active].descriptor = file.content

\* The answer in a waiter belongs to the request that waits: neither a late
\* answer to a call that timed out nor one an earlier process left behind is
\* taken for the answer to another request.
NoCrossTalk == \A c \in Calls : waiter[c] \subseteq {Message(c), Stopped}

\* With one caller at a time no process is left behind: what runs is the
\* process of the active object, or of a replaced one that is being drained.
NoOrphans ==
    \A p \in 1 .. Len(procs) :
        procs[p].state = "running" =>
            /\ objects[procs[p].object].process = p
            /\ \/ procs[p].object = active
               \/ objects[procs[p].object].drain \in {"draining", "closing"}

\* providers.md: "aec_call_provider_read refuses any tool not classified
\* read-only."  invoke looks the provider up again after it classified the
\* tool, and calls whatever generation is active by then.
ReadStaysRead ==
    \A e \in sent :
        op[e[1]] = "read" =>
            Access(objects[e[2]].descriptor, objects[e[2]].descriptor) = "read"
=============================================================================
