------------------------------ MODULE HostClient ------------------------------
(***************************************************************************)
(* Version 1 tools of the MCP server that go to a host: the server takes   *)
(* one call at a time, selects a connector by the descriptor files, plans  *)
(* and journals the call, and talks HTTP to whoever listens at the url of  *)
(* the descriptor.  A call is                                              *)
(*   - "get": aec_get_document_info or aec_get_selection, one GET;         *)
(*   - "execute": aec_execute_read, aec_execute_write or the capture tool, *)
(*     a POST, polls until the deadline, then a cancellation.              *)
(* Connectors do to accepted requests what RequestLedger allows, which is  *)
(* what module Connector was shown to implement.                           *)
(***************************************************************************)
EXTENDS InstanceRegistry, Sequences

CONSTANTS
    Calls,    \* tools/call messages
    Tools,    \* the tools they name
    Filters,  \* their target selectors
    AnyDocument,      \* no documentTitle in the selector
    None      \* nothing selected, nothing received

\* instanceId, application and applicationVersion select among the hosts.
FilterType == [hosts : SUBSET Hosts, document : Documents \cup {AnyDocument}]

ASSUME ToolsAssumption == Tools \subseteq {"get", "execute"}
ASSUME FiltersAssumption == Filters \subseteq FilterType
ASSUME AbsentAssumption == AnyDocument \notin Documents /\ None \notin Descriptors

VARIABLES
    pc,        \* where each call is
    tool,      \* what it asks for
    filter,    \* of whom
    unread,    \* hosts whose descriptor it has listed and not read
    matches,   \* descriptors that match
    instance,  \* the descriptor it selected
    created,   \* the host whose connector holds the request of a call
    accepted,  \* calls that were given its id
    overdue,   \* calls whose deadline has passed
    wire,      \* HTTP requests on their way: call, verb, host at the other end
    reply,     \* the response a call has not read yet
    ending,    \* what the tool is about to return or raise
    answer,    \* what the agent was told
    journal,   \* history: durable audit events of each call
    outcome,   \* outcome of its request in the connector's ledger
    runs,      \* how often the connector performed it
    work       \* history: host and document that served a call

callVars == <<tool, filter, accepted, overdue>>
selectVars == <<unread, matches, instance>>
httpVars == <<wire, reply>>
endVars == <<ending, answer, journal>>
connectorVars == <<created, outcome, runs, work>>
clientVars == <<pc, callVars, selectVars, httpVars, endVars, connectorVars>>
vars == <<registryVars, clientVars>>

Ledger == INSTANCE RequestLedger WITH Requests <- Calls

Terminal == Ledger!Outcomes \ {"refused"}
Responses == {"value", "error", "id", "open"} \cup Terminal

ASSUME NoneAssumption == None \notin Hosts \cup Responses

Verbs == {"get", "execute", "poll", "cancel"}
Waits == {"getting", "executing", "polling", "cancelling"}
Steps == {"list", "read", "plan", "loop", "record"} \cup Verbs \cup Waits
Errors == {"unselected", "unplanned", "unavailable", "httpError", "timedOut", "internal"}
Answers == {"none", "value"} \cup Terminal \cup Errors

Waiting(verb) ==
    CASE verb = "get" -> "getting" [] verb = "execute" -> "executing"
      [] verb = "poll" -> "polling" [] OTHER -> "cancelling"

Working(c) == pc[c] \in Steps

TypeOK ==
    /\ RegistryTypeOK
    /\ pc \in [Calls -> {"idle", "ended"} \cup Steps]
    /\ \A c, k \in Calls : Working(c) /\ Working(k) => c = k
    /\ tool \in [Calls -> {"get", "execute"}]
    /\ filter \in [Calls -> FilterType]
    /\ unread \in [Calls -> SUBSET Hosts]
    /\ matches \in [Calls -> SUBSET Descriptors]
    /\ instance \in [Calls -> Descriptors \cup {None}]
    /\ created \in [Calls -> Hosts \cup {None}]
    /\ accepted \subseteq {c \in Calls : created[c] # None}
    /\ overdue \subseteq accepted
    /\ wire \subseteq Calls \X Verbs \X Hosts
    /\ \A c \in Calls : Cardinality({m \in wire : m[1] = c}) <= 1
    /\ reply \in [Calls -> Responses \cup {None}]
    /\ ending \in [Calls -> Answers]
    /\ answer \in [Calls -> Answers]
    /\ \A c \in Calls : pc[c] = "ended" <=> answer[c] # "none"
    /\ journal \in [Calls -> Seq({"planned", "completed", "failed"})]
    /\ outcome \in [Calls -> {"open"} \cup Ledger!Outcomes]
    /\ runs \in [Calls -> Nat]
    /\ work \subseteq Calls \X Hosts \X (Documents \cup {NoDocument})

Init ==
    /\ RegistryInit
    /\ pc = [c \in Calls |-> "idle"]
    /\ tool = [c \in Calls |-> "get"]
    /\ filter = [c \in Calls |-> [hosts |-> {}, document |-> AnyDocument]]
    /\ unread = [c \in Calls |-> {}]
    /\ matches = [c \in Calls |-> {}]
    /\ instance = [c \in Calls |-> None]
    /\ created = [c \in Calls |-> None]
    /\ accepted = {}
    /\ overdue = {}
    /\ wire = {}
    /\ reply = [c \in Calls |-> None]
    /\ ending = [c \in Calls |-> "none"]
    /\ answer = [c \in Calls |-> "none"]
    /\ journal = [c \in Calls |-> << >>]
    /\ outcome = [c \in Calls |-> "open"]
    /\ runs = [c \in Calls |-> 0]
    /\ work = {}

Goes(c, from, to) ==
    /\ pc[c] = from
    /\ pc' = [pc EXCEPT ![c] = to]

Tells(c, a) == answer' = [answer EXCEPT ![c] = a]
Records(c, event) == journal' = [journal EXCEPT ![c] = Append(@, event)]

-----------------------------------------------------------------------------
(* Selecting a connector                                                   *)

\* main reads the next message when the last one was answered; malformed
\* arguments are answered without a change of state.
Begin(c, t, f) ==
    /\ \A k \in Calls : ~Working(k)
    /\ Goes(c, "idle", "list")
    /\ tool' = [tool EXCEPT ![c] = t]
    /\ filter' = [filter EXCEPT ![c] = f]
    /\ UNCHANGED <<registryVars, accepted, overdue, selectVars, httpVars, endVars, connectorVars>>

\* load_instances: the names first ...
List(c) ==
    /\ Goes(c, "list", "read")
    /\ unread' = [unread EXCEPT ![c] = {h \in Hosts : file[h] # NoFile}]
    /\ UNCHANGED <<registryVars, callVars, matches, instance, httpVars, endVars, connectorVars>>

Matching(f, d) == d.host \in f.hosts /\ f.document \in {AnyDocument, d.document}

\* ... then one file after the other.
ReadFile(c, h) ==
    /\ Goes(c, "read", "read")
    /\ h \in unread[c]
    /\ unread' = [unread EXCEPT ![c] = @ \ {h}]
    /\ matches' = [matches EXCEPT ![c] = IF file[h] # NoFile /\ Matching(filter[c], file[h])
                                         THEN @ \cup {file[h]} ELSE @]
    /\ UNCHANGED <<registryVars, callVars, instance, httpVars, endVars, connectorVars>>

\* The file is gone or denied: a warning.
ReadFileFails(c, h) ==
    /\ Goes(c, "read", "read")
    /\ h \in unread[c]
    /\ unread' = [unread EXCEPT ![c] = @ \ {h}]
    /\ UNCHANGED <<registryVars, callVars, matches, instance, httpVars, endVars, connectorVars>>

Select(c) ==
    /\ unread[c] = {}
    /\ IF Cardinality(matches[c]) = 1
       THEN /\ Goes(c, "read", "plan")
            /\ instance' = [instance EXCEPT ![c] = CHOOSE d \in matches[c] : TRUE]
            /\ UNCHANGED answer
       ELSE /\ Goes(c, "read", "ended")
            /\ Tells(c, "unselected")
            /\ UNCHANGED instance
    /\ UNCHANGED <<registryVars, callVars, unread, matches, httpVars, ending, journal,
                   connectorVars>>

Planned_NotRecorded(c) ==
    /\ Goes(c, "plan", tool[c])
    /\ UNCHANGED <<registryVars, callVars, selectVars, httpVars, endVars, connectorVars>>

\* _plan_connector routes, asks the policy and journals.
Planned(c) ==
    /\ Goes(c, "plan", tool[c])
    /\ Records(c, "planned")
    /\ UNCHANGED <<registryVars, callVars, selectVars, httpVars, ending, answer, connectorVars>>

\* The host lacks the capability, or the journal raises.
PlanFails(c, a) ==
    /\ a \in {"unplanned", "internal"}
    /\ Goes(c, "plan", "ended")
    /\ Tells(c, a)
    /\ UNCHANGED <<registryVars, callVars, selectVars, httpVars, ending, journal, connectorVars>>

-----------------------------------------------------------------------------
(* connector_request                                                       *)

Ends(c, from, e) ==
    /\ Goes(c, from, "record")
    /\ ending' = [ending EXCEPT ![c] = e]

\* The cancellation drops a RuntimeError, but no other exception.
Raised_Cancelled(c, e) ==
    IF pc[c] \in {"cancel", "cancelling"} /\ e # "internal" THEN "cancelled" ELSE e
Raised(c, e) ==
    IF pc[c] \in {"cancel", "cancelling"} /\ e # "internal" THEN "timedOut" ELSE e

Connects(c, verb) ==
    /\ Goes(c, verb, Waiting(verb))
    /\ \E h \in Hosts :
          /\ Listening(h, instance[c].port)
          /\ wire' = wire \cup {<<c, verb, h>>}
    /\ UNCHANGED <<registryVars, callVars, selectVars, reply, endVars, connectorVars>>

\* URLError: nobody listens.
ConnectFails(c, verb) ==
    /\ Ends(c, verb, Raised(c, "unavailable"))
    /\ ~\E h \in Hosts : Listening(h, instance[c].port)
    /\ UNCHANGED <<registryVars, callVars, selectVars, httpVars, answer, journal, connectorVars>>

Lost_IsUnavailable == "unavailable"
Lost == "internal"

\* The response does not come in time, or the connection breaks before or
\* within it: TimeoutError and ConnectionResetError are no URLErrors, and no
\* RuntimeErrors.
ExchangeRaises(c) ==
    /\ pc[c] \in Waits
    /\ Ends(c, pc[c], Raised(c, Lost))
    /\ reply' = [reply EXCEPT ![c] = None]
    /\ UNCHANGED <<registryVars, callVars, selectVars, wire, answer, journal, connectorVars>>

\* An HTTP error status.
ReceiveError(c) ==
    /\ reply[c] = "error"
    /\ Ends(c, pc[c], Raised(c, "httpError"))
    /\ reply' = [reply EXCEPT ![c] = None]
    /\ UNCHANGED <<registryVars, callVars, selectVars, wire, answer, journal, connectorVars>>

ReceiveValue(c) ==
    /\ reply[c] = "value"
    /\ Ends(c, "getting", "value")
    /\ reply' = [reply EXCEPT ![c] = None]
    /\ UNCHANGED <<registryVars, callVars, selectVars, wire, answer, journal, connectorVars>>

ReceiveId(c) ==
    /\ reply[c] = "id"
    /\ Goes(c, "executing", "loop")
    /\ accepted' = accepted \cup {c}
    /\ reply' = [reply EXCEPT ![c] = None]
    /\ UNCHANGED <<registryVars, tool, filter, overdue, selectVars, wire, endVars, connectorVars>>

\* The status of the request; the client sleeps and goes on if it is open.
ReceiveStatus(c) ==
    /\ reply[c] \in {"open"} \cup Terminal
    /\ IF reply[c] = "open"
       THEN Goes(c, "polling", "loop") /\ UNCHANGED ending
       ELSE Ends(c, "polling", reply[c])
    /\ reply' = [reply EXCEPT ![c] = None]
    /\ UNCHANGED <<registryVars, callVars, selectVars, wire, answer, journal, connectorVars>>

\* Whatever status the cancellation returned.
ReceiveCancelled(c) ==
    /\ reply[c] \in Terminal
    /\ Ends(c, "cancelling", "timedOut")
    /\ reply' = [reply EXCEPT ![c] = None]
    /\ UNCHANGED <<registryVars, callVars, selectVars, wire, answer, journal, connectorVars>>

-----------------------------------------------------------------------------
(* execute_connector_request and what follows it                           *)

DeadlinePasses(c) ==
    /\ c \in accepted \ overdue
    /\ Working(c)
    /\ overdue' = overdue \cup {c}
    /\ UNCHANGED <<registryVars, pc, tool, filter, accepted, selectVars, httpVars, endVars,
                   connectorVars>>

Loop_Forever(c) == Goes(c, "loop", "poll")
Loop(c) == Goes(c, "loop", IF c \in overdue THEN "cancel" ELSE "poll")

LoopStep(c) ==
    /\ Loop(c)
    /\ UNCHANGED <<registryVars, callVars, selectVars, httpVars, endVars, connectorVars>>

\* The tool returns a result, or records that it raised and raises again.
Record(c) ==
    /\ Goes(c, "record", "ended")
    /\ Records(c, IF ending[c] \in Errors THEN "failed" ELSE "completed")
    /\ Tells(c, ending[c])
    /\ UNCHANGED <<registryVars, callVars, selectVars, httpVars, ending, connectorVars>>

\* The exception of the journal takes the place of either.
RecordRaises(c) ==
    /\ Goes(c, "record", "ended")
    /\ Tells(c, "internal")
    /\ UNCHANGED <<registryVars, callVars, selectVars, httpVars, ending, journal, connectorVars>>

CallStep(c) ==
    \/ List(c) \/ Select(c) \/ Planned(c)
    \/ \E h \in Hosts : ReadFile(c, h) \/ ReadFileFails(c, h)
    \/ \E a \in Errors : PlanFails(c, a)
    \/ \E verb \in Verbs : Connects(c, verb) \/ ConnectFails(c, verb)
    \/ ExchangeRaises(c) \/ ReceiveError(c) \/ ReceiveValue(c) \/ ReceiveId(c)
    \/ ReceiveStatus(c) \/ ReceiveCancelled(c)
    \/ LoopStep(c) \/ Record(c) \/ RecordRaises(c)

-----------------------------------------------------------------------------
(* Connectors                                                              *)

\* A message that arrives; the client may have given up.
Arrives(m) ==
    /\ m \in wire
    /\ host[m[3]] = "up"
    /\ wire' = wire \ {m}

Replies(c, r) == reply' = [reply EXCEPT ![c] = IF pc[c] \in Waits THEN r ELSE @]

Authorized_Anyone(c, h) == TRUE
Authorized(c, h) == h = instance[c].host

\* 401, a full queue, a capability the host lacks, a modal dialog.
Refuses(m) ==
    /\ Arrives(m)
    /\ m[2] \in {"poll", "cancel"} => ~Authorized(m[1], m[3])
    /\ Replies(m[1], "error")
    /\ UNCHANGED <<registryVars, pc, callVars, selectVars, endVars, connectorVars>>

Serves(m) ==
    /\ Arrives(m)
    /\ Authorized(m[1], m[3])
    /\ m[2] = "get"
    /\ Replies(m[1], "value")
    /\ work' = work \cup {<<m[1], m[3], document[m[3]]>>}
    /\ UNCHANGED <<registryVars, pc, callVars, selectVars, endVars, created, outcome, runs>>

Accepts(m) ==
    /\ Arrives(m)
    /\ Authorized(m[1], m[3])
    /\ m[2] = "execute"
    /\ Replies(m[1], "id")
    /\ created' = [created EXCEPT ![m[1]] = m[3]]
    /\ UNCHANGED <<registryVars, pc, callVars, selectVars, endVars, outcome, runs, work>>

Reports(m) ==
    /\ Arrives(m)
    /\ Authorized(m[1], m[3])
    /\ m[2] = "poll"
    /\ Replies(m[1], outcome[m[1]])
    /\ UNCHANGED <<registryVars, pc, callVars, selectVars, endVars, connectorVars>>

\* 200 if the request could be cancelled, 409 if it runs or is over.
CancelArrives(m) ==
    /\ Arrives(m)
    /\ Authorized(m[1], m[3])
    /\ m[2] = "cancel"
    /\ \/ Ledger!Decide(m[1], "cancelled") /\ Replies(m[1], "cancelled")
       \/ UNCHANGED <<outcome, runs>> /\ Replies(m[1], "error")
    /\ UNCHANGED <<registryVars, pc, callVars, selectVars, endVars, created, work>>

Holds(c) == created[c] # None /\ host[created[c]] = "up"

TargetValid_NoTarget(c, h) == TRUE

\* ConnectorTargetGuard: the document of the selected descriptor is the target.
TargetValid(c, h) == instance[c].document # NoDocument /\ instance[c].document = document[h]

Performs(c) ==
    /\ Holds(c)
    /\ Idle(created[c])
    /\ TargetValid(c, created[c])
    /\ Ledger!Run(c)
    /\ work' = work \cup {<<c, created[c], document[created[c]]>>}
    /\ UNCHANGED <<registryVars, pc, callVars, selectVars, httpVars, endVars, created>>

Decides(c, o) ==
    /\ Holds(c)
    /\ o \in {"succeeded", "failed", "rejected", "expired"}
    /\ Ledger!Decide(c, o)
    /\ UNCHANGED <<registryVars, pc, callVars, selectVars, httpVars, endVars, created, work>>

\* Messages to a process that ends are lost, and it decides nothing any more.
HostStep(h) ==
    /\ \/ \E p \in Ports : Start(h, p)
       \/ Refresh(h) \/ Replace(h) \/ ReplaceRetried(h) \/ WriteFails(h)
       \/ \E d \in Documents \cup {NoDocument} : DocumentChanges(h, d)
       \/ Crash(h)
    /\ UNCHANGED clientVars

\* Dispose runs between two requests and cancels what is still open.
HostStops(h) ==
    LET open == {c \in Calls : created[c] = h /\ outcome[c] = "open"} IN
        /\ Stop(h)
        /\ Ledger!CancelAll(open)
        /\ UNCHANGED <<pc, callVars, selectVars, httpVars, endVars, created, work>>

-----------------------------------------------------------------------------

Next ==
    \/ \E h \in Hosts : HostStep(h) \/ HostStops(h)
    \/ \E c \in Calls, t \in Tools, f \in Filters : Begin(c, t, f)
    \/ \E c \in Calls : CallStep(c) \/ DeadlinePasses(c)
    \/ \E m \in wire : Refuses(m) \/ Serves(m) \/ Accepts(m) \/ Reports(m) \/ CancelArrives(m)
    \/ \E c \in Calls : Performs(c) \/ \E o \in Terminal : Decides(c, o)

Spec == Init /\ [][Next]_vars

\* The server is scheduled and time passes; a socket waits for ten seconds at
\* most.  Nothing is assumed of connectors but that they come to rest.
FairSpec ==
    /\ Spec
    /\ \A c \in Calls : WF_vars(CallStep(c)) /\ WF_vars(DeadlinePasses(c))
    /\ RegistryFairness
-----------------------------------------------------------------------------
(* Properties                                                              *)

\* A call is served by the process its descriptor names and by no other that
\* came to listen at the port; and a request runs in the document the agent
\* asked for, however old the descriptor was, as far as the host knows which
\* document is active (RunsOnTarget of Connector is about that).
RightTarget ==
    \A w \in work :
        LET c == w[1] IN
            /\ w[2] = instance[c].host
            /\ w[2] \in filter[c].hosts
            /\ tool[c] = "execute" => filter[c].document \in {AnyDocument, w[3]}

\* A status the agent is told is the one the connector gave the request, for
\* good: a cancellation that is only requested is not reported as one.
AnswerIsOutcome ==
    [][\A c \in Calls :
          answer[c] \in Terminal => outcome[c] = answer[c] /\ outcome'[c] = answer[c]]_vars

\* An error that left the POST as a RuntimeError means that no connector has
\* the request or will have it: the agent may try again.
ErrorMeansNoRequest ==
    \A c \in Calls :
        /\ pc[c] = "ended"
        /\ c \notin accepted
        /\ answer[c] \in {"unselected", "unplanned", "unavailable", "httpError"}
        => created[c] = None /\ ~\E h \in Hosts : <<c, "execute", h>> \in wire

\* The journal has the plan of a call before any connector works on it, and a
\* completion is never journalled for a call that was not served.
JournalCoversWork ==
    \A c \in Calls :
        LET served == \E w \in work : w[1] = c IN
            /\ served \/ created[c] # None => journal[c] # << >> /\ journal[c][1] = "planned"
            /\ Len(journal[c]) = 2 /\ journal[c][2] = "completed"
                  => created[c] # None \/ served

\* Every call is answered, also when hosts hang, crash or never finish.
EveryCallAnswered == \A c \in Calls : Working(c) ~> pc[c] = "ended"
=============================================================================
