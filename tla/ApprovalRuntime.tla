--------------------------- MODULE ApprovalRuntime ---------------------------
(***************************************************************************)
(* BimBridgeRuntime.prepare and execute for contract-v2 requests: routing, *)
(* adapter sessions, signed approval grants with one-time nonces, the      *)
(* audit events around a dispatch, the checks that read back what was      *)
(* done, and restarts of the runtime process.                              *)
(*                                                                         *)
(* A call is one invocation of prepare or execute on its own thread.  Its  *)
(* request, correlation id included, is a member of Contents.  Hashes and  *)
(* signatures are the values they are computed from.  X_Fault operators    *)
(* are faulty variants of X that no action uses.                           *)
(***************************************************************************)
EXTENDS Routing, Sequences, FiniteSets

CONSTANTS
    Calls,         \* invocations of prepare and execute
    Sessions,      \* session ids, each drawn once by uuid4
    Nonces,        \* nonces of grants, each drawn once by token_urlsafe
    Documents,     \* documents a target can name
    NoDocument,    \* the descriptor names no document
    Capabilities,  \* the definitions of the CapabilityRegistry
    Advertised,    \* host capabilities in the connector's descriptor
    Contents,      \* the requests adapters send, without approvalGrant
    None,          \* no request, approvalGrant, route or preferred provider
    MaxStarts      \* how often the runtime process is started

\* The definitions of default_registry for Revit.
DefaultRegistry ==
    LET connector == [id |-> 1, targeting |-> "document", trust |-> "local", priority |-> 10,
                      usable |-> TRUE, needs |-> {}]
        local(name, intents, risk) ==
            [name |-> name, intents |-> intents, risk |-> risk, supportsDryRun |-> FALSE,
             needs |-> {}, candidates |-> {connector}]
    IN  {local("document.info", {"read"}, "low"), local("selection.read", {"read"}, "low"),
         [local("view.capture", {"read"}, "low") EXCEPT !.needs = {"view.capture"}],
         local("code.read", {"read"}, "critical"), local("code.write", {"write"}, "critical")}

CapabilityType ==
    [name : STRING, intents : SUBSET {"read", "write"},
     risk : {"low", "medium", "high", "critical"},
     supportsDryRun : BOOLEAN, needs : SUBSET STRING, candidates : SUBSET CandidateType]

\* The operations of _execute_host_capability; Structured ones are answered by
\* a GET, whose errors raise.
Structured == {"document.info", "selection.read"}
Bindings == Structured \cup {"view.capture", "code.read", "code.write"}

Candidates == UNION {k.candidates : k \in Capabilities}

\* "exact": the target names instance, process and document.  "checks" are the
\* declared verification checks, "required" that they have to pass.
Requests ==
    [session : Sessions, capability : Capabilities, intent : {"read", "write"},
     document : Documents, exact : BOOLEAN, dryRun : BOOLEAN,
     preference : {k.id : k \in Candidates} \cup {None}, checks : Nat, required : BOOLEAN]

ASSUME CapabilitiesAssumption == Capabilities \subseteq CapabilityType
ASSUME ContentsAssumption == Contents \subseteq Requests /\ None \notin Contents \cup Candidates
ASSUME CandidatesAssumption ==
    /\ IsFiniteSet(Candidates)
    /\ \A a, b \in Candidates : a.id = b.id => a = b
ASSUME DocumentsAssumption == NoDocument \notin Documents
ASSUME StartsAssumption == MaxStarts \in Nat \ {0}

VARIABLES
    sessions,        \* SessionRegistry._sessions
    usedSessions,    \* sessions that were ever opened
    expiredSessions, \* sessions whose expires_at has passed
    secret,          \* ApprovalAuthority._secret, by process start
    challenged,      \* requests and effects whose decision was approval_required
    issued,          \* grants issued so far
    expiredGrants,   \* nonces of grants whose expiry has passed
    consumed,        \* ApprovalAuthority._consumed_nonces
    pc,              \* where each call is
    prepareOnly,     \* calls of prepare, the others are calls of execute
    request,         \* the request of each call
    grant,           \* its approvalGrant
    route,           \* RoutePlan.selected
    decision,        \* status of its policy decision
    checked,         \* the verification checks performed, whether they passed
    result,          \* status of its result
    late,            \* history: calls made after their session had ended
    described,       \* the document in the connector's descriptor
    host,            \* what the host does for each call
    journal          \* history: durable audit events of each call

sessionVars == <<sessions, usedSessions, expiredSessions>>
grantVars == <<secret, challenged, issued, expiredGrants, consumed>>
inputVars == <<prepareOnly, request, grant, late>>
outcomeVars == <<checked, result>>
callVars == <<inputVars, route, decision, outcomeVars>>
worldVars == <<described, host, journal>>
vars == <<sessionVars, grantVars, pc, callVars, worldVars>>

\* plan_effect for candidate k leaves the session, the verification and the
\* values of the arguments out.
Effect(r, k) == [capability |-> r.capability, provider |-> k.id, trust |-> k.trust,
                 intent |-> r.intent, document |-> r.document, exact |-> r.exact,
                 dryRun |-> r.dryRun]
Effects == {Effect(r, k) : r \in Contents, k \in Candidates}
GrantType == [nonce : Nonces, request : Contents, effect : Effects, secret : 1 .. MaxStarts]

Steps == {"target", "route", "session", "grant", "nonce", "prepared", "decided", "starting",
          "dispatch", "waiting", "verifying", "completing", "failing", "rejecting"}
Routed == {"session", "grant", "nonce", "prepared", "decided"}
Results == {"none", "rejected", "failed", "succeeded", "succeeded_unverified"}
Events == {"prepared", "started", "completed", "failed", "rejected"}

TypeOK ==
    /\ sessions \subseteq usedSessions
    /\ usedSessions \subseteq Sessions
    /\ expiredSessions \subseteq usedSessions
    /\ secret \in 1 .. MaxStarts
    /\ challenged \subseteq Contents \X Effects
    /\ issued \subseteq GrantType
    /\ expiredGrants \subseteq Nonces
    /\ consumed \subseteq Nonces
    /\ pc \in [Calls -> {"idle", "ended", "raised", "lost"} \cup Steps]
    /\ prepareOnly \subseteq Calls
    /\ request \in [Calls -> Contents \cup {None}]
    /\ \A c \in Calls : (pc[c] = "idle") <=> (request[c] = None)
    /\ grant \in [Calls -> issued \cup {None}]
    /\ \A c \in Calls : pc[c] = "nonce" => grant[c] # None
    /\ \A c \in Calls : pc[c] \in {"prepared", "decided"} => decision[c] # "none"
    /\ decision \in [Calls -> {"none", "allowed", "denied", "approval_required"}]
    /\ route \in [Calls -> Candidates \cup {None}]
    /\ \A c \in Calls : pc[c] \in Routed => route[c] # None
    /\ checked \in [Calls -> Seq(BOOLEAN)]
    /\ result \in [Calls -> Results]
    /\ late \subseteq Calls
    /\ described \in Documents \cup {NoDocument}
    /\ host \in [Calls -> {"none", "pending", "ran", "refused"}]
    /\ journal \in [Calls -> Seq(Events)]

Init ==
    /\ sessions = {}
    /\ usedSessions = {}
    /\ expiredSessions = {}
    /\ secret = 1
    /\ challenged = {}
    /\ issued = {}
    /\ expiredGrants = {}
    /\ consumed = {}
    /\ pc = [c \in Calls |-> "idle"]
    /\ prepareOnly = {}
    /\ request = [c \in Calls |-> None]
    /\ grant = [c \in Calls |-> None]
    /\ route = [c \in Calls |-> None]
    /\ decision = [c \in Calls |-> "none"]
    /\ checked = [c \in Calls |-> << >>]
    /\ result = [c \in Calls |-> "none"]
    /\ late = {}
    /\ described \in Documents \cup {NoDocument}
    /\ host = [c \in Calls |-> "none"]
    /\ journal = [c \in Calls |-> << >>]

-----------------------------------------------------------------------------
(* SessionRegistry and ApprovalAuthority outside of calls                  *)

Open(s) ==
    /\ s \notin usedSessions
    /\ sessions' = sessions \cup {s}
    /\ usedSessions' = usedSessions \cup {s}
    /\ UNCHANGED <<expiredSessions, grantVars, pc, callVars, worldVars>>

Close(s) ==
    /\ s \in sessions
    /\ sessions' = sessions \ {s}
    /\ UNCHANGED <<usedSessions, expiredSessions, grantVars, pc, callVars, worldVars>>

SessionExpires(s) ==
    /\ s \in sessions \ expiredSessions
    /\ expiredSessions' = expiredSessions \cup {s}
    /\ UNCHANGED <<sessions, usedSessions, grantVars, pc, callVars, worldVars>>

\* The approval presenter has a challenge signed for the request it showed.
Issue(n, r, e) ==
    /\ <<r, e>> \in challenged
    /\ \A g \in issued : g.nonce # n
    /\ issued' = issued \cup {[nonce |-> n, request |-> r, effect |-> e, secret |-> secret]}
    /\ UNCHANGED <<sessionVars, secret, challenged, expiredGrants, consumed, pc, callVars,
                   worldVars>>

GrantExpires(g) ==
    /\ g \in issued
    /\ g.nonce \notin expiredGrants
    /\ expiredGrants' = expiredGrants \cup {g.nonce}
    /\ UNCHANGED <<sessionVars, secret, challenged, issued, consumed, pc, callVars, worldVars>>

\* The user opens another document; the connector rewrites its descriptor.
DescriptorChanges(d) ==
    /\ d # described
    /\ described' = d
    /\ UNCHANGED <<sessionVars, grantVars, pc, callVars, host, journal>>

Running(c) == pc[c] \in Steps

\* The process dies with its sessions, its nonces and its threads; the next
\* one draws another secret.  Adapters keep the grants they hold.
Restart ==
    /\ secret < MaxStarts
    /\ secret' = secret + 1
    /\ sessions' = {}
    /\ consumed' = {}
    /\ pc' = [c \in Calls |-> IF Running(c) THEN "lost" ELSE pc[c]]
    /\ UNCHANGED <<usedSessions, expiredSessions, challenged, issued, expiredGrants, callVars,
                   worldVars>>

-----------------------------------------------------------------------------
(* prepare and execute                                                     *)

Ended(s) == s \notin sessions \/ s \in expiredSessions

Goes(c, from, to) ==
    /\ pc[c] = from
    /\ pc' = [pc EXCEPT ![c] = to]

\* AuditTrail.record appends to the journal; its sink may raise.
Records(c, event) == journal' = [journal EXCEPT ![c] = Append(@, event)]

Call(c, prepare, r, g) ==
    /\ r.session \in usedSessions
    /\ g \in issued \cup {None}
    /\ Goes(c, "idle", IF prepare THEN "route" ELSE "target")
    /\ prepareOnly' = IF prepare THEN prepareOnly \cup {c} ELSE prepareOnly
    /\ request' = [request EXCEPT ![c] = r]
    /\ grant' = [grant EXCEPT ![c] = g]
    /\ late' = IF Ended(r.session) THEN late \cup {c} ELSE late
    /\ UNCHANGED <<sessionVars, grantVars, route, decision, outcomeVars, worldVars>>

\* select_exact_target; a RuntimeError is answered as rejected.
SelectTarget(c) ==
    /\ Goes(c, "target", IF request[c].exact /\ request[c].document = described
                         THEN "route" ELSE "rejecting")
    /\ UNCHANGED <<sessionVars, grantVars, callVars, worldVars>>

\* What raises inside prepare leaves prepare, but is answered by execute.
Unprepared(c) == IF c \in prepareOnly THEN "raised" ELSE "rejecting"

Preferred(r, eligible) ==
    IF r.preference = None THEN eligible ELSE {k \in eligible : k.id = r.preference}

Route(c, candidates, available) ==
    LET r == request[c]
        eligible == Preferred(r, Eligible(candidates, available, r.intent, r.exact))
        routable == /\ r.intent \in r.capability.intents
                    /\ r.capability.needs \subseteq available
                    /\ eligible # {}
    IN
        /\ Goes(c, "route", IF routable THEN "session" ELSE Unprepared(c))
        /\ route' = [route EXCEPT ![c] = IF routable THEN First(eligible) ELSE @]
        /\ UNCHANGED <<sessionVars, grantVars, inputVars, decision, outcomeVars, worldVars>>

\* A dry run is allowed without a grant; execute rejects it later on.
NeedsGrant(r) == ~r.dryRun /\ r.capability.risk \in {"high", "critical"}
Denied(c) == request[c].intent = "write" /\ route[c].trust = "unknown"

ValidateSession_IgnoresExpiry(c) ==
    LET valid == request[c].session \in sessions
        asks == NeedsGrant(request[c])
    IN
        /\ Goes(c, "session", IF valid /\ ~Denied(c) /\ asks THEN "grant" ELSE "prepared")
        /\ decision' = [decision EXCEPT ![c] = IF ~valid \/ Denied(c) THEN "denied"
                                               ELSE IF asks THEN @ ELSE "allowed"]
        /\ UNCHANGED <<sessionVars, grantVars, inputVars, route, outcomeVars, worldVars>>

\* PolicyEngine.evaluate: the session first (an expired one is removed), then
\* the trust of the provider, then whether the risk asks for a grant.
ValidateSession(c) ==
    LET s == request[c].session
        refused == Ended(s) \/ Denied(c)
        asks == NeedsGrant(request[c])
    IN
        /\ Goes(c, "session", IF ~refused /\ asks THEN "grant" ELSE "prepared")
        /\ sessions' = IF s \in expiredSessions THEN sessions \ {s} ELSE sessions
        /\ decision' = [decision EXCEPT ![c] = IF refused THEN "denied"
                                               ELSE IF asks THEN @ ELSE "allowed"]
        /\ UNCHANGED <<usedSessions, expiredSessions, grantVars, inputVars, route, outcomeVars,
                       worldVars>>

Valid_AnyRequest(g, c) ==
    /\ g # None
    /\ g.secret = secret
    /\ g.effect = Effect(request[c], route[c])
    /\ g.nonce \notin expiredGrants

Valid_AnyEffect(g, c) ==
    /\ g # None
    /\ g.secret = secret
    /\ g.request = request[c]
    /\ g.nonce \notin expiredGrants

\* consume up to its lock: signature, request, effect and expiry.
Valid(g, c) ==
    /\ g # None
    /\ g.secret = secret
    /\ g.request = request[c]
    /\ g.effect = Effect(request[c], route[c])
    /\ g.nonce \notin expiredGrants

CheckGrant_NoDecision(c) ==
    LET valid == Valid(grant[c], c) IN
        /\ Goes(c, "grant", IF valid THEN "nonce" ELSE "prepared")
        /\ UNCHANGED <<sessionVars, grantVars, callVars, worldVars>>

CheckGrant(c) ==
    LET valid == Valid(grant[c], c) IN
        /\ Goes(c, "grant", IF valid THEN "nonce" ELSE "prepared")
        /\ decision' = [decision EXCEPT ![c] = IF valid THEN @ ELSE "approval_required"]
        /\ UNCHANGED <<sessionVars, grantVars, inputVars, route, outcomeVars, worldVars>>

ConsumeNonce_NotRemembered(c) ==
    LET fresh == grant[c].nonce \notin consumed IN
        /\ Goes(c, "nonce", "prepared")
        /\ decision' = [decision EXCEPT ![c] = IF fresh THEN "allowed" ELSE "approval_required"]
        /\ UNCHANGED <<sessionVars, grantVars, inputVars, route, outcomeVars, worldVars>>

ConsumeNonce(c) ==
    LET fresh == grant[c].nonce \notin consumed IN
        /\ Goes(c, "nonce", "prepared")
        /\ consumed' = consumed \cup {grant[c].nonce}
        /\ decision' = [decision EXCEPT ![c] = IF fresh THEN "allowed" ELSE "approval_required"]
        /\ UNCHANGED <<sessionVars, secret, challenged, issued, expiredGrants, inputVars,
                       route, outcomeVars, worldVars>>

\* prepare returns its decision to the presenter, execute goes on with it.
Prepared(c) ==
    /\ Goes(c, "prepared", IF c \in prepareOnly THEN "ended" ELSE "decided")
    /\ Records(c, "prepared")
    /\ challenged' = IF c \in prepareOnly /\ decision[c] = "approval_required"
                     THEN challenged \cup {<<request[c], Effect(request[c], route[c])>>}
                     ELSE challenged
    /\ UNCHANGED <<sessionVars, secret, issued, expiredGrants, consumed, callVars, described,
                   host>>

PreparedRaises(c) ==
    /\ Goes(c, "prepared", Unprepared(c))
    /\ UNCHANGED <<sessionVars, grantVars, callVars, worldVars>>

Decided(c) ==
    /\ Goes(c, "decided",
            IF decision[c] # "allowed"
               \/ (request[c].dryRun /\ ~request[c].capability.supportsDryRun)
            THEN "rejecting" ELSE "starting")
    /\ UNCHANGED <<sessionVars, grantVars, callVars, worldVars>>

Started_NotRecorded(c) ==
    /\ Goes(c, "starting", "dispatch")
    /\ UNCHANGED <<sessionVars, grantVars, callVars, worldVars>>

Started(c) ==
    /\ Goes(c, "starting", "dispatch")
    /\ Records(c, "started")
    /\ UNCHANGED <<sessionVars, grantVars, callVars, described, host>>

\* Whatever candidate was selected, the request goes to the connector of the
\* instance, if the connector has an operation for the capability.
Dispatch(c) ==
    /\ Goes(c, "dispatch", "waiting")
    /\ request[c].capability.name \in Bindings
    /\ host' = [host EXCEPT ![c] = "pending"]
    /\ UNCHANGED <<sessionVars, grantVars, callVars, described, journal>>

\* There is no such operation, its arguments are incomplete, or nothing listens at the
\* connector's url any more.
DispatchRaises(c) ==
    /\ Goes(c, "dispatch", "failing")
    /\ UNCHANGED <<sessionVars, grantVars, callVars, worldVars>>

\* The connector works on it or refuses it (rejected or expired), whoever
\* still waits for that.
HostWorks(c, how) ==
    /\ host[c] = "pending"
    /\ host' = [host EXCEPT ![c] = how]
    /\ UNCHANGED <<sessionVars, grantVars, pc, callVars, described, journal>>

\* verification_result: none declared or performed is inconclusive.
Passed_Vacuously(performed) == \A i \in 1 .. Len(performed) : performed[i]
Passed(performed) == performed # << >> /\ \A i \in 1 .. Len(performed) : performed[i]

\* normalize_execution_result of what the host reports.
Normalized(r, status, performed) ==
    IF status = "succeeded" /\ r.required /\ ~Passed(performed)
    THEN "succeeded_unverified" ELSE status

\* Only a success is verified.
Answer(c, status) ==
    /\ \/ host[c] = "ran" /\ status \in {"succeeded", "failed"}
       \/ host[c] = "refused" /\ status = "rejected"
    /\ request[c].capability.name \in Structured => status = "succeeded"
    /\ IF status = "succeeded" /\ request[c].checks > 0
       THEN Goes(c, "waiting", "verifying") /\ result' = result
       ELSE /\ Goes(c, "waiting", "completing")
            /\ result' = [result EXCEPT ![c] = Normalized(request[c], status, << >>)]
    /\ UNCHANGED <<sessionVars, grantVars, inputVars, route, decision, checked, worldVars>>

\* verify performs the next check, a GET of the connector.  It fails if the
\* value is another one, and if it is malformed or raises.
Check(c, passes) ==
    LET performed == Append(checked[c], passes)
        last == Len(performed) = request[c].checks
    IN
        /\ Goes(c, "verifying", IF last THEN "completing" ELSE "verifying")
        /\ checked' = [checked EXCEPT ![c] = performed]
        /\ result' = [result EXCEPT ![c] =
                        IF last THEN Normalized(request[c], "succeeded", performed) ELSE @]
        /\ UNCHANGED <<sessionVars, grantVars, inputVars, route, decision, worldVars>>

\* A timeout, a lost response or a connector that goes away.
AnswerRaises(c) ==
    /\ Goes(c, "waiting", "failing")
    /\ UNCHANGED <<sessionVars, grantVars, callVars, worldVars>>

Completed(c) ==
    /\ Goes(c, "completing", "ended")
    /\ Records(c, "completed")
    /\ UNCHANGED <<sessionVars, grantVars, callVars, described, host>>

\* The handler that catches what execution raised also catches this one.
CompletedRaises(c) ==
    /\ Goes(c, "completing", "failing")
    /\ UNCHANGED <<sessionVars, grantVars, callVars, worldVars>>

Failed_ReportsRejected(c) ==
    /\ Goes(c, "failing", "ended")
    /\ Records(c, "failed")
    /\ result' = [result EXCEPT ![c] = "rejected"]
    /\ UNCHANGED <<sessionVars, grantVars, inputVars, route, checked, decision, described,
                   host>>

Failed(c) ==
    /\ Goes(c, "failing", "ended")
    /\ Records(c, "failed")
    /\ result' = [result EXCEPT ![c] = "failed"]
    /\ UNCHANGED <<sessionVars, grantVars, inputVars, route, checked, decision, described,
                   host>>

Rejected(c) ==
    /\ Goes(c, "rejecting", "ended")
    /\ Records(c, "rejected")
    /\ result' = [result EXCEPT ![c] = "rejected"]
    /\ UNCHANGED <<sessionVars, grantVars, inputVars, route, checked, decision, described,
                   host>>

\* No handler is left for these: the exception reaches the transport.
RecordRaises(c) ==
    /\ \/ Goes(c, "starting", "raised")
       \/ Goes(c, "failing", "raised")
       \/ Goes(c, "rejecting", "raised")
    /\ UNCHANGED <<sessionVars, grantVars, callVars, worldVars>>

\* execute routes among the registered candidates with what the connector
\* advertises; a caller of prepare may pass others of either.
CallStep(c) ==
    \/ SelectTarget(c)
    \/ \E candidates \in SUBSET Candidates, available \in {{}, Advertised} :
            c \in prepareOnly /\ Route(c, candidates, available)
    \/ /\ c \notin prepareOnly /\ pc[c] = "route"
       /\ Route(c, request[c].capability.candidates, Advertised)
    \/ ValidateSession(c) \/ CheckGrant(c) \/ ConsumeNonce(c)
    \/ Prepared(c) \/ PreparedRaises(c) \/ Decided(c) \/ Started(c) \/ Dispatch(c)
    \/ DispatchRaises(c)
    \/ \E status \in Results : Answer(c, status)
    \/ \E passes \in BOOLEAN : Check(c, passes)
    \/ AnswerRaises(c) \/ Completed(c) \/ CompletedRaises(c)
    \/ Failed(c) \/ Rejected(c) \/ RecordRaises(c)

Next ==
    \/ \E s \in Sessions : Open(s) \/ Close(s) \/ SessionExpires(s)
    \/ \E n \in Nonces : \E ch \in challenged : Issue(n, ch[1], ch[2])
    \/ \E g \in issued : GrantExpires(g)
    \/ \E d \in Documents \cup {NoDocument} : DescriptorChanges(d)
    \/ Restart
    \/ \E c \in Calls, prepare \in BOOLEAN, r \in Contents, g \in issued \cup {None} :
            Call(c, prepare, r, g)
    \/ \E c \in Calls : CallStep(c)
    \/ \E c \in Calls, how \in {"ran", "refused"} : HostWorks(c, how)

Spec == Init /\ [][Next]_vars
-----------------------------------------------------------------------------
(* Properties                                                              *)

Reached(c) == host[c] # "none"

\* However calls interleave and processes restart, a grant takes one critical
\* request to the host at most (architecture.md: "scoped to one request").
ApprovedOnce ==
    \A c1, c2 \in Calls :
        /\ Reached(c1) /\ NeedsGrant(request[c1])
        /\ Reached(c2) /\ NeedsGrant(request[c2])
        /\ grant[c1] = grant[c2]
        => c1 = c2

\* A critical request reaches the host only with a grant that was issued for
\* exactly this request and for the provider it is now routed to: what the
\* presenter showed is what happens, although prepare and execute route at
\* different times and among different candidates.
OnlyApprovedReachHost ==
    \A c \in Calls :
        Reached(c) /\ NeedsGrant(request[c]) =>
            /\ grant[c] \in issued
            /\ grant[c].request = request[c]
            /\ grant[c].effect = Effect(request[c], route[c])

\* No grant and no restart revives a session: a call made after its session
\* was closed, expired or lost with its process never reaches the host.
EndedSessionNeverReachesHost == \A c \in late : ~Reached(c)

\* An adapter may send a rejected request again: no work was done for it, and
\* none will be.
RejectedMeansNoWork ==
    \A c \in Calls :
        pc[c] = "ended" /\ result[c] = "rejected" => host[c] \in {"none", "refused"}

\* What reached the host left its preparation and its start in the journal
\* before; and the last event of a finished execute tells whether the host was
\* contacted: never a rejection if it was, never a completion if it was not,
\* also when the journal failed in between.
EvidenceOfEveryEffect ==
    \A c \in Calls :
        /\ Reached(c) =>
              Len(journal[c]) >= 2 /\ journal[c][1] = "prepared" /\ journal[c][2] = "started"
        /\ pc[c] = "ended" /\ c \notin prepareOnly =>
              IF Reached(c) THEN journal[c][Len(journal[c])] \in {"completed", "failed"}
              ELSE journal[c][Len(journal[c])] \in {"failed", "rejected"}

\* A required verification that is reported as succeeded has read back every
\* declared check, after the work: nothing declared, a check that raised or a
\* host that refused never count (architecture.md: "fail-closed").
VerifiedMeansReadBack ==
    \A c \in Calls :
        /\ checked[c] # << >> => host[c] = "ran"
        /\ pc[c] = "ended" /\ result[c] = "succeeded" =>
              /\ host[c] = "ran"
              /\ request[c].required =>
                    /\ request[c].checks > 0 /\ Len(checked[c]) = request[c].checks
                    /\ \A i \in 1 .. Len(checked[c]) : checked[c][i]
=============================================================================
