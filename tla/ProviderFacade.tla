---------------------------- MODULE ProviderFacade ----------------------------
(***************************************************************************)
(* The provider operations of BimBridgeRuntime, version 1, on top of       *)
(* ProviderManager: invoke_provider classifies the tool, looks the         *)
(* provider up for its application, its release and its trust, journals    *)
(* the plan, invokes the tool and journals how that ended.  Each part is   *)
(* an operation of Providers with a reload of its own.                     *)
(***************************************************************************)
EXTENDS Providers

VARIABLES
    phase,   \* the part of a call that is under way, or how it ended
    asked,   \* what the MCP client asked for
    access,  \* the access in the schema of the tool
    record   \* history: durable audit events of the call

facadeVars == <<phase, asked, access, record>>
allVars == <<vars, facadeVars>>

\* Operations that are one of the manager's.
Direct == {"names", "probe", "schema"}

\* get is an operation of the manager that no tool of the server offers.
ASSUME ToolsAssumption == "get" \notin Operations

\* Running instances of the application among the descriptors.
Instances == {"none", "one", "several"}

FacadeInit ==
    /\ Init
    /\ phase = [c \in Calls |-> "idle"]
    /\ asked = [c \in Calls |-> "none"]
    /\ access = [c \in Calls |-> "none"]
    /\ record = [c \in Calls |-> << >>]

Serving(c) == phase[c] \notin {"idle", "returned", "raised"}

\* The stdio server reads its next line when the answer is written.
Serve(c, o) ==
    /\ \A d \in Calls : ~Serving(d)
    /\ phase[c] = "idle"
    /\ Begin(c, IF o \in Direct THEN o ELSE "schema")
    /\ phase' = [phase EXCEPT ![c] = IF o \in Direct THEN "direct" ELSE "schema"]
    /\ asked' = [asked EXCEPT ![c] = o]
    /\ UNCHANGED <<access, record>>

\* The schema names the access by which the look-up classified the tool.
ManagerStep(c) ==
    /\ CallStep(c)
    /\ access' = [access EXCEPT ![c] =
                    IF op[c] = "schema" /\ pc[c] = "lookup" /\ pc'[c] = "returned"
                    THEN Access(objects[child[c]].descriptor, objects[active].descriptor)
                    ELSE @]
    /\ UNCHANGED <<phase, asked, record>>

Ends(c, from, to) ==
    /\ phase[c] = from
    /\ phase' = [phase EXCEPT ![c] = to]
    /\ UNCHANGED <<vars, asked, access>>

DirectEnds(c) == pc[c] \in {"returned", "raised"} /\ Ends(c, "direct", pc[c]) /\ record' = record

\* The manager has returned; the call goes on with operation o.
Continues(c, from, to, o) ==
    /\ phase[c] = from
    /\ phase' = [phase EXCEPT ![c] = to]
    /\ Goes(c, "returned", "stat")
    /\ op' = [op EXCEPT ![c] = o]
    /\ stage' = [stage EXCEPT ![c] = 1]
    /\ UNCHANGED <<configVars, objects, procs, exited, seen, parsed, child, callVars, sent,
                   asked, access>>

Refused(c) == asked[c] = "read" /\ access[c] # "read"

Classified(c) ==
    /\ IF Refused(c) THEN pc[c] = "returned" /\ Ends(c, "schema", "raised")
       ELSE Continues(c, "schema", "application", "get")
    /\ record' = record

\* _provider_target; without an instance it looks up the release as well.
Targeted(c, n) ==
    /\ CASE n = "several" -> pc[c] = "returned" /\ Ends(c, "application", "raised")
         [] n = "one" -> Continues(c, "application", "trust", "get")
         [] n = "none" -> Continues(c, "application", "release", "get")
    /\ record' = record

Released(c) == Continues(c, "release", "trust", "get") /\ record' = record

Records(c, event) == record' = [record EXCEPT ![c] = Append(@, event)]

Planned_NotRecorded(c) == Continues(c, "trust", "invoke", asked[c]) /\ record' = record

Planned(c) == Continues(c, "trust", "invoke", asked[c]) /\ Records(c, "planned")

\* What the manager raises is journalled once there is a plan.
ManagerRaises(c) ==
    /\ pc[c] = "raised"
    /\ \/ Ends(c, "schema", "raised")
       \/ Ends(c, "application", "raised")
       \/ Ends(c, "release", "raised")
       \/ Ends(c, "trust", "raised")
       \/ Ends(c, "invoke", "failing")
    /\ record' = record

Invoked(c) == pc[c] = "returned" /\ Ends(c, "invoke", "completing") /\ record' = record

Completed(c) == Ends(c, "completing", "returned") /\ Records(c, "completed")

Failed(c) == Ends(c, "failing", "raised") /\ Records(c, "failed")

\* The sink of the audit trail raises.
RecordRaises(c) ==
    /\ \/ pc[c] = "returned" /\ Ends(c, "trust", "raised")
       \/ Ends(c, "completing", "raised")
       \/ Ends(c, "failing", "raised")
    /\ record' = record

FacadeStep(c) ==
    \/ ManagerStep(c)
    \/ DirectEnds(c) \/ Classified(c) \/ Released(c)
    \/ \E n \in Instances : Targeted(c, n)
    \/ Planned(c) \/ ManagerRaises(c) \/ Invoked(c) \/ Completed(c) \/ Failed(c)
    \/ RecordRaises(c)

FacadeNext ==
    \/ \E c \in Calls, o \in Operations : Serve(c, o)
    \/ \E c \in Calls : FacadeStep(c)
    \/ OthersStep /\ UNCHANGED facadeVars
    \/ (\A c \in Calls : ~Serving(c)) /\ Exit /\ UNCHANGED facadeVars

\* The server's thread is scheduled, its timeouts pass and a request fits into
\* the pipe, so that writing it does not block.  Nothing is assumed of the
\* processes and the readers.
FacadeSpec ==
    FacadeInit /\ [][FacadeNext]_allVars /\ \A c \in Calls : WF_allVars(FacadeStep(c))
-----------------------------------------------------------------------------
(* Properties                                                              *)

Work(c) == {e \in sent : e[1] = c}

\* architecture.md, principle 9: a possibly committed mutation is never retried
\* through a different provider.  Whatever generations and processes come and
\* go during a call, its tool is called at most once, and a preview never calls
\* it.
CalledAtMostOnce ==
    \A c \in Calls : Cardinality(Work(c)) <= IF asked[c] = "preview" THEN 0 ELSE 1

\* The journal knows of a tool call before the provider does.  What ends well
\* was planned, called unless it was a preview, and is on record; what was
\* refused before the plan was never called.
ProviderWorkOnRecord ==
    \A c \in Calls :
        /\ Work(c) # {} => record[c] # << >> /\ record[c][1] = "planned"
        /\ phase[c] = "returned" /\ asked[c] \notin Direct =>
              /\ record[c] = <<"planned", "completed">>
              /\ asked[c] = "preview" \/ Work(c) # {}

\* Every request is answered: each wait is bounded, also when the process is
\* gone and its reader with it (FacadeSpec).
OperationEnds == \A c \in Calls : Serving(c) ~> ~Serving(c)
=============================================================================
