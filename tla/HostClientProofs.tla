---------------------------- MODULE HostClientProofs ----------------------------
(***************************************************************************)
(* Proofs about HostClient, for any number of hosts, ports, documents,     *)
(* filters and calls.                                                      *)
(*                                                                         *)
(* None of the properties is inductive.  That the right process serves a   *)
(* call needs that a message still on its way is sent under the descriptor *)
(* that was selected; that an error means no request needs that no POST is *)
(* on its way any more; and that a status is true for good needs that it   *)
(* was read from the ledger after the request was decided.  IInv says so   *)
(* of each call by itself, since no call looks at another one, and a step  *)
(* changes one call (ClientStep) or only decides requests (SameCall).      *)
(***************************************************************************)
EXTENDS HostClient, FiniteSetTheorems, SequenceTheorems, TLAPS

-----------------------------------------------------------------------------
(* The inductive invariant: what is true of each call                      *)

Early == {"idle", "list", "read", "plan"}
Asking == Verbs \cup Waits \cup {"loop"}
Retriable == {"unselected", "unplanned", "unavailable", "httpError"}

Served(c) == \E w \in work : w[1] = c

\* No connector has a request of c or will get one.
Fresh(c) == created[c] = None /\ \A m \in wire : m[1] = c => m[2] # "execute"

\* No connector has heard of c.
Untouched(c) ==
    /\ created[c] = None /\ c \notin accepted /\ reply[c] = None
    /\ \A m \in wire : m[1] # c
    /\ ~Served(c)

\* The descriptor that was selected matches the filter.
SelectInv(c) ==
    /\ \A d \in matches[c] : Matching(filter[c], d)
    /\ pc[c] \in {"idle", "list"} => matches[c] = {}
    /\ pc[c] \in {"idle", "list", "read"} => instance[c] = None
    /\ pc[c] \in {"plan"} \cup Asking => instance[c] # None
    /\ instance[c] # None => Matching(filter[c], instance[c])

\* A call has one message on its way at most, and no answer to another one.
WireInv(c) ==
    /\ \A m \in wire :
          m[1] = c =>
             /\ instance[c] # None /\ reply[c] = None
             /\ pc[c] \in Waits \cup {"record", "ended"}
             /\ pc[c] \in Waits => pc[c] = Waiting(m[2])
             /\ tool[c] = "get" <=> m[2] = "get"
             /\ m[2] = "execute" => created[c] = None /\ c \notin accepted
    /\ \A m, n \in wire : m[1] = c /\ n[1] = c => m = n

\* An answer is to the request the call waits for, and tells what happened.
ReplyInv(c) ==
    /\ reply[c] # None => pc[c] \in Waits
    /\ reply[c] = "value" => pc[c] = "getting" /\ Served(c)
    /\ reply[c] = "id" => pc[c] = "executing" /\ created[c] # None
    /\ reply[c] = "error" /\ pc[c] = "executing" => created[c] = None
    /\ reply[c] = "open" => pc[c] = "polling"
    /\ reply[c] \in Terminal => pc[c] \in {"polling", "cancelling"} /\ outcome[c] = reply[c]

\* Where a call is and what its connector has.
PhaseInv(c) ==
    /\ pc[c] \in Early \cup {"get", "execute"} => Untouched(c)
    /\ pc[c] \in {"get", "getting"} => tool[c] = "get"
    /\ pc[c] \in {"execute", "executing", "loop", "poll", "polling", "cancel", "cancelling"}
          => tool[c] = "execute"
    /\ pc[c] \in {"loop", "poll", "polling", "cancel", "cancelling"} => c \in accepted
    /\ pc[c] = "executing" => c \notin accepted
    /\ tool[c] = "get" => created[c] = None
    /\ created[c] # None => instance[c] # None /\ created[c] = instance[c].host
    /\ outcome[c] # "refused"

\* What a call is about to say, and what it said.
EndInv(c) ==
    /\ pc[c] = "record" =>
          /\ ending[c] \in Errors \cup {"value"} \cup Terminal
          /\ ending[c] = "value" => Served(c)
          /\ ending[c] \in Terminal => outcome[c] = ending[c] /\ created[c] # None
          /\ c \notin accepted /\ ending[c] \in Retriable => Fresh(c)
    /\ pc[c] = "ended" /\ c \notin accepted /\ answer[c] \in Retriable => Fresh(c)
    /\ answer[c] \in Terminal => outcome[c] = answer[c]

JournalInv(c) ==
    LET n == Len(journal[c]) IN
        /\ n \in 0 .. 2
        /\ n > 0 => journal[c][1] = "planned"
        /\ pc[c] \in Early => n = 0
        /\ pc[c] \in {"record"} \cup Asking => n = 1
        /\ pc[c] = "ended" /\ n = 0 => Untouched(c)
        /\ n = 2 => pc[c] = "ended" /\ (journal[c][2] = "completed"
                                        => created[c] # None \/ Served(c))

TargetInv(c) ==
    \A w \in work :
        w[1] = c =>
            /\ w[2] = instance[c].host
            /\ w[2] \in filter[c].hosts
            /\ tool[c] = "execute" => filter[c].document \in {AnyDocument, w[3]}

CallInv(c) ==
    /\ SelectInv(c) /\ WireInv(c) /\ ReplyInv(c) /\ PhaseInv(c) /\ EndInv(c)
    /\ JournalInv(c) /\ TargetInv(c)

\* Only a process that runs writes its descriptor.
WritingInv == \A h \in Hosts : writing[h] # NoFile => host[h] \in {"starting", "up"}

IInv == TypeOK /\ WritingInv /\ \A c \in Calls : CallInv(c)

-----------------------------------------------------------------------------
(* What a step leaves alone                                                *)

Functions ==
    /\ pc \in [Calls -> {"idle", "ended"} \cup Steps]
    /\ tool \in [Calls -> {"get", "execute"}]
    /\ filter \in [Calls -> FilterType]
    /\ unread \in [Calls -> SUBSET Hosts]
    /\ matches \in [Calls -> SUBSET Descriptors]
    /\ instance \in [Calls -> Descriptors \cup {None}]
    /\ created \in [Calls -> Hosts \cup {None}]
    /\ reply \in [Calls -> Responses \cup {None}]
    /\ ending \in [Calls -> Answers]
    /\ answer \in [Calls -> Answers]
    /\ journal \in [Calls -> Seq({"planned", "completed", "failed"})]
    /\ outcome \in [Calls -> {"open"} \cup Ledger!Outcomes]
    /\ runs \in [Calls -> Nat]

Rest ==
    /\ \A c, k \in Calls : Working(c) /\ Working(k) => c = k
    /\ accepted \subseteq {c \in Calls : created[c] # None}
    /\ overdue \subseteq accepted
    /\ wire \subseteq Calls \X Verbs \X Hosts
    /\ \A c \in Calls : pc[c] = "ended" <=> answer[c] # "none"
    /\ work \subseteq Calls \X Hosts \X (Documents \cup {NoDocument})

LEMMA FunctionsTyped == TypeOK => RegistryTypeOK /\ Functions /\ Rest
BY DEF TypeOK, Functions, Rest

\* Nothing happens to call d but that its request may be decided.
SameCall(d) ==
    /\ pc'[d] = pc[d] /\ tool'[d] = tool[d] /\ filter'[d] = filter[d]
    /\ matches'[d] = matches[d] /\ instance'[d] = instance[d] /\ created'[d] = created[d]
    /\ reply'[d] = reply[d] /\ ending'[d] = ending[d] /\ answer'[d] = answer[d]
    /\ journal'[d] = journal[d]
    /\ d \in accepted' <=> d \in accepted
    /\ outcome'[d] = outcome[d] \/ (outcome[d] = "open" /\ outcome'[d] \in Terminal)
    /\ {m \in wire' : m[1] = d} = {m \in wire : m[1] = d}
    /\ {w \in work' : w[1] = d} = {w \in work : w[1] = d}

OnlyCall(c) == \A d \in Calls \ {c} : SameCall(d)

\* Then all that is known of d stays true: the outcome matters to d only once
\* the request is decided.
LEMMA SameCallStep ==
    ASSUME NEW d \in Calls, CallInv(d), SameCall(d)
    PROVE  CallInv(d)'
<1>1. /\ \A m \in wire' : m[1] = d => m \in wire
      /\ \A m \in wire : m[1] = d => m \in wire'
      /\ \A w \in work' : w[1] = d => w \in work
      /\ \A w \in work : w[1] = d => w \in work'
  BY DEF SameCall
<1>2. (Served(d)' <=> Served(d)) /\ (Fresh(d)' <=> Fresh(d)) /\ (Untouched(d)' <=> Untouched(d))
  BY <1>1 DEF SameCall, Served, Fresh, Untouched
<1>3. SelectInv(d)'
  BY DEF CallInv, SameCall, SelectInv, Matching
<1>4. WireInv(d)'
  BY <1>1 DEF CallInv, SameCall, WireInv
<1>5. ReplyInv(d)'
  BY <1>2 DEF CallInv, SameCall, ReplyInv, Terminal, Ledger!Outcomes
<1>6. PhaseInv(d)'
  BY <1>2 DEF CallInv, SameCall, PhaseInv, Terminal
<1>7. EndInv(d)'
  BY <1>2 DEF CallInv, SameCall, EndInv, Terminal, Ledger!Outcomes
<1>8. JournalInv(d)'
  BY <1>2 DEF CallInv, SameCall, JournalInv
<1>9. TargetInv(d)'
  BY <1>1 DEF CallInv, SameCall, TargetInv
<1> QED BY <1>3, <1>4, <1>5, <1>6, <1>7, <1>8, <1>9 DEF CallInv

\* A step of call c, or of a connector on it, that keeps what is known of c.
ClientStep(c) == OnlyCall(c) /\ CallInv(c)' /\ Functions' /\ Rest' /\ UNCHANGED registryVars

-----------------------------------------------------------------------------
(* The steps of a call                                                     *)

\* The groups of variables, the sets of program counters, and the parts of the
\* invariant are expanded in every step of this section.
USE DEF Goes, callVars, selectVars, httpVars, endVars, connectorVars,
        Early, Asking, Verbs, Waits, Served, Untouched, CallInv, Functions

LEMMA BeginStep ==
    ASSUME IInv, NEW c \in Calls, NEW t \in Tools, NEW f \in Filters, Begin(c, t, f)
    PROVE  ClientStep(c)
<1>1. Functions /\ Rest /\ CallInv(c)
  BY FunctionsTyped DEF IInv
<1>2. OnlyCall(c)
  BY <1>1 DEF OnlyCall, SameCall, Begin
<1>3. SelectInv(c)'
  BY <1>1 DEF SelectInv, Matching, Begin
<1>4. WireInv(c)'
  BY <1>1 DEF WireInv, Begin
<1>5. ReplyInv(c)'
  BY <1>1 DEF ReplyInv, Begin, Terminal, Ledger!Outcomes
<1>6. PhaseInv(c)'
  BY <1>1 DEF PhaseInv, Begin
<1>7. EndInv(c)'
  BY <1>1 DEF EndInv, Fresh, PhaseInv, Begin, Terminal, Ledger!Outcomes, Errors, Retriable
<1>8. JournalInv(c)'
  BY <1>1 DEF JournalInv, PhaseInv, Begin
<1>9. TargetInv(c)'
  BY <1>1 DEF TargetInv, PhaseInv, Begin
<1>10. Functions'
  BY <1>1, ToolsAssumption, FiltersAssumption DEF Begin, Steps
<1>11. Rest'
  BY <1>1 DEF Rest, Begin, Working, Steps, Errors
<1>12. UNCHANGED registryVars
  BY DEF Begin
<1> QED BY <1>2, <1>3, <1>4, <1>5, <1>6, <1>7, <1>8, <1>9, <1>10, <1>11, <1>12 DEF ClientStep

LEMMA ListStep ==
    ASSUME IInv, NEW c \in Calls, List(c)
    PROVE  ClientStep(c)
<1>1. Functions /\ Rest /\ CallInv(c)
  BY FunctionsTyped DEF IInv
<1>2. OnlyCall(c)
  BY <1>1 DEF OnlyCall, SameCall, List
<1>3. SelectInv(c)'
  BY <1>1 DEF SelectInv, Matching, List
<1>4. WireInv(c)'
  BY <1>1 DEF WireInv, List
<1>5. ReplyInv(c)'
  BY <1>1 DEF ReplyInv, List, Terminal, Ledger!Outcomes
<1>6. PhaseInv(c)'
  BY <1>1 DEF PhaseInv, List
<1>7. EndInv(c)'
  BY <1>1 DEF EndInv, Fresh, PhaseInv, List, Terminal, Ledger!Outcomes, Errors, Retriable
<1>8. JournalInv(c)'
  BY <1>1 DEF JournalInv, PhaseInv, List
<1>9. TargetInv(c)'
  BY <1>1 DEF TargetInv, List
<1>10. Functions'
  BY <1>1 DEF List, Steps, Answers, Errors, Responses, Terminal, Ledger!Outcomes
<1>11. Rest'
  BY <1>1 DEF Rest, List, Working, Steps, Errors
<1>12. UNCHANGED registryVars
  BY DEF List
<1> QED BY <1>2, <1>3, <1>4, <1>5, <1>6, <1>7, <1>8, <1>9, <1>10, <1>11, <1>12 DEF ClientStep

LEMMA ReadFileStep ==
    ASSUME IInv, NEW c \in Calls, NEW h \in Hosts, ReadFile(c, h)
    PROVE  ClientStep(c)
<1>1. Functions /\ Rest /\ CallInv(c) /\ RegistryTypeOK
  BY FunctionsTyped DEF IInv
<1>2. OnlyCall(c)
  BY <1>1 DEF OnlyCall, SameCall, ReadFile
<1>3. SelectInv(c)'
  BY <1>1 DEF SelectInv, Matching, ReadFile
<1>4. WireInv(c)'
  BY <1>1 DEF WireInv, ReadFile
<1>5. ReplyInv(c)'
  BY <1>1 DEF ReplyInv, ReadFile, Terminal, Ledger!Outcomes
<1>6. PhaseInv(c)'
  BY <1>1 DEF PhaseInv, ReadFile
<1>7. EndInv(c)'
  BY <1>1 DEF EndInv, Fresh, PhaseInv, ReadFile, Terminal, Ledger!Outcomes, Errors, Retriable
<1>8. JournalInv(c)'
  BY <1>1 DEF JournalInv, PhaseInv, ReadFile
<1>9. TargetInv(c)'
  BY <1>1 DEF TargetInv, ReadFile
<1>10. file[h] # NoFile => file[h] \in Descriptors
  BY <1>1 DEF RegistryTypeOK
<1>11. Functions'
  BY <1>1, <1>10 DEF ReadFile, Steps
<1>12. Rest'
  BY <1>1 DEF Rest, ReadFile, Working, Steps, Errors
<1>13. UNCHANGED registryVars
  BY DEF ReadFile
<1> QED BY <1>2, <1>3, <1>4, <1>5, <1>6, <1>7, <1>8, <1>9, <1>11, <1>12, <1>13 DEF ClientStep

LEMMA ReadFileFailsStep ==
    ASSUME IInv, NEW c \in Calls, NEW h \in Hosts, ReadFileFails(c, h)
    PROVE  ClientStep(c)
<1>1. Functions /\ Rest /\ CallInv(c)
  BY FunctionsTyped DEF IInv
<1>2. OnlyCall(c)
  BY <1>1 DEF OnlyCall, SameCall, ReadFileFails
<1>3. SelectInv(c)'
  BY <1>1 DEF SelectInv, Matching, ReadFileFails
<1>4. WireInv(c)'
  BY <1>1 DEF WireInv, ReadFileFails
<1>5. ReplyInv(c)'
  BY <1>1 DEF ReplyInv, ReadFileFails, Terminal, Ledger!Outcomes
<1>6. PhaseInv(c)'
  BY <1>1 DEF PhaseInv, ReadFileFails
<1>7. EndInv(c)'
  BY <1>1 DEF EndInv, Fresh, PhaseInv, ReadFileFails, Terminal, Ledger!Outcomes, Errors, Retriable
<1>8. JournalInv(c)'
  BY <1>1 DEF JournalInv, PhaseInv, ReadFileFails
<1>9. TargetInv(c)'
  BY <1>1 DEF TargetInv, ReadFileFails
<1>10. Functions'
  BY <1>1 DEF ReadFileFails, Steps, Answers, Errors, Responses, Terminal, Ledger!Outcomes
<1>11. Rest'
  BY <1>1 DEF Rest, ReadFileFails, Working, Steps, Errors
<1>12. UNCHANGED registryVars
  BY DEF ReadFileFails
<1> QED BY <1>2, <1>3, <1>4, <1>5, <1>6, <1>7, <1>8, <1>9, <1>10, <1>11, <1>12 DEF ClientStep

LEMMA SelectStep ==
    ASSUME IInv, NEW c \in Calls, Select(c)
    PROVE  ClientStep(c)
<1>1. Functions /\ Rest /\ CallInv(c)
  BY FunctionsTyped DEF IInv
<1>2. OnlyCall(c)
  BY <1>1 DEF OnlyCall, SameCall, Select, Tells
<1>3. /\ pc'[c] = "plan" => instance'[c] \in matches[c]
      /\ pc'[c] # "plan" => instance' = instance
  <2>1. Cardinality(matches[c]) = 1 => matches[c] # {}
    BY FS_EmptySet
  <2> QED BY <1>1, <2>1 DEF Select
<1>4. SelectInv(c)'
  BY <1>1, <1>3, AbsentAssumption DEF SelectInv, Matching, Select, Tells
<1>5. WireInv(c)'
  BY <1>1, <1>3 DEF WireInv, Select, Tells
<1>6. ReplyInv(c)'
  BY <1>1, <1>3 DEF ReplyInv, Select, Tells, Terminal, Ledger!Outcomes
<1>7. PhaseInv(c)'
  BY <1>1, <1>3 DEF PhaseInv, Select, Tells
<1>8. EndInv(c)'
  BY <1>1, <1>3 DEF
      EndInv, Fresh, PhaseInv, Select, Tells, Terminal, Ledger!Outcomes, Errors, Retriable
<1>9. JournalInv(c)'
  BY <1>1, <1>3 DEF JournalInv, PhaseInv, Select, Tells
<1>10. TargetInv(c)'
  BY <1>1, <1>3 DEF TargetInv, PhaseInv, Select, Tells
<1>11. instance' \in [Calls -> Descriptors \cup {None}]
  BY <1>1, <1>3 DEF Select
<1>12. /\ pc[c] = "read"
       /\ \/ pc' = [pc EXCEPT ![c] = "plan"] /\ answer' = answer
          \/ pc' = [pc EXCEPT ![c] = "ended"] /\ answer' = [answer EXCEPT ![c] = "unselected"]
       /\ UNCHANGED <<callVars, unread, matches, httpVars, ending, journal, connectorVars>>
  BY <1>1 DEF Select, Tells
<1>13. Functions'
  <2>1. CASE answer' = answer
    BY <1>1, <1>11, <1>12, <2>1 DEF Steps
  <2>2. CASE answer' = [answer EXCEPT ![c] = "unselected"]
    BY <1>1, <1>11, <1>12, <2>2 DEF Steps, Answers, Errors
  <2> QED BY <1>12, <2>1, <2>2
<1>14. Rest'
  <2>1. CASE pc' = [pc EXCEPT ![c] = "plan"] /\ answer' = answer
    BY <1>1, <1>12, <2>1 DEF Rest, Working, Steps
  <2>2. CASE pc' = [pc EXCEPT ![c] = "ended"] /\ answer' = [answer EXCEPT ![c] = "unselected"]
    BY <1>1, <1>12, <2>2 DEF Rest, Working, Steps
  <2> QED BY <1>12, <2>1, <2>2
<1>15. UNCHANGED registryVars
  BY DEF Select
<1> QED BY <1>2, <1>4, <1>5, <1>6, <1>7, <1>8, <1>9, <1>10, <1>13, <1>14, <1>15 DEF ClientStep

LEMMA PlannedStep ==
    ASSUME IInv, NEW c \in Calls, Planned(c)
    PROVE  ClientStep(c)
<1>1. Functions /\ Rest /\ CallInv(c)
  BY FunctionsTyped DEF IInv
<1>2. OnlyCall(c)
  BY <1>1 DEF OnlyCall, SameCall, Planned, Records
<1>3. /\ Len(journal'[c]) = Len(journal[c]) + 1 /\ Len(journal[c]) \in Nat
      /\ \A i \in 1 .. Len(journal[c]) : journal'[c][i] = journal[c][i]
      /\ journal'[c][Len(journal[c]) + 1] = "planned"
  BY <1>1, LenProperties, AppendProperties DEF Planned, Records
<1>4. SelectInv(c)'
  BY <1>1 DEF SelectInv, Matching, Planned, Records
<1>5. WireInv(c)'
  BY <1>1 DEF WireInv, Planned, Records
<1>6. ReplyInv(c)'
  BY <1>1 DEF ReplyInv, Planned, Records, Terminal, Ledger!Outcomes
<1>7. PhaseInv(c)'
  BY <1>1 DEF PhaseInv, Planned, Records
<1>8. EndInv(c)'
  BY <1>1 DEF
      EndInv, Fresh, PhaseInv, Planned, Records, Terminal, Ledger!Outcomes, Errors, Retriable
<1>9. Len(journal[c]) = 0
  BY <1>1 DEF JournalInv, Planned
<1>10. Len(journal'[c]) = 1 /\ journal'[c][1] = "planned"
  BY <1>3, <1>9
<1>11. pc'[c] \in Verbs
  BY <1>1 DEF Planned
<1>12. JournalInv(c)'
  BY <1>10, <1>11 DEF JournalInv
<1>13. TargetInv(c)'
  BY <1>1 DEF TargetInv, Planned, Records
<1>14. Functions'
  BY <1>1 DEF Planned, Records, Steps, Answers, Errors, Responses, Terminal, Ledger!Outcomes
<1>15. Rest'
  BY <1>1 DEF Rest, Planned, Records, Working, Steps, Errors
<1>16. UNCHANGED registryVars
  BY DEF Planned
<1> QED BY <1>2, <1>4, <1>5, <1>6, <1>7, <1>8, <1>12, <1>13, <1>14, <1>15, <1>16 DEF ClientStep

LEMMA PlanFailsStep ==
    ASSUME IInv, NEW c \in Calls, NEW a \in Errors, PlanFails(c, a)
    PROVE  ClientStep(c)
<1>1. Functions /\ Rest /\ CallInv(c)
  BY FunctionsTyped DEF IInv
<1>2. OnlyCall(c)
  BY <1>1 DEF OnlyCall, SameCall, PlanFails, Tells
<1>3. SelectInv(c)'
  BY <1>1 DEF SelectInv, Matching, PlanFails, Tells
<1>4. WireInv(c)'
  BY <1>1 DEF WireInv, PlanFails, Tells
<1>5. ReplyInv(c)'
  BY <1>1 DEF ReplyInv, PlanFails, Tells, Terminal, Ledger!Outcomes
<1>6. PhaseInv(c)'
  BY <1>1 DEF PhaseInv, PlanFails, Tells
<1>7. EndInv(c)'
  BY <1>1 DEF
      EndInv, Fresh, PhaseInv, PlanFails, Tells, Terminal, Ledger!Outcomes, Errors, Retriable
<1>8. JournalInv(c)'
  BY <1>1 DEF JournalInv, PhaseInv, PlanFails, Tells
<1>9. TargetInv(c)'
  BY <1>1 DEF TargetInv, PlanFails, Tells
<1>10. Functions'
  BY <1>1 DEF PlanFails, Tells, Steps, Answers, Errors, Responses, Terminal, Ledger!Outcomes
<1>11. Rest'
  BY <1>1 DEF Rest, PlanFails, Tells, Working, Steps, Errors
<1>12. UNCHANGED registryVars
  BY DEF PlanFails
<1> QED BY <1>2, <1>3, <1>4, <1>5, <1>6, <1>7, <1>8, <1>9, <1>10, <1>11, <1>12 DEF ClientStep

LEMMA ConnectsStep ==
    ASSUME IInv, NEW c \in Calls, NEW verb \in Verbs, Connects(c, verb)
    PROVE  ClientStep(c)
<1>1. Functions /\ Rest /\ CallInv(c)
  BY FunctionsTyped DEF IInv
<1>2. OnlyCall(c)
  BY <1>1 DEF OnlyCall, SameCall, Connects
<1>3. /\ Waiting(verb) \in Waits
      /\ (Waiting(verb) = "getting" <=> verb = "get")
      /\ (Waiting(verb) = "executing" <=> verb = "execute")
      /\ (Waiting(verb) = "polling" <=> verb = "poll")
      /\ (Waiting(verb) = "cancelling" <=> verb = "cancel")
  BY DEF Waiting
<1>4. SelectInv(c)'
  BY <1>1, <1>3 DEF SelectInv, Matching, Connects
<1>5. WireInv(c)'
  <2>1. PICK h \in Hosts : wire' = wire \cup {<<c, verb, h>>}
    BY DEF Connects
  <2>2. /\ pc[c] = verb /\ pc'[c] = Waiting(verb)
        /\ UNCHANGED <<tool, instance, reply, created, accepted>>
    BY <1>1 DEF Connects
  <2>3. \A m \in wire : m[1] # c
    BY <1>1, <2>2 DEF WireInv
  <2>4. instance[c] # None /\ (tool[c] = "get" <=> verb = "get")
    BY <1>1, <2>2 DEF SelectInv, PhaseInv
  <2>5. reply[c] = None /\ (verb = "execute" => created[c] = None /\ c \notin accepted)
    BY <1>1, <2>2 DEF ReplyInv, PhaseInv
  <2>6. ASSUME NEW m \in wire', m[1] = c PROVE m = <<c, verb, h>>
    BY <2>1, <2>3, <2>6
  <2>7. ASSUME NEW m \in wire', m[1] = c
        PROVE  /\ instance'[c] # None /\ reply'[c] = None
               /\ pc'[c] \in Waits \cup {"record", "ended"}
               /\ pc'[c] \in Waits => pc'[c] = Waiting(m[2])
               /\ tool'[c] = "get" <=> m[2] = "get"
               /\ m[2] = "execute" => created'[c] = None /\ c \notin accepted'
    <3>1. m[2] = verb
      BY <2>6, <2>7
    <3> QED BY <1>3, <2>2, <2>4, <2>5, <3>1
  <2> QED BY <2>6, <2>7 DEF WireInv
<1>6. ReplyInv(c)'
  <2>1. pc[c] = verb /\ UNCHANGED <<reply, outcome, work, created>>
    BY DEF Connects
  <2>2. reply[c] = None
    BY <1>1, <2>1 DEF ReplyInv
  <2> QED BY <2>1, <2>2, NoneAssumption DEF ReplyInv, Responses
<1>7. PhaseInv(c)'
  BY <1>1, <1>3 DEF PhaseInv, Connects
<1>8. EndInv(c)'
  BY <1>1, <1>3 DEF
      EndInv, Fresh, PhaseInv, Connects, Terminal, Ledger!Outcomes, Errors, Retriable
<1>9. JournalInv(c)'
  BY <1>1, <1>3 DEF JournalInv, PhaseInv, Connects
<1>10. TargetInv(c)'
  BY <1>1, <1>3 DEF TargetInv, Connects
<1>11. /\ pc[c] = verb /\ pc' = [pc EXCEPT ![c] = Waiting(verb)]
       /\ UNCHANGED <<callVars, selectVars, reply, endVars, connectorVars>>
  BY DEF Connects
<1>12. PICK h \in Hosts : wire' = wire \cup {<<c, verb, h>>}
  BY DEF Connects
<1>13. Functions'
  BY <1>1, <1>3, <1>11 DEF Steps
<1>14. Rest'
  <2>1. wire' \subseteq Calls \X Verbs \X Hosts
    BY <1>1, <1>12 DEF Rest
  <2> QED BY <1>1, <1>3, <1>11, <2>1 DEF Rest, Working, Steps
<1>15. UNCHANGED registryVars
  BY DEF Connects
<1> QED BY <1>2, <1>4, <1>5, <1>6, <1>7, <1>8, <1>9, <1>10, <1>13, <1>14, <1>15 DEF ClientStep

LEMMA ConnectFailsStep ==
    ASSUME IInv, NEW c \in Calls, NEW verb \in Verbs, ConnectFails(c, verb)
    PROVE  ClientStep(c)
<1>1. Functions /\ Rest /\ CallInv(c)
  BY FunctionsTyped DEF IInv
<1>2. OnlyCall(c)
  BY <1>1 DEF OnlyCall, SameCall, ConnectFails, Ends, Raised
<1>3. SelectInv(c)'
  BY <1>1 DEF SelectInv, Matching, ConnectFails, Ends, Raised
<1>4. WireInv(c)'
  BY <1>1 DEF WireInv, ConnectFails, Ends, Raised
<1>5. ReplyInv(c)'
  BY <1>1 DEF ReplyInv, ConnectFails, Ends, Raised, Terminal, Ledger!Outcomes
<1>6. PhaseInv(c)'
  BY <1>1 DEF PhaseInv, ConnectFails, Ends, Raised
<1>7. EndInv(c)'
  BY <1>1 DEF
      EndInv, Fresh, PhaseInv, ConnectFails, Ends, Raised, Terminal, Ledger!Outcomes, Errors,
      Retriable
<1>8. JournalInv(c)'
  BY <1>1 DEF JournalInv, PhaseInv, ConnectFails, Ends, Raised
<1>9. TargetInv(c)'
  BY <1>1 DEF TargetInv, ConnectFails, Ends, Raised
<1>10. Functions'
  BY <1>1 DEF
      ConnectFails, Ends, Raised, Steps, Answers, Errors, Responses, Terminal, Ledger!Outcomes
<1>11. Rest'
  BY <1>1 DEF Rest, ConnectFails, Ends, Raised, Working, Steps, Errors
<1>12. UNCHANGED registryVars
  BY DEF ConnectFails
<1> QED BY <1>2, <1>3, <1>4, <1>5, <1>6, <1>7, <1>8, <1>9, <1>10, <1>11, <1>12 DEF ClientStep

LEMMA ExchangeRaisesStep ==
    ASSUME IInv, NEW c \in Calls, ExchangeRaises(c)
    PROVE  ClientStep(c)
<1>1. Functions /\ Rest /\ CallInv(c)
  BY FunctionsTyped DEF IInv
<1>2. OnlyCall(c)
  BY <1>1 DEF OnlyCall, SameCall, ExchangeRaises, Ends, Raised, Lost
<1>3. SelectInv(c)'
  BY <1>1 DEF SelectInv, Matching, ExchangeRaises, Ends, Raised, Lost
<1>4. WireInv(c)'
  BY <1>1 DEF WireInv, ExchangeRaises, Ends, Raised, Lost
<1>5. ReplyInv(c)'
  BY <1>1, NoneAssumption DEF
      ReplyInv, ExchangeRaises, Ends, Raised, Lost, Terminal, Ledger!Outcomes, Responses
<1>6. PhaseInv(c)'
  BY <1>1 DEF PhaseInv, ExchangeRaises, Ends, Raised, Lost
<1>7. EndInv(c)'
  BY <1>1 DEF
      EndInv, Fresh, PhaseInv, ExchangeRaises, Ends, Raised, Lost, Terminal, Ledger!Outcomes,
      Errors, Retriable
<1>8. JournalInv(c)'
  BY <1>1 DEF JournalInv, PhaseInv, ExchangeRaises, Ends, Raised, Lost
<1>9. TargetInv(c)'
  BY <1>1 DEF TargetInv, ExchangeRaises, Ends, Raised, Lost
<1>10. Functions'
  BY <1>1 DEF
      ExchangeRaises, Ends, Raised, Lost, Steps, Answers, Errors, Responses, Terminal,
      Ledger!Outcomes
<1>11. Rest'
  BY <1>1 DEF Rest, ExchangeRaises, Ends, Raised, Lost, Working, Steps, Errors
<1>12. UNCHANGED registryVars
  BY DEF ExchangeRaises
<1> QED BY <1>2, <1>3, <1>4, <1>5, <1>6, <1>7, <1>8, <1>9, <1>10, <1>11, <1>12 DEF ClientStep

LEMMA ReceiveErrorStep ==
    ASSUME IInv, NEW c \in Calls, ReceiveError(c)
    PROVE  ClientStep(c)
<1>1. Functions /\ Rest /\ CallInv(c)
  BY FunctionsTyped DEF IInv
<1>2. OnlyCall(c)
  BY <1>1 DEF OnlyCall, SameCall, ReceiveError, Ends, Raised
<1>3. SelectInv(c)'
  BY <1>1 DEF SelectInv, Matching, ReceiveError, Ends, Raised
<1>4. WireInv(c)'
  BY <1>1, NoneAssumption DEF
      WireInv, ReceiveError, Ends, Raised, Responses, Terminal, Ledger!Outcomes
<1>5. ReplyInv(c)'
  BY <1>1, NoneAssumption DEF
      ReplyInv, ReceiveError, Ends, Raised, Terminal, Ledger!Outcomes, Responses
<1>6. PhaseInv(c)'
  BY <1>1 DEF PhaseInv, ReceiveError, Ends, Raised
<1>7. EndInv(c)'
  BY <1>1, NoneAssumption DEF
      EndInv, Fresh, PhaseInv, ReceiveError, Ends, Raised, Terminal, Ledger!Outcomes, Errors,
      Retriable, Responses, WireInv, ReplyInv
<1>8. JournalInv(c)'
  BY <1>1, NoneAssumption DEF JournalInv, ReceiveError, Ends, Raised, ReplyInv, Responses
<1>9. TargetInv(c)'
  BY <1>1 DEF TargetInv, ReceiveError, Ends, Raised
<1>10. Functions'
  BY <1>1 DEF
      ReceiveError, Ends, Raised, Steps, Answers, Errors, Responses, Terminal, Ledger!Outcomes
<1>11. pc[c] \in Waits
  BY <1>1, NoneAssumption DEF ReplyInv, ReceiveError, Responses
<1>12. Rest'
  BY <1>1, <1>11 DEF Rest, ReceiveError, Ends, Working, Steps
<1>13. UNCHANGED registryVars
  BY DEF ReceiveError
<1> QED BY <1>2, <1>3, <1>4, <1>5, <1>6, <1>7, <1>8, <1>9, <1>10, <1>12, <1>13 DEF ClientStep

LEMMA ReceiveValueStep ==
    ASSUME IInv, NEW c \in Calls, ReceiveValue(c)
    PROVE  ClientStep(c)
<1>1. Functions /\ Rest /\ CallInv(c)
  BY FunctionsTyped DEF IInv
<1>2. OnlyCall(c)
  BY <1>1 DEF OnlyCall, SameCall, ReceiveValue, Ends
<1>3. SelectInv(c)'
  BY <1>1 DEF SelectInv, Matching, ReceiveValue, Ends
<1>4. WireInv(c)'
  BY <1>1, NoneAssumption DEF WireInv, ReceiveValue, Ends, Responses, Terminal, Ledger!Outcomes
<1>5. ReplyInv(c)'
  BY <1>1, NoneAssumption DEF ReplyInv, ReceiveValue, Ends, Terminal, Ledger!Outcomes, Responses
<1>6. PhaseInv(c)'
  BY <1>1 DEF PhaseInv, ReceiveValue, Ends
<1>7. EndInv(c)'
  BY <1>1, NoneAssumption DEF
      EndInv, Fresh, PhaseInv, ReceiveValue, Ends, Terminal, Ledger!Outcomes, Errors, Retriable,
      Responses, WireInv, ReplyInv
<1>8. JournalInv(c)'
  BY <1>1 DEF JournalInv, PhaseInv, ReceiveValue, Ends, WireInv, ReplyInv, Fresh
<1>9. TargetInv(c)'
  BY <1>1 DEF TargetInv, ReceiveValue, Ends
<1>10. Functions'
  BY <1>1 DEF ReceiveValue, Ends, Steps, Answers, Errors, Responses, Terminal, Ledger!Outcomes
<1>11. Rest'
  BY <1>1 DEF Rest, ReceiveValue, Ends, Working, Steps, Errors
<1>12. UNCHANGED registryVars
  BY DEF ReceiveValue
<1> QED BY <1>2, <1>3, <1>4, <1>5, <1>6, <1>7, <1>8, <1>9, <1>10, <1>11, <1>12 DEF ClientStep

LEMMA ReceiveIdStep ==
    ASSUME IInv, NEW c \in Calls, ReceiveId(c)
    PROVE  ClientStep(c)
<1>1. Functions /\ Rest /\ CallInv(c)
  BY FunctionsTyped DEF IInv
<1>2. OnlyCall(c)
  BY <1>1 DEF OnlyCall, SameCall, ReceiveId
<1>3. SelectInv(c)'
  BY <1>1 DEF SelectInv, Matching, ReceiveId
<1>4. WireInv(c)'
  BY <1>1, NoneAssumption DEF WireInv, ReceiveId, Responses, Terminal, Ledger!Outcomes
<1>5. ReplyInv(c)'
  BY <1>1, NoneAssumption DEF ReplyInv, ReceiveId, Terminal, Ledger!Outcomes, Responses
<1>6. PhaseInv(c)'
  BY <1>1 DEF PhaseInv, ReceiveId
<1>7. EndInv(c)'
  BY <1>1, NoneAssumption DEF
      EndInv, Fresh, PhaseInv, ReceiveId, Terminal, Ledger!Outcomes, Errors, Retriable, Responses,
      WireInv, ReplyInv
<1>8. JournalInv(c)'
  BY <1>1 DEF JournalInv, PhaseInv, ReceiveId, WireInv, ReplyInv, Fresh
<1>9. TargetInv(c)'
  BY <1>1 DEF TargetInv, ReceiveId
<1>10. Functions'
  BY <1>1 DEF ReceiveId, Steps, Answers, Errors, Responses, Terminal, Ledger!Outcomes
<1>11. created[c] # None
  BY <1>1 DEF ReplyInv, ReceiveId
<1>12. Rest'
  BY <1>1, <1>11 DEF Rest, ReceiveId, Working, Steps
<1>13. UNCHANGED registryVars
  BY DEF ReceiveId
<1> QED BY <1>2, <1>3, <1>4, <1>5, <1>6, <1>7, <1>8, <1>9, <1>10, <1>12, <1>13 DEF ClientStep

LEMMA ReceiveStatusStep ==
    ASSUME IInv, NEW c \in Calls, ReceiveStatus(c)
    PROVE  ClientStep(c)
<1>1. Functions /\ Rest /\ CallInv(c)
  BY FunctionsTyped DEF IInv
<1>2. OnlyCall(c)
  BY <1>1 DEF OnlyCall, SameCall, ReceiveStatus, Ends
<1>3. c \in accepted => created[c] # None
  BY DEF IInv, TypeOK
<1>4. SelectInv(c)'
  BY <1>1 DEF SelectInv, Matching, ReceiveStatus, Ends
<1>5. WireInv(c)'
  BY <1>1, NoneAssumption DEF WireInv, ReceiveStatus, Ends, Responses, Terminal, Ledger!Outcomes
<1>6. ReplyInv(c)'
  BY <1>1, NoneAssumption DEF ReplyInv, ReceiveStatus, Ends, Terminal, Ledger!Outcomes, Responses
<1>7. PhaseInv(c)'
  BY <1>1 DEF PhaseInv, ReceiveStatus, Ends
<1>8. EndInv(c)'
  BY <1>1, NoneAssumption, <1>3 DEF
      EndInv, Fresh, PhaseInv, ReceiveStatus, Ends, Terminal, Ledger!Outcomes, Errors, Retriable,
      Responses, WireInv, ReplyInv
<1>9. JournalInv(c)'
  BY <1>1, <1>3 DEF JournalInv, PhaseInv, ReceiveStatus, Ends, WireInv, ReplyInv, Fresh
<1>10. TargetInv(c)'
  BY <1>1 DEF TargetInv, ReceiveStatus, Ends
<1>11. Functions'
  BY <1>1 DEF ReceiveStatus, Ends, Steps, Answers, Errors, Responses, Terminal, Ledger!Outcomes
<1>12. /\ pc[c] = "polling" /\ UNCHANGED <<callVars, wire, answer, connectorVars>>
       /\ \/ pc' = [pc EXCEPT ![c] = "loop"]
          \/ pc' = [pc EXCEPT ![c] = "record"]
  BY <1>1 DEF ReceiveStatus, Ends
<1>13. Rest'
  <2>1. CASE pc' = [pc EXCEPT ![c] = "loop"]
    BY <1>1, <1>12, <2>1 DEF Rest, Working, Steps
  <2>2. CASE pc' = [pc EXCEPT ![c] = "record"]
    BY <1>1, <1>12, <2>2 DEF Rest, Working, Steps
  <2> QED BY <1>12, <2>1, <2>2
<1>14. UNCHANGED registryVars
  BY DEF ReceiveStatus
<1> QED BY <1>2, <1>4, <1>5, <1>6, <1>7, <1>8, <1>9, <1>10, <1>11, <1>13, <1>14 DEF ClientStep

LEMMA ReceiveCancelledStep ==
    ASSUME IInv, NEW c \in Calls, ReceiveCancelled(c)
    PROVE  ClientStep(c)
<1>1. Functions /\ Rest /\ CallInv(c)
  BY FunctionsTyped DEF IInv
<1>2. OnlyCall(c)
  BY <1>1 DEF OnlyCall, SameCall, ReceiveCancelled, Ends
<1>3. SelectInv(c)'
  BY <1>1 DEF SelectInv, Matching, ReceiveCancelled, Ends
<1>4. WireInv(c)'
  BY <1>1, NoneAssumption DEF
      WireInv, ReceiveCancelled, Ends, Responses, Terminal, Ledger!Outcomes
<1>5. ReplyInv(c)'
  BY <1>1, NoneAssumption DEF
      ReplyInv, ReceiveCancelled, Ends, Terminal, Ledger!Outcomes, Responses
<1>6. PhaseInv(c)'
  BY <1>1 DEF PhaseInv, ReceiveCancelled, Ends
<1>7. EndInv(c)'
  BY <1>1, NoneAssumption DEF
      EndInv, Fresh, PhaseInv, ReceiveCancelled, Ends, Terminal, Ledger!Outcomes, Errors,
      Retriable, Responses, WireInv, ReplyInv
<1>8. JournalInv(c)'
  BY <1>1 DEF JournalInv, PhaseInv, ReceiveCancelled, Ends, WireInv, ReplyInv, Fresh
<1>9. TargetInv(c)'
  BY <1>1 DEF TargetInv, ReceiveCancelled, Ends
<1>10. Functions'
  BY <1>1 DEF ReceiveCancelled, Ends, Steps, Answers, Errors, Responses, Terminal, Ledger!Outcomes
<1>11. Rest'
  BY <1>1 DEF Rest, ReceiveCancelled, Ends, Working, Steps, Errors
<1>12. UNCHANGED registryVars
  BY DEF ReceiveCancelled
<1> QED BY <1>2, <1>3, <1>4, <1>5, <1>6, <1>7, <1>8, <1>9, <1>10, <1>11, <1>12 DEF ClientStep

LEMMA DeadlinePassesStep ==
    ASSUME IInv, NEW c \in Calls, DeadlinePasses(c)
    PROVE  ClientStep(c)
<1>1. Functions /\ Rest /\ CallInv(c)
  BY FunctionsTyped DEF IInv
<1>2. OnlyCall(c)
  BY <1>1 DEF OnlyCall, SameCall, DeadlinePasses
<1>3. SelectInv(c)'
  BY <1>1 DEF SelectInv, Matching, DeadlinePasses
<1>4. WireInv(c)'
  BY <1>1 DEF WireInv, DeadlinePasses
<1>5. ReplyInv(c)'
  BY <1>1 DEF ReplyInv, DeadlinePasses, Terminal, Ledger!Outcomes
<1>6. PhaseInv(c)'
  BY <1>1 DEF PhaseInv, DeadlinePasses
<1>7. EndInv(c)'
  BY <1>1 DEF
      EndInv, Fresh, PhaseInv, DeadlinePasses, Terminal, Ledger!Outcomes, Errors, Retriable
<1>8. JournalInv(c)'
  BY <1>1 DEF JournalInv, PhaseInv, DeadlinePasses
<1>9. TargetInv(c)'
  BY <1>1 DEF TargetInv, DeadlinePasses
<1>10. Functions'
  BY <1>1 DEF DeadlinePasses, Steps, Answers, Errors, Responses, Terminal, Ledger!Outcomes
<1>11. Rest'
  BY <1>1 DEF Rest, DeadlinePasses, Working, Steps, Errors
<1>12. UNCHANGED registryVars
  BY DEF DeadlinePasses
<1> QED BY <1>2, <1>3, <1>4, <1>5, <1>6, <1>7, <1>8, <1>9, <1>10, <1>11, <1>12 DEF ClientStep

LEMMA LoopingStep ==
    ASSUME IInv, NEW c \in Calls, LoopStep(c)
    PROVE  ClientStep(c)
<1>1. Functions /\ Rest /\ CallInv(c)
  BY FunctionsTyped DEF IInv
<1>2. OnlyCall(c)
  BY <1>1 DEF OnlyCall, SameCall, LoopStep, Loop
<1>3. SelectInv(c)'
  BY <1>1 DEF SelectInv, Matching, LoopStep, Loop
<1>4. WireInv(c)'
  BY <1>1 DEF WireInv, LoopStep, Loop
<1>5. ReplyInv(c)'
  BY <1>1 DEF ReplyInv, LoopStep, Loop, Terminal, Ledger!Outcomes
<1>6. PhaseInv(c)'
  BY <1>1 DEF PhaseInv, LoopStep, Loop
<1>7. EndInv(c)'
  BY <1>1 DEF
      EndInv, Fresh, PhaseInv, LoopStep, Loop, Terminal, Ledger!Outcomes, Errors, Retriable
<1>8. JournalInv(c)'
  BY <1>1 DEF JournalInv, PhaseInv, LoopStep, Loop
<1>9. TargetInv(c)'
  BY <1>1 DEF TargetInv, LoopStep, Loop
<1>10. Functions'
  BY <1>1 DEF LoopStep, Loop, Steps, Answers, Errors, Responses, Terminal, Ledger!Outcomes
<1>11. Rest'
  BY <1>1 DEF Rest, LoopStep, Loop, Working, Steps, Errors
<1>12. UNCHANGED registryVars
  BY DEF LoopStep
<1> QED BY <1>2, <1>3, <1>4, <1>5, <1>6, <1>7, <1>8, <1>9, <1>10, <1>11, <1>12 DEF ClientStep

LEMMA RecordStep ==
    ASSUME IInv, NEW c \in Calls, Record(c)
    PROVE  ClientStep(c)
<1>1. Functions /\ Rest /\ CallInv(c)
  BY FunctionsTyped DEF IInv
<1>2. OnlyCall(c)
  BY <1>1 DEF OnlyCall, SameCall, Record, Records, Tells
<1>3. /\ Len(journal'[c]) = Len(journal[c]) + 1 /\ Len(journal[c]) \in Nat
      /\ \A i \in 1 .. Len(journal[c]) : journal'[c][i] = journal[c][i]
      /\ journal'[c][Len(journal[c]) + 1] = IF ending[c] \in Errors THEN "failed" ELSE "completed"
  BY <1>1, LenProperties, AppendProperties DEF Record, Records
<1>4. SelectInv(c)'
  BY <1>1 DEF SelectInv, Matching, Record, Records, Tells
<1>5. WireInv(c)'
  BY <1>1 DEF WireInv, Record, Records, Tells
<1>6. ReplyInv(c)'
  BY <1>1 DEF ReplyInv, Record, Records, Tells, Terminal, Ledger!Outcomes
<1>7. PhaseInv(c)'
  BY <1>1 DEF PhaseInv, Record, Records, Tells
<1>8. EndInv(c)'
  BY <1>1 DEF
      EndInv, Fresh, PhaseInv, Record, Records, Tells, Terminal, Ledger!Outcomes, Errors,
      Retriable
<1>9. pc[c] = "record" /\ JournalInv(c)
  BY <1>1 DEF Record
<1>10. Len(journal[c]) = 1 /\ journal[c][1] = "planned"
  BY <1>9 DEF JournalInv
<1>11. /\ Len(journal'[c]) = 2 /\ journal'[c][1] = "planned"
       /\ journal'[c][2] = IF ending[c] \in Errors THEN "failed" ELSE "completed"
  BY <1>3, <1>10
<1>12. journal'[c][2] = "completed" => created[c] # None \/ Served(c)
  BY <1>1, <1>11 DEF EndInv, Record
<1>13. pc'[c] = "ended" /\ created' = created /\ work' = work
  BY <1>1 DEF Record
<1>14. JournalInv(c)'
  BY <1>11, <1>12, <1>13 DEF JournalInv
<1>15. TargetInv(c)'
  BY <1>1 DEF TargetInv, Record, Records, Tells
<1>16. Functions'
  BY <1>1 DEF Record, Records, Tells, Steps, Answers, Errors, Responses, Terminal, Ledger!Outcomes
<1>17. ending[c] # "none"
  BY <1>1 DEF EndInv, Record, Errors, Terminal, Ledger!Outcomes
<1>18. Rest'
  BY <1>1, <1>17 DEF Rest, Record, Tells, Working, Steps
<1>19. UNCHANGED registryVars
  BY DEF Record
<1> QED BY <1>2, <1>4, <1>5, <1>6, <1>7, <1>8, <1>14, <1>15, <1>16, <1>18, <1>19 DEF ClientStep

LEMMA RecordRaisesStep ==
    ASSUME IInv, NEW c \in Calls, RecordRaises(c)
    PROVE  ClientStep(c)
<1>1. Functions /\ Rest /\ CallInv(c)
  BY FunctionsTyped DEF IInv
<1>2. OnlyCall(c)
  BY <1>1 DEF OnlyCall, SameCall, RecordRaises, Tells
<1>3. SelectInv(c)'
  BY <1>1 DEF SelectInv, Matching, RecordRaises, Tells
<1>4. WireInv(c)'
  BY <1>1 DEF WireInv, RecordRaises, Tells
<1>5. ReplyInv(c)'
  BY <1>1 DEF ReplyInv, RecordRaises, Tells, Terminal, Ledger!Outcomes
<1>6. PhaseInv(c)'
  BY <1>1 DEF PhaseInv, RecordRaises, Tells
<1>7. EndInv(c)'
  BY <1>1 DEF
      EndInv, Fresh, PhaseInv, RecordRaises, Tells, Terminal, Ledger!Outcomes, Errors, Retriable
<1>8. JournalInv(c)'
  BY <1>1 DEF JournalInv, PhaseInv, RecordRaises, Tells
<1>9. TargetInv(c)'
  BY <1>1 DEF TargetInv, RecordRaises, Tells
<1>10. Functions'
  BY <1>1 DEF RecordRaises, Tells, Steps, Answers, Errors, Responses, Terminal, Ledger!Outcomes
<1>11. Rest'
  BY <1>1 DEF Rest, RecordRaises, Tells, Working, Steps, Errors
<1>12. UNCHANGED registryVars
  BY DEF RecordRaises
<1> QED BY <1>2, <1>3, <1>4, <1>5, <1>6, <1>7, <1>8, <1>9, <1>10, <1>11, <1>12 DEF ClientStep
-----------------------------------------------------------------------------
(* The steps of a connector                                                *)

\* Message m has arrived and r was replied: no message of the call is left on
\* its way, and the reply is all the call has to read.
Arrived(m, r) ==
    /\ Functions /\ Rest /\ CallInv(m[1])
    /\ m[1] \in Calls /\ m[2] \in Verbs /\ m[3] \in Hosts
    /\ wire' \subseteq wire /\ \A n \in wire' : n[1] # m[1]
    /\ \A n \in wire : n[1] # m[1] => n \in wire'
    /\ reply' = [reply EXCEPT ![m[1]] = reply'[m[1]]]
    /\ reply'[m[1]] = IF pc[m[1]] \in Waits THEN r ELSE None
    /\ pc[m[1]] \in Waits \cup {"record", "ended"}
    /\ pc[m[1]] \in Waits => pc[m[1]] = Waiting(m[2])
    /\ SelectInv(m[1])' /\ WireInv(m[1])'

LEMMA ArrivesStep ==
    ASSUME IInv, NEW m \in wire, Arrives(m), NEW r, Replies(m[1], r),
           UNCHANGED <<registryVars, pc, callVars, selectVars, endVars>>
    PROVE  Arrived(m, r)
<1>1. Functions /\ Rest
  BY FunctionsTyped DEF IInv
<1>2. m[1] \in Calls /\ m[2] \in Verbs /\ m[3] \in Hosts
  BY <1>1 DEF Rest
<1>3. CallInv(m[1])
  BY <1>2 DEF IInv
<1>4. wire' \subseteq wire /\ \A n \in wire' : n[1] # m[1]
  BY <1>3 DEF WireInv, Arrives
<1>5. \A n \in wire : n[1] # m[1] => n \in wire'
  BY DEF Arrives
<1>6. reply[m[1]] = None /\ pc[m[1]] \in Waits \cup {"record", "ended"}
  BY <1>3 DEF WireInv
<1>7. reply' = [reply EXCEPT ![m[1]] = reply'[m[1]]]
  BY <1>1, <1>2 DEF Replies
<1>8. reply'[m[1]] = IF pc[m[1]] \in Waits THEN r ELSE None
  BY <1>1, <1>2, <1>6 DEF Replies
<1>9. SelectInv(m[1])'
  BY <1>3 DEF SelectInv, Matching
<1>10. WireInv(m[1])'
  BY <1>4 DEF WireInv
<1>11. pc[m[1]] \in Waits => pc[m[1]] = Waiting(m[2])
  BY <1>3 DEF WireInv
<1> QED BY <1>1, <1>2, <1>3, <1>4, <1>5, <1>6, <1>7, <1>8, <1>9, <1>10, <1>11 DEF Arrived

LEMMA RefusesStep ==
    ASSUME IInv, NEW m \in wire, Refuses(m)
    PROVE  ClientStep(m[1])
<1> DEFINE c == m[1]
<1>1. Arrived(m, "error")
  BY ArrivesStep DEF Refuses
<1>2. OnlyCall(c)
  BY <1>1 DEF Arrived, OnlyCall, SameCall, Refuses
<1>3. SelectInv(c)' /\ WireInv(c)' /\ ReplyInv(c)'
  <2>1. pc[c] = "executing" => created[c] = None
    BY <1>1 DEF Arrived, WireInv, Waiting
  <2> QED BY <1>1, <2>1, NoneAssumption DEF
        Arrived, ReplyInv, Refuses, Responses, Terminal, Ledger!Outcomes
<1>4. PhaseInv(c)'
  BY <1>1 DEF Arrived, PhaseInv, Refuses
<1>5. EndInv(c)'
  BY <1>1 DEF Arrived, EndInv, Fresh, Refuses
<1>6. JournalInv(c)'
  BY <1>1 DEF Arrived, JournalInv, Refuses
<1>7. TargetInv(c)'
  BY <1>1 DEF Arrived, TargetInv, Refuses
<1>8. Functions'
  BY <1>1 DEF Arrived, Refuses, Responses
<1>9. Rest'
  BY <1>1 DEF Arrived, Rest, Refuses, Working
<1>10. UNCHANGED registryVars
  BY DEF Refuses
<1> QED BY <1>1, <1>2, <1>3, <1>4, <1>5, <1>6, <1>7, <1>8, <1>9, <1>10 DEF ClientStep

LEMMA ServesStep ==
    ASSUME IInv, NEW m \in wire, Serves(m)
    PROVE  ClientStep(m[1])
<1> DEFINE c == m[1]
<1>1. Arrived(m, "value") /\ m[2] = "get" /\ m[3] = instance[c].host
  BY ArrivesStep DEF Serves, Authorized
<1>2. Served(c)' /\ tool[c] = "get"
  <2>1. tool[c] = "get"
    BY <1>1 DEF Arrived, WireInv
  <2>2. <<c, m[3], document[m[3]]>> \in work'
    BY DEF Serves
  <2> QED BY <2>1, <2>2
<1>3. OnlyCall(c)
  BY <1>1 DEF Arrived, OnlyCall, SameCall, Serves
<1>4. SelectInv(c)' /\ WireInv(c)' /\ ReplyInv(c)'
  <2>1. pc[c] \in Waits => pc[c] = "getting"
    BY <1>1 DEF Arrived, Waiting
  <2> QED BY <1>1, <1>2, <2>1, NoneAssumption DEF
        Arrived, ReplyInv, Serves, Responses, Terminal, Ledger!Outcomes
<1>5. PhaseInv(c)'
  BY <1>1 DEF Arrived, PhaseInv, Serves
<1>6. EndInv(c)'
  BY <1>1, <1>2 DEF Arrived, EndInv, Fresh, Serves
<1>7. JournalInv(c)'
  BY <1>1, <1>2 DEF Arrived, JournalInv, Serves
<1>8. TargetInv(c)'
  <2>1. m[3] \in filter[c].hosts
    BY <1>1 DEF Arrived, WireInv, SelectInv, Matching
  <2> QED BY <1>1, <1>2, <2>1 DEF Arrived, TargetInv, Serves
<1>9. Functions'
  BY <1>1 DEF Arrived, Serves, Responses
<1>10. Rest'
  <2>1. document[m[3]] \in Documents \cup {NoDocument}
    BY <1>1, FunctionsTyped DEF Arrived, IInv, RegistryTypeOK
  <2> QED BY <1>1, <2>1 DEF Arrived, Rest, Serves, Working
<1>11. UNCHANGED registryVars
  BY DEF Serves
<1> QED BY <1>1, <1>3, <1>4, <1>5, <1>6, <1>7, <1>8, <1>9, <1>10, <1>11 DEF ClientStep

LEMMA AcceptsStep ==
    ASSUME IInv, NEW m \in wire, Accepts(m)
    PROVE  ClientStep(m[1])
<1> DEFINE c == m[1]
<1>1. Arrived(m, "id") /\ m[2] = "execute" /\ m[3] = instance[c].host
  BY ArrivesStep DEF Accepts, Authorized
<1>2. created[c] = None /\ created' = [created EXCEPT ![c] = m[3]] /\ m[3] # None
  BY <1>1, NoneAssumption DEF Arrived, WireInv, Accepts
<1>3. OnlyCall(c)
  BY <1>1 DEF Arrived, OnlyCall, SameCall, Accepts
<1>4. SelectInv(c)' /\ WireInv(c)' /\ ReplyInv(c)'
  <2>1. pc[c] \in Waits => pc[c] = "executing"
    BY <1>1 DEF Arrived, Waiting
  <2> QED BY <1>1, <1>2, <2>1, NoneAssumption DEF
        Arrived, ReplyInv, Accepts, Responses, Terminal, Ledger!Outcomes
<1>5. PhaseInv(c)'
  BY <1>1, <1>2 DEF Arrived, PhaseInv, WireInv, Accepts
<1>6. EndInv(c)'
  BY <1>1, <1>2 DEF Arrived, EndInv, Fresh, Accepts
<1>7. JournalInv(c)'
  BY <1>1, <1>2 DEF Arrived, JournalInv, Accepts
<1>8. TargetInv(c)'
  BY <1>1 DEF Arrived, TargetInv, Accepts
<1>9. Functions'
  BY <1>1, <1>2 DEF Arrived, Accepts, Responses
<1>10. Rest'
  BY <1>1, <1>2 DEF Arrived, Rest, Accepts, Working
<1>11. UNCHANGED registryVars
  BY DEF Accepts
<1> QED BY <1>1, <1>3, <1>4, <1>5, <1>6, <1>7, <1>8, <1>9, <1>10, <1>11 DEF ClientStep

LEMMA ReportsStep ==
    ASSUME IInv, NEW m \in wire, Reports(m)
    PROVE  ClientStep(m[1])
<1> DEFINE c == m[1]
<1>1. Arrived(m, outcome[c]) /\ m[2] = "poll"
  BY ArrivesStep DEF Reports
<1>2. outcome[c] \in {"open"} \cup Terminal
  BY <1>1 DEF Arrived, PhaseInv, Terminal
<1>3. OnlyCall(c)
  BY <1>1 DEF Arrived, OnlyCall, SameCall, Reports
<1>4. SelectInv(c)' /\ WireInv(c)' /\ ReplyInv(c)'
  <2>1. pc[c] \in Waits => pc[c] = "polling"
    BY <1>1 DEF Arrived, Waiting
  <2> QED BY <1>1, <1>2, <2>1, NoneAssumption DEF
        Arrived, ReplyInv, Reports, Responses, Terminal, Ledger!Outcomes
<1>5. PhaseInv(c)'
  BY <1>1 DEF Arrived, PhaseInv, Reports
<1>6. EndInv(c)'
  BY <1>1 DEF Arrived, EndInv, Fresh, Reports
<1>7. JournalInv(c)'
  BY <1>1 DEF Arrived, JournalInv, Reports
<1>8. TargetInv(c)'
  BY <1>1 DEF Arrived, TargetInv, Reports
<1>9. Functions'
  BY <1>1, <1>2 DEF Arrived, Reports, Responses
<1>10. Rest'
  BY <1>1 DEF Arrived, Rest, Reports, Working
<1>11. UNCHANGED registryVars
  BY DEF Reports
<1> QED BY <1>1, <1>3, <1>4, <1>5, <1>6, <1>7, <1>8, <1>9, <1>10, <1>11 DEF ClientStep

LEMMA CancelArrivesStep ==
    ASSUME IInv, NEW m \in wire, CancelArrives(m)
    PROVE  ClientStep(m[1])
<1> DEFINE c == m[1]
<1>1. PICK r \in {"cancelled", "error"} :
         /\ Replies(c, r)
         /\ \/ r = "cancelled" /\ Ledger!Decide(c, "cancelled")
            \/ r = "error" /\ UNCHANGED <<outcome, runs>>
  BY DEF CancelArrives
<1>2. Arrived(m, r) /\ m[2] = "cancel" /\ UNCHANGED <<created, work>>
  BY <1>1, ArrivesStep DEF CancelArrives
<1>3. /\ outcome' \in [Calls -> {"open"} \cup Ledger!Outcomes] /\ UNCHANGED runs
      /\ \A d \in Calls \ {c} : outcome'[d] = outcome[d]
      /\ \/ outcome'[c] = outcome[c]
         \/ outcome[c] = "open" /\ outcome'[c] = "cancelled"
      /\ r = "cancelled" => outcome'[c] = "cancelled"
  BY <1>1, <1>2 DEF Arrived, Ledger!Decide, Ledger!Outcomes
<1>4. OnlyCall(c)
  BY <1>2, <1>3 DEF Arrived, OnlyCall, SameCall, CancelArrives
<1>5. SelectInv(c)' /\ WireInv(c)' /\ ReplyInv(c)'
  <2>1. pc[c] \in Waits => pc[c] = "cancelling"
    BY <1>2 DEF Arrived, Waiting
  <2> QED BY <1>2, <1>3, <2>1, NoneAssumption DEF
        Arrived, ReplyInv, CancelArrives, Responses, Terminal, Ledger!Outcomes
<1>6. PhaseInv(c)'
  BY <1>2, <1>3 DEF Arrived, PhaseInv, CancelArrives
<1>7. EndInv(c)'
  BY <1>2, <1>3 DEF Arrived, EndInv, Fresh, CancelArrives, Terminal, Ledger!Outcomes
<1>8. JournalInv(c)'
  BY <1>2 DEF Arrived, JournalInv, CancelArrives
<1>9. TargetInv(c)'
  BY <1>2 DEF Arrived, TargetInv, CancelArrives
<1>10. Functions'
  <2>1. reply' \in [Calls -> Responses \cup {None}]
    BY <1>2 DEF Arrived, Responses, Terminal, Ledger!Outcomes
  <2> QED BY <1>2, <1>3, <2>1 DEF Arrived, CancelArrives
<1>11. Rest'
  BY <1>2 DEF Arrived, Rest, CancelArrives, Working
<1>12. UNCHANGED registryVars
  BY DEF CancelArrives
<1> QED BY <1>2, <1>4, <1>5, <1>6, <1>7, <1>8, <1>9, <1>10, <1>11, <1>12 DEF ClientStep

\* A request runs in the document it names: the agent's, if it named one.
LEMMA PerformsStep ==
    ASSUME IInv, NEW c \in Calls, Performs(c)
    PROVE  ClientStep(c)
<1>1. Functions /\ Rest /\ CallInv(c) /\ RegistryTypeOK
  BY FunctionsTyped DEF IInv
<1>2. /\ created[c] # None /\ created[c] = instance[c].host /\ instance[c] # None
      /\ tool[c] = "execute" /\ created[c] \in Hosts
  BY <1>1 DEF Performs, Holds, PhaseInv
<1>3. /\ work' = work \cup {<<c, created[c], document[created[c]]>>}
      /\ instance[c].document = document[created[c]]
      /\ runs' = [runs EXCEPT ![c] = 1]
      /\ UNCHANGED <<registryVars, pc, callVars, selectVars, httpVars, endVars, created, outcome>>
  BY DEF Performs, TargetValid, Ledger!Run
<1>4. OnlyCall(c)
  BY <1>3 DEF OnlyCall, SameCall
<1>5. SelectInv(c)' /\ WireInv(c)'
  BY <1>1, <1>3 DEF SelectInv, WireInv, Matching
<1>6. ReplyInv(c)'
  BY <1>1, <1>3 DEF ReplyInv
<1>7. PhaseInv(c)'
  BY <1>1, <1>2, <1>3 DEF PhaseInv
<1>8. EndInv(c)'
  BY <1>1, <1>3 DEF EndInv, Fresh
<1>9. JournalInv(c)'
  BY <1>1, <1>2, <1>3 DEF JournalInv
<1>10. TargetInv(c)'
  <2>1. Matching(filter[c], instance[c])
    BY <1>1, <1>2 DEF SelectInv
  <2> QED BY <1>1, <1>2, <1>3, <2>1 DEF TargetInv, Matching
<1>11. Functions'
  BY <1>1, <1>3
<1>12. Rest'
  <2>1. document[created[c]] \in Documents \cup {NoDocument}
    BY <1>1, <1>2 DEF RegistryTypeOK
  <2> QED BY <1>1, <1>2, <1>3, <2>1 DEF Rest, Working
<1> QED BY <1>3, <1>4, <1>5, <1>6, <1>7, <1>8, <1>9, <1>10, <1>11, <1>12 DEF ClientStep

HIDE DEF Goes, callVars, selectVars, httpVars, endVars, connectorVars,
         Early, Asking, Verbs, Waits, Served, Untouched, CallInv, Functions

-----------------------------------------------------------------------------
(* The steps of the hosts                                                  *)

\* A request that is decided changes nothing its call knows.
LEMMA DecidesStep ==
    ASSUME IInv, NEW c \in Calls, NEW o \in Terminal, Decides(c, o)
    PROVE  /\ \A d \in Calls : SameCall(d)
           /\ Functions' /\ Rest' /\ UNCHANGED registryVars
<1>1. Functions /\ Rest
  BY FunctionsTyped DEF IInv
<1>2. /\ outcome' = [outcome EXCEPT ![c] = o] /\ outcome[c] = "open" /\ UNCHANGED runs
      /\ UNCHANGED <<registryVars, pc, callVars, selectVars, httpVars, endVars, created, work>>
  BY DEF Decides, Ledger!Decide
<1>3. \A d \in Calls : SameCall(d)
  BY <1>1, <1>2 DEF SameCall, Functions, callVars, selectVars, httpVars, endVars
<1>4. Functions'
  BY <1>1, <1>2 DEF
      Functions, callVars, selectVars, httpVars, endVars, Terminal
<1>5. Rest'
  BY <1>1, <1>2 DEF Rest, Working, callVars, httpVars, endVars
<1> QED BY <1>2, <1>3, <1>4, <1>5

\* The invariants of the registry are inductive by themselves.
LEMMA RegistryStep ==
    ASSUME IInv, NEW h \in Hosts, HostStep(h)
    PROVE  RegistryTypeOK' /\ WritingInv'
<1>1. RegistryTypeOK /\ WritingInv
  BY FunctionsTyped DEF IInv
<1> USE DEF RegistryTypeOK, WritingInv
<1>2. CASE \E p \in Ports : Start(h, p)
  BY <1>1, <1>2, NothingAssumption DEF Start, Descriptors
<1>3. CASE Refresh(h)
  BY <1>1, <1>3 DEF Refresh, Idle, Descriptor, Descriptors
<1>4. CASE Replace(h)
  BY <1>1, <1>4, AttemptsAssumption DEF Replace, WriteEnds
<1>5. CASE ReplaceRetried(h)
  <2>1. file' \in [Hosts -> Descriptors \cup {NoFile}]
    BY <1>1, <1>5 DEF ReplaceRetried, StaysOrLost
  <2>2. attempt' \in [Hosts -> 0 .. MaxAttempts - 1]
    BY <1>1, <1>5, AttemptsAssumption DEF ReplaceRetried
  <2> QED BY <1>1, <1>5, <2>1, <2>2 DEF ReplaceRetried
<1>6. CASE WriteFails(h)
  BY <1>1, <1>6, AttemptsAssumption DEF
      WriteFails, WriteEnds, Disposed, Gone, StaysOrLost, Remembered
<1>7. CASE \E d \in Documents \cup {NoDocument} : DocumentChanges(h, d)
  BY <1>1, <1>7 DEF DocumentChanges
<1>8. CASE Crash(h)
  BY <1>1, <1>8, AttemptsAssumption DEF Crash, Gone, WriteEnds
<1> QED BY <1>2, <1>3, <1>4, <1>5, <1>6, <1>7, <1>8 DEF HostStep

LEMMA StopStep ==
    ASSUME IInv, NEW h \in Hosts, Stop(h)
    PROVE  RegistryTypeOK' /\ WritingInv'
<1>1. RegistryTypeOK /\ WritingInv
  BY FunctionsTyped DEF IInv
<1> QED BY <1>1 DEF RegistryTypeOK, WritingInv, Stop, Idle, Disposed, Gone, StaysOrLost

\* A connector that is disposed decides its open requests, and no other.
LEMMA HostStopsStep ==
    ASSUME IInv, NEW h \in Hosts, HostStops(h)
    PROVE  (\A d \in Calls : SameCall(d)) /\ Functions' /\ Rest'
<1>1. Functions /\ Rest
  BY FunctionsTyped DEF IInv
<1>2. PICK S \in SUBSET Calls :
          /\ \A c \in S : outcome[c] = "open"
          /\ outcome' = [c \in Calls |-> IF c \in S THEN "cancelled" ELSE outcome[c]]
          /\ UNCHANGED runs
  BY DEF HostStops, Ledger!CancelAll
<1>3. UNCHANGED <<pc, callVars, selectVars, httpVars, endVars, created, work>>
  BY DEF HostStops
<1>4. \A d \in Calls : SameCall(d)
  BY <1>2, <1>3 DEF SameCall, callVars, selectVars, httpVars, endVars, Terminal, Ledger!Outcomes
<1>5. Functions'
  BY <1>1, <1>2, <1>3 DEF
      Functions, callVars, selectVars, httpVars, endVars, Ledger!Outcomes
<1>6. Rest'
  BY <1>1, <1>3 DEF Rest, Working, callVars, httpVars, endVars
<1> QED BY <1>4, <1>5, <1>6

-----------------------------------------------------------------------------
(* The invariant                                                           *)

\* What is known of every call makes up the invariant.
LEMMA Compose ==
    ASSUME RegistryTypeOK', WritingInv', Functions', Rest', \A c \in Calls : CallInv(c)'
    PROVE  IInv'
<1>1. ASSUME NEW c \in Calls
      PROVE  (Cardinality({m \in wire : m[1] = c}) <= 1)'
  <2> DEFINE S == {m \in wire' : m[1] = c}
  <2>1. \A m, n \in S : m = n
    BY DEF CallInv, WireInv
  <2>2. CASE S = {}
    BY <2>2, FS_EmptySet
  <2>3. CASE S # {}
    <3>1. PICK m \in S : S = {m}
      BY <2>1, <2>3
    <3>2. Cardinality(S) = 1
      BY <3>1, FS_Singleton
    <3> QED BY <3>2
  <2> QED BY <2>2, <2>3
<1>2. TypeOK'
  BY <1>1 DEF TypeOK, Functions, Rest
<1> QED BY <1>2 DEF IInv

LEMMA ClientStepInvariant ==
    ASSUME IInv, NEW c \in Calls, ClientStep(c)
    PROVE  IInv'
<1>1. ASSUME NEW d \in Calls PROVE CallInv(d)'
  BY SameCallStep DEF ClientStep, OnlyCall, IInv
<1>2. RegistryTypeOK' /\ WritingInv'
  BY FunctionsTyped DEF ClientStep, IInv, RegistryTypeOK, WritingInv, registryVars, Descriptors
<1> QED BY <1>1, <1>2, Compose DEF ClientStep

LEMMA InitInvariant == Init => IInv
<1> SUFFICES ASSUME Init PROVE IInv
  OBVIOUS
<1> USE DEF Init
<1>1. RegistryTypeOK /\ WritingInv
  BY NothingAssumption, AttemptsAssumption DEF RegistryInit, RegistryTypeOK, WritingInv
<1>2. Functions
  BY DEF Functions, FilterType, Responses, Answers, Ledger!Outcomes, Steps
<1>3. Rest
  BY DEF Rest, Working, Steps, Verbs, Waits
<1>4. \A c \in Calls : Cardinality({m \in wire : m[1] = c}) <= 1
  BY FS_EmptySet
<1>5. TypeOK
  BY <1>1, <1>2, <1>3, <1>4 DEF TypeOK, Functions, Rest
<1>6. ASSUME NEW c \in Calls PROVE CallInv(c)
  <2>1. Len(journal[c]) = 0
    BY EmptySeq
  <2>2. SelectInv(c) /\ WireInv(c) /\ TargetInv(c)
    BY DEF SelectInv, WireInv, TargetInv, Asking, Verbs, Waits
  <2>3. ReplyInv(c)
    BY NoneAssumption DEF ReplyInv, Responses, Terminal
  <2>4. PhaseInv(c) /\ EndInv(c)
    BY DEF PhaseInv, EndInv, Untouched, Served, Terminal, Ledger!Outcomes
  <2>5. JournalInv(c)
    BY <2>1 DEF JournalInv, Asking, Verbs, Waits
  <2> QED BY <2>2, <2>3, <2>4, <2>5 DEF CallInv
<1> QED BY <1>1, <1>5, <1>6 DEF IInv

LEMMA NextInvariant == IInv /\ [Next]_vars => IInv'
<1> SUFFICES ASSUME IInv, [Next]_vars PROVE IInv'
  OBVIOUS
<1>1. RegistryTypeOK /\ Functions /\ Rest
  BY FunctionsTyped DEF IInv
<1>2. ASSUME \A d \in Calls : SameCall(d) PROVE \A d \in Calls : CallInv(d)'
  BY <1>2, SameCallStep DEF IInv
<1>3. CASE UNCHANGED vars
  <2>1. \A d \in Calls : SameCall(d)
    BY <1>3 DEF SameCall, vars, clientVars, callVars, selectVars, httpVars, endVars, connectorVars
  <2>2. RegistryTypeOK' /\ WritingInv' /\ Functions' /\ Rest'
    BY <1>1, <1>3 DEF
        IInv, RegistryTypeOK, WritingInv, Descriptors, Functions, Rest, Working, vars,
        registryVars, clientVars, callVars, selectVars, httpVars, endVars, connectorVars
  <2> QED BY <1>2, <2>1, <2>2, Compose
<1>4. ASSUME NEW h \in Hosts, HostStep(h) PROVE IInv'
  <2>1. UNCHANGED clientVars
    BY <1>4 DEF HostStep
  <2>2. \A d \in Calls : SameCall(d)
    BY <2>1 DEF SameCall, clientVars, callVars, selectVars, httpVars, endVars, connectorVars
  <2>3. Functions' /\ Rest'
    BY <1>1, <2>1 DEF
        Functions, Rest, Working, clientVars, callVars, selectVars, httpVars, endVars,
        connectorVars
  <2> QED BY <1>2, <1>4, <2>2, <2>3, RegistryStep, Compose
<1>5. ASSUME NEW h \in Hosts, HostStops(h) PROVE IInv'
  <2>1. RegistryTypeOK' /\ WritingInv'
    BY <1>5, StopStep DEF HostStops
  <2> QED BY <1>2, <1>5, <2>1, HostStopsStep, Compose
<1>6. ASSUME NEW c \in Calls, NEW o \in Terminal, Decides(c, o) PROVE IInv'
  <2>1. RegistryTypeOK' /\ WritingInv'
    BY <1>1, <1>6, DecidesStep DEF IInv, RegistryTypeOK, WritingInv, Descriptors, registryVars
  <2> QED BY <1>2, <1>6, <2>1, DecidesStep, Compose
<1>7. ASSUME NEW c \in Calls, NEW t \in Tools, NEW f \in Filters, Begin(c, t, f) PROVE IInv'
  BY <1>7, BeginStep, ClientStepInvariant
<1>8. ASSUME NEW c \in Calls, DeadlinePasses(c) \/ Performs(c) PROVE IInv'
  BY <1>8, DeadlinePassesStep, PerformsStep, ClientStepInvariant
<1>9. ASSUME NEW c \in Calls, CallStep(c) PROVE IInv'
  <2>1. CASE List(c) \/ Select(c) \/ Planned(c)
    BY <2>1, ListStep, SelectStep, PlannedStep, ClientStepInvariant
  <2>2. ASSUME NEW h \in Hosts, ReadFile(c, h) \/ ReadFileFails(c, h) PROVE IInv'
    BY <2>2, ReadFileStep, ReadFileFailsStep, ClientStepInvariant
  <2>3. ASSUME NEW a \in Errors, PlanFails(c, a) PROVE IInv'
    BY <2>3, PlanFailsStep, ClientStepInvariant
  <2>4. ASSUME NEW verb \in Verbs, Connects(c, verb) \/ ConnectFails(c, verb) PROVE IInv'
    BY <2>4, ConnectsStep, ConnectFailsStep, ClientStepInvariant
  <2>5. CASE ExchangeRaises(c) \/ ReceiveError(c) \/ ReceiveValue(c) \/ ReceiveId(c)
    BY <2>5, ExchangeRaisesStep, ReceiveErrorStep, ReceiveValueStep, ReceiveIdStep,
       ClientStepInvariant
  <2>6. CASE ReceiveStatus(c) \/ ReceiveCancelled(c)
    BY <2>6, ReceiveStatusStep, ReceiveCancelledStep, ClientStepInvariant
  <2>7. CASE LoopStep(c) \/ Record(c) \/ RecordRaises(c)
    BY <2>7, LoopingStep, RecordStep, RecordRaisesStep, ClientStepInvariant
  <2> QED BY <1>9, <2>1, <2>2, <2>3, <2>4, <2>5, <2>6, <2>7 DEF CallStep
<1>10. ASSUME NEW m \in wire,
              Refuses(m) \/ Serves(m) \/ Accepts(m) \/ Reports(m) \/ CancelArrives(m)
       PROVE  IInv'
  <2>1. m[1] \in Calls
    BY <1>1 DEF Rest
  <2>2. ClientStep(m[1])
    BY <1>10, RefusesStep, ServesStep, AcceptsStep, ReportsStep, CancelArrivesStep
  <2> QED BY <2>1, <2>2, ClientStepInvariant
<1> QED BY <1>3, <1>4, <1>5, <1>6, <1>7, <1>8, <1>9, <1>10 DEF Next

-----------------------------------------------------------------------------
(* The theorems                                                            *)

\* Whatever hosts start, stop, crash and take over ports, what is known of
\* each call of the MCP server stays true.
THEOREM Invariance == Spec => []IInv
<1> QED BY InitInvariant, NextInvariant, PTL DEF Spec

\* Every variable keeps its type; one call works at a time, and it has one
\* message on its way at most.
THEOREM TypeCorrect == Spec => []TypeOK
<1>1. IInv => TypeOK
  BY DEF IInv
<1> QED BY <1>1, Invariance, PTL

\* connector_request only ever works on the host its descriptor names, which
\* the agent's selector admits, and a request in the document the agent named.
THEOREM RightTargetCorrect == Spec => []RightTarget
<1>1. IInv => RightTarget
  <2> SUFFICES ASSUME IInv, NEW w \in work PROVE w[1] \in Calls /\ TargetInv(w[1])
    BY DEF RightTarget, TargetInv
  <2> QED BY DEF IInv, TypeOK, CallInv
<1> QED BY <1>1, Invariance, PTL

\* An error that left the POST as a RuntimeError: no connector has the request
\* or will have it.
THEOREM ErrorCorrect == Spec => []ErrorMeansNoRequest
<1>1. IInv => ErrorMeansNoRequest
  BY DEF IInv, CallInv, EndInv, Fresh, Retriable, ErrorMeansNoRequest
<1> QED BY <1>1, Invariance, PTL

\* No connector works on a call, or holds its request, before its plan is
\* journalled; and what is journalled as completed was served.
THEOREM JournalCorrect == Spec => []JournalCoversWork
<1>1. ASSUME IInv PROVE JournalCoversWork
  <2>1. ASSUME NEW c \in Calls
        PROVE  /\ Served(c) \/ created[c] # None => journal[c] # << >> /\ journal[c][1] = "planned"
               /\ Len(journal[c]) = 2 /\ journal[c][2] = "completed"
                     => created[c] # None \/ Served(c)
    <3>1. JournalInv(c) /\ PhaseInv(c)
      BY <1>1 DEF IInv, CallInv
    <3>2. pc[c] \in Early \cup Asking \cup {"record", "ended"}
      BY <1>1 DEF IInv, TypeOK, Steps, Early, Asking
    <3>5. pc[c] \in Early => ~Served(c) /\ created[c] = None
      BY <3>1 DEF PhaseInv, Untouched
    <3>3. Served(c) \/ created[c] # None => Len(journal[c]) > 0
      BY <3>1, <3>2, <3>5 DEF JournalInv, Untouched
    <3>4. Len(journal[c]) > 0 => journal[c] # << >>
      BY EmptySeq
    <3> QED BY <3>1, <3>3, <3>4 DEF JournalInv
  <2> QED BY <2>1 DEF JournalCoversWork, Served
<1> QED BY <1>1, Invariance, PTL

\* A request that is decided stays as it is decided.
LEMMA OutcomeIsFinal ==
    ASSUME IInv, Next, NEW k \in Calls, outcome[k] # "open"
    PROVE  outcome'[k] = outcome[k]
<1>1. Functions
  BY FunctionsTyped DEF IInv
<1>2. ASSUME NEW h \in Hosts, HostStep(h) \/ HostStops(h) PROVE outcome'[k] = outcome[k]
  <2>1. CASE HostStep(h)
    BY <2>1 DEF HostStep, clientVars, connectorVars
  <2>2. CASE HostStops(h)
    BY <2>2 DEF HostStops, Ledger!CancelAll
  <2> QED BY <1>2, <2>1, <2>2
<1>3. ASSUME NEW c \in Calls, NEW t \in Tools, NEW f \in Filters, Begin(c, t, f)
      PROVE  outcome' = outcome
  BY <1>3 DEF Begin, connectorVars
<1>4. ASSUME NEW c \in Calls, CallStep(c) \/ DeadlinePasses(c) PROVE outcome' = outcome
  BY <1>4 DEF
      CallStep, List, Select, Planned, ReadFile, ReadFileFails, PlanFails, Connects, ConnectFails,
      ExchangeRaises, ReceiveError, ReceiveValue, ReceiveId, ReceiveStatus, ReceiveCancelled,
      LoopStep, Record, RecordRaises, DeadlinePasses, connectorVars
<1>5. ASSUME NEW m \in wire,
             Refuses(m) \/ Serves(m) \/ Accepts(m) \/ Reports(m) \/ CancelArrives(m)
      PROVE  outcome'[k] = outcome[k]
  BY <1>1, <1>5 DEF
      Functions, Refuses, Serves, Accepts, Reports, CancelArrives, Ledger!Decide, connectorVars
<1>6. ASSUME NEW c \in Calls, Performs(c) PROVE outcome' = outcome
  BY <1>6 DEF Performs, Ledger!Run
<1>7. ASSUME NEW c \in Calls, NEW o \in Terminal, Decides(c, o) PROVE outcome'[k] = outcome[k]
  BY <1>1, <1>7 DEF Functions, Decides, Ledger!Decide
<1> QED BY <1>2, <1>3, <1>4, <1>5, <1>6, <1>7 DEF Next

\* The status an agent was told is the outcome of the request in the ledger of
\* its connector, and no step changes it.
THEOREM AnswerCorrect == Spec => AnswerIsOutcome
<1> DEFINE Told == \A c \in Calls :
                       answer[c] \in Terminal => outcome[c] = answer[c] /\ outcome'[c] = answer[c]
<1>1. IInv /\ [Next]_vars => [Told]_vars
  BY OutcomeIsFinal DEF IInv, CallInv, EndInv, Terminal, Ledger!Outcomes
<1> QED BY <1>1, Invariance, PTL DEF Spec, AnswerIsOutcome

-----------------------------------------------------------------------------
(* A call is worked on at most once                                        *)

WorkOf(c) == {w \in work : w[1] = c}

\* What nobody has worked on yet: a GET that is still on its way, and a request
\* its connector has not run.
OnceInv(c) ==
    /\ \A v, w \in WorkOf(c) : v = w
    /\ tool[c] = "get" /\ (\E m \in wire : m[1] = c) => ~Served(c)
    /\ tool[c] = "execute" /\ runs[c] = 0 => ~Served(c)

\* Steps that send nothing, serve nothing and run nothing.
LEMMA OnceFrame ==
    ASSUME NEW c \in Calls, OnceInv(c), wire' \subseteq wire, UNCHANGED <<work, runs, tool>>
    PROVE  OnceInv(c)'
BY DEF OnceInv, WorkOf, Served

LEMMA OnceNext ==
    ASSUME IInv, \A c \in Calls : OnceInv(c), [Next]_vars
    PROVE  \A c \in Calls : OnceInv(c)'
<1>1. Functions /\ Rest
  BY FunctionsTyped DEF IInv
<1>2. ASSUME wire' \subseteq wire, UNCHANGED <<work, runs, tool>>
      PROVE  \A c \in Calls : OnceInv(c)'
  BY <1>2, OnceFrame
<1>3. ASSUME NEW h \in Hosts, HostStep(h) \/ HostStops(h) PROVE \A c \in Calls : OnceInv(c)'
  BY <1>2, <1>3 DEF HostStep, HostStops, Ledger!CancelAll, clientVars, callVars, httpVars,
     connectorVars
<1>4. ASSUME NEW c \in Calls, NEW t \in Tools, NEW f \in Filters, Begin(c, t, f),
             NEW d \in Calls
      PROVE  OnceInv(d)'
  <2>1. UNCHANGED <<wire, work, runs>>
    BY <1>4 DEF Begin, httpVars, connectorVars
  <2>2. CASE d = c
    <3>1. Untouched(c)
      BY <1>4 DEF Begin, Goes, IInv, CallInv, PhaseInv, Early
    <3> QED BY <2>1, <2>2, <3>1 DEF Untouched, OnceInv, WorkOf, Served
  <2>3. CASE d # c
    BY <1>1, <1>4, <2>1, <2>3 DEF Begin, Functions, OnceInv, WorkOf, Served
  <2> QED BY <2>2, <2>3
<1>5. ASSUME NEW c \in Calls, NEW verb \in Verbs, Connects(c, verb), NEW d \in Calls
      PROVE  OnceInv(d)'
  <2>1. UNCHANGED <<work, runs, tool>> /\ pc[c] = verb
        /\ \E h \in Hosts : wire' = wire \cup {<<c, verb, h>>}
    BY <1>5 DEF Connects, Goes, callVars, connectorVars
  <2>2. tool[c] = "get" => ~Served(c)
    BY <2>1 DEF IInv, CallInv, PhaseInv, Untouched, Verbs
  <2> QED BY <2>1, <2>2 DEF OnceInv, WorkOf, Served
<1>6. ASSUME NEW c \in Calls, CallStep(c) \/ DeadlinePasses(c),
             ~\E verb \in Verbs : Connects(c, verb)
      PROVE  \A d \in Calls : OnceInv(d)'
  BY <1>2, <1>6 DEF CallStep, List, Select, Planned, ReadFile, ReadFileFails, PlanFails,
     ConnectFails, ExchangeRaises, ReceiveError, ReceiveValue, ReceiveId, ReceiveStatus,
     ReceiveCancelled, LoopStep, Record, RecordRaises, DeadlinePasses, callVars, httpVars,
     connectorVars
<1>7. ASSUME NEW m \in wire, Refuses(m) \/ Accepts(m) \/ Reports(m) \/ CancelArrives(m)
      PROVE  \A d \in Calls : OnceInv(d)'
  BY <1>2, <1>7 DEF Refuses, Accepts, Reports, CancelArrives, Arrives, Ledger!Decide, callVars,
     connectorVars
<1>8. ASSUME NEW m \in wire, Serves(m), NEW d \in Calls PROVE OnceInv(d)'
  <2> DEFINE c == m[1]
             w == <<c, m[3], document[m[3]]>>
  <2>1. /\ UNCHANGED <<runs, tool>> /\ wire' = wire \ {m} /\ work' = work \cup {w}
        /\ m[2] = "get" /\ c \in Calls /\ w[1] = c
    BY <1>1, <1>8 DEF Serves, Arrives, Rest, callVars
  <2>2. tool[c] = "get" /\ ~Served(c) /\ (\A n \in wire' : n[1] # c)
    BY <2>1 DEF OnceInv, IInv, CallInv, WireInv
  <2> HIDE DEF c, w
  <2> QED BY <2>1, <2>2 DEF OnceInv, WorkOf, Served
<1>9. ASSUME NEW c \in Calls, Performs(c), NEW d \in Calls PROVE OnceInv(d)'
  <2> DEFINE w == <<c, created[c], document[created[c]]>>
  <2>1. /\ UNCHANGED <<wire, tool>> /\ work' = work \cup {w} /\ w[1] = c
        /\ runs[c] = 0 /\ runs' = [runs EXCEPT ![c] = 1] /\ created[c] # None
    BY <1>9 DEF Performs, Holds, Ledger!Run, callVars, httpVars
  <2>2. tool[c] = "execute" /\ ~Served(c)
    BY <1>1, <2>1 DEF IInv, CallInv, PhaseInv, Functions, OnceInv
  <2>3. runs'[c] = 1 /\ (\A e \in Calls \ {c} : runs'[e] = runs[e])
    BY <1>1, <2>1 DEF Functions
  <2> HIDE DEF w
  <2> QED BY <2>1, <2>2, <2>3 DEF OnceInv, WorkOf, Served
<1>10. ASSUME NEW c \in Calls, NEW o \in Terminal, Decides(c, o)
       PROVE  \A d \in Calls : OnceInv(d)'
  BY <1>2, <1>10 DEF Decides, Ledger!Decide, callVars, httpVars
<1>11. CASE UNCHANGED vars
  BY <1>2, <1>11 DEF vars, clientVars, callVars, httpVars, connectorVars
<1> QED BY <1>3, <1>4, <1>5, <1>6, <1>7, <1>8, <1>9, <1>10, <1>11 DEF Next

\* However many connectors a selector admits, and whoever takes over a port while
\* messages are on their way, hosts work on a call at most once: the POST is sent
\* to one connector, which keeps what RequestLedger promises, and not again after
\* an answer that was lost.
THEOREM WorkedAtMostOnce == Spec => [](\A c \in Calls : Cardinality(WorkOf(c)) <= 1)
<1>1. Init => \A c \in Calls : OnceInv(c)
  BY DEF Init, OnceInv, WorkOf, Served
<1>2. IInv /\ (\A c \in Calls : OnceInv(c)) /\ [Next]_vars => (\A c \in Calls : OnceInv(c))'
  BY OnceNext
<1>3. ASSUME \A c \in Calls : OnceInv(c)
      PROVE  \A c \in Calls : Cardinality(WorkOf(c)) <= 1
  <2> SUFFICES ASSUME NEW c \in Calls PROVE Cardinality(WorkOf(c)) <= 1
    OBVIOUS
  <2>1. CASE WorkOf(c) = {}
    BY <2>1, FS_EmptySet
  <2>2. CASE WorkOf(c) # {}
    <3>1. PICK w : WorkOf(c) = {w}
      BY <1>3, <2>2 DEF OnceInv
    <3>2. Cardinality(WorkOf(c)) = 1
      BY <3>1, FS_Singleton
    <3> QED BY <3>2
  <2> QED BY <2>1, <2>2
<1>4. (\A c \in Calls : OnceInv(c)) => \A c \in Calls : Cardinality(WorkOf(c)) <= 1
  BY <1>3
<1> QED BY <1>1, <1>2, <1>4, Invariance, PTL DEF Spec

-----------------------------------------------------------------------------
(* What is left to do after the deadline                                   *)

\* The steps a call still takes at most once its deadline has passed.
StepsLeft(c) ==
    CASE pc[c] = "poll" -> 6 [] pc[c] = "polling" -> 5 [] pc[c] = "loop" -> 4
      [] pc[c] = "cancel" -> 3 [] pc[c] = "cancelling" -> 2 [] pc[c] = "record" -> 1
      [] OTHER -> 0

\* Only the call itself goes on ...
OnlyCallMoves(c) == pc'[c] # pc[c] => CallStep(c)

LEMMA CallsMove ==
    ASSUME IInv, [Next]_vars, NEW c \in Calls, c \in overdue
    PROVE  c \in overdue' /\ OnlyCallMoves(c)
<1>1. Functions
  BY FunctionsTyped DEF IInv
<1>2. ASSUME NEW h \in Hosts, HostStep(h) \/ HostStops(h) PROVE UNCHANGED <<pc, overdue>>
  BY <1>2 DEF HostStep, HostStops, clientVars, callVars
<1>3. ASSUME NEW d \in Calls, NEW t \in Tools, NEW f \in Filters, Begin(d, t, f)
      PROVE  overdue' = overdue /\ pc'[c] = pc[c]
  <2>1. d # c
    BY <1>3, FunctionsTyped DEF IInv, CallInv, PhaseInv, Untouched, Early, Rest, Begin, Goes
  <2> QED BY <1>1, <1>3, <2>1 DEF Begin, Goes, Functions
<1>4. ASSUME NEW d \in Calls, DeadlinePasses(d) PROVE pc' = pc /\ overdue \subseteq overdue'
  BY <1>4 DEF DeadlinePasses
<1>5. ASSUME NEW d \in Calls, CallStep(d)
      PROVE  overdue' = overdue /\ (d # c => pc'[c] = pc[c])
  BY <1>1, <1>5 DEF Functions, CallStep, List, Select, Planned, ReadFile, ReadFileFails, PlanFails,
     Connects, ConnectFails, Ends, Goes, ExchangeRaises, ReceiveError, ReceiveValue, ReceiveId,
     ReceiveStatus, ReceiveCancelled, Loop, LoopStep, Record, RecordRaises, callVars
<1>6. ASSUME NEW m \in wire,
             Refuses(m) \/ Serves(m) \/ Accepts(m) \/ Reports(m) \/ CancelArrives(m)
      PROVE  UNCHANGED <<pc, overdue>>
  BY <1>6 DEF Refuses, Serves, Accepts, Reports, CancelArrives, callVars
<1>7. ASSUME NEW d \in Calls, Performs(d) \/ \E o \in Terminal : Decides(d, o)
      PROVE  UNCHANGED <<pc, overdue>>
  BY <1>7 DEF Performs, Decides, callVars
<1>8. UNCHANGED vars => UNCHANGED <<pc, overdue>>
  BY DEF vars, clientVars, callVars
<1> QED BY <1>2, <1>3, <1>4, <1>5, <1>6, <1>7, <1>8 DEF Next, OnlyCallMoves

\* ... and it has less to do after each step.
LEMMA StepCounts ==
    ASSUME IInv, NEW c \in Calls, c \in overdue, CallStep(c)
    PROVE  StepsLeft(c)' < StepsLeft(c)
<1>1. Functions /\ Rest /\ CallInv(c)
  BY FunctionsTyped DEF IInv
<1>2. pc[c] \notin Early \cup {"get", "execute", "getting", "executing"}
  BY <1>1 DEF CallInv, PhaseInv, Untouched, Rest, WireInv, ReplyInv
<1>3. pc[c] \in {"poll", "polling", "loop", "cancel", "cancelling", "record", "ended"}
  BY <1>1, <1>2 DEF Functions, Steps, Verbs, Waits, Early
<1>4. ASSUME NEW from, NEW to, Goes(c, from, to),
             \/ from = "poll" /\ to \in {"polling", "record"}
             \/ from = "polling" /\ to \in {"loop", "record"}
             \/ from = "loop" /\ to = "cancel"
             \/ from = "cancel" /\ to \in {"cancelling", "record"}
             \/ from = "cancelling" /\ to = "record"
             \/ from = "record" /\ to = "ended"
      PROVE  StepsLeft(c)' < StepsLeft(c)
  <2>1. pc[c] = from /\ pc'[c] = to
    BY <1>1, <1>4 DEF Goes, Functions
  <2> QED BY <1>4, <2>1 DEF StepsLeft
<1>5. ~(List(c) \/ Select(c) \/ Planned(c))
  BY <1>3 DEF List, Select, Planned, Goes
<1>6. ASSUME NEW h \in Hosts, ReadFile(c, h) \/ ReadFileFails(c, h) PROVE FALSE
  BY <1>3, <1>6 DEF ReadFile, ReadFileFails, Goes
<1>7. ASSUME NEW a \in Errors, PlanFails(c, a) PROVE FALSE
  BY <1>3, <1>7 DEF PlanFails, Goes
<1>8. ASSUME NEW verb \in Verbs, Connects(c, verb) PROVE StepsLeft(c)' < StepsLeft(c)
  <2>1. Goes(c, verb, Waiting(verb)) /\ verb \in {"poll", "cancel"}
    BY <1>3, <1>8 DEF Connects, Goes, Verbs
  <2> QED BY <1>4, <2>1 DEF Waiting
<1>9. ASSUME NEW verb \in Verbs, ConnectFails(c, verb) PROVE StepsLeft(c)' < StepsLeft(c)
  <2>1. Goes(c, verb, "record") /\ verb \in {"poll", "cancel"}
    BY <1>3, <1>9 DEF ConnectFails, Ends, Goes, Verbs
  <2> QED BY <1>4, <2>1
<1>10. CASE ExchangeRaises(c) \/ ReceiveError(c)
  <2>1. Goes(c, pc[c], "record")
    BY <1>10 DEF ExchangeRaises, ReceiveError, Ends
  <2>2. pc[c] \in {"polling", "cancelling"}
    BY <1>1, <1>3, <1>10, NoneAssumption DEF ExchangeRaises, ReceiveError, CallInv, ReplyInv, Waits,
       Responses
  <2> QED BY <1>4, <2>1, <2>2
<1>11. ~(ReceiveValue(c) \/ ReceiveId(c))
  BY <1>3 DEF ReceiveValue, ReceiveId, Ends, Goes
<1>12. CASE ReceiveStatus(c)
  <2>1. Goes(c, "polling", "loop") \/ Goes(c, "polling", "record")
    BY <1>12 DEF ReceiveStatus, Ends
  <2> QED BY <1>4, <2>1
<1>13. CASE ReceiveCancelled(c)
  <2>1. Goes(c, "cancelling", "record")
    BY <1>13 DEF ReceiveCancelled, Ends
  <2> QED BY <1>4, <2>1
<1>14. CASE LoopStep(c)
  <2>1. Goes(c, "loop", "cancel")
    BY <1>14 DEF LoopStep, Loop
  <2> QED BY <1>4, <2>1
<1>15. CASE Record(c) \/ RecordRaises(c)
  <2>1. Goes(c, "record", "ended")
    BY <1>15 DEF Record, RecordRaises
  <2> QED BY <1>4, <2>1
<1> QED
  BY <1>5, <1>6, <1>7, <1>8, <1>9, <1>10, <1>11, <1>12, <1>13, <1>14, <1>15 DEF CallStep

\* Once its deadline has passed a call has at most six steps left, a last poll
\* and a cancellation among them, and nothing hosts, ports and connectors do
\* gives it more: EveryCallAnswered needs only that these steps are taken.
DeadlineBounds ==
    [][\A c \in Calls : c \in overdue =>
          /\ c \in overdue'
          /\ StepsLeft(c) \in 0 .. 6
          /\ CallStep(c) => StepsLeft(c)' < StepsLeft(c)
          /\ ~CallStep(c) => StepsLeft(c)' = StepsLeft(c)]_vars

\* DeadlineBounds holds for any number of hosts, ports, documents and calls.
THEOREM DeadlineCorrect == Spec => DeadlineBounds
<1>1. ASSUME IInv, [Next]_vars, NEW c \in Calls, c \in overdue
      PROVE  /\ c \in overdue'
             /\ StepsLeft(c) \in 0 .. 6
             /\ CallStep(c) => StepsLeft(c)' < StepsLeft(c)
             /\ ~CallStep(c) => StepsLeft(c)' = StepsLeft(c)
  <2>1. StepsLeft(c) \in 0 .. 6
    BY DEF StepsLeft
  <2>2. ~CallStep(c) => StepsLeft(c)' = StepsLeft(c)
    BY <1>1, CallsMove DEF OnlyCallMoves, StepsLeft
  <2> QED BY <1>1, <2>1, <2>2, CallsMove, StepCounts
<1>2. IInv /\ [Next]_vars
        => [\A c \in Calls : c \in overdue =>
              /\ c \in overdue'
              /\ StepsLeft(c) \in 0 .. 6
              /\ CallStep(c) => StepsLeft(c)' < StepsLeft(c)
              /\ ~CallStep(c) => StepsLeft(c)' = StepsLeft(c)]_vars
  BY <1>1
<1> QED BY <1>2, Invariance, PTL DEF Spec, DeadlineBounds
=============================================================================
