----------------------------- MODULE FacadeProofs -----------------------------
(***************************************************************************)
(* Proofs about ProviderFacade, for any number of calls, descriptors,      *)
(* config versions and processes: what one operation of the manager does   *)
(* to its provider, what a call of invoke_provider does through several    *)
(* operations, and that the manager's own invariants survive this use.     *)
(***************************************************************************)
EXTENDS ProviderFacade, ProvidersProofs

-----------------------------------------------------------------------------
(* One operation of the manager                                            *)

\* Operations that classify the tool, that look at it or call it, that call it.
Classifying == {"schema", "preview", "read", "write"}
Invoking == {"preview", "read", "write"}
Calling == {"read", "write"}

Exchanging == {"register", "send", "wait"}

\* Which look-up an operation may be at, and what it may ask the process then.
StageInv(c) ==
    /\ pc[c] = "idle" => op[c] = "none"
    /\ Busy(c) => op[c] \in AllOperations /\ stage[c] # 0
    /\ pc[c] \in Holding => op[c] \in Classifying \cup {"probe"} /\ stage[c] \in {1, 3}
    /\ Busy(c) /\ stage[c] = 2 => op[c] \in Classifying
    /\ Busy(c) /\ stage[c] = 3 => op[c] \in Calling
    /\ Busy(c) /\ stage[c] = 4 => op[c] \in Invoking
    /\ pc[c] \in Exchanging <=> method[c] # "none"
    /\ method[c] = "tools/call" => stage[c] = 3
    /\ pc[c] = "returned" /\ op[c] \in Invoking => stage[c] = 4

\* The request to call the tool has been written.
CallSent(c) == pc[c] = "wait" /\ method[c] = "tools/call"

\* The tool is called between the third look-up and the fourth, if at all.
CalledInv(c) ==
    /\ Work(c) # {} => op[c] \in Calling /\ (Busy(c) => CallSent(c) \/ stage[c] = 4)
    /\ CallSent(c) \/ (stage[c] = 4 /\ op[c] \in Calling) => Work(c) # {}
    /\ \A e, f \in Work(c) : e = f

ToolInv == \A c \in Calls : StageInv(c) /\ CalledInv(c)

\* Only Send writes a request to call the tool.
LEMMA OnlySendCalls ==
    ASSUME NEW c \in Calls, CallStep(c), ~Send(c)
    PROVE  sent' = sent
BY DEF CallStep, Stat, Load, Swap, LookupFails, LookupChild, LookupAccess, LookupVersion,
       StartChecks, Spawn, SpawnFails, ToolsCached, ListTools, UseTools, Register, SendFails,
       Receive, ReceiveError, TimesOut, CallFails, Abort

\* The look-ups decide what the operation goes on to.
LEMMA LookupStage ==
    ASSUME Locals, NEW c \in Calls, StageInv(c), CalledInv(c),
           \/ Stat(c) \/ Load(c) \/ Swap(c) \/ LookupFails(c) \/ LookupChild(c)
           \/ LookupAccess(c) \/ LookupVersion(c)
    PROVE  StageInv(c)' /\ CalledInv(c)'
<1> USE DEF Locals, StageInv, CalledInv, CallSent, Work, Goes, Busy, Holding, Steps, Exchanging,
            Classifying, Invoking, Calling, AllOperations, callVars, localVars
<1>1. CASE Stat(c)
  BY <1>1 DEF Stat
<1>2. CASE Load(c)
  BY <1>2 DEF Load
<1>3. CASE Swap(c)
  BY <1>3 DEF Swap
<1>4. CASE LookupFails(c)
  BY <1>4 DEF LookupFails
<1>5. CASE LookupChild(c)
  BY <1>5 DEF LookupChild
<1>6. CASE LookupAccess(c)
  BY <1>6 DEF LookupAccess
<1>7. CASE LookupVersion(c)
  BY <1>7 DEF LookupVersion
<1> QED BY <1>1, <1>2, <1>3, <1>4, <1>5, <1>6, <1>7

\* start and tools.
LEMMA StartStage ==
    ASSUME Locals, NEW c \in Calls, StageInv(c), CalledInv(c),
           \/ StartChecks(c) \/ Spawn(c) \/ SpawnFails(c) \/ Abort(c)
           \/ ToolsCached(c) \/ ListTools(c) \/ UseTools(c)
    PROVE  StageInv(c)' /\ CalledInv(c)'
<1> USE DEF Locals, StageInv, CalledInv, CallSent, Work, Goes, Busy, Holding, Steps, Exchanging,
            Classifying, Invoking, Calling, AllOperations, callVars, localVars
<1>1. CASE StartChecks(c)
  BY <1>1 DEF StartChecks
<1>2. CASE Spawn(c)
  BY <1>2 DEF Spawn
<1>3. CASE SpawnFails(c)
  BY <1>3 DEF SpawnFails
<1>4. CASE ToolsCached(c)
  BY <1>4 DEF ToolsCached
<1>5. CASE ListTools(c)
  BY <1>5 DEF ListTools
<1>6. CASE UseTools(c)
  BY <1>6 DEF UseTools
<1>7. CASE Abort(c)
  BY <1>7 DEF Abort
<1> QED BY <1>1, <1>2, <1>3, <1>4, <1>5, <1>6, <1>7

\* The exchanges with the process.
LEMMA ExchangeStage ==
    ASSUME Locals, NEW c \in Calls, StageInv(c), CalledInv(c),
           Register(c) \/ Send(c) \/ SendFails(c) \/ Receive(c) \/ ReceiveError(c) \/ TimesOut(c)
    PROVE  StageInv(c)' /\ CalledInv(c)'
<1> USE DEF Locals, StageInv, CalledInv, CallSent, Work, Goes, Busy, Holding, Steps, Exchanging,
            Classifying, Invoking, Calling, AllOperations, callVars, localVars
<1>1. CASE Register(c)
  BY <1>1 DEF Register
<1>2. CASE Send(c)
  <2>1. sent' = IF method[c] = "tools/call" THEN sent \cup {<<c, child[c], id[c]>>} ELSE sent
    BY <1>2 DEF Send
  <2>2. Work(c)' = IF method[c] = "tools/call" THEN Work(c) \cup {<<c, child[c], id[c]>>} ELSE Work(c)
    BY <2>1
  <2>3. method[c] = "tools/call" => Work(c) = {}
    BY <1>2 DEF Send
  <2> HIDE DEF Work
  <2> QED BY <1>2, <2>2, <2>3 DEF Send
<1>3. ASSUME NEW step \in {"send", "wait"}, CallFails(c, step)
      PROVE  StageInv(c)' /\ CalledInv(c)'
  BY <1>3 DEF CallFails, CallEnds
<1>4. CASE Receive(c)
  BY <1>4 DEF Receive, CallEnds, Methods
<1> QED BY <1>1, <1>2, <1>3, <1>4 DEF SendFails, ReceiveError, TimesOut

\* What the invariant says of a call depends on that call alone.
LEMMA StageFrame ==
    ASSUME NEW c \in Calls, StageInv(c), CalledInv(c), Work(c)' = Work(c),
           pc'[c] = pc[c], op'[c] = op[c], stage'[c] = stage[c], method'[c] = method[c]
    PROVE  StageInv(c)' /\ CalledInv(c)'
BY DEF StageInv, CalledInv, CallSent, Busy

\* A step of a call is none of another call.
LEMMA OthersStage ==
    ASSUME Locals, NEW c \in Calls, CallStep(c), NEW d \in Calls \ {c}
    PROVE  /\ pc'[d] = pc[d] /\ op'[d] = op[d] /\ stage'[d] = stage[d]
           /\ method'[d] = method[d] /\ Work(d)' = Work(d)
<1> USE DEF Locals, Goes, localVars, callVars
<1>1. pc'[d] = pc[d]
  BY CallMoves
<1>2. Work(d)' = Work(d)
  <2>1. CASE Send(c)
    BY <2>1 DEF Send, Work
  <2>2. CASE ~Send(c)
    BY <2>2, OnlySendCalls DEF Work
  <2> QED BY <2>1, <2>2
<1>3. CASE Stat(c) \/ Load(c) \/ Swap(c) \/ LookupFails(c) \/ LookupChild(c)
  BY <1>1, <1>2, <1>3 DEF Stat, Load, Swap, LookupFails, LookupChild
<1>4. CASE LookupAccess(c) \/ LookupVersion(c) \/ StartChecks(c) \/ Spawn(c) \/ SpawnFails(c)
  BY <1>1, <1>2, <1>4 DEF LookupAccess, LookupVersion, StartChecks, Spawn, SpawnFails
<1>5. CASE ToolsCached(c) \/ ListTools(c) \/ UseTools(c) \/ Register(c) \/ Send(c)
  BY <1>1, <1>2, <1>5 DEF ToolsCached, ListTools, UseTools, Register, Send
<1>6. CASE SendFails(c) \/ Receive(c) \/ ReceiveError(c) \/ TimesOut(c) \/ Abort(c)
  BY <1>1, <1>2, <1>6 DEF SendFails, Receive, ReceiveError, TimesOut, CallFails, CallEnds, Abort
<1> QED BY <1>3, <1>4, <1>5, <1>6 DEF CallStep

LEMMA ToolStep ==
    ASSUME Locals, ToolInv, NEW c \in Calls, CallStep(c)
    PROVE  ToolInv'
<1>1. StageInv(c)' /\ CalledInv(c)'
  BY LookupStage, StartStage, ExchangeStage DEF ToolInv, CallStep
<1>2. ASSUME NEW d \in Calls \ {c} PROVE StageInv(d)' /\ CalledInv(d)'
  BY OthersStage, StageFrame DEF ToolInv
<1> QED BY <1>1, <1>2 DEF ToolInv

\* A call takes up an operation that has called no tool yet.
LEMMA ToolEnters ==
    ASSUME Locals, ToolInv, NEW c \in Calls, NEW from, NEW o, Enters(c, from, o),
           op[c] \notin Calling
    PROVE  ToolInv'
<1>1. \A d \in Calls : Work(d)' = Work(d)
  BY DEF Enters, Work
<1>2. StageInv(c)' /\ CalledInv(c)'
  <2>1. Work(c) = {} /\ pc[c] = from /\ from \in {"idle", "returned"}
    BY DEF ToolInv, CalledInv, Enters, Goes
  <2>2. StageInv(c)'
    BY <2>1 DEF ToolInv, StageInv, Enters, Goes, Locals, Busy, Steps, Holding, Exchanging, callVars
  <2>3. CalledInv(c)'
    BY <1>1, <2>1 DEF CalledInv, CallSent, Enters, Goes, Locals
  <2> QED BY <2>2, <2>3
<1>3. ASSUME NEW d \in Calls \ {c} PROVE StageInv(d)' /\ CalledInv(d)'
  BY <1>1, StageFrame DEF Enters, Goes, Locals, callVars, ToolInv
<1> QED BY <1>2, <1>3 DEF ToolInv

LEMMA ToolRests ==
    ASSUME ToolInv, UNCHANGED <<pc, op, stage, method, sent>>
    PROVE  ToolInv'
<1>1. \A c \in Calls : Work(c)' = Work(c)
  BY DEF Work
<1> QED BY <1>1, StageFrame DEF ToolInv

\* What goes on beside the callers is none of theirs.
LEMMA OthersRestTool ==
    ASSUME OthersStep \/ Exit \/ UNCHANGED vars
    PROVE  UNCHANGED <<pc, op, stage, method, sent>>
BY DEF OthersStep, ConfigChanges, ProcessStep, ReaderStep, DrainStep, Answers, Crashes, Deliver,
       ReaderEnds, ReaderDies, DrainEnds, DrainCloses, Exit, vars, localVars, callVars

LEMMA ToolNext ==
    ASSUME Locals, ToolInv, [Next]_vars
    PROVE  ToolInv'
<1>1. ASSUME NEW c \in Calls, NEW o \in Operations, Begin(c, o) PROVE ToolInv'
  <2>1. Enters(c, "idle", o) /\ op[c] \notin Calling
    BY <1>1, OperationsAssumption, BeginEnters DEF Begin, Goes, ToolInv, StageInv, Calling
  <2> QED BY <2>1, ToolEnters
<1> QED BY <1>1, ToolStep, ToolRests, OthersRestTool DEF Next

LEMMA ToolInit == Init => ToolInv
BY DEF Init, ToolInv, StageInv, CalledInv, CallSent, Work, Busy, Steps, Holding, Exchanging,
       Invoking, Calling

\* However many callers there are, whatever fails, restarts or is replaced while
\* an operation is under way: it calls the tool at most once, and only if it is
\* one of those that are meant to; and an invocation that returns has called it.
THEOREM EachCallsOnce ==
    Spec => [](\A c \in Calls :
                  /\ Cardinality(Work(c)) <= IF op[c] \in {"read", "write"} THEN 1 ELSE 0
                  /\ pc[c] = "returned" /\ op[c] \in {"read", "write"} => Work(c) # {})
<1>1. Init => AnswerInv /\ ConfigInv /\ ToolInv
  BY TypeInit, ConfigInit, ToolInit
<1>2. AnswerInv /\ ConfigInv /\ ToolInv /\ [Next]_vars => (AnswerInv /\ ConfigInv /\ ToolInv)'
  <2>1. AnswerInv => Locals
    BY TypeParts DEF AnswerInv
  <2> QED BY <2>1, NextStep, ToolNext
<1>3. ToolInv => \A c \in Calls :
                  /\ Cardinality(Work(c)) <= IF op[c] \in {"read", "write"} THEN 1 ELSE 0
                  /\ pc[c] = "returned" /\ op[c] \in {"read", "write"} => Work(c) # {}
  <2> SUFFICES ASSUME ToolInv, NEW c \in Calls
               PROVE  /\ Cardinality(Work(c)) <= IF op[c] \in {"read", "write"} THEN 1 ELSE 0
                      /\ pc[c] = "returned" /\ op[c] \in {"read", "write"} => Work(c) # {}
    OBVIOUS
  <2>1. CASE Work(c) = {}
    BY <2>1, FS_EmptySet DEF ToolInv, StageInv, CalledInv, Calling, Invoking
  <2>2. CASE Work(c) # {}
    <3>1. PICK e : Work(c) = {e}
      BY <2>2 DEF ToolInv, CalledInv
    <3>2. Cardinality(Work(c)) = 1 /\ op[c] \in {"read", "write"}
      BY <2>2, <3>1, FS_Singleton DEF ToolInv, CalledInv, Calling
    <3> QED BY <2>2, <3>2
  <2> QED BY <2>1, <2>2
<1> QED BY <1>1, <1>2, <1>3, PTL DEF Spec

-----------------------------------------------------------------------------
(* A provider whose configuration is left alone                            *)

\* Every object keeps its descriptor, and so does every generation with it.
SameDescriptors ==
    /\ Len(objects') = Len(objects)
    /\ \A k \in 1 .. Len(objects) : objects'[k].descriptor = objects[k].descriptor

\* Whatever happens to an object, the descriptor is not part of it ...
LEMMA DescriptorsStay ==
    ASSUME AnswerInv, AnswerInv', [Next]_vars, \A c \in Calls : ~Swap(c)
    PROVE  SameDescriptors
<1>1. Seqs /\ Refs /\ Len(objects) \in Nat /\ objects \in [1 .. Len(objects) -> ObjectType(Len(procs))]
  BY TypeParts, LenProperties DEF AnswerInv, Seqs
<1>2. SUFFICES /\ DOMAIN objects' = DOMAIN objects
               /\ \A k \in 1 .. Len(objects) : objects'[k].descriptor = objects[k].descriptor
  BY SameLengths DEF SameDescriptors
<1> DEFINE Alike == /\ DOMAIN objects' = DOMAIN objects
                    /\ \A k \in 1 .. Len(objects) : objects'[k].descriptor = objects[k].descriptor
<1> USE DEF ObjectType, configVars, localVars, callVars
<1>3. ASSUME UNCHANGED objects PROVE Alike
  BY <1>3
<1>4. ASSUME NEW c \in Calls, CallStep(c) PROVE Alike
  <2>1. CASE Stat(c) \/ Load(c) \/ LookupFails(c) \/ LookupChild(c) \/ LookupAccess(c)
             \/ LookupVersion(c)
    BY <1>3, <2>1 DEF Stat, Load, LookupFails, LookupChild, LookupAccess, LookupVersion
  <2>2. CASE StartChecks(c) \/ SpawnFails(c) \/ ToolsCached(c) \/ ListTools(c) \/ UseTools(c)
             \/ Send(c)
    BY <1>3, <2>2 DEF StartChecks, SpawnFails, ToolsCached, ListTools, UseTools, Send
  <2>3. CASE Spawn(c)
    BY <1>1, <2>3 DEF Spawn
  <2>4. CASE Register(c)
    BY <1>1, <2>4 DEF Register
  <2>5. CASE Receive(c)
    BY <1>1, <2>5 DEF Receive, Unregistered
  <2>6. CASE Abort(c)
    BY <1>1, <2>6 DEF Abort, ClosedObjects
  <2>7. CASE SendFails(c) \/ ReceiveError(c) \/ TimesOut(c)
    BY <1>1, <2>7 DEF SendFails, ReceiveError, TimesOut, CallFails, Unregistered
  <2> QED BY <1>4, <2>1, <2>2, <2>3, <2>4, <2>5, <2>6, <2>7 DEF CallStep
<1>5. ASSUME NEW k \in 1 .. Len(objects), DrainStep(k) PROVE Alike
  BY <1>1, <1>5 DEF DrainStep, DrainEnds, DrainCloses, ClosedObjects
<1>6. ASSUME NEW p \in 1 .. Len(procs), ProcessStep(p) \/ ReaderStep(p) PROVE Alike
  BY <1>3, <1>6 DEF ProcessStep, ReaderStep, Answers, Crashes, Deliver, ReaderEnds, ReaderDies
<1>7. CASE Exit
  BY <1>1, <1>7 DEF Exit, ClosedObjects
<1>8. CASE UNCHANGED vars \/ \E c \in Calls, o \in Operations : Begin(c, o)
  BY <1>3, <1>8 DEF vars, Begin
<1>9. CASE \E content \in Contents : ConfigChanges(content)
  BY <1>3, <1>9 DEF ConfigChanges
<1> QED BY <1>4, <1>5, <1>6, <1>7, <1>8, <1>9 DEF Next, OthersStep

\* ... and a swap adds at most one object, with what its reload has read.
LEMMA DescriptorsSwap ==
    ASSUME AnswerInv, ConfigInv, NEW c \in Calls, Swap(c)
    PROVE  /\ Len(objects') \in {Len(objects), Len(objects) + 1}
           /\ \A k \in 1 .. Len(objects) : objects'[k].descriptor = objects[k].descriptor
           /\ \A k \in 1 .. Len(objects') :
                 k > Len(objects) => ~Emptied(c) /\ objects'[k].descriptor = parsed[c]
<1>1. Seqs /\ Refs /\ Len(objects) \in Nat
  BY TypeParts, LenProperties DEF AnswerInv, Seqs
<1>2. SwapObjects /\ (~Emptied(c) => objects'[active'].descriptor = parsed[c])
  BY SwapTyped DEF ConfigInv
<1>3. CASE Emptied(c) \/ Kept(c)
  <2>1. objects' = Retired(active) \/ objects' = objects
    BY <1>3 DEF Swap, Emptied, Kept
  <2>2. Len(objects') = Len(objects)
    BY <1>1, <2>1, RetiredTyped DEF Refs
  <2> QED BY <1>1, <1>2, <2>2 DEF SwapObjects
<1>4. CASE ~Emptied(c) /\ ~Kept(c)
  <2>1. active' = Len(objects) + 1
    BY <1>4 DEF Swap, Emptied, Kept
  <2> QED BY <1>1, <1>2, <1>4, <2>1 DEF SwapObjects
<1> QED BY <1>3, <1>4

\* What callers know of the provider while the file is the first one: all
\* generations are the same, so that what was classified as a read is one.
FirstInv ==
    /\ \A k \in 1 .. Len(objects) : objects[k].descriptor = file.content
    /\ \A c \in Calls : parsed[c] \in {NoFile, NoEntry, file.content}
    /\ \A c \in Calls :
          /\ Busy(c) /\ stage[c] = 2 => child[c] # 0
          /\ op[c] = "read" /\ (Work(c) # {} \/ (Busy(c) /\ stage[c] = 3))
             => Access(file.content, file.content) = "read"

\* What is read is what the file says, or nothing.
LEMMA FirstParsed ==
    ASSUME AnswerInv, FirstInv, [Next]_vars, file' = file, NEW c \in Calls
    PROVE  parsed'[c] \in {NoFile, NoEntry, file.content}
<1>1. Locals
  BY TypeParts DEF AnswerInv
<1>2. CASE parsed' = parsed
  BY <1>2 DEF FirstInv
<1>3. ASSUME NEW d \in Calls, CallStep(d), parsed' # parsed
      PROVE  parsed'[c] \in {NoFile, NoEntry, file.content}
  <2>1. Load(d) \/ Swap(d)
    BY <1>3 DEF CallStep, Stat, LookupFails, LookupChild, LookupAccess, LookupVersion, StartChecks,
       Spawn, SpawnFails, ToolsCached, ListTools, UseTools, Register, Send, SendFails, Receive,
       ReceiveError, TimesOut, CallFails, Abort, localVars
  <2>2. parsed' = [parsed EXCEPT ![d] = NoFile] \/ parsed' = [parsed EXCEPT ![d] = file.content]
    BY <1>3, <2>1 DEF Load, Swap, ReloadEnds, localVars
  <2> QED BY <1>1, <2>2 DEF FirstInv, Locals
<1>4. ASSUME OthersStep \/ Exit \/ UNCHANGED vars \/ \E d \in Calls, o \in Operations : Begin(d, o)
      PROVE  parsed' = parsed
  BY <1>4 DEF OthersStep, ConfigChanges, ProcessStep, ReaderStep, DrainStep, Answers, Crashes,
     Deliver, ReaderEnds, ReaderDies, DrainEnds, DrainCloses, Exit, Begin, vars, localVars
<1> QED BY <1>2, <1>3, <1>4 DEF Next

\* The generations are those that were read.
LEMMA FirstObjects ==
    ASSUME AnswerInv, AnswerInv', ConfigInv, FirstInv, [Next]_vars, file' = file
    PROVE  \A k \in 1 .. Len(objects') : objects'[k].descriptor = file.content
<1>1. Len(objects) \in Nat
  BY TypeParts, LenProperties DEF AnswerInv, Seqs
<1>2. ASSUME NEW c \in Calls, Swap(c)
      PROVE  \A k \in 1 .. Len(objects') : objects'[k].descriptor = file.content
  <2>1. ~Emptied(c) => parsed[c] = file.content
    BY DEF FirstInv, Emptied
  <2> QED BY <1>1, <1>2, <2>1, DescriptorsSwap DEF FirstInv
<1>3. CASE \A c \in Calls : ~Swap(c)
  BY <1>3, DescriptorsStay DEF SameDescriptors, FirstInv
<1> QED BY <1>2, <1>3

\* A read gets past its second look-up only when that finds a read.
LEMMA FirstRead ==
    ASSUME AnswerInv, ToolInv, FirstInv, NEW c \in Calls, CallStep(c),
           op'[c] = "read", Work(c)' # {} \/ (Busy(c)' /\ stage'[c] = 3)
    PROVE  Access(file.content, file.content) = "read"
<1>1. Locals /\ Seqs /\ Refs /\ StageInv(c) /\ CalledInv(c)
  BY TypeParts DEF AnswerInv, ToolInv
<1>2. op[c] = "read" /\ Busy(c)
  <2>1. op' = op
    BY DEF CallStep, Stat, Load, Swap, LookupFails, LookupChild, LookupAccess, LookupVersion,
       StartChecks, Spawn, SpawnFails, ToolsCached, ListTools, UseTools, Register, Send, SendFails,
       Receive, ReceiveError, TimesOut, CallFails, Abort, localVars
  <2> QED BY <1>1, <2>1, CallMoves
<1>3. CASE Work(c) # {} \/ stage[c] = 3
  BY <1>2, <1>3 DEF FirstInv
<1>4. CASE Work(c) = {} /\ stage[c] # 3
  <2>1. ~Send(c) \/ method[c] # "tools/call"
    BY <1>1, <1>4 DEF StageInv
  <2>2. Work(c)' = {}
    BY <1>4, <2>1, OnlySendCalls DEF Send, Work
  <2>3. stage'[c] = 3 /\ stage[c] # 3
    BY <1>4, <2>2
  <2>4. LookupAccess(c) /\ pc'[c] \in Steps
    BY <1>1, <2>2, <2>3 DEF CallStep, Stat, Load, Swap, LookupFails, LookupChild, LookupAccess,
       LookupVersion, StartChecks, Spawn, SpawnFails, ToolsCached, ListTools, UseTools, Register,
       Send, SendFails, Receive, ReceiveError, TimesOut, CallFails, Abort, localVars, Locals, Busy
  <2>5. Access(objects[child[c]].descriptor, objects[active].descriptor) = "read"
    BY <1>1, <1>2, <2>4 DEF LookupAccess, Goes, Locals, Steps
  <2>6. child[c] \in 1 .. Len(objects) /\ active \in 1 .. Len(objects)
    BY <1>1, <1>2, <2>4 DEF LookupAccess, Refs, FirstInv
  <2> QED BY <2>5, <2>6 DEF FirstInv
<1> QED BY <1>3, <1>4

\* The object whose tools a call has listed is remembered.
LEMMA FirstChild ==
    ASSUME AnswerInv, FirstInv, NEW c \in Calls, CallStep(c), Busy(c)', stage'[c] = 2
    PROVE  child'[c] # 0
<1>1. Locals /\ Refs /\ Busy(c)
  BY TypeParts, CallMoves DEF AnswerInv
<1>2. CASE UseTools(c)
  BY <1>1, <1>2 DEF UseTools, Goes, AnswerInv, ChildInv
<1>3. CASE LookupChild(c)
  BY <1>1, <1>3 DEF LookupChild, Refs
<1>4. CASE ~UseTools(c) /\ ~LookupChild(c)
  <2>1. child' = child /\ stage[c] = 2
    BY <1>1, <1>4 DEF CallStep, Stat, Load, Swap, LookupFails, LookupAccess, LookupVersion,
       StartChecks, Spawn, SpawnFails, ToolsCached, ListTools, Register, Send, SendFails, Receive,
       ReceiveError, TimesOut, CallFails, Abort, localVars, Locals
  <2> QED BY <1>1, <2>1 DEF FirstInv
<1> QED BY <1>2, <1>3, <1>4

\* Only a write of the file ends this.
LEMMA FirstNext ==
    ASSUME AnswerInv, AnswerInv', ConfigInv, ToolInv, FirstInv, [Next]_vars, file' = file
    PROVE  FirstInv'
<1>1. Locals /\ Refs
  BY TypeParts DEF AnswerInv
<1>2. ASSUME NEW c \in Calls
      PROVE  /\ Busy(c)' /\ stage'[c] = 2 => child'[c] # 0
             /\ op'[c] = "read" /\ (Work(c)' # {} \/ (Busy(c)' /\ stage'[c] = 3))
                => Access(file.content, file.content) = "read"
  <2>1. ASSUME pc'[c] = pc[c], op'[c] = op[c], stage'[c] = stage[c], child'[c] = child[c],
               Work(c)' = Work(c)
        PROVE  /\ Busy(c)' /\ stage'[c] = 2 => child'[c] # 0
               /\ op'[c] = "read" /\ (Work(c)' # {} \/ (Busy(c)' /\ stage'[c] = 3))
                  => Access(file.content, file.content) = "read"
    BY <2>1 DEF FirstInv, Busy
  <2>2. CASE CallStep(c)
    BY <2>2, FirstRead, FirstChild
  <2>3. ASSUME NEW d \in Calls \ {c}, CallStep(d)
        PROVE  /\ pc'[c] = pc[c] /\ op'[c] = op[c] /\ stage'[c] = stage[c]
               /\ Work(c)' = Work(c) /\ child'[c] = child[c]
    <3>1. child'[c] = child[c]
      BY <1>1, <2>3 DEF CallStep, Stat, Load, Swap, LookupFails, LookupChild, LookupAccess,
         LookupVersion, StartChecks, Spawn, SpawnFails, ToolsCached, ListTools, UseTools, Register,
         Send, SendFails, Receive, ReceiveError, TimesOut, CallFails, Abort, localVars, Refs
    <3> QED BY <1>1, <2>3, <3>1, OthersStage
  <2>4. ASSUME NEW d \in Calls, NEW o \in Operations, Begin(d, o)
        PROVE  /\ Busy(c)' /\ stage'[c] = 2 => child'[c] # 0
               /\ op'[c] = "read" /\ (Work(c)' # {} \/ (Busy(c)' /\ stage'[c] = 3))
                  => Access(file.content, file.content) = "read"
    <3>1. sent' = sent /\ child' = child
      BY <2>4 DEF Begin
    <3>2. Work(c)' = Work(c)
      BY <3>1 DEF Work
    <3>3. CASE c = d
      <4>1. pc[c] = "idle" /\ op[c] = "none" /\ Work(c) = {}
        BY <2>4, <3>3 DEF Begin, Goes, ToolInv, StageInv, CalledInv, Calling
      <4>2. stage'[c] = 1
        BY <1>1, <2>4, <3>3 DEF Begin, Locals
      <4> QED BY <3>2, <4>1, <4>2
    <3>4. CASE c # d
      BY <1>1, <2>1, <2>4, <3>1, <3>2, <3>4 DEF Begin, Goes, Locals
    <3> QED BY <3>3, <3>4
  <2>5. ASSUME OthersStep \/ Exit \/ UNCHANGED vars
        PROVE  UNCHANGED <<pc, op, stage, child, sent>>
    BY <2>5 DEF OthersStep, ConfigChanges, ProcessStep, ReaderStep, DrainStep, Answers, Crashes,
       Deliver, ReaderEnds, ReaderDies, DrainEnds, DrainCloses, Exit, vars, localVars
  <2> QED BY <2>1, <2>2, <2>3, <2>4, <2>5 DEF Next, Work
<1>3. \A k \in 1 .. Len(objects') : objects'[k].descriptor = file.content
  BY FirstObjects
<1>4. \A c \in Calls : parsed'[c] \in {NoFile, NoEntry, file.content}
  BY FirstParsed
<1> QED BY <1>2, <1>3, <1>4 DEF FirstInv

\* The file is written in later versions.
LEMMA FileGrows ==
    ASSUME AnswerInv, [Next]_vars
    PROVE  file' = file \/ (file'.version > file.version /\ file'.version > 1)
<1>1. file.version \in Nat /\ file.version >= 1
  BY TypeParts, BoundsAssumption DEF AnswerInv, Locals
<1>2. ASSUME NEW content \in Contents, ConfigChanges(content)
      PROVE  file'.version > file.version /\ file'.version > 1
  BY <1>1, <1>2 DEF ConfigChanges
<1>3. ASSUME NEW c \in Calls, CallStep(c) PROVE file' = file
  BY <1>3 DEF CallStep, Stat, Load, Swap, LookupFails, LookupChild, LookupAccess, LookupVersion,
     StartChecks, Spawn, SpawnFails, ToolsCached, ListTools, UseTools, Register, Send, SendFails,
     Receive, ReceiveError, TimesOut, CallFails, Abort, configVars
<1> QED
  BY <1>2, <1>3 DEF Next, OthersStep, ProcessStep, ReaderStep, DrainStep, Answers, Crashes, Deliver,
     ReaderEnds, ReaderDies, DrainEnds, DrainCloses, Exit, Begin, vars, configVars

\* What invoke calls as a read is one, as long as the config file is not
\* written: the disagreement that ReadStaysRead shows needs a write of the file
\* between two look-ups of the call, and not only threads, crashes and restarts.
THEOREM UnwrittenStaysRead == Spec => [](file.version = 1 => ReadStaysRead)
<1> DEFINE First == file.version = 1 => FirstInv
<1>1. Init => AnswerInv /\ ConfigInv /\ ToolInv /\ First
  <2>1. Init => FirstInv
    BY DEF Init, FirstInv, Work, Busy, Steps
  <2> QED BY <2>1, TypeInit, ConfigInit, ToolInit
<1>2. AnswerInv /\ ConfigInv /\ ToolInv /\ First /\ [Next]_vars
        => (AnswerInv /\ ConfigInv /\ ToolInv /\ First)'
  <2> SUFFICES ASSUME AnswerInv, ConfigInv, ToolInv, First, [Next]_vars
               PROVE  (AnswerInv /\ ConfigInv /\ ToolInv /\ First)'
    OBVIOUS
  <2>1. AnswerInv' /\ ConfigInv' /\ ToolInv'
    BY TypeParts, NextStep, ToolNext DEF AnswerInv
  <2>2. CASE file' = file
    BY <2>1, <2>2, FirstNext
  <2>3. CASE file' # file
    <3>1. file'.version > 1 /\ file'.version # 1
      BY <2>3, FileGrows
    <3> QED BY <2>1, <3>1
  <2> QED BY <2>2, <2>3
<1>3. AnswerInv /\ First => (file.version = 1 => ReadStaysRead)
  <2> SUFFICES ASSUME AnswerInv, FirstInv, NEW e \in sent, op[e[1]] = "read"
               PROVE  Access(objects[e[2]].descriptor, objects[e[2]].descriptor) = "read"
    BY DEF ReadStaysRead
  <2>1. e[1] \in Calls /\ e[2] \in 1 .. Len(objects)
    BY TypeParts DEF AnswerInv, Refs
  <2>2. e \in Work(e[1])
    BY <2>1 DEF Work
  <2> QED BY <2>1, <2>2 DEF FirstInv
<1> HIDE DEF First
<1> QED BY <1>1, <1>2, <1>3, PTL DEF Spec

-----------------------------------------------------------------------------
(* A call of the facade                                                    *)

\* The parts of a call before its plan is on record.
Preparing == {"schema", "application", "release", "trust"}

\* What each part of a call asks of the manager, and what is on record by then.
PhaseInv(c) ==
    /\ phase[c] \in {"idle", "direct", "invoke", "completing", "failing", "returned", "raised"}
                     \cup Preparing
    /\ Busy(c) => phase[c] \in {"direct", "invoke"} \cup Preparing
    /\ phase[c] = "idle" => op[c] = "none" /\ record[c] = << >>
    /\ phase[c] = "direct" => op[c] \in Direct /\ asked[c] = op[c]
    /\ phase[c] \in Preparing =>
          op[c] \in {"schema", "get"} /\ asked[c] \in Invoking /\ record[c] = << >>
    /\ phase[c] \in {"invoke", "completing", "failing"} =>
          asked[c] = op[c] /\ op[c] \in Invoking /\ record[c] = <<"planned">>
    /\ phase[c] \in {"completing", "returned"} => pc[c] = "returned" /\ asked[c] = op[c]
    /\ phase[c] = "returned" /\ asked[c] \notin Direct =>
          op[c] \in Invoking /\ record[c] = <<"planned", "completed">>
    /\ phase[c] = "raised" /\ op[c] \in Invoking =>
          asked[c] = op[c] /\ record[c] \in {<<"planned">>, <<"planned", "failed">>}

\* The server serves one call at a time.
Serial == \A c, d \in Calls : Serving(c) /\ Serving(d) => c = d

FacadeTypes ==
    /\ phase \in [Calls -> {"idle", "direct", "invoke", "completing", "failing", "returned",
                            "raised"} \cup Preparing]
    /\ asked \in [Calls -> AllOperations \cup {"none"}]
    /\ record \in [Calls -> Seq({"planned", "completed", "failed"})]

ManagerInv == AnswerInv /\ ConfigInv /\ OrphanInv /\ ToolInv

ServiceInv == FacadeTypes /\ Serial /\ \A c \in Calls : PhaseInv(c)

FacadeInv == ManagerInv /\ ServiceInv

\* An operation that goes on with the next one takes it up.
LEMMA ContinuesEnters ==
    ASSUME NEW c \in Calls, NEW from, NEW to, NEW o \in AllOperations, Continues(c, from, to, o)
    PROVE  Enters(c, "returned", o)
BY DEF Continues, Enters

\* What the manager sees of a step of the facade.
ManagerSees(c) ==
    \/ UNCHANGED vars
    \/ CallStep(c)
    \/ \E from, o : Enters(c, from, o) /\ op[c] \notin Calling

LEMMA FacadeSees ==
    ASSUME ToolInv, ServiceInv, NEW c \in Calls, FacadeStep(c)
    PROVE  ManagerSees(c)
<1>1. CASE ManagerStep(c)
  BY <1>1 DEF ManagerStep, ManagerSees
<1>2. CASE DirectEnds(c) \/ ManagerRaises(c) \/ Invoked(c) \/ Completed(c) \/ Failed(c) \/ RecordRaises(c)
  BY <1>2 DEF DirectEnds, ManagerRaises, Invoked, Completed, Failed, RecordRaises, Ends, ManagerSees
<1>3. ASSUME NEW from \in Preparing, NEW to, NEW o \in AllOperations, Continues(c, from, to, o)
      PROVE  ManagerSees(c)
  <2>1. op[c] \notin Calling
    BY <1>3 DEF Continues, ServiceInv, PhaseInv, Calling
  <2> QED BY <1>3, <2>1, ContinuesEnters DEF ManagerSees
<1>4. CASE Classified(c)
  <2>1. CASE Refused(c)
    BY <1>4, <2>1 DEF Classified, Ends, ManagerSees
  <2>2. CASE ~Refused(c)
    BY <1>3, <1>4, <2>2 DEF Classified, Preparing, AllOperations
  <2> QED BY <2>1, <2>2
<1>5. CASE Released(c)
  BY <1>3, <1>5 DEF Released, Preparing, AllOperations
<1>6. ASSUME NEW n \in Instances, Targeted(c, n) PROVE ManagerSees(c)
  <2>1. CASE n = "several"
    BY <1>6, <2>1 DEF Targeted, Ends, ManagerSees
  <2>2. CASE n = "one"
    BY <1>3, <1>6, <2>2 DEF Targeted, Preparing, AllOperations
  <2>3. CASE n = "none"
    BY <1>3, <1>6, <2>3 DEF Targeted, Preparing, AllOperations
  <2> QED BY <2>1, <2>2, <2>3 DEF Instances
<1>7. CASE Planned(c)
  <2>1. asked[c] \in AllOperations
    BY <1>7 DEF Planned, Continues, ServiceInv, PhaseInv, Preparing, Invoking, AllOperations
  <2> QED BY <1>3, <1>7, <2>1 DEF Planned, Preparing
<1> QED BY <1>1, <1>2, <1>4, <1>5, <1>6, <1>7 DEF FacadeStep

\* Whatever step it sees, only a call that is served can become busy.
LEMMA SingleSees ==
    ASSUME Locals, Serial, NEW c \in Calls, Serving(c), \A d \in Calls : Busy(d) => Serving(d),
           ManagerSees(c)
    PROVE  SingleInv'
<1>1. \A d \in Calls \ {c} : pc'[d] = pc[d] /\ ~Busy(d)
  BY CallMoves DEF ManagerSees, Enters, Goes, Locals, vars, Serial
<1>2. BusyCalls' \subseteq {c}
  BY <1>1 DEF BusyCalls, Busy
<1> QED BY <1>2, FS_Singleton, FS_Subset DEF SingleInv

\* The manager's invariants survive what the facade does.
LEMMA ManagerKeeps ==
    ASSUME ManagerInv, NEW c \in Calls, ManagerSees(c), SingleInv'
    PROVE  ManagerInv'
<1>1. Locals
  BY TypeParts DEF ManagerInv, AnswerInv
<1>2. AnswerInv' /\ ConfigInv'
  BY CallSteps, Stutters, EntersStep, ReloadLocal DEF ManagerInv, ManagerSees
<1>3. ToolInv'
  BY <1>1, ToolStep, ToolRests, ToolEnters DEF ManagerInv, ManagerSees, vars, localVars, callVars
<1>4. FleetInv' /\ HoldInv'
  <2>1. CASE \E from, o : Enters(c, from, o)
    BY <2>1, EntersHolds DEF ManagerInv, OrphanInv
  <2>2. CASE CallStep(c) \/ UNCHANGED vars
    BY <1>2, <2>2, FleetNext DEF ManagerInv, Next
  <2> QED BY <2>1, <2>2 DEF ManagerSees
<1> QED BY <1>2, <1>3, <1>4 DEF ManagerInv, OrphanInv

\* What the invariant says of a call of the facade depends on that call alone.
LEMMA PhaseFrame ==
    ASSUME NEW c \in Calls, PhaseInv(c), phase'[c] = phase[c], asked'[c] = asked[c],
           record'[c] = record[c], pc'[c] = pc[c], op'[c] = op[c]
    PROVE  PhaseInv(c)'
BY DEF PhaseInv, Busy

LEMMA OperationKept ==
    ASSUME NEW c \in Calls, CallStep(c)
    PROVE  op' = op
BY DEF CallStep, Stat, Load, Swap, LookupFails, LookupChild, LookupAccess, LookupVersion,
       StartChecks, Spawn, SpawnFails, ToolsCached, ListTools, UseTools, Register, Send, SendFails,
       Receive, ReceiveError, TimesOut, CallFails, Abort, localVars

\* A step of a call of the facade is none of another call.
LEMMA FacadeOthers ==
    ASSUME Locals, FacadeTypes, NEW c \in Calls, FacadeStep(c), ManagerSees(c),
           NEW d \in Calls \ {c}
    PROVE  /\ phase'[d] = phase[d] /\ asked'[d] = asked[d] /\ record'[d] = record[d]
           /\ pc'[d] = pc[d] /\ op'[d] = op[d]
<1>1. pc'[d] = pc[d] /\ op'[d] = op[d]
  <2>1. CASE CallStep(c)
    BY <2>1, OthersStage
  <2>2. CASE UNCHANGED vars \/ \E from, o : Enters(c, from, o)
    BY <2>2 DEF Enters, Goes, Locals, vars, localVars
  <2> QED BY <2>1, <2>2 DEF ManagerSees
<1>2. phase'[d] = phase[d] /\ asked'[d] = asked[d] /\ record'[d] = record[d]
  <2> USE DEF FacadeTypes, Ends, Continues, Records
  <2>1. CASE ManagerStep(c) \/ DirectEnds(c) \/ Classified(c) \/ Released(c)
    BY <2>1 DEF ManagerStep, DirectEnds, Classified, Released
  <2>2. CASE \E n \in Instances : Targeted(c, n)
    BY <2>2 DEF Targeted, Instances
  <2>3. CASE Planned(c) \/ ManagerRaises(c) \/ Invoked(c)
    BY <2>3 DEF Planned, ManagerRaises, Invoked
  <2>4. CASE Completed(c) \/ Failed(c) \/ RecordRaises(c)
    BY <2>4 DEF Completed, Failed, RecordRaises
  <2> QED BY <2>1, <2>2, <2>3, <2>4 DEF FacadeStep
<1> QED BY <1>1, <1>2

\* It leaves what is asked alone, and is a step of a call that is served.
LEMMA FacadeServing ==
    ASSUME Locals, ServiceInv, NEW c \in Calls, FacadeStep(c)
    PROVE  Serving(c) /\ asked' = asked
<1>1. CASE ManagerStep(c)
  <2>1. Busy(c)
    BY <1>1, CallMoves DEF ManagerStep
  <2> QED BY <1>1, <2>1 DEF ManagerStep, ServiceInv, PhaseInv, Serving, Preparing
<1>2. CASE DirectEnds(c) \/ Classified(c) \/ Released(c)
  BY <1>2 DEF DirectEnds, Classified, Released, Ends, Continues, Serving
<1>3. CASE \E n \in Instances : Targeted(c, n)
  BY <1>3 DEF Targeted, Instances, Ends, Continues, Serving
<1>4. CASE Planned(c) \/ ManagerRaises(c) \/ Invoked(c)
  BY <1>4 DEF Planned, ManagerRaises, Invoked, Ends, Continues, Serving
<1>5. CASE Completed(c) \/ Failed(c) \/ RecordRaises(c)
  BY <1>5 DEF Completed, Failed, RecordRaises, Ends, Serving
<1> QED BY <1>1, <1>2, <1>3, <1>4, <1>5 DEF FacadeStep

LEMMA SecondRecord ==
    ASSUME NEW e \in {"completed", "failed"}
    PROVE  Append(<<"planned">>, e) = <<"planned", e>>
<1> DEFINE T == {"planned", "completed", "failed"}
           s == Append(<<"planned">>, e)
           t == <<"planned", e>>
<1>1. <<"planned">> \in Seq(T) /\ Len(<<"planned">>) = 1 /\ e \in T
  OBVIOUS
<1>2. s \in Seq(T) /\ Len(s) = 2 /\ s[1] = "planned" /\ s[2] = e
  BY <1>1, AppendProperties
<1>3. t \in Seq(T) /\ Len(t) = 2 /\ t[1] = "planned" /\ t[2] = e
  OBVIOUS
<1> HIDE DEF T, s, t
<1>4. \A i \in 1 .. Len(s) : s[i] = t[i]
  BY <1>2, <1>3
<1>5. s = t
  BY <1>2, <1>3, <1>4, SeqEqual
<1> QED BY <1>5 DEF s, t

\* A record is appended to those of its call.
LEMMA Recorded ==
    ASSUME FacadeTypes, NEW c \in Calls, NEW event \in {"planned", "completed", "failed"},
           Records(c, event)
    PROVE  /\ record'[c] = Append(record[c], event)
           /\ record' \in [Calls -> Seq({"planned", "completed", "failed"})]
<1>1. Append(record[c], event) \in Seq({"planned", "completed", "failed"})
  BY AppendProperties DEF FacadeTypes
<1> QED BY <1>1 DEF FacadeTypes, Records

\* The parts of a call, one by one.
LEMMA PhaseOwn ==
    ASSUME Locals, ServiceInv, NEW c \in Calls, FacadeStep(c)
    PROVE  PhaseInv(c)' /\ FacadeTypes'
<1> USE DEF ServiceInv, FacadeTypes, Locals, PhaseInv, Preparing, Invoking, Direct
<1>1. CASE ManagerStep(c)
  <2>1. Busy(c) /\ op' = op /\ UNCHANGED <<phase, asked, record>>
    BY <1>1, CallMoves, OperationKept DEF ManagerStep
  <2> QED BY <2>1
<1>2. CASE DirectEnds(c)
  BY <1>2 DEF DirectEnds, Ends, Busy, Steps, vars, localVars
<1>3. ASSUME NEW from \in Preparing, NEW to \in Preparing, Continues(c, from, to, "get"),
             record' = record
      PROVE  PhaseInv(c)' /\ FacadeTypes'
  BY <1>3 DEF Continues, Goes, Busy, Steps
<1>4. ASSUME NEW from \in Preparing, pc[c] \in {"returned", "raised"}, Ends(c, from, "raised"),
             record' = record
      PROVE  PhaseInv(c)' /\ FacadeTypes'
  BY <1>4 DEF Ends, Busy, Steps, vars, localVars
<1>5. CASE Classified(c) \/ Released(c) \/ \E n \in Instances : Targeted(c, n)
  BY <1>3, <1>4, <1>5 DEF Classified, Released, Targeted, Instances
<1>6. CASE Planned(c)
  <2>1. record'[c] = <<"planned">> /\ record' \in [Calls -> Seq({"planned", "completed", "failed"})]
    <3>1. record[c] = << >> /\ Records(c, "planned")
      BY <1>6 DEF Planned, Continues
    <3> QED BY <3>1, Recorded
  <2> QED BY <1>6, <2>1 DEF Planned, Continues, Goes, Busy, Steps
<1>7. CASE ManagerRaises(c)
  <2>1. CASE Ends(c, "invoke", "failing")
    BY <1>7, <2>1 DEF ManagerRaises, Ends, Busy, Steps, vars, localVars
  <2> QED BY <1>4, <1>7, <2>1 DEF ManagerRaises
<1>8. CASE Invoked(c)
  BY <1>8 DEF Invoked, Ends, Busy, Steps, vars, localVars
<1>9. CASE Completed(c)
  <2>1. record'[c] = <<"planned", "completed">>
        /\ record' \in [Calls -> Seq({"planned", "completed", "failed"})]
    <3>1. record[c] = <<"planned">> /\ Records(c, "completed")
      BY <1>9 DEF Completed, Ends
    <3>2. Append(<<"planned">>, "completed") = <<"planned", "completed">>
      BY SecondRecord
    <3>3. record'[c] = Append(record[c], "completed")
          /\ record' \in [Calls -> Seq({"planned", "completed", "failed"})]
      BY <3>1, Recorded
    <3> QED BY <3>1, <3>2, <3>3
  <2> QED BY <1>9, <2>1 DEF Completed, Ends, Busy, Steps, vars, localVars
<1>10. CASE Failed(c)
  <2>1. record'[c] = <<"planned", "failed">>
        /\ record' \in [Calls -> Seq({"planned", "completed", "failed"})]
    <3>1. record[c] = <<"planned">> /\ Records(c, "failed")
      BY <1>10 DEF Failed, Ends
    <3>2. Append(<<"planned">>, "failed") = <<"planned", "failed">>
      BY SecondRecord
    <3>3. record'[c] = Append(record[c], "failed")
          /\ record' \in [Calls -> Seq({"planned", "completed", "failed"})]
      BY <3>1, Recorded
    <3> QED BY <3>1, <3>2, <3>3
  <2> QED BY <1>10, <2>1 DEF Failed, Ends, Busy, Steps, vars, localVars
<1>11. CASE RecordRaises(c)
  <2>1. CASE pc[c] = "returned" /\ Ends(c, "trust", "raised")
    BY <1>4, <1>11, <2>1 DEF RecordRaises
  <2>2. CASE Ends(c, "completing", "raised") \/ Ends(c, "failing", "raised")
    BY <1>11, <2>2 DEF RecordRaises, Ends, Busy, Steps, vars, localVars
  <2> QED BY <1>11, <2>1, <2>2 DEF RecordRaises
<1> QED
  BY <1>1, <1>2, <1>5, <1>6, <1>7, <1>8, <1>9, <1>10, <1>11 DEF FacadeStep

\* A call begins when no other is served.
LEMMA ServeStep ==
    ASSUME FacadeInv, NEW c \in Calls, NEW o \in Operations, Serve(c, o)
    PROVE  FacadeInv'
<1> DEFINE first == IF o \in Direct THEN o ELSE "schema"
<1>1. Locals /\ ServiceInv /\ ManagerInv
  BY TypeParts DEF FacadeInv, ManagerInv, AnswerInv
<1>2. o \in AllOperations /\ o # "get" /\ first \in AllOperations
  BY OperationsAssumption, ToolsAssumption DEF AllOperations
<1>3. o \in Direct \/ o \in Invoking
  BY <1>2 DEF AllOperations, Direct, Invoking
<1>4. Enters(c, "idle", first) /\ op[c] \notin Calling
  BY <1>1, <1>2, BeginEnters DEF Serve, ServiceInv, PhaseInv, Calling
<1>5. SingleInv'
  <2>1. \A d \in Calls : ~Busy(d)
    BY <1>1 DEF Serve, ServiceInv, PhaseInv, Serving, Preparing
  <2>2. BusyCalls' \subseteq {c}
    BY <1>1, <1>4, <2>1 DEF BusyCalls, Busy, Enters, Goes, Locals
  <2> QED BY <2>2, FS_Singleton, FS_Subset DEF SingleInv
<1>6. ManagerInv'
  BY <1>1, <1>4, <1>5, ManagerKeeps DEF ManagerSees
<1>7. /\ phase' = [phase EXCEPT ![c] = IF o \in Direct THEN "direct" ELSE "schema"]
      /\ asked' = [asked EXCEPT ![c] = o] /\ record' = record
      /\ pc' = [pc EXCEPT ![c] = "stat"] /\ op' = [op EXCEPT ![c] = first]
  BY <1>4 DEF Serve, Enters, Goes
<1>8. FacadeTypes'
  BY <1>1, <1>2, <1>7 DEF ServiceInv, FacadeTypes, Preparing
<1>9. Serial'
  BY <1>1, <1>7 DEF Serve, Serial, Serving, ServiceInv, FacadeTypes
<1>10. PhaseInv(c)'
  <2>1. record[c] = << >>
    BY <1>1 DEF Serve, ServiceInv, PhaseInv
  <2> QED
    BY <1>1, <1>3, <1>7, <2>1 DEF ServiceInv, FacadeTypes, PhaseInv, Locals, Busy, Steps,
                                  Preparing, Invoking, Direct
<1>11. ASSUME NEW d \in Calls \ {c} PROVE PhaseInv(d)'
  <2>1. PhaseInv(d) /\ phase'[d] = phase[d] /\ asked'[d] = asked[d] /\ record'[d] = record[d]
    BY <1>1, <1>7 DEF ServiceInv, FacadeTypes
  <2>2. pc'[d] = pc[d] /\ op'[d] = op[d]
    BY <1>1, <1>7 DEF Locals
  <2> QED BY <2>1, <2>2, PhaseFrame
<1> QED BY <1>6, <1>8, <1>9, <1>10, <1>11 DEF FacadeInv, ServiceInv

\* A call goes on.
LEMMA ServedStep ==
    ASSUME FacadeInv, NEW c \in Calls, FacadeStep(c)
    PROVE  FacadeInv'
<1>1. Locals /\ ServiceInv /\ ManagerInv /\ FacadeTypes
  BY TypeParts DEF FacadeInv, ManagerInv, AnswerInv, ServiceInv
<1>2. ManagerSees(c) /\ Serving(c)
  BY <1>1, FacadeSees, FacadeServing DEF ManagerInv
<1>3. \A d \in Calls : Busy(d) => Serving(d)
  BY <1>1 DEF ServiceInv, PhaseInv, Serving, Preparing
<1>4. ManagerInv'
  BY <1>1, <1>2, <1>3, SingleSees, ManagerKeeps DEF ServiceInv
<1>5. PhaseInv(c)' /\ FacadeTypes'
  BY <1>1, PhaseOwn
<1>6. ASSUME NEW d \in Calls \ {c} PROVE PhaseInv(d)' /\ phase'[d] = phase[d]
  BY <1>1, <1>2, FacadeOthers, PhaseFrame DEF ServiceInv
<1>7. Serial'
  BY <1>1, <1>2, <1>6 DEF ServiceInv, Serial, Serving
<1> QED BY <1>4, <1>5, <1>6, <1>7 DEF FacadeInv, ServiceInv

\* What goes on beside the calls.
LEMMA BesideStep ==
    ASSUME FacadeInv, OthersStep \/ Exit \/ UNCHANGED vars, UNCHANGED facadeVars
    PROVE  FacadeInv'
<1>1. UNCHANGED <<pc, op, stage, method, sent>>
  BY OthersRestTool
<1>2. AnswerInv' /\ ConfigInv'
  BY NextStep DEF FacadeInv, ManagerInv, Next
<1>3. ToolInv'
  BY <1>1, ToolRests DEF FacadeInv, ManagerInv
<1>4. FleetInv' /\ HoldInv'
  BY <1>2, FleetNext DEF FacadeInv, ManagerInv, Next
<1>5. SingleInv'
  BY <1>1 DEF FacadeInv, ManagerInv, OrphanInv, SingleInv, BusyCalls, Busy
<1>6. ServiceInv'
  <2>1. \A c \in Calls : PhaseInv(c)'
    BY <1>1, PhaseFrame DEF FacadeInv, ServiceInv, facadeVars
  <2> QED BY <2>1 DEF FacadeInv, ServiceInv, FacadeTypes, Serial, Serving, facadeVars
<1> QED BY <1>2, <1>3, <1>4, <1>5, <1>6 DEF FacadeInv, ManagerInv, OrphanInv

LEMMA FacadeNextStep ==
    ASSUME FacadeInv, [FacadeNext]_allVars
    PROVE  FacadeInv'
BY ServeStep, ServedStep, BesideStep DEF FacadeNext, allVars

LEMMA FacadeInitial == FacadeInit => FacadeInv
<1> SUFFICES ASSUME FacadeInit PROVE FacadeInv
  OBVIOUS
<1>1. Init
  BY DEF FacadeInit
<1>2. ManagerInv
  BY <1>1, TypeInit, ConfigInit, OrphanInit, ToolInit DEF ManagerInv
<1>3. << >> \in Seq({"planned", "completed", "failed"})
  OBVIOUS
<1>4. FacadeTypes /\ Serial
  BY <1>3 DEF FacadeInit, FacadeTypes, Serial, Serving
<1>5. \A c \in Calls : PhaseInv(c)
  BY <1>1 DEF FacadeInit, Init, PhaseInv, Busy, Steps, Preparing, Invoking, Direct
<1> QED BY <1>2, <1>4, <1>5 DEF FacadeInv, ServiceInv

\* In every reachable state of the facade the manager's invariants hold, at most
\* one call is served, and each call is where its record says.
THEOREM FacadeInvariance == FacadeSpec => []FacadeInv
<1>1. FacadeInv /\ [FacadeNext]_allVars => FacadeInv'
  BY FacadeNextStep
<1> QED BY <1>1, FacadeInitial, PTL DEF FacadeSpec

\* The table of pending calls holds exactly the exchanges under way, also when
\* invoke_provider has the manager do one operation after the other.
THEOREM FacadeTypeCorrect == FacadeSpec => []TypeOK
<1>1. FacadeInv => TypeOK
  BY DEF FacadeInv, ManagerInv, AnswerInv
<1> QED BY <1>1, FacadeInvariance, PTL

\* No answer goes to another request than its own.
THEOREM FacadeNoCrossTalk == FacadeSpec => []NoCrossTalk
<1>1. FacadeInv => NoCrossTalk
  BY DEF FacadeInv, ManagerInv, AnswerInv, WaiterInv, NoCrossTalk
<1> QED BY <1>1, FacadeInvariance, PTL

\* Served by one thread, the manager leaves no process behind: nothing is assumed
\* about MaxConcurrent here, since the server's loop serves one call at a time.
THEOREM FacadeNoOrphans == FacadeSpec => []NoOrphans
<1>1. FacadeInv => NoOrphans
  BY DEF FacadeInv, ManagerInv, OrphanInv, FleetInv
<1> QED BY <1>1, FacadeInvariance, PTL

\* A call of invoke_provider calls its tool at most once and a preview never,
\* whatever generations and processes come and go during the call.
THEOREM CalledOnceCorrect == FacadeSpec => []CalledAtMostOnce
<1>1. FacadeInv => CalledAtMostOnce
  <2> SUFFICES ASSUME FacadeInv, NEW c \in Calls
               PROVE  Cardinality(Work(c)) <= IF asked[c] = "preview" THEN 0 ELSE 1
    BY DEF CalledAtMostOnce
  <2>1. CASE Work(c) = {}
    BY <2>1, FS_EmptySet
  <2>2. CASE Work(c) # {}
    <3>1. PICK e : Work(c) = {e}
      BY <2>2 DEF FacadeInv, ManagerInv, ToolInv, CalledInv
    <3>2. op[c] \in Calling /\ Cardinality(Work(c)) = 1
      BY <2>2, <3>1, FS_Singleton DEF FacadeInv, ManagerInv, ToolInv, CalledInv
    <3>3. asked[c] # "preview"
      BY <3>2 DEF FacadeInv, ServiceInv, PhaseInv, Preparing, Direct, Invoking, Calling
    <3> QED BY <3>2, <3>3
  <2> QED BY <2>1, <2>2
<1> QED BY <1>1, FacadeInvariance, PTL

\* The journal knows of a tool call before the provider does, and what ended
\* well was planned, called unless it was a preview, and is on record.
THEOREM OnRecordCorrect == FacadeSpec => []ProviderWorkOnRecord
<1>1. FacadeInv => ProviderWorkOnRecord
  <2> SUFFICES ASSUME FacadeInv, NEW c \in Calls
               PROVE  /\ Work(c) # {} => record[c] # << >> /\ record[c][1] = "planned"
                      /\ phase[c] = "returned" /\ asked[c] \notin Direct =>
                            /\ record[c] = <<"planned", "completed">>
                            /\ asked[c] = "preview" \/ Work(c) # {}
    BY DEF ProviderWorkOnRecord
  <2>1. PhaseInv(c) /\ StageInv(c) /\ CalledInv(c)
    BY DEF FacadeInv, ServiceInv, ManagerInv, ToolInv
  <2>2. ASSUME Work(c) # {} PROVE record[c] # << >> /\ record[c][1] = "planned"
    <3>1. op[c] \in Calling
      BY <2>1, <2>2 DEF CalledInv
    <3>2. record[c] \in {<<"planned">>, <<"planned", "completed">>, <<"planned", "failed">>}
      BY <2>1, <3>1 DEF PhaseInv, Calling, Invoking, Preparing, Direct
    <3> QED BY <3>2
  <2>3. ASSUME phase[c] = "returned", asked[c] \notin Direct
        PROVE  /\ record[c] = <<"planned", "completed">>
               /\ asked[c] = "preview" \/ Work(c) # {}
    BY <2>1, <2>3 DEF PhaseInv, StageInv, CalledInv, Calling, Invoking
  <2> QED BY <2>2, <2>3
<1> QED BY <1>1, FacadeInvariance, PTL

-----------------------------------------------------------------------------
(* A call of the facade is a request in the ledger of RequestLedger: what  *)
(* the agent asked to be done, how often the tool was called for it, and   *)
(* how the facade said it ended.                                           *)

\* Direct operations and previews ask for no work and have no outcome.
CallOutcome(c) ==
    IF asked[c] \notin Calling THEN "open"
    ELSE CASE phase[c] = "returned" -> "succeeded"
           [] phase[c] = "raised" -> IF record[c] = << >> THEN "refused" ELSE "failed"
           [] OTHER -> "open"

CallOutcomes == [c \in Calls |-> CallOutcome(c)]
CallRuns == [c \in Calls |-> Cardinality(Work(c))]

Ledger == INSTANCE RequestLedger
          WITH Requests <- Calls, outcome <- CallOutcomes, runs <- CallRuns

\* A call that is served has no outcome yet.
LEMMA ServedIsOpen ==
    ASSUME NEW c \in Calls, Serving(c)
    PROVE  CallOutcome(c) = "open"
BY DEF CallOutcome, Serving

LEMMA OutcomeFrame ==
    ASSUME NEW c \in Calls, phase'[c] = phase[c], asked'[c] = asked[c], record'[c] = record[c]
    PROVE  CallOutcome(c)' = CallOutcome(c)
BY DEF CallOutcome

\* What has been called is one call.
LEMMA WorkSize ==
    ASSUME NEW c \in Calls, CalledInv(c)
    PROVE  Cardinality(Work(c)) = IF Work(c) = {} THEN 0 ELSE 1
<1>1. CASE Work(c) = {}
  BY <1>1, FS_EmptySet
<1>2. CASE Work(c) # {}
  <2>1. PICK e : Work(c) = {e}
    BY <1>2 DEF CalledInv
  <2> QED BY <1>2, <2>1, FS_Singleton
<1> QED BY <1>1, <1>2

\* A step of the manager gives no outcome, and is a run if it calls the tool.
LEMMA ManagerLedger ==
    ASSUME Locals, ToolInv, NEW c \in Calls, ManagerStep(c), Serving(c), ToolInv'
    PROVE  /\ CallOutcome(c) = "open" /\ CallOutcome(c)' = "open"
           /\ CallRuns'[c] = CallRuns[c] \/ (CallRuns[c] = 0 /\ CallRuns'[c] = 1)
<1>1. CallStep(c) /\ CallOutcome(c)' = CallOutcome(c) /\ CallOutcome(c) = "open"
  BY OutcomeFrame, ServedIsOpen DEF ManagerStep
<1>2. CASE Send(c) /\ method[c] = "tools/call"
  <2>1. Work(c) = {} /\ CallSent(c)'
    BY <1>2 DEF ToolInv, StageInv, CalledInv, CallSent, Send, Goes, Locals, Busy, Steps, callVars
  <2>2. Work(c)' # {}
    BY <2>1 DEF ToolInv, CalledInv
  <2>3. CallRuns[c] = 0
    BY <2>1, FS_EmptySet DEF CallRuns
  <2>4. Cardinality(Work(c)') = 1
    <3>1. PICK e : Work(c)' = {e}
      BY <2>2 DEF ToolInv, CalledInv
    <3> QED BY <3>1, FS_Singleton
  <2> QED BY <1>1, <2>3, <2>4 DEF CallRuns
<1>3. CASE ~(Send(c) /\ method[c] = "tools/call")
  <2>1. sent' = sent
    BY <1>1, <1>3, OnlySendCalls DEF Send
  <2>2. Work(c)' = Work(c)
    BY <2>1 DEF Work
  <2> QED BY <1>1, <2>2 DEF CallRuns
<1> QED BY <1>2, <1>3

\* The other steps of a call do not call the tool, and the outcome they give
\* agrees with what was called.
LEMMA ServiceLedger ==
    ASSUME Locals, ServiceInv, ToolInv, NEW c \in Calls, FacadeStep(c), ~ManagerStep(c)
    PROVE  /\ sent' = sent
           /\ CallOutcome(c) = "open"
           /\ \/ CallOutcome(c)' = "open"
              \/ CallOutcome(c)' = "refused" /\ Work(c) = {}
              \/ CallOutcome(c)' = "succeeded" /\ Work(c) # {}
              \/ CallOutcome(c)' = "failed"
<1>1. Serving(c) /\ asked' = asked /\ CallOutcome(c) = "open"
  BY FacadeServing, ServedIsOpen
<1>2. PhaseInv(c) /\ StageInv(c) /\ CalledInv(c) /\ FacadeTypes
  BY DEF ServiceInv, ToolInv
<1>3. ASSUME Ends(c, "completing", "returned") PROVE asked[c] \in Calling => Work(c) # {}
  BY <1>2, <1>3 DEF Ends, PhaseInv, StageInv, CalledInv, Calling, Invoking
<1>4. ASSUME NEW from \in Preparing, Ends(c, from, "raised") PROVE Work(c) = {}
  BY <1>2, <1>4 DEF Ends, PhaseInv, CalledInv, Calling
<1>5. ASSUME NEW from, NEW to \in Preparing \cup {"invoke"}, NEW o, Continues(c, from, to, o)
      PROVE  sent' = sent /\ CallOutcome(c)' = "open"
  BY <1>2, <1>5 DEF Continues, CallOutcome, FacadeTypes, Preparing
<1>6. ASSUME NEW from, NEW to \in {"completing", "failing"}, Ends(c, from, to)
      PROVE  sent' = sent /\ CallOutcome(c)' = "open"
  BY <1>2, <1>6 DEF Ends, CallOutcome, FacadeTypes, vars
<1>7. ASSUME NEW from \in Preparing, Ends(c, from, "raised")
      PROVE  sent' = sent /\ (CallOutcome(c)' = "failed" \/ Work(c) = {})
             /\ CallOutcome(c)' \in {"open", "failed", "refused"}
  BY <1>2, <1>4, <1>7 DEF Ends, CallOutcome, FacadeTypes, vars
<1>8. CASE DirectEnds(c)
  <2>1. asked[c] \notin Calling
    BY <1>2, <1>8 DEF DirectEnds, Ends, PhaseInv, Direct, Calling
  <2> QED BY <1>1, <1>8, <2>1 DEF DirectEnds, Ends, CallOutcome, vars
<1>9. CASE Classified(c) \/ Released(c) \/ Planned(c) \/ (\E n \in Instances : Targeted(c, n))
  BY <1>1, <1>5, <1>7, <1>9 DEF Classified, Released, Planned, Targeted, Instances, Preparing
<1>10. CASE ManagerRaises(c) \/ Invoked(c)
  BY <1>1, <1>6, <1>7, <1>10 DEF ManagerRaises, Invoked, Preparing
<1>11. CASE Completed(c)
  <2>1. Ends(c, "completing", "returned")
    BY <1>11 DEF Completed
  <2>2. sent' = sent /\ phase'[c] = "returned"
    BY <1>2, <2>1 DEF Ends, FacadeTypes, vars
  <2> QED BY <1>1, <1>3, <2>1, <2>2 DEF CallOutcome
<1>12. CASE Failed(c) \/ (RecordRaises(c) /\ phase[c] # "trust")
  <2>1. sent' = sent /\ phase'[c] = "raised"
    BY <1>2, <1>12 DEF Failed, RecordRaises, Ends, FacadeTypes, vars
  <2>2. record'[c] # << >>
    <3>1. CASE Failed(c)
      <4>1. record'[c] = Append(record[c], "failed") /\ record[c] \in Seq({"planned", "completed", "failed"})
        BY <1>2, <3>1, Recorded DEF Failed, FacadeTypes
      <4>2. Append(record[c], "failed") # << >>
        BY <4>1, AppendProperties
      <4> QED BY <4>1, <4>2
    <3>2. CASE RecordRaises(c) /\ phase[c] # "trust"
      BY <1>2, <3>2 DEF RecordRaises, Ends, PhaseInv
    <3> QED BY <1>12, <3>1, <3>2
  <2> QED BY <1>1, <2>1, <2>2 DEF CallOutcome
<1>13. CASE RecordRaises(c) /\ phase[c] = "trust"
  BY <1>1, <1>7, <1>13 DEF RecordRaises, Ends, Preparing
<1> QED BY <1>8, <1>9, <1>10, <1>11, <1>12, <1>13 DEF FacadeStep

LEMMA CallLedger ==
    ASSUME FacadeInv, FacadeInv', NEW c \in Calls, FacadeStep(c)
    PROVE  Ledger!LedgerNext \/ UNCHANGED <<CallOutcomes, CallRuns>>
<1>1. /\ Locals /\ FacadeTypes /\ ServiceInv /\ ToolInv /\ ToolInv' /\ ManagerSees(c) /\ Serving(c)
      /\ \A d \in Calls : CalledInv(d)
  BY TypeParts, FacadeSees, FacadeServing DEF FacadeInv, ManagerInv, AnswerInv, ServiceInv, ToolInv
<1>2. ASSUME NEW d \in Calls \ {c} PROVE CallOutcome(d)' = CallOutcome(d) /\ Work(d)' = Work(d)
  <2>1. CallOutcome(d)' = CallOutcome(d)
    BY <1>1, FacadeOthers, OutcomeFrame
  <2>2. Work(d)' = Work(d)
    BY <1>1, OthersStage DEF ManagerSees, Enters, Work, vars
  <2> QED BY <2>1, <2>2
<1>3. CASE ManagerStep(c)
  <2>1. CallOutcomes' = CallOutcomes
    BY <1>1, <1>2, <1>3, ManagerLedger DEF CallOutcomes
  <2>2. CASE CallRuns'[c] = CallRuns[c]
    BY <1>2, <2>1, <2>2 DEF CallRuns
  <2>3. CASE CallRuns[c] = 0 /\ CallRuns'[c] = 1
    <3>1. CallRuns' = [CallRuns EXCEPT ![c] = 1]
      BY <1>2, <2>3 DEF CallRuns
    <3>2. CallOutcomes[c] = "open"
      BY <1>1, <1>3, ManagerLedger DEF CallOutcomes
    <3>3. Ledger!Run(c)
      BY <2>1, <2>3, <3>1, <3>2 DEF Ledger!Run, Ledger!MayStillRun
    <3> QED BY <3>3 DEF Ledger!LedgerNext
  <2> QED BY <1>1, <1>3, <2>2, <2>3, ManagerLedger
<1>4. CASE ~ManagerStep(c)
  <2>1. /\ sent' = sent
        /\ CallOutcome(c) = "open"
        /\ \/ CallOutcome(c)' = "open"
           \/ CallOutcome(c)' = "refused" /\ Work(c) = {}
           \/ CallOutcome(c)' = "succeeded" /\ Work(c) # {}
           \/ CallOutcome(c)' = "failed"
    BY <1>1, <1>4, ServiceLedger
  <2>2. CallRuns' = CallRuns
    BY <2>1 DEF CallRuns, Work
  <2>3. CASE CallOutcome(c)' = "open"
    BY <1>2, <2>1, <2>2, <2>3 DEF CallOutcomes
  <2>4. ASSUME NEW o \in {"refused", "succeeded", "failed"}, CallOutcome(c)' = o
        PROVE  Ledger!LedgerNext
    <3>1. CallOutcomes' = [CallOutcomes EXCEPT ![c] = o] /\ CallOutcomes[c] = "open"
      BY <1>2, <2>1, <2>4 DEF CallOutcomes
    <3>2. CallRuns[c] = IF Work(c) = {} THEN 0 ELSE 1
      BY <1>1, WorkSize DEF CallRuns
    <3>3. Ledger!Decide(c, o)
      BY <2>1, <2>2, <2>4, <3>1, <3>2 DEF Ledger!Decide, Ledger!NotPerformed
    <3> QED BY <3>3 DEF Ledger!LedgerNext, Ledger!Outcomes
  <2> QED BY <2>1, <2>3, <2>4
<1> QED BY <1>3, <1>4

\* Every behaviour of the facade is one of the ledger that connectors implement:
\* the tool of a call runs at most once, a call that was refused never called it
\* and never will, and one that is said to have succeeded did.
THEOREM FacadeLedger == FacadeSpec => Ledger!LedgerSpec
<1>1. FacadeInit => Ledger!LedgerInit
  <2> SUFFICES ASSUME FacadeInit PROVE Ledger!LedgerInit
    OBVIOUS
  <2>1. \A c \in Calls : CallOutcome(c) = "open" /\ Work(c) = {}
    BY DEF FacadeInit, Init, CallOutcome, Calling, Work
  <2> QED BY <2>1, FS_EmptySet DEF Ledger!LedgerInit, CallOutcomes, CallRuns
<1>2. FacadeInv /\ FacadeInv' /\ [FacadeNext]_allVars => [Ledger!LedgerNext]_(Ledger!ledgerVars)
  <2> SUFFICES ASSUME FacadeInv, FacadeInv', [FacadeNext]_allVars
               PROVE  Ledger!LedgerNext \/ UNCHANGED <<CallOutcomes, CallRuns>>
    BY DEF Ledger!ledgerVars
  <2>1. ASSUME NEW c \in Calls, NEW o \in Operations, Serve(c, o)
        PROVE  UNCHANGED <<CallOutcomes, CallRuns>>
    <3>1. FacadeTypes /\ phase[c] = "idle" /\ sent' = sent
      BY <2>1 DEF FacadeInv, ServiceInv, Serve, Begin
    <3>2. CallOutcome(c) = "open" /\ CallOutcome(c)' = "open"
      BY <2>1, <3>1 DEF Serve, CallOutcome, FacadeTypes
    <3>3. \A d \in Calls \ {c} : CallOutcome(d)' = CallOutcome(d)
      BY <2>1, <3>1, OutcomeFrame DEF Serve, FacadeTypes
    <3> QED BY <3>1, <3>2, <3>3 DEF CallOutcomes, CallRuns, Work
  <2>2. ASSUME OthersStep \/ Exit \/ UNCHANGED vars, UNCHANGED facadeVars
        PROVE  UNCHANGED <<CallOutcomes, CallRuns>>
    BY <2>2, OthersRestTool, OutcomeFrame DEF facadeVars, CallOutcomes, CallRuns, Work
  <2> QED BY <2>1, <2>2, CallLedger DEF FacadeNext, allVars
<1> QED BY <1>1, <1>2, FacadeInvariance, PTL DEF FacadeSpec, Ledger!LedgerSpec

-----------------------------------------------------------------------------
(* Every step brings a call nearer to its end.                             *)

\* The steps between two look-ups, from the last one backwards.  An exchange is
\* nearer to the end the later its method is in initialize, tools/list, tools/call.
ExchangeRank(c) ==
    CASE method[c] = "initialize" -> 10
      [] method[c] = "tools/list" -> 6
      [] OTHER -> 2

StepRank(c) ==
    CASE pc[c] = "stat" -> 19
      [] pc[c] = "load" -> 18
      [] pc[c] = "swap" -> 17
      [] pc[c] = "lookup" -> 16
      [] pc[c] = "start" -> 15
      [] pc[c] = "spawn" -> 14
      [] pc[c] = "register" -> ExchangeRank(c) + 3
      [] pc[c] = "send" -> ExchangeRank(c) + 2
      [] pc[c] = "wait" -> ExchangeRank(c) + 1
      [] pc[c] = "tools" -> 10
      [] pc[c] = "listed" -> 6
      [] OTHER -> 1

\* There are four look-ups at most in an operation, and six operations in a call.
OperationRank(c) == IF Busy(c) THEN 20 * (4 - stage[c]) + StepRank(c) ELSE 0

PartRank(c) ==
    CASE phase[c] = "schema" -> 6
      [] phase[c] = "application" -> 5
      [] phase[c] = "release" -> 4
      [] phase[c] = "trust" -> 3
      [] phase[c] \in {"direct", "invoke"} -> 2
      [] phase[c] \in {"completing", "failing"} -> 1
      [] OTHER -> 0

CallRank(c) == 80 * PartRank(c) + OperationRank(c)

MaxCallRank == 559

LEMMA ExchangeRanked ==
    ASSUME NEW c \in Calls
    PROVE  ExchangeRank(c) \in {2, 6, 10}
BY DEF ExchangeRank

LEMMA OperationRanked ==
    ASSUME Locals, NEW c \in Calls, StageInv(c)
    PROVE  OperationRank(c) \in 0 .. 79 /\ (Busy(c) => OperationRank(c) # 0)
<1>1. StepRank(c) \in 1 .. 19
  BY ExchangeRanked DEF StepRank
<1>2. Busy(c) => stage[c] \in 1 .. 4
  BY DEF Locals, StageInv
<1> HIDE DEF StepRank
<1> QED BY <1>1, <1>2 DEF OperationRank

\* No step of an operation goes back: it does not retry, and the look-ups and
\* exchanges of an operation are bounded whatever it meets.
LEMMA OperationAdvances ==
    ASSUME Locals, NEW c \in Calls, StageInv(c), CallStep(c)
    PROVE  OperationRank(c)' < OperationRank(c)
<1> USE DEF Locals, Goes, OperationRank, StepRank, Busy, Steps
<1>1. Busy(c) /\ stage[c] \in 1 .. 4 /\ ExchangeRank(c) \in {2, 6, 10}
  BY CallMoves, ExchangeRanked DEF StageInv
<1>2. CASE Stat(c) \/ Load(c) \/ Swap(c)
  <2>1. /\ stage' = stage
        /\ \/ pc[c] = "stat" /\ pc'[c] \in {"lookup", "swap", "load"}
           \/ pc[c] = "load" /\ pc'[c] \in {"lookup", "swap"}
           \/ pc[c] = "swap" /\ pc'[c] = "lookup"
    BY <1>2 DEF Stat, Load, Swap
  <2> QED BY <1>1, <2>1
<1>3. CASE LookupFails(c) \/ LookupChild(c) \/ LookupVersion(c)
  BY <1>1, <1>3 DEF LookupFails, LookupChild, LookupVersion, localVars
<1>4. CASE LookupAccess(c)
  BY <1>1, <1>4 DEF LookupAccess
<1>5. CASE StartChecks(c) \/ SpawnFails(c) \/ ToolsCached(c) \/ Abort(c)
  BY <1>1, <1>5 DEF StartChecks, SpawnFails, ToolsCached, Abort, localVars
<1>6. CASE Spawn(c)
  BY <1>1, <1>6 DEF Spawn, localVars, ExchangeRank
<1>7. CASE ListTools(c)
  BY <1>1, <1>7 DEF ListTools, localVars, ExchangeRank
<1>8. CASE UseTools(c)
  BY <1>1, <1>8 DEF UseTools, ExchangeRank
<1>9. CASE Register(c) \/ Send(c)
  <2>1. ExchangeRank(c)' = ExchangeRank(c)
    BY <1>9 DEF Register, Send, ExchangeRank, callVars
  <2> QED BY <1>1, <1>9, <2>1 DEF Register, Send, localVars
<1>10. CASE SendFails(c) \/ ReceiveError(c) \/ TimesOut(c)
  BY <1>1, <1>10 DEF SendFails, ReceiveError, TimesOut, CallFails, localVars
<1>11. CASE Receive(c)
  BY <1>1, <1>11 DEF Receive, StageInv, Exchanging, Methods, ExchangeRank
<1> QED
  BY <1>2, <1>3, <1>4, <1>5, <1>6, <1>7, <1>8, <1>9, <1>10, <1>11 DEF CallStep

LEMMA PartRanked ==
    ASSUME NEW c \in Calls
    PROVE  PartRank(c) \in 0 .. 6
BY DEF PartRank

LEMMA Ranks ==
    FacadeInv => \A c \in Calls : OperationRank(c) \in 0 .. 79 /\ PartRank(c) \in 0 .. 6
BY TypeParts, OperationRanked, PartRanked DEF FacadeInv, ManagerInv, AnswerInv, ToolInv

LEMMA RanksNext ==
    FacadeInv' => (\A c \in Calls : OperationRank(c) \in 0 .. 79 /\ PartRank(c) \in 0 .. 6)'
BY Ranks, PTL

\* The parts of a call follow each other and none comes again.
LEMMA PartAdvances ==
    ASSUME Locals, ServiceInv, NEW c \in Calls, FacadeStep(c), ~ManagerStep(c)
    PROVE  PartRank(c)' < PartRank(c) /\ ~Busy(c)
<1> USE DEF ServiceInv, FacadeTypes, PhaseInv, Ends, PartRank
<1>1. ASSUME NEW from, NEW to, NEW o, Continues(c, from, to, o)
      PROVE  ~Busy(c) /\ phase[c] = from /\ phase'[c] = to
  BY <1>1 DEF Continues, Goes, Busy, Steps
<1>2. CASE Classified(c)
  <2>1. CASE Refused(c)
    BY <1>2, <2>1 DEF Classified, Busy, Steps
  <2>2. CASE ~Refused(c)
    <3>1. ~Busy(c) /\ phase[c] = "schema" /\ phase'[c] = "application"
      BY <1>1, <1>2, <2>2 DEF Classified
    <3> QED BY <3>1
  <2> QED BY <2>1, <2>2
<1>3. ASSUME NEW n \in Instances, Targeted(c, n) PROVE PartRank(c)' < PartRank(c) /\ ~Busy(c)
  <2>1. CASE n = "several"
    BY <1>3, <2>1 DEF Targeted, Busy, Steps
  <2>2. CASE n = "one"
    <3>1. ~Busy(c) /\ phase[c] = "application" /\ phase'[c] = "trust"
      BY <1>1, <1>3, <2>2 DEF Targeted
    <3> QED BY <3>1
  <2>3. CASE n = "none"
    <3>1. ~Busy(c) /\ phase[c] = "application" /\ phase'[c] = "release"
      BY <1>1, <1>3, <2>3 DEF Targeted
    <3> QED BY <3>1
  <2> QED BY <2>1, <2>2, <2>3 DEF Instances
<1>4. CASE Released(c) \/ Planned(c)
  <2>1. /\ ~Busy(c)
        /\ \/ phase[c] = "release" /\ phase'[c] = "trust"
           \/ phase[c] = "trust" /\ phase'[c] = "invoke"
    BY <1>1, <1>4 DEF Released, Planned
  <2> QED BY <2>1
<1>5. CASE DirectEnds(c) \/ ManagerRaises(c) \/ Invoked(c)
  BY <1>5 DEF DirectEnds, ManagerRaises, Invoked, Busy, Steps
<1>6. CASE Completed(c) \/ Failed(c) \/ RecordRaises(c)
  BY <1>6 DEF Completed, Failed, RecordRaises, Busy, Steps, Preparing
<1> QED BY <1>2, <1>3, <1>4, <1>5, <1>6 DEF FacadeStep

\* A call has a number of steps before it that none of its own steps leaves as it
\* is and nobody else's step raises.
Advancing ==
    [][\A c \in Calls :
          /\ FacadeStep(c) => CallRank(c)' < CallRank(c)
          /\ Serving(c) => CallRank(c)' <= CallRank(c)]_allVars

\* A served call ends within MaxCallRank steps of its own, whatever fails or is
\* replaced meanwhile: nothing it does is ever repeated.  What OperationEnds adds,
\* and only the run checks, is that the next step can always be taken.
THEOREM CallsAdvance ==
    FacadeSpec => /\ [](\A c \in Calls : CallRank(c) \in 0 .. MaxCallRank)
                  /\ Advancing
<1>1. FacadeInv => \A c \in Calls : CallRank(c) \in 0 .. MaxCallRank
  <2> SUFFICES ASSUME FacadeInv, NEW c \in Calls PROVE CallRank(c) \in 0 .. MaxCallRank
    OBVIOUS
  <2>1. OperationRank(c) \in 0 .. 79 /\ PartRank(c) \in 0 .. 6
    BY TypeParts, OperationRanked, PartRanked DEF FacadeInv, ManagerInv, AnswerInv, ToolInv
  <2> QED BY <2>1 DEF CallRank, MaxCallRank
<1>2. FacadeInv /\ FacadeInv' /\ [FacadeNext]_allVars =>
        [\A c \in Calls :
            /\ FacadeStep(c) => CallRank(c)' < CallRank(c)
            /\ Serving(c) => CallRank(c)' <= CallRank(c)]_allVars
  <2> SUFFICES ASSUME FacadeInv, FacadeInv', FacadeNext, NEW c \in Calls
               PROVE  /\ FacadeStep(c) => CallRank(c)' < CallRank(c)
                      /\ Serving(c) => CallRank(c)' <= CallRank(c)
    OBVIOUS
  <2>1. Locals /\ ServiceInv /\ FacadeTypes /\ StageInv(c) /\ ToolInv
    BY TypeParts DEF FacadeInv, ManagerInv, AnswerInv, ToolInv, ServiceInv
  <2>2. OperationRank(c) \in 0 .. 79 /\ PartRank(c) \in 0 .. 6
    BY <2>1, OperationRanked, PartRanked
  <2>3. OperationRank(c)' \in 0 .. 79 /\ PartRank(c)' \in 0 .. 6
    BY RanksNext
  <2>4. ASSUME FacadeStep(c) PROVE CallRank(c)' < CallRank(c)
    <3>1. CASE ManagerStep(c)
      <4>1. OperationRank(c)' < OperationRank(c)
        BY <2>1, <3>1, OperationAdvances DEF ManagerStep
      <4>2. PartRank(c)' = PartRank(c)
        BY <3>1 DEF ManagerStep, PartRank
      <4> QED BY <2>2, <2>3, <4>1, <4>2 DEF CallRank
    <3>2. CASE ~ManagerStep(c)
      <4>1. PartRank(c)' < PartRank(c) /\ ~Busy(c)
        BY <2>1, <2>4, <3>2, PartAdvances
      <4>2. OperationRank(c) = 0
        BY <4>1 DEF OperationRank
      <4> QED BY <2>2, <2>3, <4>1, <4>2 DEF CallRank
    <3> QED BY <3>1, <3>2
  <2>5. ASSUME Serving(c), ~FacadeStep(c) PROVE CallRank(c)' = CallRank(c)
    <3>1. UNCHANGED <<phase, pc, stage, method>>
      <4>1. ASSUME NEW d \in Calls, FacadeStep(d) PROVE FALSE
        BY <2>1, <2>5, <4>1, FacadeServing DEF ServiceInv, Serial
      <4>2. \A d \in Calls, o \in Operations : ~Serve(d, o)
        BY <2>5 DEF Serve
      <4> QED BY <4>1, <4>2, OthersRestTool DEF FacadeNext, facadeVars
    <3> QED BY <3>1 DEF CallRank, PartRank, OperationRank, StepRank, ExchangeRank, Busy
  <2>6. CallRank(c) \in Int /\ CallRank(c)' \in Int
    BY <2>2, <2>3 DEF CallRank
  <2> QED BY <2>4, <2>5, <2>6
<1> QED BY <1>1, <1>2, FacadeInvariance, PTL DEF FacadeSpec, Advancing
=============================================================================
