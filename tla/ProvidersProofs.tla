--------------------------- MODULE ProvidersProofs ---------------------------
(***************************************************************************)
(* Proofs about Providers, for any number of calls, descriptors, config    *)
(* versions and processes.                                                 *)
(*                                                                         *)
(* AnswerInv and ConfigInv hold for any number of callers at a time,       *)
(* OrphanInv for one.                                                      *)
(***************************************************************************)
EXTENDS Providers, FiniteSetTheorems, SequenceTheorems, TLAPS

-----------------------------------------------------------------------------
(* The inductive invariant                                                 *)

\* A request of c is in the table of pending calls.
Registered(c) == pc[c] \in {"send", "wait"}

\* An operation that has got past its look-up has an object.
ChildInv ==
    \A c \in Calls :
        pc[c] \in {"start", "spawn", "tools", "listed", "register", "send", "wait", "abort"}
        => child[c] # 0

\* An object's process is one that was started for it.
LinkInv ==
    \A k \in 1 .. Len(objects) :
        objects[k].process # 0 => procs[objects[k].process].object = k

\* Ids are drawn in order and used for one request of an object.
IdInv ==
    /\ \A c \in Calls : Registered(c) => id[c] <= objects[child[c]].nextId
    /\ \A c, d \in Calls :
          Registered(c) /\ Registered(d) /\ child[c] = child[d] /\ id[c] = id[d] => c = d

\* What is on its way to or from a process with the id of a request that waits
\* for an answer of the same object is that request or its answer.
MessageInv ==
    \A p \in 1 .. Len(procs) : \A m \in procs[p].in \cup procs[p].out :
        /\ m.id <= objects[procs[p].object].nextId
        /\ \A c \in Calls :
              Registered(c) /\ child[c] = procs[p].object /\ id[c] = m.id => m = Message(c)

WaiterInv ==
    \A c \in Calls :
        /\ ~Registered(c) => waiter[c] = {}
        /\ waiter[c] \subseteq {Message(c), Stopped}

AnswerInv == TypeOK /\ ChildInv /\ LinkInv /\ IdInv /\ MessageInv /\ WaiterInv

\* What a reload is about to stamp with a version was read at that version or
\* later; the generation without a file is the empty one.
ConfigInv ==
    /\ loaded <= file.version
    /\ loaded <= 0 => active = 0
    /\ \A c \in Calls :
          /\ seen[c] <= file.version
          /\ parsed[c] \in Descriptors \cup {NoFile, NoEntry}
          /\ pc[c] # "swap" => parsed[c] = NoFile
          /\ pc[c] = "load" => seen[c] > 0
          /\ pc[c] = "swap" =>
                /\ seen[c] >= 0
                /\ seen[c] = 0 => parsed[c] = NoFile
                /\ seen[c] = Mtime /\ file.content # BadFile => parsed[c] = file.content
    /\ ActiveMatchesConfig

-----------------------------------------------------------------------------
(* The parts of the type invariant                                         *)

ObjectType(n) ==
    [descriptor : Descriptors, process : 0 .. n, cached : BOOLEAN, nextId : Nat,
     pending : SUBSET (Nat \X Calls), drain : {"none", "draining", "closing", "closed"}]

ProcessType(n) ==
    [object : 1 .. n, state : {"running", "crashed", "closed"}, reading : BOOLEAN,
     in : SUBSET Messages, out : SUBSET Messages]

Seqs == objects \in Seq(ObjectType(Len(procs))) /\ procs \in Seq(ProcessType(Len(objects)))

Refs ==
    /\ active \in 0 .. Len(objects)
    /\ child \in [Calls -> 0 .. Len(objects)]
    /\ sent \subseteq Calls \X (1 .. Len(objects)) \X Nat

Locals ==
    /\ file \in [version : 1 .. MaxVersions, content : Contents]
    /\ loaded \in -1 .. MaxVersions
    /\ exited \in BOOLEAN
    /\ pc \in [Calls -> {"idle", "returned", "raised"} \cup Steps]
    /\ op \in [Calls -> AllOperations \cup {"none"}]
    /\ stage \in [Calls -> 0 .. 4]
    /\ seen \in [Calls -> -1 .. MaxVersions]
    /\ parsed \in [Calls -> Contents]
    /\ method \in [Calls -> Methods]
    /\ id \in [Calls -> Nat]

Waiters ==
    /\ waiter \in [Calls -> SUBSET (Messages \cup {Stopped})]
    /\ \A c \in Calls : Cardinality(waiter[c]) <= 1

Exchanges(k) == {<<id[c], c>> : c \in {d \in Calls : Registered(d) /\ child[d] = k}}

Pending == \A k \in 1 .. Len(objects) : objects[k].pending = Exchanges(k)

\* TypeOK, part by part.
LEMMA TypeParts == TypeOK <=> Seqs /\ Refs /\ Locals /\ Waiters /\ Pending
BY DEF TypeOK, Seqs, Refs, Locals, Waiters, Pending, ObjectType, ProcessType, Exchanges,
       Registered

LEMMA TypePartsNext == Seqs' /\ Refs' /\ Locals' /\ Waiters' /\ Pending' => TypeOK'
BY TypeParts, PTL

\* The initial state has no objects, processes or requests.
LEMMA TypeInit == Init => AnswerInv
<1> SUFFICES ASSUME Init PROVE AnswerInv
  OBVIOUS
<1>1. objects = << >> /\ procs = << >> /\ Len(objects) = 0 /\ Len(procs) = 0
  BY DEF Init
<1>2. Seqs
  BY <1>1, EmptySeq DEF Seqs
<1>3. Refs /\ Pending
  BY <1>1 DEF Init, Refs, Pending
<1>5. file \in [version : 1 .. MaxVersions, content : Contents]
  BY BoundsAssumption DEF Init
<1>6. loaded \in -1 .. MaxVersions /\ seen \in [Calls -> -1 .. MaxVersions]
  BY BoundsAssumption DEF Init
<1>8. parsed \in [Calls -> Contents] /\ method \in [Calls -> Methods]
  BY DEF Init, Contents, Methods
<1>9. pc \in [Calls -> {"idle", "returned", "raised"} \cup Steps]
  BY DEF Init
<1>10. op \in [Calls -> AllOperations \cup {"none"}] /\ stage \in [Calls -> 0 .. 4]
  BY DEF Init
<1>11. id \in [Calls -> Nat] /\ exited \in BOOLEAN
  BY DEF Init
<1>7. Locals
  BY <1>5, <1>6, <1>8, <1>9, <1>10, <1>11 DEF Locals
<1>4. Waiters
  BY FS_EmptySet DEF Init, Waiters
<1> QED
  BY <1>1, <1>2, <1>3, <1>4, <1>7, TypeParts DEF AnswerInv, ChildInv, LinkInv, IdInv, MessageInv,
     WaiterInv, Init, Registered

-----------------------------------------------------------------------------
(* What the steps do to objects and processes                              *)

\* One object of the sequence.
LEMMA ObjectTyped ==
    ASSUME Seqs, NEW k \in 1 .. Len(objects)
    PROVE  objects[k] \in ObjectType(Len(procs)) /\ Len(objects) \in Nat /\ Len(procs) \in Nat
BY ElementOfSeq, LenProperties DEF Seqs

\* One process of the sequence.
LEMMA ProcessTyped ==
    ASSUME Seqs, NEW p \in 1 .. Len(procs)
    PROVE  procs[p] \in ProcessType(Len(objects)) /\ Len(objects) \in Nat /\ Len(procs) \in Nat
BY ElementOfSeq, LenProperties DEF Seqs

\* One object changes.
OneObject(k, o) ==
    /\ k \in 1 .. Len(objects)
    /\ o \in ObjectType(Len(procs))
    /\ objects' = [objects EXCEPT ![k] = o]

\* A step that changes one object.
LEMMA OneObjectStep ==
    ASSUME Seqs, NEW k, NEW o, OneObject(k, o)
    PROVE  /\ objects' \in Seq(ObjectType(Len(procs)))
           /\ Len(objects') = Len(objects)
           /\ \A j \in 1 .. Len(objects) : objects'[j] = IF j = k THEN o ELSE objects[j]
BY ExceptSeq DEF Seqs, OneObject

OneProcess(p, q) ==
    /\ p \in 1 .. Len(procs)
    /\ q \in ProcessType(Len(objects))
    /\ procs' = [procs EXCEPT ![p] = q]

\* A step that changes one process.
LEMMA OneProcessStep ==
    ASSUME Seqs, NEW p, NEW q, OneProcess(p, q)
    PROVE  /\ procs' \in Seq(ProcessType(Len(objects)))
           /\ Len(procs') = Len(procs)
           /\ \A j \in 1 .. Len(procs) : procs'[j] = IF j = p THEN q ELSE procs[j]
BY ExceptSeq DEF Seqs, OneProcess

-----------------------------------------------------------------------------
(* Steps that leave the exchanges alone                                    *)

SameRequests ==
    \A c \in Calls :
        /\ Registered(c)' <=> Registered(c)
        /\ Registered(c) => child'[c] = child[c] /\ id'[c] = id[c] /\ method'[c] = method[c]

SameTables ==
    /\ Len(objects) <= Len(objects')
    /\ \A k \in 1 .. Len(objects) :
          objects'[k].pending = objects[k].pending /\ objects'[k].nextId = objects[k].nextId
    /\ \A k \in 1 .. Len(objects') : k > Len(objects) => objects'[k].pending = {}

SamePipes ==
    \A p \in 1 .. Len(procs') :
        \/ /\ p \in 1 .. Len(procs)
           /\ procs'[p].object = procs[p].object
           /\ procs'[p].in \cup procs'[p].out \subseteq procs[p].in \cup procs[p].out
        \/ procs'[p].in \cup procs'[p].out = {}

\* What a registered request refers to.
LEMMA RegisteredChild ==
    ASSUME AnswerInv, NEW c \in Calls, Registered(c)
    PROVE  child[c] \in 1 .. Len(objects) /\ id[c] \in Nat /\ method[c] \in Methods
           /\ Len(objects) \in Nat
<1>1. Seqs /\ Refs /\ Locals /\ child[c] # 0
  BY TypeParts DEF AnswerInv, ChildInv, Registered
<1>2. Len(objects) \in Nat
  BY <1>1, LenProperties DEF Seqs
<1> QED BY <1>1, <1>2 DEF Refs, Locals

\* Steps that leave requests and tables alone keep the tables exact ...
LEMMA FramePending ==
    ASSUME AnswerInv, SameRequests, SameTables, Seqs'
    PROVE  Pending'
<1>1. Seqs /\ Refs /\ Pending
  BY TypeParts DEF AnswerInv
<1>2. Len(objects) \in Nat /\ Len(objects') \in Nat
  BY <1>1, LenProperties DEF Seqs
<1> SUFFICES ASSUME NEW k \in 1 .. Len(objects') PROVE objects'[k].pending = Exchanges(k)'
  BY DEF Pending
<1>3. CASE k <= Len(objects)
  <2>1. Exchanges(k)' = Exchanges(k)
    BY DEF SameRequests, Exchanges
  <2> QED BY <1>1, <1>2, <1>3, <2>1 DEF SameTables, Pending
<1>4. CASE k > Len(objects)
  <2>1. ASSUME NEW c \in Calls, Registered(c)', child'[c] = k PROVE FALSE
    BY <1>2, <1>4, <2>1, RegisteredChild DEF SameRequests
  <2>2. Exchanges(k)' = {}
    BY <2>1 DEF Exchanges
  <2> QED BY <1>4, <2>2 DEF SameTables
<1> QED BY <1>2, <1>3, <1>4

\* ... and the ids distinct; ...
LEMMA FrameIds ==
    ASSUME AnswerInv, SameRequests, SameTables
    PROVE  IdInv'
<1>1. IdInv
  BY DEF AnswerInv
<1>2. ASSUME NEW c \in Calls, Registered(c)' PROVE id'[c] <= objects'[child'[c]].nextId
  BY <1>1, <1>2, RegisteredChild DEF SameRequests, SameTables, IdInv
<1>3. ASSUME NEW c \in Calls, NEW d \in Calls, Registered(c)', Registered(d)',
             child'[c] = child'[d], id'[c] = id'[d]
      PROVE  c = d
  BY <1>1, <1>3 DEF SameRequests, IdInv
<1> QED BY <1>2, <1>3 DEF IdInv

\* ... if they leave the pipes alone too, what is in them stays recognised, ...
LEMMA FrameMessages ==
    ASSUME AnswerInv, SameRequests, SameTables, SamePipes, Seqs'
    PROVE  MessageInv'
<1>1. Seqs /\ MessageInv
  BY TypeParts DEF AnswerInv
<1> SUFFICES ASSUME NEW p \in 1 .. Len(procs'), NEW m \in procs'[p].in \cup procs'[p].out
             PROVE  /\ m.id <= objects'[procs'[p].object].nextId
                    /\ \A c \in Calls :
                          Registered(c)' /\ child'[c] = procs'[p].object /\ id'[c] = m.id
                          => m = Message(c)'
  BY DEF MessageInv
<1>2. /\ p \in 1 .. Len(procs)
      /\ procs'[p].object = procs[p].object
      /\ m \in procs[p].in \cup procs[p].out
  BY DEF SamePipes
<1>3. procs[p].object \in 1 .. Len(objects)
  BY <1>1, <1>2, ProcessTyped DEF ProcessType
<1>4. m.id <= objects'[procs'[p].object].nextId
  BY <1>1, <1>2, <1>3 DEF MessageInv, SameTables
<1>5. ASSUME NEW c \in Calls, Registered(c)', child'[c] = procs'[p].object, id'[c] = m.id
      PROVE  m = Message(c)'
  BY <1>1, <1>2, <1>5 DEF MessageInv, SameRequests, Message
<1> QED BY <1>4, <1>5

\* ... and a waiter that is not touched stays as it was.
LEMMA FrameWaiters ==
    ASSUME AnswerInv, SameRequests, waiter' = waiter
    PROVE  WaiterInv' /\ Waiters'
<1>1. WaiterInv /\ Waiters
  BY TypeParts DEF AnswerInv
<1>2. ASSUME NEW c \in Calls
      PROVE  /\ Registered(c)' \/ waiter'[c] = {}
             /\ waiter'[c] \subseteq {Message(c)', Stopped}
  BY <1>1 DEF SameRequests, WaiterInv, Message
<1> QED BY <1>1, <1>2 DEF WaiterInv, Waiters

-----------------------------------------------------------------------------
(* Steps of an operation between its exchanges                             *)

Unlisted == {"idle", "returned", "raised"} \cup Steps

\* After the step c is at "to" and works with object k.
Moves(c, to, k) ==
    /\ ~Registered(c)
    /\ to \in Unlisted \ {"send", "wait"}
    /\ to \in {"start", "spawn", "tools", "listed", "register", "abort"} => k # 0
    /\ pc' = [pc EXCEPT ![c] = to]
    /\ k \in 0 .. Len(objects)
    /\ child' = [child EXCEPT ![c] = k]
    /\ \A d \in Calls \ {c} : method'[d] = method[d]
    /\ UNCHANGED <<objects, procs, active, id, waiter, sent>>

\* A call that moves on without a request keeps the invariant.
LEMMA MovesStep ==
    ASSUME AnswerInv, NEW c \in Calls, NEW to, NEW k, Moves(c, to, k), Locals'
    PROVE  AnswerInv'
<1>1. Seqs /\ Refs /\ Locals /\ ChildInv /\ LinkInv
  BY TypeParts DEF AnswerInv
<1>2. Len(objects) \in Nat
  BY <1>1, LenProperties DEF Seqs
<1>3. /\ pc'[c] = to /\ child'[c] = k
      /\ \A d \in Calls \ {c} : pc'[d] = pc[d] /\ child'[d] = child[d]
  BY <1>1 DEF Moves, Refs, Locals
<1>4. SameRequests
  <2> SUFFICES ASSUME NEW d \in Calls
               PROVE  /\ Registered(d)' <=> Registered(d)
                      /\ Registered(d) => /\ child'[d] = child[d]
                                          /\ id'[d] = id[d]
                                          /\ method'[d] = method[d]
    BY DEF SameRequests
  <2>1. CASE d = c
    BY <1>3, <2>1 DEF Moves, Registered
  <2>2. CASE d # c
    BY <1>3, <2>2 DEF Moves, Registered
  <2> QED BY <2>1, <2>2
<1>5. SameTables /\ SamePipes /\ Seqs'
  BY <1>1, <1>2 DEF Moves, SameTables, SamePipes, Seqs
<1>6. ChildInv'
  BY <1>1, <1>3 DEF Moves, ChildInv, Registered
<1>7. LinkInv'
  BY <1>1 DEF Moves, LinkInv
<1>8. Refs'
  BY <1>1 DEF Moves, Refs
<1>9. WaiterInv' /\ Waiters'
  BY <1>4, FrameWaiters DEF Moves
<1> QED
  BY <1>4, <1>5, <1>6, <1>7, <1>8, <1>9, FramePending, FrameIds, FrameMessages,
     TypePartsNext
  DEF AnswerInv

\* A call that is idle, or whose last operation has returned, takes up o.
Enters(c, from, o) ==
    /\ from \in {"idle", "returned"} /\ o \in AllOperations
    /\ Goes(c, from, "stat")
    /\ op' = [op EXCEPT ![c] = o]
    /\ stage' = [stage EXCEPT ![c] = 1]
    /\ UNCHANGED <<configVars, objects, procs, exited, seen, parsed, child, callVars, sent>>

LEMMA BeginEnters ==
    ASSUME NEW c \in Calls, NEW o \in AllOperations, Begin(c, o)
    PROVE  Enters(c, "idle", o)
BY DEF Begin, Enters

\* The steps of a call outside an exchange.
LEMMA EntersStep ==
    ASSUME AnswerInv, NEW c \in Calls, NEW from, NEW o, Enters(c, from, o)
    PROVE  AnswerInv'
<1>1. Refs /\ Locals /\ ChildInv /\ Len(objects) \in Nat
  BY TypeParts, LenProperties DEF AnswerInv, Seqs
<1>2. Moves(c, "stat", child[c])
  BY <1>1 DEF Enters, Goes, Moves, Registered, Unlisted, Steps, Refs, Locals, configVars, callVars
<1>3. Locals'
  BY <1>1 DEF Enters, Goes, Locals, Steps, configVars, callVars
<1> QED BY <1>2, <1>3, MovesStep

LEMMA MtimeTyped == Locals => Mtime \in 0 .. MaxVersions
BY BoundsAssumption DEF Locals, Mtime

LEMMA StatStep ==
    ASSUME AnswerInv, NEW c \in Calls, Stat(c)
    PROVE  AnswerInv'
<1>1. Refs /\ Locals /\ ChildInv /\ Len(objects) \in Nat
  BY TypeParts, LenProperties DEF AnswerInv, Seqs
<1>4. PICK to \in {"lookup", "swap", "load"} : Goes(c, "stat", to)
  BY DEF Stat
<1>2. Moves(c, to, child[c])
  BY <1>1, <1>4 DEF Stat, Goes, Moves, Registered, Unlisted, Steps, Refs, Locals, configVars,
     callVars
<1>5. pc' \in [Calls -> {"idle", "returned", "raised"} \cup Steps]
  BY <1>1, <1>4 DEF Goes, Locals, Steps
<1>6. seen' \in [Calls -> -1 .. MaxVersions]
  BY <1>1, MtimeTyped, BoundsAssumption DEF Stat, Locals
<1>3. Locals'
  BY <1>1, <1>5, <1>6 DEF Stat, Locals, configVars, callVars
<1> QED BY <1>2, <1>3, MovesStep

LEMMA LoadStep ==
    ASSUME AnswerInv, NEW c \in Calls, Load(c)
    PROVE  AnswerInv'
<1>1. Refs /\ Locals /\ ChildInv /\ Len(objects) \in Nat
  BY TypeParts, LenProperties DEF AnswerInv, Seqs
<1>4. PICK to \in {"lookup", "swap"} : Goes(c, "load", to)
  BY DEF Load
<1>2. Moves(c, to, child[c])
  BY <1>1, <1>4 DEF Load, Goes, Moves, Registered, Unlisted, Steps, Refs, Locals, configVars,
     callVars
<1>5. pc' \in [Calls -> {"idle", "returned", "raised"} \cup Steps]
  BY <1>1, <1>4 DEF Goes, Locals, Steps
<1>6. seen' \in [Calls -> -1 .. MaxVersions] /\ parsed' \in [Calls -> Contents]
  <2>1. /\ seen \in [Calls -> -1 .. MaxVersions] /\ parsed \in [Calls -> Contents]
        /\ -1 \in -1 .. MaxVersions /\ NoFile \in Contents /\ file.content \in Contents
    BY <1>1, BoundsAssumption DEF Locals, Contents
  <2>2. CASE file.content \in {NoFile, BadFile}
    BY <2>1, <2>2 DEF Load, ReloadEnds
  <2>3. CASE file.content \notin {NoFile, BadFile}
    BY <2>1, <2>3 DEF Load
  <2> QED BY <2>2, <2>3
<1>3. Locals'
  BY <1>1, <1>5, <1>6 DEF Load, Locals, configVars, callVars
<1> QED BY <1>2, <1>3, MovesStep

LEMMA LookupFailsStep ==
    ASSUME AnswerInv, NEW c \in Calls, LookupFails(c)
    PROVE  AnswerInv'
<1>1. Refs /\ Locals /\ ChildInv /\ Len(objects) \in Nat
  BY TypeParts, LenProperties DEF AnswerInv, Seqs
<1>4. PICK to \in {"returned", "raised"} : Goes(c, "lookup", to)
  BY DEF LookupFails
<1>2. Moves(c, to, child[c])
  BY <1>1, <1>4 DEF LookupFails, Goes, Moves, Registered, Unlisted, Steps, Refs, Locals, ChildInv,
     configVars, localVars, callVars
<1>5. pc' \in [Calls -> {"idle", "returned", "raised"} \cup Steps]
  BY <1>1, <1>4 DEF Goes, Locals, Steps
<1>3. Locals'
  BY <1>1, <1>5 DEF LookupFails, Locals, configVars, localVars, callVars
<1> QED BY <1>2, <1>3, MovesStep

LEMMA LookupChildStep ==
    ASSUME AnswerInv, NEW c \in Calls, LookupChild(c)
    PROVE  AnswerInv'
<1>1. Refs /\ Locals /\ ChildInv /\ Len(objects) \in Nat
  BY TypeParts, LenProperties DEF AnswerInv, Seqs
<1>4. PICK to \in {"returned", "start"} : Goes(c, "lookup", to)
  BY DEF LookupChild
<1>2. Moves(c, to, active)
  BY <1>1, <1>4 DEF LookupChild, Goes, Moves, Registered, Unlisted, Steps, Refs, Locals, ChildInv,
     configVars, localVars, callVars
<1>5. pc' \in [Calls -> {"idle", "returned", "raised"} \cup Steps]
  BY <1>1, <1>4 DEF Goes, Locals, Steps
<1>3. Locals'
  BY <1>1, <1>5 DEF LookupChild, Locals, configVars, localVars, callVars
<1> QED BY <1>2, <1>3, MovesStep

LEMMA LookupAccessStep ==
    ASSUME AnswerInv, NEW c \in Calls, LookupAccess(c)
    PROVE  AnswerInv'
<1>1. Refs /\ Locals /\ ChildInv /\ Len(objects) \in Nat
  BY TypeParts, LenProperties DEF AnswerInv, Seqs
<1>4. PICK to \in {"raised", "returned", "stat"} : Goes(c, "lookup", to)
  BY DEF LookupAccess
<1>2. Moves(c, to, child[c])
  BY <1>1, <1>4 DEF LookupAccess, Goes, Moves, Registered, Unlisted, Steps, Refs, Locals, ChildInv,
     configVars, localVars, callVars
<1>5. pc' \in [Calls -> {"idle", "returned", "raised"} \cup Steps]
  BY <1>1, <1>4 DEF Goes, Locals, Steps
<1>3. Locals'
  BY <1>1, <1>5 DEF LookupAccess, Locals, configVars, localVars, callVars
<1> QED BY <1>2, <1>3, MovesStep

LEMMA LookupVersionStep ==
    ASSUME AnswerInv, NEW c \in Calls, LookupVersion(c)
    PROVE  AnswerInv'
<1>1. Refs /\ Locals /\ ChildInv /\ Len(objects) \in Nat
  BY TypeParts, LenProperties DEF AnswerInv, Seqs
<1>4. PICK to \in {"returned"} : Goes(c, "lookup", to)
  BY DEF LookupVersion
<1>2. Moves(c, to, child[c])
  BY <1>1, <1>4 DEF LookupVersion, Goes, Moves, Registered, Unlisted, Steps, Refs, Locals, ChildInv,
     configVars, localVars, callVars
<1>5. pc' \in [Calls -> {"idle", "returned", "raised"} \cup Steps]
  BY <1>1, <1>4 DEF Goes, Locals, Steps
<1>3. Locals'
  BY <1>1, <1>5 DEF LookupVersion, Locals, configVars, localVars, callVars
<1> QED BY <1>2, <1>3, MovesStep

LEMMA StartChecksStep ==
    ASSUME AnswerInv, NEW c \in Calls, StartChecks(c)
    PROVE  AnswerInv'
<1>1. Refs /\ Locals /\ ChildInv /\ Len(objects) \in Nat
  BY TypeParts, LenProperties DEF AnswerInv, Seqs
<1>4. PICK to \in {"tools", "spawn"} : Goes(c, "start", to)
  BY DEF StartChecks
<1>2. Moves(c, to, child[c])
  BY <1>1, <1>4 DEF StartChecks, Goes, Moves, Registered, Unlisted, Steps, Refs, Locals, ChildInv,
     configVars, localVars, callVars
<1>5. pc' \in [Calls -> {"idle", "returned", "raised"} \cup Steps]
  BY <1>1, <1>4 DEF Goes, Locals, Steps
<1>3. Locals'
  BY <1>1, <1>5 DEF StartChecks, Locals, configVars, localVars, callVars
<1> QED BY <1>2, <1>3, MovesStep

LEMMA SpawnFailsStep ==
    ASSUME AnswerInv, NEW c \in Calls, SpawnFails(c)
    PROVE  AnswerInv'
<1>1. Refs /\ Locals /\ ChildInv /\ Len(objects) \in Nat
  BY TypeParts, LenProperties DEF AnswerInv, Seqs
<1>4. PICK to \in {"raised"} : Goes(c, "spawn", to)
  BY DEF SpawnFails
<1>2. Moves(c, to, child[c])
  BY <1>1, <1>4 DEF SpawnFails, Goes, Moves, Registered, Unlisted, Steps, Refs, Locals, ChildInv,
     configVars, localVars, callVars
<1>5. pc' \in [Calls -> {"idle", "returned", "raised"} \cup Steps]
  BY <1>1, <1>4 DEF Goes, Locals, Steps
<1>3. Locals'
  BY <1>1, <1>5 DEF SpawnFails, Locals, configVars, localVars, callVars
<1> QED BY <1>2, <1>3, MovesStep

LEMMA ToolsCachedStep ==
    ASSUME AnswerInv, NEW c \in Calls, ToolsCached(c)
    PROVE  AnswerInv'
<1>1. Refs /\ Locals /\ ChildInv /\ Len(objects) \in Nat
  BY TypeParts, LenProperties DEF AnswerInv, Seqs
<1>4. PICK to \in {"listed"} : Goes(c, "tools", to)
  BY DEF ToolsCached
<1>2. Moves(c, to, child[c])
  BY <1>1, <1>4 DEF ToolsCached, Goes, Moves, Registered, Unlisted, Steps, Refs, Locals, ChildInv,
     configVars, localVars, callVars
<1>5. pc' \in [Calls -> {"idle", "returned", "raised"} \cup Steps]
  BY <1>1, <1>4 DEF Goes, Locals, Steps
<1>3. Locals'
  BY <1>1, <1>5 DEF ToolsCached, Locals, configVars, localVars, callVars
<1> QED BY <1>2, <1>3, MovesStep

LEMMA ListToolsStep ==
    ASSUME AnswerInv, NEW c \in Calls, ListTools(c)
    PROVE  AnswerInv'
<1>1. Refs /\ Locals /\ ChildInv /\ Len(objects) \in Nat
  BY TypeParts, LenProperties DEF AnswerInv, Seqs
<1>4. PICK to \in {"register"} : Goes(c, "tools", to)
  BY DEF ListTools
<1>2. Moves(c, to, child[c])
  BY <1>1, <1>4 DEF ListTools, Goes, Moves, Registered, Unlisted, Steps, Refs, Locals, ChildInv,
     configVars, localVars, callVars
<1>5. pc' \in [Calls -> {"idle", "returned", "raised"} \cup Steps]
  BY <1>1, <1>4 DEF Goes, Locals, Steps
<1>3. Locals'
  BY <1>1, <1>5 DEF ListTools, Locals, configVars, localVars, callVars, Methods
<1> QED BY <1>2, <1>3, MovesStep

LEMMA UseToolsStep ==
    ASSUME AnswerInv, NEW c \in Calls, UseTools(c)
    PROVE  AnswerInv'
<1>1. Refs /\ Locals /\ ChildInv /\ Len(objects) \in Nat
  BY TypeParts, LenProperties DEF AnswerInv, Seqs
<1>4. PICK to \in {"raised", "returned", "stat", "register"} : Goes(c, "listed", to)
  BY DEF UseTools
<1>2. Moves(c, to, child[c])
  BY <1>1, <1>4 DEF UseTools, Goes, Moves, Registered, Unlisted, Steps, Refs, Locals, ChildInv,
     configVars, localVars, callVars
<1>5. pc' \in [Calls -> {"idle", "returned", "raised"} \cup Steps]
  BY <1>1, <1>4 DEF Goes, Locals, Steps
<1>3. Locals'
  BY <1>1, <1>5 DEF UseTools, Locals, configVars, localVars, callVars, Methods
<1> QED BY <1>2, <1>3, MovesStep

\* The config file is written.
LEMMA ConfigStep ==
    ASSUME AnswerInv, NEW content \in Contents, ConfigChanges(content)
    PROVE  AnswerInv'
<1>1. Seqs /\ Refs /\ Locals /\ ChildInv /\ LinkInv /\ Len(objects) \in Nat
  BY TypeParts, LenProperties DEF AnswerInv, Seqs
<1>2. SameRequests
  BY DEF ConfigChanges, SameRequests, Registered, localVars, callVars
<1>3. Seqs' /\ Refs' /\ SameTables /\ SamePipes /\ ChildInv' /\ LinkInv'
  BY <1>1 DEF ConfigChanges, Seqs, Refs, SameTables, SamePipes, ChildInv, LinkInv, localVars,
     callVars
<1>4. WaiterInv' /\ Waiters'
  BY <1>2, FrameWaiters DEF ConfigChanges, callVars
<1>5. file' \in [version : 1 .. MaxVersions, content : Contents]
  BY <1>1, BoundsAssumption DEF ConfigChanges, Locals
<1>6. Locals'
  BY <1>1, <1>5 DEF ConfigChanges, Locals, localVars, callVars
<1> QED
  BY <1>2, <1>3, <1>4, <1>6, FramePending, FrameIds, FrameMessages, TypePartsNext DEF AnswerInv

-----------------------------------------------------------------------------
(* Steps that make, replace or stop objects and processes                  *)

NoChange ==
    /\ Len(procs') = Len(procs)
    /\ \A p \in 1 .. Len(procs) :
          /\ procs'[p].object = procs[p].object
          /\ procs'[p].in = procs[p].in /\ procs'[p].out = procs[p].out

Closing(k) ==
    /\ k \in 1 .. Len(objects)
    /\ procs' = ClosedProcs(k)

\* What close does to the process of an object.
LEMMA ClosingStep ==
    ASSUME AnswerInv, NEW k, Closing(k)
    PROVE  procs' \in Seq(ProcessType(Len(objects))) /\ NoChange /\ SamePipes
<1>1. Seqs
  BY TypeParts DEF AnswerInv
<1>2. CASE ~Alive(k)
  BY <1>1, <1>2 DEF Closing, ClosedProcs, NoChange, SamePipes, Seqs
<1>3. CASE Alive(k)
  <2> DEFINE p == objects[k].process
             q == [procs[p] EXCEPT !.state = "closed"]
  <2>1. p \in 1 .. Len(procs)
    BY <1>1, <1>3, ObjectTyped DEF Closing, Alive, ObjectType
  <2>2. procs[p] \in ProcessType(Len(objects))
    BY <1>1, <2>1, ProcessTyped
  <2>3. /\ q \in ProcessType(Len(objects))
        /\ q.object = procs[p].object /\ q.in = procs[p].in /\ q.out = procs[p].out
    BY <2>2 DEF ProcessType
  <2>4. procs' = [procs EXCEPT ![p] = q]
    BY <1>3 DEF Closing, ClosedProcs
  <2> HIDE DEF q
  <2>6. OneProcess(p, q)
    BY <2>1, <2>3, <2>4 DEF OneProcess
  <2>5. /\ procs' \in Seq(ProcessType(Len(objects)))
        /\ Len(procs') = Len(procs)
        /\ \A j \in 1 .. Len(procs) : procs'[j] = IF j = p THEN q ELSE procs[j]
    BY <1>1, <2>6, OneProcessStep
  <2> QED BY <2>3, <2>5 DEF NoChange, SamePipes
<1> QED BY <1>2, <1>3

\* An object changes that has no part in the exchanges and no new process.
Keeping(k, o) ==
    /\ OneObject(k, o)
    /\ o.pending = objects[k].pending /\ o.nextId = objects[k].nextId
    /\ o.process \in {0, objects[k].process}
    /\ o.descriptor = objects[k].descriptor

Idle == UNCHANGED <<pc, child, id, method, waiter, sent>>

LEMMA IdleRequests == Idle => SameRequests
BY DEF Idle, SameRequests, Registered

\* One object changes, but neither its table nor its ids.
LEMMA KeepingStep ==
    ASSUME AnswerInv, NEW k, NEW o, Keeping(k, o), SameRequests, ChildInv', Refs', Locals',
           waiter' = waiter, procs' \in Seq(ProcessType(Len(objects))), NoChange
    PROVE  AnswerInv'
<1>1. Seqs /\ LinkInv
  BY TypeParts DEF AnswerInv
<1>2. Len(objects) \in Nat /\ Len(procs) \in Nat
  BY <1>1, LenProperties DEF Seqs
<1>3. /\ objects' \in Seq(ObjectType(Len(procs)))
      /\ Len(objects') = Len(objects)
      /\ \A j \in 1 .. Len(objects) : objects'[j] = IF j = k THEN o ELSE objects[j]
  BY <1>1, OneObjectStep DEF Keeping
<1>4. Seqs'
  BY <1>3 DEF Seqs, NoChange
<1>5. SameTables
  BY <1>2, <1>3 DEF SameTables, Keeping
<1>6. SamePipes
  BY <1>2 DEF SamePipes, NoChange
<1>7. LinkInv'
  <2> SUFFICES ASSUME NEW j \in 1 .. Len(objects), objects'[j].process # 0
               PROVE  procs'[objects'[j].process].object = j
    BY <1>3 DEF LinkInv
  <2>1. objects'[j].process = objects[j].process
    BY <1>3 DEF Keeping
  <2>2. objects[j].process \in 1 .. Len(procs)
    BY <1>1, <1>2, <2>1, ObjectTyped DEF ObjectType
  <2> QED BY <1>1, <2>1, <2>2 DEF LinkInv, NoChange
<1>8. WaiterInv' /\ Waiters'
  BY FrameWaiters
<1> QED
  BY <1>4, <1>5, <1>6, <1>7, <1>8, FramePending, FrameIds, FrameMessages, TypePartsNext
  DEF AnswerInv

closed(k) == [objects[k] EXCEPT !.process = 0, !.cached = FALSE]

\* What close does to an object.
LEMMA ClosedTyped ==
    ASSUME Seqs, NEW k \in 1 .. Len(objects)
    PROVE  /\ closed(k) \in ObjectType(Len(procs))
           /\ closed(k).pending = objects[k].pending /\ closed(k).nextId = objects[k].nextId
           /\ closed(k).process = 0 /\ closed(k).descriptor = objects[k].descriptor
           /\ ClosedObjects(k) = [objects EXCEPT ![k] = closed(k)]
<1>1. objects[k] \in ObjectType(Len(procs)) /\ Len(procs) \in Nat
  BY ObjectTyped
<1>3. /\ closed(k) \in ObjectType(Len(procs))
      /\ closed(k).pending = objects[k].pending /\ closed(k).nextId = objects[k].nextId
      /\ closed(k).process = 0 /\ closed(k).descriptor = objects[k].descriptor
  <2> DEFINE o == objects[k]
             e == [o EXCEPT !.process = 0]
  <2>1. /\ e \in ObjectType(Len(procs)) /\ e.pending = o.pending /\ e.nextId = o.nextId
        /\ e.process = 0 /\ e.descriptor = o.descriptor
    BY <1>1 DEF ObjectType
  <2>2. closed(k) = [e EXCEPT !.cached = FALSE]
    BY <1>1 DEF closed, ObjectType
  <2> HIDE DEF e
  <2>3. /\ closed(k) \in ObjectType(Len(procs))
        /\ closed(k).pending = e.pending /\ closed(k).nextId = e.nextId
        /\ closed(k).process = e.process /\ closed(k).descriptor = e.descriptor
    BY <2>1, <2>2 DEF ObjectType
  <2> QED BY <2>1, <2>3
<1>4. objects \in [1 .. Len(objects) -> ObjectType(Len(procs))]
  BY LenProperties DEF Seqs
<1>5. ClosedObjects(k) = [objects EXCEPT ![k] = closed(k)]
  BY <1>1, <1>4 DEF closed, ClosedObjects
<1> QED BY <1>3, <1>5

\* The steps that close a process, and the drain thread.
LEMMA AbortStep ==
    ASSUME AnswerInv, NEW c \in Calls, Abort(c)
    PROVE  AnswerInv'
<1>1. Seqs /\ Refs /\ Locals /\ ChildInv /\ Len(objects) \in Nat
  BY TypeParts, LenProperties DEF AnswerInv, Seqs
<1>2. child[c] \in 1 .. Len(objects)
  BY <1>1 DEF Abort, Goes, ChildInv, Refs
<1>3. procs' \in Seq(ProcessType(Len(objects))) /\ NoChange
  BY <1>2, ClosingStep DEF Closing, Abort
<1>4. Keeping(child[c], closed(child[c])) /\ Len(objects') = Len(objects)
  BY <1>1, <1>2, ClosedTyped, OneObjectStep DEF Keeping, OneObject, Abort
<1>5. pc' = [pc EXCEPT ![c] = "raised"] /\ pc[c] = "abort"
  BY DEF Abort, Goes
<1>6. SameRequests
  BY <1>1, <1>5 DEF Abort, SameRequests, Registered, Locals, localVars, callVars
<1>7. ChildInv' /\ Refs'
  BY <1>1, <1>4, <1>5 DEF Abort, ChildInv, Refs, Locals, configVars, localVars, callVars
<1>8. Locals'
  BY <1>1, <1>5 DEF Abort, Locals, Steps, configVars, localVars, callVars
<1> QED BY <1>3, <1>4, <1>6, <1>7, <1>8, KeepingStep DEF Abort, callVars

\* Nothing but the processes, one object and the active one may change.
LEMMA Beside ==
    ASSUME AnswerInv, Idle, file' = file, loaded' = loaded, exited' \in BOOLEAN,
           UNCHANGED <<op, stage, seen, parsed>>, active' \in {0, active},
           Len(objects) \in Nat, Len(objects') \in Nat, Len(objects') >= Len(objects)
    PROVE  SameRequests /\ ChildInv' /\ Refs' /\ Locals' /\ waiter' = waiter
<1>1. Refs /\ Locals /\ ChildInv
  BY TypeParts DEF AnswerInv
<1>2. Refs'
  BY <1>1 DEF Refs, Idle
<1> QED BY <1>1, <1>2, IdleRequests DEF Idle, ChildInv, Locals

LEMMA DrainEndsStep ==
    ASSUME AnswerInv, NEW k \in 1 .. Len(objects), DrainEnds(k)
    PROVE  AnswerInv'
<1> DEFINE o == [objects[k] EXCEPT !.drain = "closing"]
<1>1. Seqs /\ Len(objects) \in Nat /\ Locals
  BY TypeParts, LenProperties DEF AnswerInv, Seqs
<1>2. objects[k] \in ObjectType(Len(procs)) /\ Len(procs) \in Nat
  BY <1>1, ObjectTyped
<1>3. Keeping(k, o)
  BY <1>2 DEF Keeping, OneObject, ObjectType, DrainEnds
<1> HIDE DEF o
<1>4. Len(objects') = Len(objects)
  BY <1>1, <1>3, OneObjectStep DEF Keeping
<1>5. procs' \in Seq(ProcessType(Len(objects))) /\ NoChange
  BY <1>1 DEF DrainEnds, Seqs, NoChange
<1>6. SameRequests /\ ChildInv' /\ Refs' /\ Locals' /\ waiter' = waiter
  BY <1>1, <1>4, Beside DEF DrainEnds, Idle, Locals, configVars, localVars, callVars
<1> QED BY <1>3, <1>5, <1>6, KeepingStep

LEMMA DrainClosesStep ==
    ASSUME AnswerInv, NEW k \in 1 .. Len(objects), DrainCloses(k)
    PROVE  AnswerInv'
<1> DEFINE o == [closed(k) EXCEPT !.drain = "closed"]
<1>1. Seqs /\ Len(objects) \in Nat /\ Locals
  BY TypeParts, LenProperties DEF AnswerInv, Seqs
<1>2. closed(k) \in ObjectType(Len(procs)) /\ Len(procs) \in Nat
  BY <1>1, ClosedTyped, ObjectTyped
<1>7. objects' = [objects EXCEPT ![k] = o]
  <2>1. objects' = [ClosedObjects(k) EXCEPT ![k].drain = "closed"]
    BY DEF DrainCloses
  <2>2. ClosedObjects(k) = [objects EXCEPT ![k] = closed(k)]
    BY <1>1, ClosedTyped
  <2>3. DOMAIN objects = 1 .. Len(objects)
    BY <1>1, LenProperties DEF Seqs
  <2> QED BY <2>1, <2>2, <2>3
<1>3. Keeping(k, o)
  <2>1. /\ o \in ObjectType(Len(procs)) /\ o.pending = closed(k).pending
        /\ o.nextId = closed(k).nextId /\ o.process = closed(k).process
        /\ o.descriptor = closed(k).descriptor
    BY <1>2 DEF ObjectType
  <2> HIDE DEF o
  <2> QED BY <1>1, <1>7, <2>1, ClosedTyped DEF Keeping, OneObject
<1> HIDE DEF o
<1>4. Len(objects') = Len(objects)
  BY <1>1, <1>3, OneObjectStep DEF Keeping
<1>5. procs' \in Seq(ProcessType(Len(objects))) /\ NoChange
  BY ClosingStep DEF Closing, DrainCloses
<1>6. SameRequests /\ ChildInv' /\ Refs' /\ Locals' /\ waiter' = waiter
  BY <1>1, <1>4, Beside DEF DrainCloses, Idle, Locals, configVars, localVars, callVars
<1> QED BY <1>3, <1>5, <1>6, KeepingStep

LEMMA ExitStep ==
    ASSUME AnswerInv, Exit
    PROVE  AnswerInv'
<1>1. Seqs /\ Refs /\ Len(objects) \in Nat /\ Locals /\ LinkInv
  BY TypeParts, LenProperties DEF AnswerInv, Seqs
<1>2. CASE active = 0
  <2>1. SameRequests /\ ChildInv' /\ Refs' /\ Locals' /\ waiter' = waiter
    BY <1>1, <1>2, Beside DEF Exit, Idle, localVars, callVars
  <2>2. Seqs' /\ SameTables /\ SamePipes /\ LinkInv'
    BY <1>1, <1>2 DEF Exit, Seqs, SameTables, SamePipes, LinkInv
  <2> QED
    BY <2>1, <2>2, FramePending, FrameIds, FrameMessages, FrameWaiters, TypePartsNext
    DEF AnswerInv
<1>3. CASE active # 0
  <2>1. active \in 1 .. Len(objects)
    BY <1>1, <1>3 DEF Refs
  <2>2. procs' \in Seq(ProcessType(Len(objects))) /\ NoChange
    BY <1>3, <2>1, ClosingStep DEF Closing, Exit
  <2>3. Keeping(active, closed(active)) /\ Len(objects') = Len(objects)
    BY <1>1, <1>3, <2>1, ClosedTyped, OneObjectStep DEF Keeping, OneObject, Exit
  <2>4. SameRequests /\ ChildInv' /\ Refs' /\ Locals' /\ waiter' = waiter
    BY <1>1, <2>3, Beside DEF Exit, Idle, localVars, callVars
  <2> QED BY <2>2, <2>3, <2>4, KeepingStep
<1> QED BY <1>2, <1>3

\* To retire an object changes nothing but its drain.
LEMMA RetiredTyped ==
    ASSUME Seqs, NEW k \in 0 .. Len(objects)
    PROVE  /\ Retired(k) \in Seq(ObjectType(Len(procs))) /\ Len(Retired(k)) = Len(objects)
           /\ \A j \in 1 .. Len(objects) :
                 /\ Retired(k)[j].pending = objects[j].pending
                 /\ Retired(k)[j].nextId = objects[j].nextId
                 /\ Retired(k)[j].process = objects[j].process
                 /\ Retired(k)[j].descriptor = objects[j].descriptor
<1>1. CASE k = 0
  BY <1>1 DEF Seqs, Retired
<1>2. CASE k # 0
  <2> DEFINE o == [objects[k] EXCEPT !.drain = "draining"]
  <2>1. k \in 1 .. Len(objects)
    BY <1>2, LenProperties DEF Seqs
  <2>2. objects[k] \in ObjectType(Len(procs))
    BY <2>1, ObjectTyped
  <2>3. /\ o \in ObjectType(Len(procs)) /\ o.pending = objects[k].pending
        /\ o.nextId = objects[k].nextId /\ o.process = objects[k].process
        /\ o.descriptor = objects[k].descriptor
    BY <2>2 DEF ObjectType
  <2>4. Retired(k) = [objects EXCEPT ![k] = o]
    BY <1>2 DEF Retired
  <2> HIDE DEF o
  <2>5. /\ Retired(k) \in Seq(ObjectType(Len(procs))) /\ Len(Retired(k)) = Len(objects)
        /\ \A j \in 1 .. Len(objects) : Retired(k)[j] = IF j = k THEN o ELSE objects[j]
    BY <2>1, <2>3, <2>4, ExceptSeq DEF Seqs
  <2> QED BY <2>3, <2>5
<1> QED BY <1>1, <1>2

SwapObjects ==
    /\ objects' \in Seq(ObjectType(Len(procs)))
    /\ active' \in 0 .. Len(objects')
    /\ Len(objects') \in {Len(objects), Len(objects) + 1}
    /\ \A k \in 1 .. Len(objects) :
          /\ objects'[k].pending = objects[k].pending
          /\ objects'[k].nextId = objects[k].nextId
          /\ objects'[k].process = objects[k].process
          /\ objects'[k].descriptor = objects[k].descriptor
    /\ \A k \in 1 .. Len(objects') : k > Len(objects) =>
          objects'[k].pending = {} /\ objects'[k].process = 0

\* The three ways a new generation comes about.
Emptied(c) == parsed[c] \in {NoFile, NoEntry}
Kept(c) == active # 0 /\ objects[active].descriptor = parsed[c]

\* What a swap does to the generation.
LEMMA SwapTyped ==
    ASSUME AnswerInv, NEW c \in Calls, Swap(c), parsed[c] \in Descriptors \cup {NoFile, NoEntry}
    PROVE  /\ SwapObjects
           /\ Emptied(c) => active' = 0
           /\ ~Emptied(c) => active' # 0 /\ objects'[active'].descriptor = parsed[c]
<1>1. Seqs /\ Refs /\ Locals /\ Len(objects) \in Nat /\ Len(procs) \in Nat
  BY TypeParts, LenProperties DEF AnswerInv, Seqs
<1>2. /\ Retired(active) \in Seq(ObjectType(Len(procs)))
      /\ Len(Retired(active)) = Len(objects)
      /\ \A j \in 1 .. Len(objects) :
            /\ Retired(active)[j].pending = objects[j].pending
            /\ Retired(active)[j].nextId = objects[j].nextId
            /\ Retired(active)[j].process = objects[j].process
            /\ Retired(active)[j].descriptor = objects[j].descriptor
  BY <1>1, RetiredTyped DEF Refs
<1>3. CASE Emptied(c)
  <2>1. active' = 0 /\ objects' = Retired(active)
    BY <1>3 DEF Swap, Emptied
  <2> QED BY <1>1, <1>2, <1>3, <2>1 DEF SwapObjects
<1>4. CASE ~Emptied(c) /\ Kept(c)
  <2>1. active' = active /\ objects' = objects
    BY <1>4 DEF Swap, Emptied, Kept
  <2> QED BY <1>1, <1>4, <2>1 DEF SwapObjects, Refs, Seqs, Kept
<1>5. CASE ~Emptied(c) /\ ~Kept(c)
  <2> DEFINE r == Retired(active)
             o == NewObject(parsed[c])
  <2>1. active' = Len(objects) + 1 /\ objects' = Append(r, o)
    BY <1>5 DEF Swap, Emptied, Kept
  <2>2. o \in ObjectType(Len(procs)) /\ o.pending = {} /\ o.process = 0
        /\ o.descriptor = parsed[c]
    <3>1. parsed[c] \in Descriptors
      BY <1>5 DEF Emptied
    <3> QED BY <1>1, <3>1 DEF NewObject, ObjectType
  <2> HIDE DEF r, o
  <2>3. /\ objects' \in Seq(ObjectType(Len(procs))) /\ Len(objects') = Len(r) + 1
        /\ \A j \in 1 .. Len(r) : objects'[j] = r[j]
        /\ objects'[Len(r) + 1] = o
    BY <1>2, <2>1, <2>2, AppendProperties DEF r
  <2> QED BY <1>1, <1>2, <1>5, <2>1, <2>2, <2>3 DEF SwapObjects, r
<1> QED BY <1>3, <1>4, <1>5

\* A swap keeps every table, retired or not.
LEMMA SwapStep ==
    ASSUME AnswerInv, NEW c \in Calls, Swap(c), parsed[c] \in Descriptors \cup {NoFile, NoEntry}
    PROVE  AnswerInv'
<1>1. Seqs /\ Refs /\ Locals /\ LinkInv /\ ChildInv /\ Len(objects) \in Nat
      /\ Len(procs) \in Nat
  BY TypeParts, LenProperties DEF AnswerInv, Seqs
<1>2. SwapObjects /\ Len(objects') \in Nat
  BY <1>1, SwapTyped DEF SwapObjects
<1>3. pc[c] = "swap" /\ pc' = [pc EXCEPT ![c] = "lookup"]
      /\ UNCHANGED <<file, procs, exited, op, stage, child, callVars, sent>>
  BY DEF Swap, Goes
<1>4. SameRequests
  BY <1>1, <1>3 DEF SameRequests, Registered, Locals, callVars
<1>5. Seqs'
  <2>1. ProcessType(Len(objects)) \subseteq ProcessType(Len(objects'))
    BY <1>1, <1>2 DEF ProcessType, SwapObjects
  <2> QED BY <1>1, <1>2, <1>3, <2>1, SeqMonotonic DEF Seqs, SwapObjects
<1>6. SameTables /\ SamePipes
  BY <1>1, <1>2, <1>3 DEF SameTables, SamePipes, SwapObjects
<1>7. LinkInv'
  BY <1>1, <1>2, <1>3 DEF LinkInv, SwapObjects
<1>8. Refs' /\ ChildInv'
  <2>1. ChildInv'
    BY <1>1, <1>3 DEF ChildInv, Locals
  <2>2. 0 .. Len(objects) \subseteq 0 .. Len(objects')
        /\ 1 .. Len(objects) \subseteq 1 .. Len(objects')
    BY <1>1, <1>2 DEF SwapObjects
  <2>3. child' \in [Calls -> 0 .. Len(objects')]
    BY <1>1, <1>3, <2>2 DEF Refs
  <2>4. sent' \subseteq Calls \X (1 .. Len(objects')) \X Nat
    BY <1>1, <1>3, <2>2 DEF Refs
  <2> QED BY <1>2, <2>1, <2>3, <2>4 DEF Refs, SwapObjects
<1>9. Locals'
  <2>1. loaded' \in -1 .. MaxVersions
    BY <1>1 DEF Swap, Stamp, Locals
  <2>2. seen' \in [Calls -> -1 .. MaxVersions] /\ parsed' \in [Calls -> Contents]
    BY <1>1, BoundsAssumption DEF Swap, ReloadEnds, Locals, Contents
  <2> QED BY <1>1, <1>3, <2>1, <2>2 DEF Locals, Steps, callVars
<1>10. WaiterInv' /\ Waiters'
  BY <1>3, <1>4, FrameWaiters DEF callVars
<1> QED
  BY <1>4, <1>5, <1>6, <1>7, <1>8, <1>9, <1>10, FramePending, FrameIds, FrameMessages,
     TypePartsNext
  DEF AnswerInv

\* A process that was started has empty pipes.
LEMMA SpawnStep ==
    ASSUME AnswerInv, NEW c \in Calls, Spawn(c)
    PROVE  AnswerInv'
<1> DEFINE k == child[c]
           n == Len(procs) + 1
           o == [objects[k] EXCEPT !.process = n]
           q == NewProcess(k)
<1>1. Seqs /\ Refs /\ Locals /\ LinkInv /\ ChildInv /\ Len(objects) \in Nat
      /\ Len(procs) \in Nat
  BY TypeParts, LenProperties DEF AnswerInv, Seqs
<1>2. k \in 1 .. Len(objects)
  BY <1>1 DEF Spawn, Goes, ChildInv, Refs
<1>3. /\ objects' = [objects EXCEPT ![k] = o] /\ procs' = Append(procs, q)
      /\ pc[c] = "spawn" /\ pc' = [pc EXCEPT ![c] = "register"]
      /\ method' = [method EXCEPT ![c] = "initialize"]
      /\ UNCHANGED <<configVars, exited, localVars, id, waiter, sent>>
  BY DEF Spawn, Goes
<1>4. /\ o \in ObjectType(n) /\ o.pending = objects[k].pending
      /\ o.nextId = objects[k].nextId /\ o.process = n
  <2>1. objects[k] \in ObjectType(Len(procs))
    BY <1>1, <1>2, ObjectTyped
  <2> QED BY <1>1, <2>1 DEF ObjectType
<1>5. q \in ProcessType(Len(objects)) /\ q.object = k /\ q.in \cup q.out = {}
  BY <1>2 DEF NewProcess, ProcessType
<1> HIDE DEF o, q
<1>6. /\ procs' \in Seq(ProcessType(Len(objects))) /\ Len(procs') = n /\ procs'[n] = q
      /\ \A p \in 1 .. Len(procs) : procs'[p] = procs[p]
  BY <1>1, <1>3, <1>5, AppendProperties DEF Seqs
<1>7. /\ objects' \in Seq(ObjectType(n)) /\ Len(objects') = Len(objects)
      /\ \A j \in 1 .. Len(objects) : objects'[j] = IF j = k THEN o ELSE objects[j]
  <2>1. ObjectType(Len(procs)) \subseteq ObjectType(n)
    BY <1>1 DEF ObjectType
  <2>2. objects \in Seq(ObjectType(n))
    BY <1>1, <2>1, SeqMonotonic DEF Seqs
  <2> QED BY <1>2, <1>3, <1>4, <2>2, ExceptSeq
<1>8. Seqs' /\ SameTables /\ SamePipes
  BY <1>1, <1>4, <1>5, <1>6, <1>7 DEF Seqs, SameTables, SamePipes
<1>9. SameRequests
  <2> SUFFICES ASSUME NEW d \in Calls
               PROVE  /\ Registered(d)' <=> Registered(d)
                      /\ Registered(d) => /\ child'[d] = child[d]
                                          /\ id'[d] = id[d]
                                          /\ method'[d] = method[d]
    BY DEF SameRequests
  <2> QED BY <1>1, <1>3 DEF Registered, Locals, localVars
<1>10. LinkInv'
  <2> SUFFICES ASSUME NEW j \in 1 .. Len(objects), objects'[j].process # 0
               PROVE  procs'[objects'[j].process].object = j
    BY <1>7 DEF LinkInv
  <2>1. CASE j = k
    BY <1>4, <1>5, <1>6, <1>7, <2>1
  <2>2. CASE j # k
    <3>1. objects[j].process \in 1 .. Len(procs)
      BY <1>1, <1>7, <2>2, ObjectTyped DEF ObjectType
    <3> QED BY <1>1, <1>6, <1>7, <2>2, <3>1 DEF LinkInv
  <2> QED BY <2>1, <2>2
<1>11. ChildInv' /\ Refs'
  BY <1>1, <1>2, <1>3, <1>7 DEF ChildInv, Refs, Locals, configVars, localVars
<1>12. Locals'
  BY <1>1, <1>3 DEF Locals, Steps, Methods, configVars, localVars
<1>13. WaiterInv' /\ Waiters'
  BY <1>3, <1>9, FrameWaiters
<1> QED
  BY <1>8, <1>9, <1>10, <1>11, <1>12, <1>13, FramePending, FrameIds, FrameMessages, TypePartsNext
  DEF AnswerInv

-----------------------------------------------------------------------------
(* Steps of processes and readers                                          *)

\* One process changes, and of the callers' state at most the waiters.
PipeStep(p, q) ==
    /\ OneProcess(p, q)
    /\ q.object = procs[p].object
    /\ q.in \cup q.out \subseteq procs[p].in \cup procs[p].out
    /\ UNCHANGED <<configVars, objects, exited, pc, localVars, method, id, sent>>

\* Steps of a process or its reader, which change its pipes.
LEMMA PipeFrame ==
    ASSUME AnswerInv, NEW p, NEW q, PipeStep(p, q)
    PROVE  /\ SameRequests /\ Seqs' /\ Refs' /\ Locals' /\ Pending'
           /\ ChildInv' /\ LinkInv' /\ IdInv' /\ MessageInv'
<1>1. Seqs /\ Refs /\ Locals /\ LinkInv /\ ChildInv /\ Len(objects) \in Nat
      /\ Len(procs) \in Nat
  BY TypeParts, LenProperties DEF AnswerInv, Seqs
<1>2. SameRequests /\ Refs' /\ Locals' /\ ChildInv'
  BY <1>1 DEF PipeStep, SameRequests, Registered, Refs, Locals, ChildInv, configVars, localVars
<1>3. /\ procs' \in Seq(ProcessType(Len(objects))) /\ Len(procs') = Len(procs)
      /\ \A j \in 1 .. Len(procs) : procs'[j] = IF j = p THEN q ELSE procs[j]
  BY <1>1, OneProcessStep DEF PipeStep
<1>4. Seqs' /\ SameTables /\ SamePipes
  BY <1>1, <1>3 DEF PipeStep, Seqs, SameTables, SamePipes
<1>5. LinkInv'
  <2> SUFFICES ASSUME NEW k \in 1 .. Len(objects), objects[k].process # 0
               PROVE  procs'[objects[k].process].object = k
    BY DEF LinkInv, PipeStep
  <2>1. objects[k].process \in 1 .. Len(procs)
    BY <1>1, ObjectTyped DEF ObjectType
  <2> QED BY <1>1, <1>3, <2>1 DEF LinkInv, PipeStep
<1> QED BY <1>2, <1>4, <1>5, FramePending, FrameIds, FrameMessages

LEMMA PipeOnly ==
    ASSUME AnswerInv, NEW p, NEW q, PipeStep(p, q), waiter' = waiter
    PROVE  AnswerInv'
<1>1. SameRequests
  BY PipeFrame
<1> QED BY <1>1, PipeFrame, FrameWaiters, TypePartsNext DEF AnswerInv

LEMMA AnswersStep ==
    ASSUME AnswerInv, NEW p \in 1 .. Len(procs), NEW m \in procs[p].in, Answers(p, m)
    PROVE  AnswerInv'
<1> DEFINE q == [procs[p] EXCEPT !.in = @ \ {m}, !.out = @ \cup {m}]
<1>1. procs[p] \in ProcessType(Len(objects))
  BY TypeParts, ProcessTyped DEF AnswerInv
<1>2. /\ q \in ProcessType(Len(objects)) /\ q.object = procs[p].object
      /\ q.in \cup q.out \subseteq procs[p].in \cup procs[p].out
  BY <1>1 DEF ProcessType
<1>3. procs' = [procs EXCEPT ![p] = q]
  BY DEF Answers
<1> HIDE DEF q
<1> QED BY <1>2, <1>3, PipeOnly DEF PipeStep, OneProcess, Answers, callVars

LEMMA CrashesStep ==
    ASSUME AnswerInv, NEW p \in 1 .. Len(procs), Crashes(p)
    PROVE  AnswerInv'
<1> DEFINE q == [procs[p] EXCEPT !.state = "crashed"]
<1>1. procs[p] \in ProcessType(Len(objects))
  BY TypeParts, ProcessTyped DEF AnswerInv
<1>2. /\ q \in ProcessType(Len(objects)) /\ q.object = procs[p].object
      /\ q.in = procs[p].in /\ q.out = procs[p].out
  BY <1>1 DEF ProcessType
<1>3. procs' = [procs EXCEPT ![p] = q]
  BY DEF Crashes
<1> HIDE DEF q
<1> QED BY <1>2, <1>3, PipeOnly DEF PipeStep, OneProcess, Crashes, callVars

LEMMA ReadingTyped ==
    ASSUME AnswerInv, NEW p \in 1 .. Len(procs)
    PROVE  LET q == [procs[p] EXCEPT !.reading = FALSE]
           IN  /\ q \in ProcessType(Len(objects)) /\ q.object = procs[p].object
               /\ q.in = procs[p].in /\ q.out = procs[p].out
<1>1. procs[p] \in ProcessType(Len(objects))
  BY TypeParts, ProcessTyped DEF AnswerInv
<1> QED BY <1>1 DEF ProcessType

LEMMA ReaderDiesStep ==
    ASSUME AnswerInv, NEW p \in 1 .. Len(procs), ReaderDies(p)
    PROVE  AnswerInv'
<1> DEFINE q == [procs[p] EXCEPT !.reading = FALSE]
<1>1. /\ q \in ProcessType(Len(objects)) /\ q.object = procs[p].object
      /\ q.in = procs[p].in /\ q.out = procs[p].out
  BY ReadingTyped
<1>2. procs' = [procs EXCEPT ![p] = q]
  BY DEF ReaderDies
<1> HIDE DEF q
<1> QED BY <1>1, <1>2, PipeOnly DEF PipeStep, OneProcess, ReaderDies, callVars

\* A waiter gets at most one message, and one that it may take.
LEMMA PutStep ==
    ASSUME AnswerInv, SameRequests, NEW S,
           NEW m \in Messages \cup {Stopped},
           waiter' = [c \in Calls |-> IF c \in S THEN Put(c, m) ELSE waiter[c]],
           \A c \in Calls \cap S : Registered(c) /\ m \in {Message(c), Stopped}
    PROVE  WaiterInv' /\ Waiters'
<1>1. WaiterInv /\ Waiters
  BY TypeParts DEF AnswerInv
<1>2. ASSUME NEW c \in Calls
      PROVE  /\ waiter'[c] \in SUBSET (Messages \cup {Stopped})
             /\ Cardinality(waiter'[c]) <= 1
             /\ ~Registered(c)' => waiter'[c] = {}
             /\ waiter'[c] \subseteq {Message(c)', Stopped}
  <2>1. waiter'[c] = waiter[c] \/ (c \in S /\ waiter'[c] = {m})
    BY DEF Put
  <2>2. Registered(c) => Message(c)' = Message(c)
    BY DEF SameRequests, Message
  <2>3. CASE waiter'[c] = waiter[c]
    BY <1>1, <2>2, <2>3 DEF WaiterInv, Waiters, SameRequests
  <2>4. CASE c \in S /\ waiter'[c] = {m}
    BY <2>2, <2>4, FS_Singleton DEF SameRequests
  <2> QED BY <2>1, <2>3, <2>4
<1>3. waiter' \in [Calls -> SUBSET (Messages \cup {Stopped})]
  BY <1>2
<1> QED BY <1>2, <1>3 DEF WaiterInv, Waiters

\* _fail_pending puts Stopped only where somebody waits.
LEMMA ReaderEndsStep ==
    ASSUME AnswerInv, NEW p \in 1 .. Len(procs), ReaderEnds(p)
    PROVE  AnswerInv'
<1> DEFINE q == [procs[p] EXCEPT !.reading = FALSE]
           k == procs[p].object
           S == {c \in Calls : <<id[c], c>> \in objects[k].pending}
<1>1. /\ q \in ProcessType(Len(objects)) /\ q.object = procs[p].object
      /\ q.in = procs[p].in /\ q.out = procs[p].out
  BY ReadingTyped
<1>2. procs' = [procs EXCEPT ![p] = q]
  BY DEF ReaderEnds
<1>3. k \in 1 .. Len(objects)
  BY <1>1 DEF ProcessType
<1> HIDE DEF q
<1>4. PipeStep(p, q)
  BY <1>1, <1>2 DEF PipeStep, OneProcess, ReaderEnds
<1>5. \A c \in Calls \cap S : Registered(c)
  BY <1>3, TypeParts DEF AnswerInv, Pending, Exchanges
<1>6. waiter' = [c \in Calls |-> IF c \in S THEN Put(c, Stopped) ELSE waiter[c]]
  BY DEF ReaderEnds
<1>7. WaiterInv' /\ Waiters'
  BY <1>4, <1>5, <1>6, PipeFrame, PutStep
<1> QED BY <1>4, <1>7, PipeFrame, TypePartsNext DEF AnswerInv

\* What a reader delivers is the answer to the request that waits.
LEMMA DeliverStep ==
    ASSUME AnswerInv, NEW p \in 1 .. Len(procs), NEW m \in procs[p].out, Deliver(p, m)
    PROVE  AnswerInv'
<1> DEFINE q == [procs[p] EXCEPT !.out = @ \ {m}]
           k == procs[p].object
           S == Waiting(k, m.id)
<1>1. procs[p] \in ProcessType(Len(objects))
  BY TypeParts, ProcessTyped DEF AnswerInv
<1>2. /\ q \in ProcessType(Len(objects)) /\ q.object = procs[p].object
      /\ q.in \cup q.out \subseteq procs[p].in \cup procs[p].out
      /\ k \in 1 .. Len(objects) /\ m \in Messages
  BY <1>1 DEF ProcessType
<1>3. procs' = [procs EXCEPT ![p] = q]
  BY DEF Deliver
<1> HIDE DEF q
<1>4. PipeStep(p, q)
  BY <1>2, <1>3 DEF PipeStep, OneProcess, Deliver
<1>5. \A c \in Calls \cap S : Registered(c) /\ child[c] = k /\ id[c] = m.id
  BY <1>2, TypeParts DEF AnswerInv, Pending, Exchanges, Waiting
<1>6. \A c \in Calls \cap S : Registered(c) /\ m \in {Message(c), Stopped}
  BY <1>5 DEF AnswerInv, MessageInv
<1>7. waiter' = [c \in Calls |-> IF c \in S THEN Put(c, m) ELSE waiter[c]]
  BY DEF Deliver
<1>8. WaiterInv' /\ Waiters'
  BY <1>2, <1>4, <1>6, <1>7, PipeFrame, PutStep
<1> QED BY <1>4, <1>8, PipeFrame, TypePartsNext DEF AnswerInv

\* A request that is sent carries its own id.
LEMMA SendStep ==
    ASSUME AnswerInv, NEW c \in Calls, Send(c)
    PROVE  AnswerInv'
<1> DEFINE k == child[c]
           p == objects[k].process
           q == [procs[p] EXCEPT !.in = @ \cup {Message(c)}]
<1>1. Seqs /\ Refs /\ Locals /\ LinkInv /\ ChildInv /\ IdInv /\ MessageInv
      /\ Len(objects) \in Nat /\ Len(procs) \in Nat
  BY TypeParts, LenProperties DEF AnswerInv, Seqs
<1>2. /\ pc[c] = "send" /\ pc' = [pc EXCEPT ![c] = "wait"]
      /\ procs' = [procs EXCEPT ![p] = q]
      /\ sent' = IF method[c] = "tools/call" THEN sent \cup {<<c, k, id[c]>>} ELSE sent
      /\ UNCHANGED <<configVars, objects, exited, localVars, callVars>>
  BY DEF Send, Goes
<1>3. Registered(c) /\ k \in 1 .. Len(objects) /\ id[c] \in Nat /\ method[c] \in Methods
  BY <1>2, RegisteredChild DEF Registered
<1>4. p \in 1 .. Len(procs) /\ procs[p].object = k
  <2>1. p # 0
    BY DEF Send, Alive
  <2> QED BY <1>1, <1>3, <2>1, ObjectTyped DEF ObjectType, LinkInv
<1>5. procs[p] \in ProcessType(Len(objects))
  BY <1>1, <1>4, ProcessTyped
<1>6. Message(c) \in Messages /\ Message(c).id = id[c]
  BY <1>3 DEF Message, Messages
<1>7. /\ q \in ProcessType(Len(objects)) /\ q.object = k
      /\ q.in \cup q.out = procs[p].in \cup procs[p].out \cup {Message(c)}
  BY <1>4, <1>5, <1>6 DEF ProcessType
<1> HIDE DEF q
<1>8. SameRequests
  <2> SUFFICES ASSUME NEW d \in Calls
               PROVE  /\ Registered(d)' <=> Registered(d)
                      /\ Registered(d) => /\ child'[d] = child[d]
                                          /\ id'[d] = id[d]
                                          /\ method'[d] = method[d]
    BY DEF SameRequests
  <2> QED BY <1>1, <1>2 DEF Registered, Locals, localVars, callVars
<1>9. /\ procs' \in Seq(ProcessType(Len(objects))) /\ Len(procs') = Len(procs)
      /\ \A j \in 1 .. Len(procs) : procs'[j] = IF j = p THEN q ELSE procs[j]
  <2>1. OneProcess(p, q)
    BY <1>2, <1>4, <1>7 DEF OneProcess
  <2> QED BY <1>1, <2>1, OneProcessStep
<1>10. Seqs' /\ SameTables
  BY <1>1, <1>2, <1>9 DEF Seqs, SameTables
<1>11. ChildInv' /\ Refs'
  BY <1>1, <1>2, <1>3 DEF ChildInv, Refs, Locals, configVars, localVars
<1>12. Locals'
  BY <1>1, <1>2 DEF Locals, Steps, configVars, localVars, callVars
<1>13. LinkInv'
  <2> SUFFICES ASSUME NEW j \in 1 .. Len(objects), objects[j].process # 0
               PROVE  procs'[objects[j].process].object = j
    BY <1>2 DEF LinkInv
  <2>1. objects[j].process \in 1 .. Len(procs)
    BY <1>1, ObjectTyped DEF ObjectType
  <2> QED BY <1>1, <1>4, <1>7, <1>9, <2>1 DEF LinkInv
<1>14. MessageInv'
  <2> SUFFICES ASSUME NEW j \in 1 .. Len(procs), NEW m \in procs'[j].in \cup procs'[j].out
               PROVE  /\ m.id <= objects[procs'[j].object].nextId
                      /\ \A d \in Calls :
                            Registered(d)' /\ child'[d] = procs'[j].object /\ id'[d] = m.id
                            => m = Message(d)'
    BY <1>2, <1>9 DEF MessageInv
  <2>1. procs'[j].object = procs[j].object
    BY <1>4, <1>7, <1>9
  <2>2. ASSUME NEW d \in Calls, Registered(d)'
        PROVE  Registered(d) /\ child'[d] = child[d] /\ id'[d] = id[d] /\ Message(d)' = Message(d)
    BY <1>8, <2>2 DEF SameRequests, Message
  <2>3. CASE m \in procs[j].in \cup procs[j].out
    BY <1>1, <2>1, <2>2, <2>3 DEF MessageInv
  <2>4. CASE j = p /\ m = Message(c)
    <3>1. m.id <= objects[procs'[j].object].nextId
      BY <1>1, <1>3, <1>4, <1>6, <2>1, <2>4 DEF IdInv
    <3>2. ASSUME NEW d \in Calls, Registered(d)', child'[d] = procs'[j].object, id'[d] = m.id
          PROVE  d = c
      BY <1>1, <1>3, <1>4, <1>6, <2>1, <2>2, <2>4, <3>2 DEF IdInv
    <3> QED BY <2>2, <2>4, <3>1, <3>2
  <2> QED BY <1>7, <1>9, <2>3, <2>4
<1>15. WaiterInv' /\ Waiters'
  BY <1>2, <1>8, FrameWaiters DEF callVars
<1> QED
  BY <1>8, <1>10, <1>11, <1>12, <1>13, <1>14, <1>15, FramePending, FrameIds, TypePartsNext
  DEF AnswerInv

-----------------------------------------------------------------------------
(* The exchanges                                                           *)

\* The requests of the other calls stay as they are.
OthersKeep(c) ==
    \A d \in Calls \ {c} :
        /\ pc'[d] = pc[d] /\ child'[d] = child[d] /\ id'[d] = id[d]
        /\ method'[d] = method[d] /\ waiter'[d] = waiter[d]

\* A new id is above all that is in the pipes of the object.
LEMMA RegisterStep ==
    ASSUME AnswerInv, NEW c \in Calls, Register(c)
    PROVE  AnswerInv'
<1> DEFINE k == child[c]
           n == NextId(k)
           o == [objects[k] EXCEPT !.nextId = n, !.pending = @ \cup {<<n, c>>}]
<1>1. Seqs /\ Refs /\ Locals /\ LinkInv /\ ChildInv /\ IdInv /\ MessageInv /\ WaiterInv
      /\ Waiters /\ Pending /\ Len(objects) \in Nat /\ Len(procs) \in Nat
  BY TypeParts, LenProperties DEF AnswerInv, Seqs
<1>2. /\ pc[c] = "register" /\ pc' = [pc EXCEPT ![c] = "send"]
      /\ objects' = [objects EXCEPT ![k].nextId = n, ![k].pending = @ \cup {<<n, c>>}]
      /\ id' = [id EXCEPT ![c] = n]
      /\ UNCHANGED <<configVars, procs, exited, localVars, method, waiter, sent>>
  BY DEF Register, Goes
<1>3. k \in 1 .. Len(objects)
  BY <1>1, <1>2 DEF ChildInv, Refs
<1>4. objects[k] \in ObjectType(Len(procs)) /\ objects[k].nextId \in Nat
      /\ n = objects[k].nextId + 1 /\ n \in Nat
  BY <1>1, <1>3, ObjectTyped DEF ObjectType, NextId
<1>5. objects' = [objects EXCEPT ![k] = o]
  <2>1. objects \in [1 .. Len(objects) -> ObjectType(Len(procs))]
    BY <1>1, LenProperties DEF Seqs
  <2> QED BY <1>2, <1>3, <1>4, <2>1 DEF ObjectType
<1>6. /\ o \in ObjectType(Len(procs)) /\ o.nextId = n
      /\ o.pending = objects[k].pending \cup {<<n, c>>} /\ o.process = objects[k].process
  <2> DEFINE e == [objects[k] EXCEPT !.nextId = n]
  <2>1. /\ e \in ObjectType(Len(procs)) /\ e.nextId = n /\ e.process = objects[k].process
        /\ e.pending = objects[k].pending
    BY <1>4 DEF ObjectType
  <2>2. o = [e EXCEPT !.pending = @ \cup {<<n, c>>}]
    BY <1>4 DEF ObjectType
  <2> HIDE DEF e
  <2> QED BY <1>4, <2>1, <2>2 DEF ObjectType
<1> HIDE DEF o, n
<1>7. /\ objects' \in Seq(ObjectType(Len(procs))) /\ Len(objects') = Len(objects)
      /\ \A j \in 1 .. Len(objects) : objects'[j] = IF j = k THEN o ELSE objects[j]
  <2>1. OneObject(k, o)
    BY <1>3, <1>5, <1>6 DEF OneObject
  <2> QED BY <1>1, <2>1, OneObjectStep
<1>8. /\ OthersKeep(c)
      /\ ~Registered(c) /\ Registered(c)' /\ id'[c] = n /\ child'[c] = k
  BY <1>1, <1>2 DEF OthersKeep, Registered, Locals, configVars, localVars
<1>9. \A d \in Calls \ {c} : Registered(d)' <=> Registered(d)
  BY <1>8 DEF OthersKeep, Registered
<1>10. Seqs' /\ LinkInv'
  BY <1>1, <1>2, <1>6, <1>7 DEF Seqs, LinkInv
<1>11. ChildInv' /\ Refs'
  BY <1>1, <1>2, <1>3, <1>7 DEF ChildInv, Refs, Locals, configVars, localVars
<1>12. Locals'
  BY <1>1, <1>2, <1>4 DEF Locals, Steps, configVars, localVars
<1>13. Pending'
  <2> SUFFICES ASSUME NEW j \in 1 .. Len(objects)
               PROVE  objects'[j].pending = Exchanges(j)'
    BY <1>7 DEF Pending
  <2>1. objects[j].pending = Exchanges(j)
    BY <1>1 DEF Pending
  <2>2. CASE j = k
    <3>1. Exchanges(j)' = Exchanges(j) \cup {<<n, c>>}
      BY <1>8, <1>9, <2>2 DEF Exchanges, OthersKeep
    <3> QED BY <1>6, <1>7, <2>1, <2>2, <3>1
  <2>3. CASE j # k
    <3>1. Exchanges(j)' = Exchanges(j)
      BY <1>8, <1>9, <2>3 DEF Exchanges, OthersKeep
    <3> QED BY <1>7, <2>1, <2>3, <3>1
  <2> QED BY <2>2, <2>3
<1>14. \A j \in 1 .. Len(objects) : objects[j].nextId \in Nat /\ objects'[j].nextId \in Nat
                                   /\ objects[j].nextId <= objects'[j].nextId
                                   /\ (j = k => objects[j].nextId < n)
  <2> SUFFICES ASSUME NEW j \in 1 .. Len(objects)
               PROVE  /\ objects[j].nextId \in Nat /\ objects'[j].nextId \in Nat
                      /\ objects[j].nextId <= objects'[j].nextId
                      /\ (j = k => objects[j].nextId < n)
    OBVIOUS
  <2>1. objects[j].nextId \in Nat
    BY <1>1, ObjectTyped DEF ObjectType
  <2>2. CASE j = k
    <3>1. objects'[j].nextId = n
      BY <1>6, <1>7, <2>2
    <3> QED BY <1>4, <2>1, <2>2, <3>1
  <2>3. CASE j # k
    BY <1>7, <2>1, <2>3
  <2> QED BY <2>2, <2>3
<1>15. \A d \in Calls \ {c} : Registered(d)' =>
          /\ Registered(d) /\ child'[d] = child[d] /\ id'[d] = id[d] /\ id[d] \in Nat
          /\ child[d] \in 1 .. Len(objects) /\ id[d] <= objects[child[d]].nextId
  BY <1>1, <1>8, <1>9, RegisteredChild DEF OthersKeep, IdInv
<1>16. IdInv'
  <2>1. ASSUME NEW d \in Calls, Registered(d)' PROVE id'[d] <= objects'[child'[d]].nextId
    <3>1. CASE d = c
      BY <1>3, <1>4, <1>6, <1>7, <1>8, <3>1
    <3>2. CASE d # c
      <4> DEFINE a == id[d]
                 x == objects[child[d]].nextId
                 y == objects'[child[d]].nextId
      <4>1. a \in Nat /\ a <= x /\ x \in Nat /\ x <= y /\ id'[d] = a /\ child'[d] = child[d]
        BY <1>14, <1>15, <2>1, <3>2
      <4>2. y \in Nat
        BY <1>4, <1>6, <1>7, <1>14, <1>15, <2>1, <3>2
      <4> QED BY <4>1, <4>2
    <3> QED BY <3>1, <3>2
  <2>2. ASSUME NEW d \in Calls, NEW e \in Calls, Registered(d)', Registered(e)',
               child'[d] = child'[e], id'[d] = id'[e]
        PROVE  d = e
    <3>1. ASSUME NEW f \in Calls \ {c}, Registered(f)', child'[f] = k PROVE id'[f] # n
      BY <1>4, <1>14, <1>15, <3>1
    <3>2. CASE d # c /\ e # c
      BY <1>1, <1>15, <2>2, <3>2 DEF IdInv
    <3>3. CASE d = c \/ e = c
      BY <1>8, <2>2, <3>1, <3>3
    <3> QED BY <3>2, <3>3
  <2> QED BY <2>1, <2>2 DEF IdInv
<1>19. procs' = procs
  BY <1>2
<1>17. MessageInv'
  <2> SUFFICES ASSUME NEW p \in 1 .. Len(procs), NEW m \in procs[p].in \cup procs[p].out
               PROVE  /\ m.id <= objects'[procs[p].object].nextId
                      /\ \A d \in Calls :
                            Registered(d)' /\ child'[d] = procs[p].object /\ id'[d] = m.id
                            => m = Message(d)'
    BY <1>19 DEF MessageInv
  <2> DEFINE j == procs[p].object
  <2>1. j \in 1 .. Len(objects) /\ m.id \in Nat /\ m.id <= objects[j].nextId
    <3>1. procs[p] \in ProcessType(Len(objects))
      BY <1>1, ProcessTyped
    <3>2. j \in 1 .. Len(objects) /\ m \in Messages
      BY <3>1 DEF ProcessType
    <3> QED BY <1>1, <3>2 DEF Messages, MessageInv
  <2>2. m.id <= objects'[j].nextId
    BY <1>14, <2>1
  <2>3. ASSUME NEW d \in Calls, Registered(d)', child'[d] = j, id'[d] = m.id
        PROVE  m = Message(d)'
    <3>1. d # c
      BY <1>4, <1>8, <1>14, <2>1, <2>3
    <3>2. Message(d)' = Message(d)
      BY <1>8, <3>1 DEF OthersKeep, Message
    <3> QED BY <1>1, <1>15, <2>3, <3>1, <3>2 DEF MessageInv
  <2> QED BY <2>2, <2>3
<1>18. WaiterInv' /\ Waiters'
  <2>1. ASSUME NEW d \in Calls
        PROVE  /\ ~Registered(d)' => waiter'[d] = {}
               /\ waiter'[d] \subseteq {Message(d)', Stopped}
    <3>1. CASE d = c
      BY <1>1, <1>2, <1>8, <3>1 DEF WaiterInv
    <3>2. CASE d # c
      BY <1>1, <1>8, <1>9, <3>2 DEF WaiterInv, OthersKeep, Message
    <3> QED BY <3>1, <3>2
  <2>2. Waiters'
    BY <1>1, <1>2 DEF Waiters
  <2> QED BY <2>1, <2>2 DEF WaiterInv
<1> QED
  BY <1>10, <1>11, <1>12, <1>13, <1>16, <1>17, <1>18, TypePartsNext DEF AnswerInv

\* The finally clause of call, whatever the step has found.
Unregisters(c, o) ==
    LET k == child[c] IN
        /\ Registered(c)
        /\ objects' = [objects EXCEPT ![k] = o]
        /\ o \in ObjectType(Len(procs))
        /\ o.pending = objects[k].pending \ {<<id[c], c>>}
        /\ o.nextId = objects[k].nextId /\ o.process = objects[k].process
        /\ o.descriptor = objects[k].descriptor
        /\ CallEnds(c)
        /\ UNCHANGED <<procs, child, sent, active>>
        /\ \E to \in {"abort", "raised", "tools", "listed", "stat"} : Goes(c, pc[c], to)

\* A request that ends leaves nothing of itself but its late answer.
LEMMA UnregistersStep ==
    ASSUME AnswerInv, NEW c \in Calls, NEW o, Unregisters(c, o), Locals'
    PROVE  AnswerInv'
<1> DEFINE k == child[c]
<1>1. Seqs /\ Refs /\ Locals /\ LinkInv /\ ChildInv /\ IdInv /\ MessageInv /\ WaiterInv
      /\ Waiters /\ Pending /\ Len(objects) \in Nat /\ Len(procs) \in Nat
  BY TypeParts, LenProperties DEF AnswerInv, Seqs
<1>2. PICK to \in {"abort", "raised", "tools", "listed", "stat"} :
          pc' = [pc EXCEPT ![c] = to]
  BY DEF Unregisters, Goes
<1>3. k \in 1 .. Len(objects) /\ Registered(c)
  BY RegisteredChild DEF Unregisters
<1>4. /\ objects' \in Seq(ObjectType(Len(procs))) /\ Len(objects') = Len(objects)
      /\ \A j \in 1 .. Len(objects) : objects'[j] = IF j = k THEN o ELSE objects[j]
  <2>1. OneObject(k, o)
    BY <1>3 DEF OneObject, Unregisters
  <2> QED BY <1>1, <2>1, OneObjectStep
<1>5. OthersKeep(c) /\ ~Registered(c)' /\ waiter'[c] = {} /\ child' = child /\ procs' = procs
  BY <1>1, <1>2 DEF OthersKeep, Unregisters, CallEnds, Registered, Locals, Waiters
<1>6. \A d \in Calls : Registered(d)' <=> Registered(d) /\ d # c
  BY <1>5 DEF OthersKeep, Registered
<1>7. \A j \in 1 .. Len(objects) : /\ objects'[j].nextId = objects[j].nextId
                                  /\ objects'[j].process = objects[j].process
  BY <1>4 DEF Unregisters
<1>8. Seqs' /\ LinkInv'
  BY <1>1, <1>4, <1>5, <1>7 DEF Seqs, LinkInv
<1>9. ChildInv'
  <2> SUFFICES ASSUME NEW d \in Calls,
                      pc'[d] \in {"start", "spawn", "tools", "listed", "register", "send", "wait",
                                "abort"}
               PROVE  child[d] # 0
    BY <1>5 DEF ChildInv
  <2>1. CASE d = c
    BY <1>3, <2>1
  <2>2. CASE d # c
    BY <1>1, <1>5, <2>2 DEF OthersKeep, ChildInv
  <2> QED BY <2>1, <2>2
<1>10. Refs'
  BY <1>1, <1>4 DEF Refs, Unregisters
<1>11. Pending'
  <2> SUFFICES ASSUME NEW j \in 1 .. Len(objects)
               PROVE  objects'[j].pending = Exchanges(j)'
    BY <1>4 DEF Pending
  <2>1. objects[j].pending = Exchanges(j)
    BY <1>1 DEF Pending
  <2>2. CASE j = k
    <3>1. Exchanges(j)' = Exchanges(j) \ {<<id[c], c>>}
      BY <1>5, <1>6 DEF Exchanges, OthersKeep
    <3> QED BY <1>4, <2>1, <2>2, <3>1 DEF Unregisters
  <2>3. CASE j # k
    <3>1. Exchanges(j)' = Exchanges(j)
      BY <1>5, <1>6, <2>3 DEF Exchanges, OthersKeep
    <3> QED BY <1>4, <2>1, <2>3, <3>1
  <2> QED BY <2>2, <2>3
<1>12. \A d \in Calls : Registered(d)' =>
          /\ Registered(d) /\ child'[d] = child[d] /\ id'[d] = id[d] /\ Message(d)' = Message(d)
          /\ waiter'[d] = waiter[d] /\ child[d] \in 1 .. Len(objects)
  BY <1>5, <1>6, RegisteredChild DEF OthersKeep, Message
<1>13. IdInv'
  <2>1. ASSUME NEW d \in Calls, Registered(d)' PROVE id'[d] <= objects'[child'[d]].nextId
    BY <1>1, <1>7, <1>12, <2>1 DEF IdInv
  <2>2. ASSUME NEW d \in Calls, NEW e \in Calls, Registered(d)', Registered(e)',
               child'[d] = child'[e], id'[d] = id'[e]
        PROVE  d = e
    BY <1>1, <1>12, <2>2 DEF IdInv
  <2> QED BY <2>1, <2>2 DEF IdInv
<1>14. MessageInv'
  <2> SUFFICES ASSUME NEW p \in 1 .. Len(procs), NEW m \in procs[p].in \cup procs[p].out
               PROVE  /\ m.id <= objects'[procs[p].object].nextId
                      /\ \A d \in Calls :
                            Registered(d)' /\ child'[d] = procs[p].object /\ id'[d] = m.id
                            => m = Message(d)'
    BY <1>5 DEF MessageInv
  <2>1. procs[p].object \in 1 .. Len(objects)
    BY <1>1, ProcessTyped DEF ProcessType
  <2>2. m.id <= objects'[procs[p].object].nextId
    BY <1>1, <1>7, <2>1 DEF MessageInv
  <2>3. ASSUME NEW d \in Calls, Registered(d)', child'[d] = procs[p].object, id'[d] = m.id
        PROVE  m = Message(d)'
    BY <1>1, <1>12, <2>3 DEF MessageInv
  <2> QED BY <2>2, <2>3
<1>15. WaiterInv'
  <2>1. ASSUME NEW d \in Calls
        PROVE  /\ ~Registered(d)' => waiter'[d] = {}
               /\ waiter'[d] \subseteq {Message(d)', Stopped}
    <3>1. CASE d = c
      BY <1>5, <3>1
    <3>2. CASE d # c /\ Registered(d)
      BY <1>1, <1>6, <1>12, <3>2 DEF WaiterInv
    <3>3. CASE d # c /\ ~Registered(d)
      BY <1>1, <1>5, <3>3 DEF WaiterInv, OthersKeep
    <3> QED BY <3>1, <3>2, <3>3
  <2> QED BY <2>1 DEF WaiterInv
<1>16. Waiters'
  <2>1. waiter' = [waiter EXCEPT ![c] = {}]
    BY DEF Unregisters, CallEnds
  <2> QED BY <1>1, <2>1, FS_EmptySet DEF Waiters
<1> QED
  BY <1>8, <1>9, <1>10, <1>11, <1>13, <1>14, <1>15, <1>16, TypePartsNext DEF AnswerInv

\* What becomes of the object of c.
unregistered(c) == [objects[child[c]] EXCEPT !.pending = @ \ {<<id[c], c>>}]

LEMMA UnregisteredTyped ==
    ASSUME AnswerInv, NEW c \in Calls, Registered(c)
    PROVE  LET k == child[c] IN
           /\ unregistered(c) \in ObjectType(Len(procs))
           /\ unregistered(c).pending = objects[k].pending \ {<<id[c], c>>}
           /\ unregistered(c).nextId = objects[k].nextId
           /\ unregistered(c).process = objects[k].process
           /\ unregistered(c).descriptor = objects[k].descriptor
           /\ Unregistered(c) = [objects EXCEPT ![k] = unregistered(c)]
<1>1. Seqs
  BY TypeParts DEF AnswerInv
<1>2. child[c] \in 1 .. Len(objects)
  BY RegisteredChild
<1>3. objects[child[c]] \in ObjectType(Len(procs))
  BY <1>1, <1>2, ObjectTyped
<1> QED BY <1>3 DEF ObjectType, unregistered, Unregistered

LEMMA CallFailsStep ==
    ASSUME AnswerInv, NEW c \in Calls, NEW step \in {"send", "wait"}, CallFails(c, step)
    PROVE  AnswerInv'
<1>1. Locals /\ Waiters
  BY TypeParts DEF AnswerInv
<1>2. PICK to \in {"abort", "raised"} : Goes(c, step, to)
  BY DEF CallFails
<1>3. Registered(c)
  BY <1>2 DEF Goes, Registered
<1>4. Unregisters(c, unregistered(c))
  BY <1>2, <1>3, UnregisteredTyped DEF Unregisters, CallFails, Goes, configVars, localVars
<1>5. method' \in [Calls -> Methods] /\ id' \in [Calls -> Nat]
  BY <1>1 DEF CallFails, CallEnds, Locals, Methods
<1>6. pc' \in [Calls -> {"idle", "returned", "raised"} \cup Steps]
  BY <1>1, <1>2 DEF Goes, Locals, Steps
<1>7. Locals'
  BY <1>1, <1>5, <1>6 DEF CallFails, Locals, configVars, localVars
<1> QED BY <1>4, <1>7, UnregistersStep

LEMMA ReceiveStep ==
    ASSUME AnswerInv, NEW c \in Calls, Receive(c)
    PROVE  AnswerInv'
<1> DEFINE k == child[c]
           b == objects[k].cached \/ method[c] = "tools/list"
           o == [unregistered(c) EXCEPT !.cached = b]
<1>1. Seqs /\ Locals /\ Waiters
  BY TypeParts DEF AnswerInv
<1>2. PICK to \in {"tools", "abort", "listed", "stat"} : Goes(c, "wait", to)
  BY DEF Receive
<1>3. Registered(c) /\ k \in 1 .. Len(objects)
  BY <1>2, RegisteredChild DEF Goes, Registered
<1>8. /\ unregistered(c) \in ObjectType(Len(procs))
      /\ unregistered(c).pending = objects[k].pending \ {<<id[c], c>>}
      /\ unregistered(c).nextId = objects[k].nextId
      /\ unregistered(c).process = objects[k].process
      /\ unregistered(c).descriptor = objects[k].descriptor
      /\ Unregistered(c) = [objects EXCEPT ![k] = unregistered(c)]
  BY <1>3, UnregisteredTyped
<1>9. unregistered(c).cached = objects[k].cached /\ objects[k].cached \in BOOLEAN
  BY <1>1, <1>3, ObjectTyped DEF unregistered, ObjectType
<1>10. objects' = [objects EXCEPT ![k] = o]
  <2>1. objects' = [Unregistered(c) EXCEPT ![k].cached = @ \/ method[c] = "tools/list"]
    BY DEF Receive
  <2>2. k \in DOMAIN objects
    BY <1>1, <1>3, LenProperties DEF Seqs
  <2> QED BY <1>8, <1>9, <2>1, <2>2
<1>11. /\ o \in ObjectType(Len(procs))
       /\ o.pending = unregistered(c).pending /\ o.nextId = unregistered(c).nextId
       /\ o.process = unregistered(c).process /\ o.descriptor = unregistered(c).descriptor
  BY <1>8, <1>9 DEF ObjectType
<1> HIDE DEF o
<1>4. Unregisters(c, o)
  BY <1>2, <1>3, <1>8, <1>10, <1>11 DEF Unregisters, Receive, Goes, configVars
<1>5. method' \in [Calls -> Methods] /\ id' \in [Calls -> Nat]
  BY <1>1 DEF Receive, CallEnds, Locals, Methods
<1>6. pc' \in [Calls -> {"idle", "returned", "raised"} \cup Steps]
  BY <1>1, <1>2 DEF Goes, Locals, Steps
<1>12. stage' \in [Calls -> 0 .. 4]
  BY <1>1 DEF Receive, Locals
<1>7. Locals'
  BY <1>1, <1>5, <1>6, <1>12 DEF Receive, Locals, configVars
<1> QED BY <1>4, <1>7, UnregistersStep

-----------------------------------------------------------------------------
(* Reloads                                                                 *)

\* Steps that have nothing to do with a reload.
SameReloads ==
    /\ UNCHANGED <<file, loaded, active, exited, seen, parsed>>
    /\ \A c \in Calls : pc'[c] # pc[c] =>
          pc[c] \notin {"load", "swap"} /\ pc'[c] \notin {"load", "swap"}
    /\ active # 0 => objects'[active].descriptor = objects[active].descriptor

\* Steps that have nothing to do with a reload keep ConfigInv.
LEMMA ReloadFrame ==
    ASSUME ConfigInv, SameReloads
    PROVE  ConfigInv'
<1>1. Mtime' = Mtime
  BY DEF SameReloads, Mtime
<1>2. ActiveMatchesConfig'
  BY <1>1 DEF SameReloads, ConfigInv, ActiveMatchesConfig
<1>3. ASSUME NEW c \in Calls
      PROVE  /\ pc'[c] = "load" <=> pc[c] = "load"
             /\ pc'[c] = "swap" <=> pc[c] = "swap"
  BY DEF SameReloads
<1> QED BY <1>1, <1>2, <1>3 DEF SameReloads, ConfigInv

\* They are the steps of a call on its own state, ...
LEMMA ReloadLocal ==
    ASSUME AnswerInv, ConfigInv, NEW c \in Calls,
           \/ \E from, o : Enters(c, from, o)
           \/ LookupFails(c) \/ LookupChild(c) \/ LookupAccess(c) \/ LookupVersion(c)
           \/ StartChecks(c) \/ SpawnFails(c)
           \/ ToolsCached(c) \/ ListTools(c) \/ UseTools(c) \/ Send(c)
    PROVE  ConfigInv'
<1>1. Locals
  BY TypeParts DEF AnswerInv
<1>2. UNCHANGED <<file, loaded, active, exited, seen, parsed, objects>>
  BY DEF Enters, LookupFails, LookupChild, LookupAccess, LookupVersion, StartChecks, SpawnFails,
         ToolsCached, ListTools, UseTools, Send, configVars, localVars, callVars
<1>3. PICK from \in Unlisted \ {"load", "swap"}, to \in Unlisted \ {"load", "swap"} :
          Goes(c, from, to)
  <2>1. CASE \E from, o : Enters(c, from, o)
    BY <2>1 DEF Enters, Unlisted, Steps
  <2>2. CASE LookupFails(c)
    BY <2>2 DEF LookupFails, Unlisted, Steps
  <2>3. CASE LookupChild(c)
    BY <2>3 DEF LookupChild, Unlisted, Steps
  <2>4. CASE LookupAccess(c)
    BY <2>4 DEF LookupAccess, Unlisted, Steps
  <2>5. CASE LookupVersion(c)
    BY <2>5 DEF LookupVersion, Unlisted, Steps
  <2>6. CASE StartChecks(c)
    BY <2>6 DEF StartChecks, Unlisted, Steps
  <2>7. CASE SpawnFails(c)
    BY <2>7 DEF SpawnFails, Unlisted, Steps
  <2>8. CASE ToolsCached(c)
    BY <2>8 DEF ToolsCached, Unlisted, Steps
  <2>9. CASE ListTools(c)
    BY <2>9 DEF ListTools, Unlisted, Steps
  <2>10. CASE UseTools(c)
    BY <2>10 DEF UseTools, Unlisted, Steps
  <2>11. CASE Send(c)
    BY <2>11 DEF Send, Unlisted, Steps
  <2> QED
    BY <2>1, <2>2, <2>3, <2>4, <2>5, <2>6, <2>7, <2>8, <2>9, <2>10, <2>11
<1>4. SameReloads
  BY <1>1, <1>2, <1>3 DEF SameReloads, Goes, Locals
<1> QED BY <1>4, ReloadFrame

\* ... and those that change an object without its descriptor.
LEMMA ReloadObjects ==
    ASSUME AnswerInv, ConfigInv,
           \/ \E c \in Calls : \/ Spawn(c) \/ Register(c) \/ Receive(c) \/ Abort(c)
                              \/ CallFails(c, "send") \/ CallFails(c, "wait")
           \/ \E k \in 1 .. Len(objects) : DrainStep(k)
           \/ \E p \in 1 .. Len(procs) : ProcessStep(p) \/ ReaderStep(p)
    PROVE  ConfigInv'
<1>1. Seqs /\ Refs /\ Locals /\ Len(objects) \in Nat
  BY TypeParts, LenProperties DEF AnswerInv, Seqs
<1>2. objects \in [1 .. Len(objects) -> ObjectType(Len(procs))]
      /\ (active # 0 => active \in 1 .. Len(objects))
  BY <1>1, LenProperties DEF Seqs, Refs
<1>3. ASSUME NEW c \in Calls, Spawn(c) PROVE SameReloads
  BY <1>1, <1>2, <1>3 DEF SameReloads, Spawn, Goes, Locals, ObjectType, configVars, localVars
<1>4. ASSUME NEW c \in Calls, Register(c) PROVE SameReloads
  BY <1>1, <1>2, <1>4 DEF SameReloads, Register, Goes, Locals, ObjectType, configVars, localVars
<1>5. ASSUME NEW c \in Calls, Receive(c) PROVE SameReloads
  BY <1>1, <1>2, <1>5 DEF SameReloads, Receive, Goes, Locals, ObjectType, Unregistered, configVars
<1>6. ASSUME NEW c \in Calls, Abort(c) PROVE SameReloads
  BY <1>1, <1>2, <1>6 DEF SameReloads, Abort, Goes, Locals, ObjectType, ClosedObjects, configVars,
     localVars
<1>7. ASSUME NEW c \in Calls, NEW step \in {"send", "wait"}, CallFails(c, step)
      PROVE  SameReloads
  BY <1>1, <1>2, <1>7 DEF SameReloads, CallFails, Goes, Locals, ObjectType, Unregistered,
     configVars, localVars
<1>8. ASSUME NEW k \in 1 .. Len(objects), DrainStep(k) PROVE SameReloads
  <2>1. UNCHANGED <<file, loaded, active, exited, seen, parsed, pc>>
    BY <1>8 DEF DrainStep, DrainEnds, DrainCloses, configVars, localVars
  <2>2. CASE DrainEnds(k)
    BY <1>2, <2>1, <2>2 DEF DrainEnds, SameReloads, ObjectType
  <2>3. CASE DrainCloses(k)
    <3>1. objects' = [ClosedObjects(k) EXCEPT ![k].drain = "closed"]
      BY <2>3 DEF DrainCloses
    <3>2. ClosedObjects(k) = [objects EXCEPT ![k] = closed(k)]
          /\ closed(k) \in ObjectType(Len(procs)) /\ closed(k).descriptor = objects[k].descriptor
      BY <1>1, ClosedTyped
    <3>3. objects' = [objects EXCEPT ![k] = [closed(k) EXCEPT !.drain = "closed"]]
      BY <1>2, <3>1, <3>2
    <3>4. [closed(k) EXCEPT !.drain = "closed"].descriptor = objects[k].descriptor
      BY <3>2 DEF ObjectType
    <3> QED BY <1>2, <2>1, <3>3, <3>4 DEF SameReloads
  <2> QED BY <1>8, <2>2, <2>3 DEF DrainStep
<1>9. ASSUME NEW p \in 1 .. Len(procs), ProcessStep(p) \/ ReaderStep(p) PROVE SameReloads
  BY <1>9 DEF SameReloads, ProcessStep, ReaderStep, Answers, Crashes, Deliver, ReaderEnds,
     ReaderDies, configVars, localVars
<1> QED BY <1>3, <1>4, <1>5, <1>6, <1>7, <1>8, <1>9, ReloadFrame

\* After exit nothing is said about the generation.
LEMMA ReloadExit ==
    ASSUME ConfigInv, Exit
    PROVE  ConfigInv'
BY DEF ConfigInv, Exit, ActiveMatchesConfig, Mtime, localVars

\* A write gives the file an mtime that nobody has read yet.
LEMMA ReloadConfigChanges ==
    ASSUME AnswerInv, ConfigInv, NEW content \in Contents, ConfigChanges(content)
    PROVE  ConfigInv'
<1>1. Locals
  BY TypeParts DEF AnswerInv
<1>2. /\ file.version \in Nat /\ file'.version = file.version + 1 /\ file'.content = content
      /\ UNCHANGED <<loaded, active, objects, exited, pc, seen, parsed>>
  BY <1>1, BoundsAssumption DEF ConfigChanges, Locals, localVars
<1>3. loaded \in Int /\ \A c \in Calls : seen[c] \in Int
  BY <1>1, BoundsAssumption DEF Locals
<1>4. ActiveMatchesConfig'
  BY <1>2, <1>3 DEF ConfigInv, ActiveMatchesConfig, Mtime
<1>5. ASSUME NEW c \in Calls
      PROVE  /\ seen'[c] <= file'.version
             /\ pc'[c] = "swap" /\ seen'[c] = Mtime' => parsed'[c] = file'.content
  BY <1>2, <1>3 DEF ConfigInv, Mtime
<1> QED BY <1>2, <1>3, <1>4, <1>5 DEF ConfigInv

\* A reload that has only looked at the mtime.
LEMMA ReloadStat ==
    ASSUME AnswerInv, ConfigInv, NEW c \in Calls, Stat(c)
    PROVE  ConfigInv'
<1>1. Locals
  BY TypeParts DEF AnswerInv
<1>2. /\ UNCHANGED <<file, loaded, active, objects, exited, parsed>>
      /\ pc[c] = "stat" /\ \A d \in Calls \ {c} : pc'[d] = pc[d] /\ seen'[d] = seen[d]
      /\ pc'[c] = IF Mtime = loaded THEN "lookup" ELSE IF Mtime = 0 THEN "swap" ELSE "load"
      /\ seen'[c] = IF Mtime = loaded THEN -1 ELSE Mtime
  BY <1>1 DEF Stat, Goes, Locals, configVars
<1>3. Mtime \in 0 .. file.version /\ file.version \in Nat /\ Mtime' = Mtime
  BY <1>1, <1>2, BoundsAssumption DEF Locals, Mtime
<1>4. ActiveMatchesConfig'
  BY <1>2, <1>3 DEF ConfigInv, ActiveMatchesConfig
<1>5. ASSUME NEW d \in Calls
      PROVE  /\ seen'[d] <= file'.version
             /\ pc'[d] = "load" => seen'[d] > 0
             /\ pc'[d] # "swap" => parsed'[d] = NoFile
             /\ pc'[d] = "swap" =>
                   /\ seen'[d] >= 0
                   /\ seen'[d] = 0 => parsed'[d] = NoFile
                   /\ seen'[d] = Mtime' /\ file'.content # BadFile => parsed'[d] = file'.content
  <2>1. CASE d = c
    <3>1. parsed[c] = NoFile
      BY <1>2 DEF ConfigInv
    <3>2. Mtime = 0 => file.content = NoFile
      BY <1>3, <1>1 DEF Mtime, Locals
    <3> QED BY <1>2, <1>3, <2>1, <3>1, <3>2
  <2>2. CASE d # c
    BY <1>2, <1>3, <2>2 DEF ConfigInv
  <2> QED BY <2>1, <2>2
<1> QED BY <1>2, <1>4, <1>5 DEF ConfigInv

\* What was read is at least as new as the mtime that was looked at.
LEMMA ReloadLoad ==
    ASSUME AnswerInv, ConfigInv, NEW c \in Calls, Load(c)
    PROVE  ConfigInv'
<1>1. Locals
  BY TypeParts DEF AnswerInv
<1>2. /\ UNCHANGED <<file, loaded, active, objects, exited>>
      /\ pc[c] = "load" /\ seen[c] > 0
      /\ \A d \in Calls \ {c} : pc'[d] = pc[d] /\ seen'[d] = seen[d] /\ parsed'[d] = parsed[d]
      /\ \/ /\ file.content \in {NoFile, BadFile}
            /\ pc'[c] = "lookup" /\ seen'[c] = -1 /\ parsed'[c] = NoFile
         \/ /\ file.content \notin {NoFile, BadFile}
            /\ pc'[c] = "swap" /\ seen'[c] = seen[c] /\ parsed'[c] = file.content
  BY <1>1 DEF Load, Goes, ReloadEnds, Locals, ConfigInv, configVars
<1>3. file.version \in Nat /\ file.content \in Contents /\ Mtime' = Mtime
  BY <1>1, <1>2, BoundsAssumption DEF Locals, Mtime
<1>4. ActiveMatchesConfig'
  BY <1>2, <1>3 DEF ConfigInv, ActiveMatchesConfig
<1>5. seen[c] \in Int
  BY <1>1, BoundsAssumption DEF Locals
<1>6. ASSUME NEW d \in Calls
      PROVE  /\ seen'[d] <= file'.version
             /\ parsed'[d] \in Descriptors \cup {NoFile, NoEntry}
             /\ pc'[d] = "load" => seen'[d] > 0
             /\ pc'[d] # "swap" => parsed'[d] = NoFile
             /\ pc'[d] = "swap" =>
                   /\ seen'[d] >= 0
                   /\ seen'[d] = 0 => parsed'[d] = NoFile
                   /\ seen'[d] = Mtime' /\ file'.content # BadFile => parsed'[d] = file'.content
  <2>1. CASE d = c
    BY <1>2, <1>3, <1>5, <2>1 DEF ConfigInv, Contents
  <2>2. CASE d # c
    BY <1>2, <1>3, <2>2 DEF ConfigInv
  <2> QED BY <2>1, <2>2
<1> QED BY <1>2, <1>4, <1>6 DEF ConfigInv

\* The generation is stamped with the older of the two.
LEMMA ReloadSwap ==
    ASSUME AnswerInv, ConfigInv, NEW c \in Calls, Swap(c)
    PROVE  ConfigInv'
<1>1. Locals
  BY TypeParts DEF AnswerInv
<1>2. /\ UNCHANGED <<file, exited>>
      /\ pc[c] = "swap" /\ pc'[c] = "lookup" /\ seen'[c] = -1 /\ parsed'[c] = NoFile
      /\ \A d \in Calls \ {c} : pc'[d] = pc[d] /\ seen'[d] = seen[d] /\ parsed'[d] = parsed[d]
      /\ loaded' = seen[c]
  BY <1>1 DEF Swap, Goes, Stamp, ReloadEnds, Locals
<1>3. /\ Emptied(c) => active' = 0
      /\ ~Emptied(c) => active' # 0 /\ objects'[active'].descriptor = parsed[c]
  BY SwapTyped DEF ConfigInv
<1>4. file.version \in Nat /\ Mtime' = Mtime /\ seen[c] \in Int
  BY <1>1, <1>2, BoundsAssumption DEF Locals, Mtime
<1>5. /\ seen[c] >= 0 /\ (seen[c] = 0 => parsed[c] = NoFile)
      /\ seen[c] = Mtime /\ file.content # BadFile => parsed[c] = file.content
  BY <1>2 DEF ConfigInv
<1>6. ActiveMatchesConfig'
  <2>1. CASE Emptied(c)
    BY <1>2, <1>3, <1>4, <1>5, <2>1 DEF ActiveMatchesConfig, Emptied
  <2>2. CASE ~Emptied(c)
    BY <1>2, <1>3, <1>4, <1>5, <2>2 DEF ActiveMatchesConfig
  <2> QED BY <2>1, <2>2
<1>7. loaded' <= file'.version /\ (loaded' <= 0 => active' = 0)
  BY <1>2, <1>3, <1>4, <1>5 DEF ConfigInv, Emptied
<1>8. ASSUME NEW d \in Calls
      PROVE  /\ seen'[d] <= file'.version
             /\ parsed'[d] \in Descriptors \cup {NoFile, NoEntry}
             /\ pc'[d] = "load" => seen'[d] > 0
             /\ pc'[d] # "swap" => parsed'[d] = NoFile
             /\ pc'[d] = "swap" =>
                   /\ seen'[d] >= 0
                   /\ seen'[d] = 0 => parsed'[d] = NoFile
                   /\ seen'[d] = Mtime' /\ file'.content # BadFile => parsed'[d] = file'.content
  <2>1. CASE d = c
    BY <1>2, <1>4, <2>1
  <2>2. CASE d # c
    BY <1>2, <1>4, <2>2 DEF ConfigInv
  <2> QED BY <2>1, <2>2
<1> QED BY <1>6, <1>7, <1>8 DEF ConfigInv

\* Nothing was loaded yet.
LEMMA ConfigInit == Init => ConfigInv
<1> SUFFICES ASSUME Init PROVE ConfigInv
  OBVIOUS
<1>1. file.version = 1 /\ loaded = -1 /\ active = 0
  BY DEF Init
<1>2. Mtime \in {0, 1}
  BY <1>1 DEF Mtime
<1>3. ActiveMatchesConfig
  BY <1>1, <1>2 DEF ActiveMatchesConfig
<1> QED BY <1>1, <1>3 DEF Init, ConfigInv

-----------------------------------------------------------------------------
(* The steps together                                                      *)

\* Every step of a call ...
LEMMA CallSteps ==
    ASSUME AnswerInv, ConfigInv, NEW c \in Calls, CallStep(c)
    PROVE  AnswerInv' /\ ConfigInv'
<1>1. CASE Stat(c)
  BY <1>1, StatStep, ReloadStat
<1>2. CASE Load(c)
  BY <1>2, LoadStep, ReloadLoad
<1>3. CASE Swap(c)
  BY <1>3, SwapStep, ReloadSwap DEF ConfigInv
<1>4. CASE LookupFails(c)
  BY <1>4, LookupFailsStep, ReloadLocal
<1>5. CASE LookupChild(c)
  BY <1>5, LookupChildStep, ReloadLocal
<1>6. CASE LookupAccess(c)
  BY <1>6, LookupAccessStep, ReloadLocal
<1>7. CASE LookupVersion(c)
  BY <1>7, LookupVersionStep, ReloadLocal
<1>8. CASE StartChecks(c)
  BY <1>8, StartChecksStep, ReloadLocal
<1>9. CASE Spawn(c)
  BY <1>9, SpawnStep, ReloadObjects
<1>10. CASE SpawnFails(c)
  BY <1>10, SpawnFailsStep, ReloadLocal
<1>11. CASE ToolsCached(c)
  BY <1>11, ToolsCachedStep, ReloadLocal
<1>12. CASE ListTools(c)
  BY <1>12, ListToolsStep, ReloadLocal
<1>13. CASE UseTools(c)
  BY <1>13, UseToolsStep, ReloadLocal
<1>14. CASE Register(c)
  BY <1>14, RegisterStep, ReloadObjects
<1>15. CASE Send(c)
  BY <1>15, SendStep, ReloadLocal
<1>16. CASE SendFails(c)
  <2>1. CallFails(c, "send")
    BY <1>16 DEF SendFails
  <2> QED BY <2>1, CallFailsStep, ReloadObjects
<1>17. CASE Receive(c)
  BY <1>17, ReceiveStep, ReloadObjects
<1>18. CASE ReceiveError(c) \/ TimesOut(c)
  <2>1. CallFails(c, "wait")
    BY <1>18 DEF ReceiveError, TimesOut
  <2> QED BY <2>1, CallFailsStep, ReloadObjects
<1>19. CASE Abort(c)
  BY <1>19, AbortStep, ReloadObjects
<1> QED
  BY <1>1, <1>2, <1>3, <1>4, <1>5, <1>6, <1>7, <1>8, <1>9, <1>10, <1>11, <1>12, <1>13, <1>14,
     <1>15, <1>16, <1>17, <1>18, <1>19 DEF CallStep

\* ... and every step beside the calls keeps both invariants.
LEMMA OtherSteps ==
    ASSUME AnswerInv, ConfigInv, OthersStep
    PROVE  AnswerInv' /\ ConfigInv'
<1>1. ASSUME NEW content \in Contents, ConfigChanges(content)
      PROVE  AnswerInv' /\ ConfigInv'
  BY <1>1, ConfigStep, ReloadConfigChanges
<1>2. ASSUME NEW p \in 1 .. Len(procs), ProcessStep(p) \/ ReaderStep(p)
      PROVE  AnswerInv' /\ ConfigInv'
  <2>1. ConfigInv'
    BY <1>2, ReloadObjects
  <2>2. CASE ProcessStep(p)
    BY <2>1, <2>2, AnswersStep, CrashesStep DEF ProcessStep
  <2>3. CASE ReaderStep(p)
    BY <2>1, <2>3, DeliverStep, ReaderEndsStep, ReaderDiesStep DEF ReaderStep
  <2> QED BY <1>2, <2>1, <2>2, <2>3
<1>3. ASSUME NEW k \in 1 .. Len(objects), DrainStep(k)
      PROVE  AnswerInv' /\ ConfigInv'
  <2>1. ConfigInv'
    BY <1>3, ReloadObjects
  <2>2. AnswerInv'
    BY <1>3, DrainEndsStep, DrainClosesStep DEF DrainStep
  <2> QED BY <2>1, <2>2
<1> QED BY <1>1, <1>2, <1>3 DEF OthersStep

\* So does a step that changes nothing.
LEMMA Stutters ==
    ASSUME AnswerInv, ConfigInv, UNCHANGED vars
    PROVE  AnswerInv' /\ ConfigInv'
<1>6. Seqs /\ Refs /\ Locals /\ Waiters /\ Pending
  BY TypeParts DEF AnswerInv
<1>7. Seqs' /\ Refs' /\ Locals' /\ Waiters'
  BY <1>6 DEF Seqs, Refs, Locals, Waiters, vars, configVars, localVars, callVars
<1>8. Pending'
  BY <1>6 DEF Pending, Exchanges, Registered, vars, configVars, localVars, callVars
<1>1. TypeOK'
  BY <1>7, <1>8, TypePartsNext
<1>2. ChildInv' /\ LinkInv' /\ IdInv'
  BY DEF AnswerInv, ChildInv, LinkInv, IdInv, Registered, vars, configVars, localVars, callVars
<1>3. MessageInv' /\ WaiterInv'
  BY DEF AnswerInv, MessageInv, WaiterInv, Message, Registered, vars, configVars, localVars,
         callVars
<1>4. SameReloads
  BY DEF SameReloads, vars, configVars, localVars
<1>5. ConfigInv'
  BY <1>4, ReloadFrame
<1> QED BY <1>1, <1>2, <1>3, <1>5 DEF AnswerInv

\* Every step of the callers, the child processes, their reader and drain
\* threads and of whoever writes the config file keeps both invariants.
LEMMA NextStep ==
    ASSUME AnswerInv, ConfigInv, [Next]_vars
    PROVE  AnswerInv' /\ ConfigInv'
<1>1. ASSUME NEW c \in Calls, NEW o \in Operations, Begin(c, o)
      PROVE  AnswerInv' /\ ConfigInv'
  BY <1>1, OperationsAssumption, BeginEnters, EntersStep, ReloadLocal
<1>2. CASE Exit
  BY <1>2, ExitStep, ReloadExit
<1> QED BY <1>1, <1>2, OtherSteps, CallSteps, Stutters DEF Next

-----------------------------------------------------------------------------
(* With one caller at a time no process is left behind                     *)

Holding == {"start", "spawn", "tools", "listed", "register", "send", "wait", "abort"}
BusyCalls == {c \in Calls : Busy(c)}

SingleInv == IsFiniteSet(BusyCalls) /\ \A c, d \in BusyCalls : c = d

\* The active object has not been retired.
FleetInv == NoOrphans /\ (active # 0 => objects[active].drain = "none")

\* Nobody replaces the object the caller works with, and its process was found
\* dead before another is started.
HoldInv ==
    \A c \in Calls :
        pc[c] \in Holding => child[c] = active /\ (pc[c] = "spawn" => ~Alive(active))

OrphanInv == SingleInv /\ FleetInv /\ HoldInv

\* A step of a call is a step of a busy one, and moves no other.
LEMMA CallMoves ==
    ASSUME Locals, NEW c \in Calls, CallStep(c)
    PROVE  Busy(c) /\ \A d \in Calls \ {c} : pc'[d] = pc[d]
<1>1. PICK from \in Steps, to \in Unlisted : Goes(c, from, to)
  <2>1. ASSUME Stat(c) \/ Load(c) \/ Swap(c) \/ LookupFails(c) \/ LookupChild(c)
        PROVE  \E from \in Steps, to \in Unlisted : Goes(c, from, to)
    BY <2>1 DEF Stat, Load, Swap, LookupFails, LookupChild, Steps, Unlisted
  <2>2. ASSUME LookupAccess(c) \/ LookupVersion(c) \/ StartChecks(c) \/ Spawn(c) \/ SpawnFails(c)
        PROVE  \E from \in Steps, to \in Unlisted : Goes(c, from, to)
    BY <2>2 DEF LookupAccess, LookupVersion, StartChecks, Spawn, SpawnFails, Steps, Unlisted
  <2>3. ASSUME ToolsCached(c) \/ ListTools(c) \/ UseTools(c) \/ Register(c) \/ Send(c)
        PROVE  \E from \in Steps, to \in Unlisted : Goes(c, from, to)
    BY <2>3 DEF ToolsCached, ListTools, UseTools, Register, Send, Steps, Unlisted
  <2>4. ASSUME SendFails(c) \/ ReceiveError(c) \/ TimesOut(c) \/ Abort(c)
        PROVE  \E from \in Steps, to \in Unlisted : Goes(c, from, to)
    BY <2>4 DEF SendFails, ReceiveError, TimesOut, CallFails, Abort, Steps, Unlisted
  <2>5. ASSUME Receive(c)
        PROVE  \E from \in Steps, to \in Unlisted : Goes(c, from, to)
    BY <2>5 DEF Receive, Steps, Unlisted
  <2> QED BY <2>1, <2>2, <2>3, <2>4, <2>5 DEF CallStep
<1> QED BY <1>1 DEF Goes, Busy, Locals

\* Nobody else is busy then.
LEMMA OthersRest ==
    ASSUME SingleInv, NEW c \in Calls, Busy(c), NEW d \in Calls \ {c}
    PROVE  pc[d] \notin Holding
BY DEF SingleInv, BusyCalls, Busy, Holding, Steps

\* A caller begins when nobody is busy.
LEMMA SingleNext ==
    ASSUME AnswerInv, SingleInv, MaxConcurrent = 1, [Next]_vars
    PROVE  SingleInv'
<1>1. Locals
  BY TypeParts DEF AnswerInv
<1>2. ASSUME NEW c \in Calls, NEW o \in Operations, Begin(c, o) PROVE SingleInv'
  <2>1. Cardinality(BusyCalls) < 1 /\ pc' = [pc EXCEPT ![c] = "stat"]
    BY <1>2 DEF Begin, Goes, BusyCalls
  <2>2. BusyCalls = {}
    BY <2>1, FS_CardinalityType, FS_EmptySet DEF SingleInv
  <2>3. BusyCalls' = {c}
    BY <1>1, <2>1, <2>2 DEF BusyCalls, Busy, Steps, Locals
  <2> QED BY <2>3, FS_Singleton DEF SingleInv
<1>3. ASSUME BusyCalls' \subseteq BusyCalls PROVE SingleInv'
  BY <1>3, FS_Subset DEF SingleInv
<1>4. ASSUME NEW c \in Calls, CallStep(c) PROVE BusyCalls' \subseteq BusyCalls
  BY <1>1, <1>4, CallMoves DEF BusyCalls, Busy
<1>5. ASSUME UNCHANGED pc PROVE BusyCalls' \subseteq BusyCalls
  BY <1>5 DEF BusyCalls, Busy
<1>6. OthersStep \/ Exit \/ UNCHANGED vars => UNCHANGED pc
  BY DEF OthersStep, ConfigChanges, ProcessStep, ReaderStep, DrainStep, Answers, Crashes, Deliver,
         ReaderEnds, ReaderDies, DrainEnds, DrainCloses, Exit, vars
<1> QED BY <1>2, <1>3, <1>4, <1>5, <1>6 DEF Next

LEMMA SameLength ==
    ASSUME NEW S, NEW T, NEW s \in Seq(S), NEW t \in Seq(T), DOMAIN s = DOMAIN t
    PROVE  Len(s) = Len(t)
<1>1. Len(s) \in Nat /\ Len(t) \in Nat /\ 1 .. Len(s) = 1 .. Len(t)
  BY LenProperties
<1>2. Len(s) \in 1 .. Len(s) <=> Len(s) \in 1 .. Len(t)
  BY <1>1
<1>3. Len(t) \in 1 .. Len(s) <=> Len(t) \in 1 .. Len(t)
  BY <1>1
<1> QED BY <1>1, <1>2, <1>3

LEMMA SeqsNow == AnswerInv => Seqs
BY TypeParts DEF AnswerInv

LEMMA SeqsNext == AnswerInv' => Seqs'
BY SeqsNow, PTL

\* To change an entry of a sequence is not to change its length.
LEMMA SameLengths ==
    ASSUME AnswerInv, AnswerInv'
    PROVE  /\ DOMAIN objects' = DOMAIN objects => Len(objects') = Len(objects)
           /\ DOMAIN procs' = DOMAIN procs => Len(procs') = Len(procs)
<1>1. Seqs /\ Seqs'
  BY SeqsNow, SeqsNext
<1> QED BY <1>1, SameLength DEF Seqs

\* What runs for whom, and which object is replaced, stays the same ...
SameObjects ==
    /\ Len(objects') = Len(objects)
    /\ \A k \in 1 .. Len(objects) :
          objects'[k].process = objects[k].process /\ objects'[k].drain = objects[k].drain
SameProcs ==
    /\ Len(procs') = Len(procs)
    /\ \A p \in 1 .. Len(procs) :
          procs'[p].object = procs[p].object /\ procs'[p].state = procs[p].state
SameFleet == SameObjects /\ SameProcs /\ active' = active

LEMMA FleetFrame ==
    ASSUME AnswerInv, FleetInv, SameFleet
    PROVE  FleetInv'
<1>1. Seqs /\ Refs /\ Len(objects) \in Nat
  BY TypeParts, LenProperties DEF AnswerInv, Seqs
<1>2. NoOrphans'
  <2> SUFFICES ASSUME NEW p \in 1 .. Len(procs), procs[p].state = "running"
               PROVE  /\ objects'[procs'[p].object].process = p
                      /\ \/ procs'[p].object = active'
                         \/ objects'[procs'[p].object].drain \in {"draining", "closing"}
    BY DEF NoOrphans, SameFleet, SameProcs
  <2>1. procs[p].object \in 1 .. Len(objects)
    BY <1>1, ProcessTyped DEF ProcessType
  <2> QED BY <2>1 DEF FleetInv, NoOrphans, SameFleet, SameObjects, SameProcs
<1>3. active' # 0 => objects'[active'].drain = "none"
  BY <1>1 DEF FleetInv, SameFleet, SameObjects, Refs
<1> QED BY <1>2, <1>3 DEF FleetInv

\* ... and nothing comes to life.
LEMMA AliveFrame ==
    ASSUME AnswerInv, SameFleet, NEW k \in 1 .. Len(objects)
    PROVE  Alive(k)' <=> Alive(k)
<1>1. objects[k].process \in 0 .. Len(procs) /\ Len(procs) \in Nat
  BY TypeParts, ObjectTyped DEF AnswerInv, ObjectType
<1>2. objects[k].process # 0 => objects[k].process \in 1 .. Len(procs)
  BY <1>1
<1> QED BY <1>1, <1>2 DEF Alive, SameFleet, SameObjects, SameProcs

\* Most steps of a call are such steps, ...
LEMMA CallFleet ==
    ASSUME AnswerInv, AnswerInv', NEW c \in Calls, CallStep(c), ~Swap(c), ~Spawn(c), ~Abort(c)
    PROVE  SameFleet
<1>1. Seqs /\ Len(objects) \in Nat /\ Len(procs) \in Nat
  BY TypeParts, LenProperties DEF AnswerInv, Seqs
<1>2. /\ objects \in [1 .. Len(objects) -> ObjectType(Len(procs))]
      /\ procs \in [1 .. Len(procs) -> ProcessType(Len(objects))]
  BY <1>1, LenProperties DEF Seqs
<1>3. ASSUME UNCHANGED <<objects, procs, active>> PROVE SameFleet
  BY <1>3 DEF SameFleet, SameObjects, SameProcs
<1>4. ASSUME \/ Stat(c) \/ Load(c) \/ LookupFails(c) \/ LookupChild(c) \/ LookupAccess(c)
             \/ LookupVersion(c) \/ StartChecks(c) \/ SpawnFails(c) \/ ToolsCached(c)
             \/ ListTools(c) \/ UseTools(c)
      PROVE  UNCHANGED <<objects, procs, active>>
  BY <1>4 DEF Stat, Load, LookupFails, LookupChild, LookupAccess, LookupVersion, StartChecks,
              SpawnFails, ToolsCached, ListTools, UseTools, configVars
<1>5. ASSUME Register(c) PROVE SameFleet
  <2>1. SameObjects
    BY <1>1, <1>2, <1>5, SameLengths DEF Register, SameObjects, ObjectType
  <2> QED BY <1>5, <2>1 DEF Register, SameFleet, SameProcs, configVars
<1>6. ASSUME NEW step \in {"send", "wait"}, CallFails(c, step) PROVE SameFleet
  <2>1. SameObjects
    BY <1>1, <1>2, <1>6, SameLengths DEF CallFails, Unregistered, SameObjects, ObjectType
  <2> QED BY <1>6, <2>1 DEF CallFails, SameFleet, SameProcs, configVars
<1>7. ASSUME Receive(c) PROVE SameFleet
  <2>1. SameObjects
    BY <1>1, <1>2, <1>7, SameLengths DEF Receive, Unregistered, SameObjects, ObjectType
  <2> QED BY <1>7, <2>1 DEF Receive, SameFleet, SameProcs, configVars
<1>8. ASSUME Send(c) PROVE SameFleet
  <2>1. SameProcs
    BY <1>1, <1>2, <1>8, SameLengths DEF Send, SameProcs, ProcessType
  <2> QED BY <1>8, <2>1 DEF Send, SameFleet, SameObjects, configVars
<1> QED
  BY <1>3, <1>4, <1>5, <1>6, <1>7, <1>8 DEF CallStep, SendFails, ReceiveError, TimesOut

\* ... like most of those beside the calls.
LEMMA OtherFleet ==
    ASSUME AnswerInv, AnswerInv',
           \/ \E content \in Contents : ConfigChanges(content)
           \/ \E p \in 1 .. Len(procs) : (\E m \in procs[p].in : Answers(p, m)) \/ ReaderStep(p)
           \/ UNCHANGED vars
    PROVE  SameFleet
<1>1. Seqs /\ Len(procs) \in Nat
  BY TypeParts, LenProperties DEF AnswerInv, Seqs
<1>2. procs \in [1 .. Len(procs) -> ProcessType(Len(objects))]
  BY <1>1, LenProperties DEF Seqs
<1>3. ASSUME \/ \E content \in Contents : ConfigChanges(content)
             \/ UNCHANGED vars
      PROVE  SameFleet
  BY <1>3 DEF ConfigChanges, vars, configVars, SameFleet, SameObjects, SameProcs
<1>4. ASSUME NEW p \in 1 .. Len(procs), NEW m \in procs[p].in, Answers(p, m) PROVE SameFleet
  <2>1. SameProcs
    BY <1>1, <1>2, <1>4, SameLengths DEF Answers, SameProcs, ProcessType
  <2> QED BY <1>4, <2>1 DEF Answers, SameFleet, SameObjects, configVars
<1>5. ASSUME NEW p \in 1 .. Len(procs), ReaderStep(p) PROVE SameFleet
  <2>1. SameProcs
    BY <1>1, <1>2, <1>5, SameLengths DEF ReaderStep, Deliver, ReaderEnds, ReaderDies, SameProcs, ProcessType
  <2>2. UNCHANGED <<objects, active>>
    BY <1>5 DEF ReaderStep, Deliver, ReaderEnds, ReaderDies, configVars
  <2> QED BY <2>1, <2>2 DEF SameFleet, SameObjects
<1> QED BY <1>3, <1>4, <1>5

\* A crash stops one process, ...
LEMMA CrashFleet ==
    ASSUME AnswerInv, AnswerInv', FleetInv, HoldInv, NEW p \in 1 .. Len(procs), Crashes(p)
    PROVE  FleetInv' /\ HoldInv'
<1>1. Seqs /\ Len(objects) \in Nat /\ Len(procs) \in Nat /\ ChildInv /\ Refs
  BY TypeParts, LenProperties DEF AnswerInv, Seqs
<1>2. procs \in [1 .. Len(procs) -> ProcessType(Len(objects))]
  BY <1>1, LenProperties DEF Seqs
<1>3. /\ Len(procs') = Len(procs)
      /\ \A q \in 1 .. Len(procs) :
            /\ procs'[q].object = procs[q].object
            /\ procs'[q].state = "running" => procs[q].state = "running"
  BY <1>1, <1>2, SameLengths DEF Crashes, ProcessType
<1>4. UNCHANGED <<objects, active, pc, child>>
  BY DEF Crashes, configVars, localVars
<1>5. ASSUME NEW k \in 1 .. Len(objects), Alive(k)' PROVE Alive(k)
  <2>1. objects[k].process \in 0 .. Len(procs)
    BY <1>1, ObjectTyped DEF ObjectType
  <2> QED BY <1>1, <1>3, <1>4, <1>5, <2>1 DEF Alive
<1>6. HoldInv'
  <2>1. \A c \in Calls : pc[c] \in Holding => child[c] \in 1 .. Len(objects)
    BY <1>1 DEF ChildInv, Refs, Holding
  <2> QED BY <1>4, <1>5, <2>1 DEF HoldInv
<1> QED BY <1>3, <1>4, <1>6 DEF FleetInv, NoOrphans

\* ... and close stops the process of one object, which is not active any more,
\* or has no process then.
Closes(k) ==
    /\ k \in 1 .. Len(objects)
    /\ procs' = ClosedProcs(k)
    /\ \A j \in 1 .. Len(objects) :
          /\ objects'[j].process = IF j = k THEN 0 ELSE objects[j].process
          /\ j # k => objects'[j].drain = objects[j].drain
    /\ active' \in {0, active}
    /\ active' # active => k = active
    /\ k # active' \/ objects'[k].drain = objects[k].drain

LEMMA CloseFleet ==
    ASSUME AnswerInv, AnswerInv', FleetInv, NEW k, Closes(k)
    PROVE  FleetInv' /\ \A j \in 1 .. Len(objects) : Alive(j)' => Alive(j)
<1>1. Seqs /\ Len(objects) \in Nat /\ Len(procs) \in Nat /\ Refs /\ LinkInv
  BY TypeParts, LenProperties DEF AnswerInv, Seqs
<1>2. procs \in [1 .. Len(procs) -> ProcessType(Len(objects))]
  BY <1>1, LenProperties DEF Seqs
<1>3. objects[k].process \in 0 .. Len(procs)
  BY <1>1, ObjectTyped DEF Closes, ObjectType
<1>4. /\ Len(procs') = Len(procs)
      /\ \A q \in 1 .. Len(procs) :
            /\ procs'[q].object = procs[q].object
            /\ procs'[q].state = "running" =>
                  procs[q].state = "running" /\ q # objects[k].process
  <2>1. CASE Alive(k)
    <3>1. procs' = [procs EXCEPT ![objects[k].process].state = "closed"]
      BY <2>1 DEF Closes, ClosedProcs
    <3> QED BY <1>1, <1>2, <1>3, <2>1, <3>1, SameLengths DEF Alive, ProcessType
  <2>2. CASE ~Alive(k)
    BY <1>1, <1>3, <2>2 DEF Closes, ClosedProcs, Alive
  <2> QED BY <2>1, <2>2
<1>5. NoOrphans'
  <2> SUFFICES ASSUME NEW p \in 1 .. Len(procs), procs'[p].state = "running"
               PROVE  /\ objects'[procs'[p].object].process = p
                      /\ \/ procs'[p].object = active'
                         \/ objects'[procs'[p].object].drain \in {"draining", "closing"}
    BY <1>4 DEF NoOrphans
  <2>1. procs[p].object \in 1 .. Len(objects) /\ procs[p].object # k
    BY <1>1, <1>4, ProcessTyped DEF ProcessType, FleetInv, NoOrphans
  <2> QED BY <1>4, <2>1 DEF FleetInv, NoOrphans, Closes
<1>6. active' # 0 => objects'[active'].drain = "none"
  BY <1>1 DEF FleetInv, Closes, Refs
<1>7. ASSUME NEW j \in 1 .. Len(objects), Alive(j)' PROVE Alive(j)
  <2>1. objects[j].process \in 0 .. Len(procs)
    BY <1>1, ObjectTyped DEF ObjectType
  <2> QED BY <1>1, <1>4, <1>7, <2>1 DEF Alive, Closes
<1> QED BY <1>5, <1>6, <1>7 DEF FleetInv

\* The three that close.
LEMMA Closers ==
    ASSUME AnswerInv, FleetInv
    PROVE  /\ \A c \in Calls : Abort(c) => Closes(child[c])
           /\ \A k \in 1 .. Len(objects) : DrainCloses(k) => Closes(k)
           /\ Exit /\ active # 0 => Closes(active)
<1>1. Seqs /\ Refs /\ ChildInv /\ Len(objects) \in Nat
  BY TypeParts, LenProperties DEF AnswerInv, Seqs
<1>2. objects \in [1 .. Len(objects) -> ObjectType(Len(procs))]
  BY <1>1, LenProperties DEF Seqs
<1>3. ASSUME NEW k \in 1 .. Len(objects)
      PROVE  \A j \in 1 .. Len(objects) :
                /\ ClosedObjects(k)[j].process = IF j = k THEN 0 ELSE objects[j].process
                /\ ClosedObjects(k)[j].drain = objects[j].drain
  BY <1>2 DEF ClosedObjects, ObjectType
<1>4. ASSUME NEW c \in Calls, Abort(c) PROVE Closes(child[c])
  <2>1. child[c] \in 1 .. Len(objects)
    BY <1>1, <1>4 DEF Abort, Goes, ChildInv, Refs
  <2> QED BY <1>3, <1>4, <2>1 DEF Abort, Closes, configVars
<1>5. ASSUME NEW k \in 1 .. Len(objects), DrainCloses(k) PROVE Closes(k)
  <2>1. k # active
    BY <1>5 DEF DrainCloses, FleetInv
  <2>2. ClosedObjects(k) \in [1 .. Len(objects) -> ObjectType(Len(procs))]
    BY <1>1, <1>2, ClosedTyped
  <2>3. \A j \in 1 .. Len(objects) :
          /\ objects'[j].process = ClosedObjects(k)[j].process
          /\ j # k => objects'[j].drain = ClosedObjects(k)[j].drain
    BY <1>5, <2>2 DEF DrainCloses, ObjectType
  <2> QED BY <1>3, <1>5, <2>1, <2>3 DEF DrainCloses, Closes, configVars
<1>6. ASSUME Exit, active # 0 PROVE Closes(active)
  <2>1. active \in 1 .. Len(objects)
    BY <1>1, <1>6 DEF Refs
  <2> QED BY <1>3, <1>6, <2>1 DEF Exit, Closes
<1> QED BY <1>4, <1>5, <1>6

LEMMA DrainFleet ==
    ASSUME AnswerInv, AnswerInv', FleetInv, NEW k \in 1 .. Len(objects), DrainEnds(k)
    PROVE  FleetInv' /\ \A j \in 1 .. Len(objects) : Alive(j)' => Alive(j)
<1>1. Seqs /\ Refs /\ Len(objects) \in Nat
  BY TypeParts, LenProperties DEF AnswerInv, Seqs
<1>2. objects \in [1 .. Len(objects) -> ObjectType(Len(procs))]
  BY <1>1, LenProperties DEF Seqs
<1>3. procs' = procs /\ active' = active /\ k # active
  BY DEF DrainEnds, FleetInv, configVars
<1>4. /\ Len(objects') = Len(objects)
      /\ \A j \in 1 .. Len(objects) :
            /\ objects'[j].process = objects[j].process
            /\ j # k => objects'[j].drain = objects[j].drain
            /\ j = k => objects'[j].drain = "closing"
  BY <1>2, SameLengths DEF DrainEnds, ObjectType
<1>5. NoOrphans'
  <2> SUFFICES ASSUME NEW p \in 1 .. Len(procs), procs[p].state = "running"
               PROVE  /\ objects'[procs[p].object].process = p
                      /\ \/ procs[p].object = active
                         \/ objects'[procs[p].object].drain \in {"draining", "closing"}
    BY <1>3 DEF NoOrphans
  <2>1. procs[p].object \in 1 .. Len(objects)
    BY <1>1, ProcessTyped DEF ProcessType
  <2> QED BY <1>4, <2>1 DEF FleetInv, NoOrphans
<1>6. active' # 0 => objects'[active'].drain = "none"
  BY <1>1, <1>3, <1>4 DEF FleetInv, Refs
<1> QED BY <1>3, <1>4, <1>5, <1>6 DEF FleetInv, Alive

\* An object that is replaced is drained, with its process.
LEMMA SwapFleet ==
    ASSUME AnswerInv, FleetInv, NEW c \in Calls, Swap(c),
           parsed[c] \in Descriptors \cup {NoFile, NoEntry}
    PROVE  FleetInv'
<1>1. Seqs /\ Refs /\ Len(objects) \in Nat
  BY TypeParts, LenProperties DEF AnswerInv, Seqs
<1>2. objects \in [1 .. Len(objects) -> ObjectType(Len(procs))]
  BY <1>1, LenProperties DEF Seqs
<1>3. procs' = procs /\ SwapObjects
  BY SwapTyped DEF Swap
<1>4. \A j \in 1 .. Len(objects) :
        Retired(active)[j].drain = IF j = active THEN "draining" ELSE objects[j].drain
  BY <1>2 DEF Retired, ObjectType
<1>5. \/ active' = active /\ objects' = objects
      \/ /\ active' = 0 \/ (active' = Len(objects) + 1 /\ objects'[active'].drain = "none")
         /\ \A j \in 1 .. Len(objects) : objects'[j].drain = Retired(active)[j].drain
  <2>1. CASE Emptied(c)
    BY <2>1 DEF Swap, Emptied
  <2>2. CASE ~Emptied(c) /\ Kept(c)
    BY <2>2 DEF Swap, Emptied, Kept
  <2>3. CASE ~Emptied(c) /\ ~Kept(c)
    <3> DEFINE r == Retired(active)
               o == NewObject(parsed[c])
    <3>1. active' = Len(objects) + 1 /\ objects' = Append(r, o)
      BY <2>3 DEF Swap, Emptied, Kept
    <3>2. r \in Seq(ObjectType(Len(procs))) /\ Len(r) = Len(objects)
      BY <1>1, RetiredTyped DEF Refs
    <3>3. o \in ObjectType(Len(procs)) /\ o.drain = "none"
      <4>1. parsed[c] \in Descriptors /\ Len(procs) \in Nat
        BY <1>1, <2>3, LenProperties DEF Emptied, Seqs
      <4> QED BY <4>1 DEF NewObject, ObjectType
    <3> HIDE DEF r, o
    <3>4. objects'[Len(r) + 1] = o /\ \A j \in 1 .. Len(r) : objects'[j] = r[j]
      BY <3>1, <3>2, <3>3, AppendProperties
    <3> QED BY <3>1, <3>2, <3>3, <3>4 DEF r
  <2> QED BY <2>1, <2>2, <2>3
<1>6. NoOrphans'
  <2> SUFFICES ASSUME NEW p \in 1 .. Len(procs), procs[p].state = "running"
               PROVE  /\ objects'[procs[p].object].process = p
                      /\ \/ procs[p].object = active'
                         \/ objects'[procs[p].object].drain \in {"draining", "closing"}
    BY <1>3 DEF NoOrphans
  <2>1. procs[p].object \in 1 .. Len(objects)
    BY <1>1, ProcessTyped DEF ProcessType
  <2> QED BY <1>3, <1>4, <1>5, <2>1 DEF FleetInv, NoOrphans, SwapObjects
<1> QED BY <1>5, <1>6 DEF FleetInv

\* A process is started for the active object, which has none.
LEMMA SpawnFleet ==
    ASSUME AnswerInv, FleetInv, HoldInv, NEW c \in Calls, Spawn(c)
    PROVE  FleetInv'
<1>1. Seqs /\ Refs /\ ChildInv /\ Len(objects) \in Nat /\ Len(procs) \in Nat
  BY TypeParts, LenProperties DEF AnswerInv, Seqs
<1>2. objects \in [1 .. Len(objects) -> ObjectType(Len(procs))]
  BY <1>1, LenProperties DEF Seqs
<1>3. child[c] = active /\ active \in 1 .. Len(objects) /\ ~Alive(active) /\ active' = active
  BY <1>1 DEF Spawn, Goes, HoldInv, Holding, ChildInv, Refs, configVars
<1>4. NewProcess(active) \in ProcessType(Len(objects)) /\ NewProcess(active).object = active
  BY <1>3 DEF NewProcess, ProcessType
<1>5. /\ Len(procs') = Len(procs) + 1 /\ procs'[Len(procs) + 1].object = active
      /\ \A p \in 1 .. Len(procs) : procs'[p] = procs[p]
  BY <1>1, <1>3, <1>4, AppendProperties DEF Spawn, Seqs
<1>6. /\ objects'[active].process = Len(procs) + 1
      /\ objects'[active].drain = objects[active].drain
      /\ \A j \in 1 .. Len(objects) : j # active => objects'[j] = objects[j]
  BY <1>2, <1>3 DEF Spawn, ObjectType
<1>7. NoOrphans'
  <2> SUFFICES ASSUME NEW p \in 1 .. Len(procs'), procs'[p].state = "running"
               PROVE  /\ objects'[procs'[p].object].process = p
                      /\ \/ procs'[p].object = active'
                         \/ objects'[procs'[p].object].drain \in {"draining", "closing"}
    BY DEF NoOrphans
  <2>1. CASE p = Len(procs) + 1
    BY <1>3, <1>5, <1>6, <2>1
  <2>2. CASE p \in 1 .. Len(procs)
    <3>1. /\ procs[p].object \in 1 .. Len(objects) /\ procs[p].state = "running"
          /\ objects[procs[p].object].process = p
      BY <1>1, <1>5, <2>2, ProcessTyped DEF ProcessType, FleetInv, NoOrphans
    <3>2. procs[p].object # active
      BY <1>1, <1>3, <2>2, <3>1 DEF Alive
    <3> QED BY <1>3, <1>5, <1>6, <2>2, <3>1, <3>2 DEF FleetInv, NoOrphans
  <2> QED BY <1>1, <1>5, <2>1, <2>2
<1> QED BY <1>3, <1>6, <1>7 DEF FleetInv

\* What a step of a call leaves to the call.
LEMMA CallHolds ==
    ASSUME AnswerInv, AnswerInv', SingleInv, HoldInv, NEW c \in Calls, CallStep(c)
    PROVE  HoldInv'
<1>1. Locals /\ Refs /\ ChildInv /\ Busy(c) /\ \A d \in Calls \ {c} : pc'[d] = pc[d]
  BY TypeParts, CallMoves DEF AnswerInv
<1>2. \A d \in Calls \ {c} : pc'[d] \notin Holding
  BY <1>1, OthersRest
<1>3. ASSUME pc'[c] \notin Holding PROVE HoldInv'
  BY <1>2, <1>3 DEF HoldInv
<1>4. ASSUME pc'[c] # "spawn", child'[c] = active' PROVE HoldInv'
  BY <1>2, <1>4 DEF HoldInv
<1>5. CASE LookupChild(c)
  <2>1. child'[c] = active' /\ pc'[c] # "spawn"
    BY <1>1, <1>5 DEF LookupChild, Goes, Locals, Refs, configVars
  <2> QED BY <1>4, <2>1
<1>6. CASE StartChecks(c)
  <2>1. /\ child'[c] = active' /\ active' = active /\ child[c] = active
        /\ pc'[c] = "spawn" => ~Alive(active)
    BY <1>1, <1>6 DEF StartChecks, Goes, HoldInv, Holding, Locals, configVars, localVars
  <2>2. Alive(active)' <=> Alive(active)
    BY <1>6, <2>1 DEF StartChecks, Alive
  <2> QED BY <1>2, <2>1, <2>2 DEF HoldInv
<1>7. CASE Spawn(c) \/ ToolsCached(c) \/ ListTools(c) \/ UseTools(c) \/ Register(c) \/ Send(c)
  <2>1. pc[c] \in Holding /\ pc'[c] # "spawn" /\ child' = child /\ active' = active
    BY <1>1, <1>7 DEF Spawn, ToolsCached, ListTools, UseTools, Register, Send, Goes, Holding,
                      Locals, configVars, localVars
  <2> QED BY <1>4, <2>1 DEF HoldInv
<1>8. CASE SendFails(c) \/ Receive(c) \/ ReceiveError(c) \/ TimesOut(c)
  <2>1. pc[c] \in Holding /\ pc'[c] # "spawn" /\ child' = child /\ active' = active
    BY <1>1, <1>8 DEF SendFails, Receive, ReceiveError, TimesOut, CallFails, Goes, Holding,
                      Locals, configVars, localVars
  <2> QED BY <1>4, <2>1 DEF HoldInv
<1>9. CASE \/ Stat(c) \/ Load(c) \/ Swap(c) \/ LookupFails(c) \/ LookupAccess(c)
           \/ LookupVersion(c) \/ SpawnFails(c) \/ Abort(c)
  <2>1. pc'[c] \notin Holding
    BY <1>1, <1>9 DEF Stat, Load, Swap, LookupFails, LookupAccess, LookupVersion, SpawnFails,
                      Abort, Goes, Holding, Locals
  <2> QED BY <1>3, <2>1
<1> QED BY <1>5, <1>6, <1>7, <1>8, <1>9 DEF CallStep

\* A step of nobody's call, in which nothing comes to life.
LEMMA OtherHolds ==
    ASSUME AnswerInv, HoldInv, UNCHANGED <<pc, child, active>>,
           \A k \in 1 .. Len(objects) : Alive(k)' => Alive(k)
    PROVE  HoldInv'
<1>1. \A c \in Calls : pc[c] \in Holding => child[c] \in 1 .. Len(objects)
  <2>1. Refs /\ ChildInv /\ Len(objects) \in Nat
    BY TypeParts, LenProperties DEF AnswerInv, Seqs
  <2> QED BY <2>1 DEF Refs, ChildInv, Holding
<1> QED BY <1>1 DEF HoldInv

\* A call that takes up an operation has no object yet.
LEMMA EntersHolds ==
    ASSUME AnswerInv, FleetInv, HoldInv, NEW c \in Calls, NEW from, NEW o, Enters(c, from, o)
    PROVE  FleetInv' /\ HoldInv'
<1>1. Locals
  BY TypeParts DEF AnswerInv
<1>2. UNCHANGED <<objects, procs, child, active>> /\ pc' = [pc EXCEPT ![c] = "stat"]
  BY DEF Enters, Goes, configVars
<1>3. FleetInv'
  BY <1>2, FleetFrame DEF SameFleet, SameObjects, SameProcs
<1>4. HoldInv'
  BY <1>1, <1>2 DEF HoldInv, Holding, Locals, Alive
<1> QED BY <1>3, <1>4

\* Who serves one caller at a time leaves no process behind.
LEMMA FleetNext ==
    ASSUME AnswerInv, AnswerInv', ConfigInv, OrphanInv, [Next]_vars
    PROVE  FleetInv' /\ HoldInv'
<1>1. Locals /\ Refs /\ Seqs /\ FleetInv /\ HoldInv /\ SingleInv
  BY TypeParts DEF AnswerInv, OrphanInv
<1>2. ASSUME NEW c \in Calls, NEW o \in Operations, Begin(c, o) PROVE FleetInv' /\ HoldInv'
  BY <1>1, <1>2, OperationsAssumption, BeginEnters, EntersHolds
<1>3. ASSUME NEW c \in Calls, CallStep(c) PROVE FleetInv' /\ HoldInv'
  <2>1. HoldInv'
    BY <1>1, <1>3, CallHolds
  <2>2. CASE Swap(c)
    BY <1>1, <2>1, <2>2, SwapFleet DEF ConfigInv
  <2>3. CASE Spawn(c)
    BY <1>1, <2>1, <2>3, SpawnFleet
  <2>4. CASE Abort(c)
    BY <1>1, <2>1, <2>4, Closers, CloseFleet
  <2>5. CASE ~Swap(c) /\ ~Spawn(c) /\ ~Abort(c)
    BY <1>1, <1>3, <2>1, <2>5, CallFleet, FleetFrame
  <2> QED BY <2>2, <2>3, <2>4, <2>5
<1>4. ASSUME SameFleet, UNCHANGED <<pc, child>> PROVE FleetInv' /\ HoldInv'
  BY <1>1, <1>4, FleetFrame, AliveFrame, OtherHolds DEF SameFleet
<1>5. ASSUME OthersStep PROVE FleetInv' /\ HoldInv'
  <2>1. ASSUME NEW content \in Contents, ConfigChanges(content) PROVE FleetInv' /\ HoldInv'
    BY <1>4, <2>1, OtherFleet DEF ConfigChanges, localVars
  <2>2. ASSUME NEW p \in 1 .. Len(procs), ProcessStep(p) \/ ReaderStep(p)
        PROVE  FleetInv' /\ HoldInv'
    <3>1. UNCHANGED <<pc, child>>
      BY <2>2 DEF ProcessStep, ReaderStep, Answers, Crashes, Deliver, ReaderEnds, ReaderDies,
                  localVars
    <3>2. CASE Crashes(p)
      BY <1>1, <3>2, CrashFleet
    <3>3. CASE (\E m \in procs[p].in : Answers(p, m)) \/ ReaderStep(p)
      BY <1>4, <3>1, <3>3, OtherFleet
    <3> QED BY <2>2, <3>2, <3>3 DEF ProcessStep
  <2>3. ASSUME NEW k \in 1 .. Len(objects), DrainStep(k) PROVE FleetInv' /\ HoldInv'
    <3>1. UNCHANGED <<pc, child, active>>
      BY <2>3 DEF DrainStep, DrainEnds, DrainCloses, configVars, localVars
    <3>2. FleetInv' /\ \A j \in 1 .. Len(objects) : Alive(j)' => Alive(j)
      BY <1>1, <2>3, DrainFleet, Closers, CloseFleet DEF DrainStep
    <3> QED BY <1>1, <3>1, <3>2, OtherHolds
  <2> QED BY <1>5, <2>1, <2>2, <2>3 DEF OthersStep
<1>6. ASSUME Exit PROVE FleetInv' /\ HoldInv'
  <2>1. HoldInv'
    BY <1>6 DEF Exit, Busy, HoldInv, Holding, Steps
  <2>2. CASE active # 0
    BY <1>1, <1>6, <2>1, <2>2, Closers, CloseFleet
  <2>3. CASE active = 0
    BY <1>1, <1>6, <2>1, <2>3, FleetFrame DEF Exit, SameFleet, SameObjects, SameProcs
  <2> QED BY <2>2, <2>3
<1>7. ASSUME UNCHANGED vars PROVE FleetInv' /\ HoldInv'
  BY <1>4, <1>7, OtherFleet DEF vars, localVars
<1> QED BY <1>2, <1>3, <1>5, <1>6, <1>7 DEF Next

LEMMA OrphanNext ==
    ASSUME AnswerInv, AnswerInv', ConfigInv, OrphanInv, MaxConcurrent = 1, [Next]_vars
    PROVE  OrphanInv'
BY SingleNext, FleetNext DEF OrphanInv

LEMMA OrphanInit == Init => OrphanInv
<1> SUFFICES ASSUME Init PROVE OrphanInv
  OBVIOUS
<1>1. procs = << >> /\ active = 0 /\ \A c \in Calls : pc[c] = "idle"
  BY DEF Init
<1>2. BusyCalls = {}
  BY <1>1 DEF BusyCalls, Busy, Steps
<1> QED BY <1>1, <1>2, FS_EmptySet DEF OrphanInv, SingleInv, FleetInv, NoOrphans, HoldInv, Holding

-----------------------------------------------------------------------------
(* Theorems                                                                *)

\* In every reachable state of the provider runtime an exchange is registered
\* under an id of its own, what is in the pipes under that id is that exchange,
\* and a reload stamps a version only on what it read at that version or later.
THEOREM Invariance == Spec => [](AnswerInv /\ ConfigInv)
<1>1. Init => AnswerInv /\ ConfigInv
  BY TypeInit, ConfigInit
<1>2. AnswerInv /\ ConfigInv /\ [Next]_vars => (AnswerInv /\ ConfigInv)'
  BY NextStep
<1> QED BY <1>1, <1>2, PTL DEF Spec

\* Type correctness, with the table of pending calls: it holds exactly the
\* exchanges under way, whatever fails, is closed or is replaced meanwhile.
THEOREM TypeCorrect == Spec => []TypeOK
<1>1. AnswerInv /\ ConfigInv => TypeOK
  BY DEF AnswerInv
<1> QED BY <1>1, Invariance, PTL

\* No caller of ChildMcpProcess.call is handed the answer to another request,
\* however late answers come and whichever process of the object sent them.
THEOREM NoCrossTalkCorrect == Spec => []NoCrossTalk
<1>1. AnswerInv /\ ConfigInv => NoCrossTalk
  BY DEF AnswerInv, WaiterInv, NoCrossTalk
<1> QED BY <1>1, Invariance, PTL

\* When the mtime of the config file is the loaded one the active generation
\* is what the file says, however stats, reads and swaps of threads interleave.
THEOREM ActiveCorrect == Spec => []ActiveMatchesConfig
<1>1. AnswerInv /\ ConfigInv => ActiveMatchesConfig
  BY DEF ConfigInv
<1> QED BY <1>1, Invariance, PTL

\* In the stdio MCP server, where one operation works at a time, no child
\* process is left behind: what runs belongs to the active object or to one
\* that retire still drains, whatever fails and however often the config changes.
THEOREM NoOrphansCorrect == Spec => [](MaxConcurrent = 1 => NoOrphans)
<1> DEFINE Inv == AnswerInv /\ ConfigInv /\ (MaxConcurrent = 1 => OrphanInv)
<1>1. Init => Inv
  BY TypeInit, ConfigInit, OrphanInit
<1>2. Inv /\ [Next]_vars => Inv'
  BY NextStep, OrphanNext
<1>3. Inv => (MaxConcurrent = 1 => NoOrphans)
  BY DEF OrphanInv, FleetInv
<1> QED BY <1>1, <1>2, <1>3, PTL DEF Spec
=============================================================================
