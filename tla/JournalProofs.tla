---------------------------- MODULE JournalProofs ----------------------------
(***************************************************************************)
(* Proofs about ExecutionJournal, for any number of processes, threads,    *)
(* days and records.                                                       *)
(***************************************************************************)
EXTENDS ExecutionJournal, TLAPS

-----------------------------------------------------------------------------
(* The inductive invariant                                                 *)

\* Threads that may still append the record they hold.
Busy(t) == Home[t] \in alive /\ pc[t] # "idle"

\* No two records have the same hash, and what a thread holds is not written.
FreshInv ==
    /\ \A d \in Days : \A i \in 1 .. Len(file[d]) : file[d][i].id <= made
    /\ \A t \in Threads : pc[t] # "idle" => rec[t].id <= made
    /\ \A t, u \in Threads :
          pc[t] # "idle" /\ pc[u] # "idle" /\ rec[t].id = rec[u].id => t = u
    /\ \A t \in Threads, d \in Days : \A i \in 1 .. Len(file[d]) :
          Busy(t) => file[d][i].id # rec[t].id

\* The lock: one thread of a process appends, and it names the hash its process
\* remembers for that file.
LockInv ==
    /\ \A t, u \in Threads :
          pc[t] = "append" /\ pc[u] = "append" /\ Home[t] = Home[u] => t = u
    /\ \A t \in Threads :
          pc[t] = "append" /\ Home[t] \in alive /\ cache[Home[t]][rec[t].day] # NotRead
          => rec[t].previous = cache[Home[t]][rec[t].day]

\* Hashes a process remembers or is about to name are in the file.
Known(d, h) == h = Zeros \/ \E i \in Whole(d) : file[d][i].id = h
LinkInv ==
    /\ \A p \in Processes, d \in Days : cache[p][d] = NotRead \/ Known(d, cache[p][d])
    /\ \A t \in Threads : pc[t] = "append" => Known(rec[t].day, rec[t].previous)

\* The only returned record of a process in a file that no later one names is
\* the one the process remembers.
NamedInv ==
    \A d \in Days : \A i \in 1 .. Len(file[d]) :
        file[d][i].id \in returned =>
            \/ cache[file[d][i].by][d] = file[d][i].id
            \/ \E j \in i + 1 .. Len(file[d]) : file[d][j].previous = file[d][i].id

IInv ==
    /\ TypeOK
    /\ FreshInv
    /\ LockInv
    /\ LinkInv
    /\ NamedInv
    /\ ReturnedIsOnRecord
    /\ TamperEvident

-----------------------------------------------------------------------------
(* What an append does to the files                                        *)

piece(t, s) ==
    [id |-> rec[t].id, previous |-> rec[t].previous, by |-> Home[t], shape |-> s]

\* A thread that holds the lock of a living process gets some bytes written.
Writes(t, s) ==
    /\ pc[t] = "append"
    /\ Home[t] \in alive
    /\ Leaves(t, s)

LEMMA HeldTyped ==
    ASSUME TypeOK, NEW t \in Threads, pc[t] # "idle"
    PROVE  /\ rec[t] \in Held
           /\ rec[t].id \in Records /\ rec[t].day \in Days /\ rec[t].previous \in Links
BY DEF TypeOK, Held

LEMMA PieceTyped ==
    ASSUME TypeOK, NEW d \in Days, NEW i \in 1 .. Len(file[d])
    PROVE  /\ file[d][i] \in Piece
           /\ file[d][i].id \in Records /\ file[d][i].id \in Nat
           /\ file[d][i].by \in Processes
<1>1. file[d] \in Seq(Piece) BY DEF TypeOK
<1>2. file[d][i] \in Piece BY <1>1
<1> QED BY <1>2, BoundAssumption DEF Piece, Records

LEMMA Grows ==
    ASSUME TypeOK, NEW t \in Threads, NEW s \in Shapes, Writes(t, s)
    PROVE  /\ file' \in [Days -> Seq(Piece)]
           /\ piece(t, s) \in Piece
           /\ \A d \in Days : d # rec[t].day => file'[d] = file[d]
           /\ LET d == rec[t].day IN
              /\ d \in Days
              /\ Len(file[d]) \in Nat
              /\ Len(file'[d]) = Len(file[d]) + 1
              /\ \A i \in 1 .. Len(file[d]) : file'[d][i] = file[d][i]
              /\ file'[d][Len(file[d]) + 1] = piece(t, s)
           /\ \A d \in Days : \A i \in 1 .. Len(file'[d]) :
                 \/ i \in 1 .. Len(file[d]) /\ file'[d][i] = file[d][i]
                 \/ d = rec[t].day /\ i = Len(file[d]) + 1 /\ file'[d][i] = piece(t, s)
<1>1. rec[t] \in Held /\ rec[t].id \in Records /\ rec[t].day \in Days /\ rec[t].previous \in Links
  BY HeldTyped DEF Writes
<1>2. piece(t, s) \in Piece
  BY <1>1, HomeAssumption DEF piece, Piece
<1>3. file' = [file EXCEPT ![rec[t].day] = Append(@, piece(t, s))]
  BY DEF Writes, Leaves, piece
<1>4. file \in [Days -> Seq(Piece)]
  BY DEF TypeOK
<1> DEFINE e == rec[t].day
           n == Len(file[e])
<1>5. /\ file' \in [Days -> Seq(Piece)]
      /\ \A d \in Days : d # e => file'[d] = file[d]
      /\ file'[e] = Append(file[e], piece(t, s)) /\ file[e] \in Seq(Piece)
  BY <1>1, <1>2, <1>3, <1>4
<1> HIDE DEF e
<1>6. /\ n \in Nat /\ Len(file'[e]) = n + 1
      /\ \A i \in 1 .. n : file'[e][i] = file[e][i]
      /\ file'[e][n + 1] = piece(t, s)
  BY <1>2, <1>5
<1>7. ASSUME NEW d \in Days, NEW i \in 1 .. Len(file'[d])
      PROVE  \/ i \in 1 .. Len(file[d]) /\ file'[d][i] = file[d][i]
             \/ d = e /\ i = Len(file[d]) + 1 /\ file'[d][i] = piece(t, s)
  <2>1. CASE d # e BY <1>5, <2>1
  <2>2. CASE d = e
    <3>1. i \in 1 .. n \/ i = n + 1
      BY <1>6, <2>2
    <3> QED BY <1>6, <2>2, <3>1
  <2> QED BY <2>1, <2>2
<1> QED BY <1>1, <1>2, <1>5, <1>6, <1>7 DEF e

-----------------------------------------------------------------------------
(* Type correctness                                                        *)

LEMMA TypeInit == Init => TypeOK
BY LimitAssumption, BoundAssumption DEF Init, TypeOK

LEMMA TypeNext == TypeOK /\ [Next]_vars => TypeOK'
<1> SUFFICES ASSUME TypeOK, [Next]_vars PROVE TypeOK'
  OBVIOUS
<1> USE LimitAssumption, BoundAssumption, HomeAssumption, AbsentAssumption
<1>1. ASSUME NEW t \in Threads, NEW d \in Days, Keep(t, d) PROVE TypeOK'
  <2> DEFINE p == Home[t]
             kept == Append(trail[p], made + 1)
             held == [id |-> made + 1, day |-> d, previous |-> Zeros]
  <2>1. made + 1 \in Records /\ made' = made + 1 /\ made' \in 0 .. MaxRecords
    BY <1>1 DEF Keep, TypeOK, Records
  <2>2. held \in Held /\ held # NoRecord
    BY <2>1 DEF Held, Links
  <2>3. kept \in Seq(Records) /\ Len(kept) = Len(trail[p]) + 1 /\ Len(trail[p]) <= Limit
    BY <2>1 DEF TypeOK
  <2>4. Len(kept) > Limit => Tail(kept) \in Seq(Records) /\ Len(Tail(kept)) = Len(kept) - 1
    BY <2>3
  <2>5. trail' = [trail EXCEPT ![p] = IF Len(kept) > Limit THEN Tail(kept) ELSE kept]
    BY <1>1, <2>1 DEF Keep
  <2>6. trail' \in [Processes -> Seq(Records)] /\ \A q \in Processes : Len(trail'[q]) <= Limit
    BY <2>3, <2>4, <2>5 DEF TypeOK
  <2>7. rec' = [rec EXCEPT ![t] = held] /\ pc' = [pc EXCEPT ![t] = "sink"] /\ pc[t] = "idle"
    BY <1>1, <2>1 DEF Keep, Goes
  <2> QED BY <1>1, <2>1, <2>2, <2>6, <2>7 DEF Keep, TypeOK, diskVars
<1>2. ASSUME NEW t \in Threads, Acquire(t) PROVE TypeOK'
  <2> DEFINE d == rec[t].day
  <2>1. rec[t] \in Held /\ rec[t].id \in Records /\ d \in Days /\ pc[t] = "sink"
    BY <1>2, HeldTyped DEF Acquire, Goes
  <2>2. ReadLastHash(file[d]) \subseteq Links
    <3>1. file[d] \in Seq(Piece) BY <2>1 DEF TypeOK
    <3>2. LastReadable(file[d]) => file[d][Len(file[d])] \in Piece
      BY <3>1 DEF LastReadable
    <3> QED BY <3>2 DEF ReadLastHash, Links, Piece
  <2> DEFINE Candidates == IF cache[Home[t]][d] = NotRead
                           THEN ReadLastHash(file[d]) ELSE {cache[Home[t]][d]}
  <2>3. cache[Home[t]][d] \in Links \cup {NotRead}
    BY <2>1 DEF TypeOK
  <2>4. Candidates \subseteq Links
    BY <2>2, <2>3
  <2>5. PICK h \in Candidates : rec' = [rec EXCEPT ![t].previous = h]
    BY <1>2 DEF Acquire
  <2> HIDE DEF Candidates
  <2>6. rec'[t] \in Held /\ rec'[t] # NoRecord
    BY <2>1, <2>4, <2>5 DEF TypeOK, Held
  <2> QED BY <1>2, <2>1, <2>5, <2>6 DEF Acquire, Goes, TypeOK, diskVars, memoryVars
<1>3. ASSUME NEW t \in Threads, AppendReturns(t) PROVE TypeOK'
  <2>1. Writes(t, "line") /\ pc[t] = "append"
    BY <1>3 DEF AppendReturns, Ends, Goes, Writes
  <2>2. file' \in [Days -> Seq(Piece)] /\ rec[t].id \in Records /\ rec[t].day \in Days
    BY <2>1, Grows, HeldTyped DEF Shapes
  <2> QED BY <1>3, <2>1, <2>2 DEF AppendReturns, Ends, Goes, TypeOK, Links
<1>4. ASSUME NEW t \in Threads, AppendRaises(t) PROVE TypeOK'
  <2>1. file' \in [Days -> Seq(Piece)]
    BY <1>4, Grows DEF AppendRaises, Ends, Goes, Writes, TypeOK
  <2> QED BY <1>4, <2>1 DEF AppendRaises, Ends, Goes, TypeOK, memoryVars
<1>5. ASSUME NEW p \in alive, Crash(p) PROVE TypeOK'
  <2>1. file' \in [Days -> Seq(Piece)]
    BY <1>5, Grows DEF Crash, Writes, TypeOK
  <2> QED BY <1>5, <2>1 DEF Crash, TypeOK, threadVars
<1>6. CASE UNCHANGED vars
  BY <1>6 DEF vars, diskVars, memoryVars, threadVars, TypeOK
<1> QED BY <1>1, <1>2, <1>3, <1>4, <1>5, <1>6 DEF Next

\* Every reachable state of the journal's writers is well typed; no trail of
\* AuditTrail exceeds its limit.
THEOREM TypeCorrect == Spec => []TypeOK
BY TypeInit, TypeNext, PTL DEF Spec

-----------------------------------------------------------------------------
(* The steps of the inductive invariant                                    *)

\* What each action does to the state the invariant speaks of.
LEMMA KeepStep ==
    ASSUME TypeOK, NEW t \in Threads, NEW d \in Days, Keep(t, d)
    PROVE  /\ pc[t] = "idle" /\ Home[t] \in alive
           /\ pc'[t] = "sink" /\ \A u \in Threads : u # t => pc'[u] = pc[u]
           /\ made \in Nat /\ made' = made + 1
           /\ rec'[t].id = made + 1
           /\ \A u \in Threads : u # t => rec'[u] = rec[u]
           /\ UNCHANGED <<file, returned, alive, cache>>
BY DEF Keep, Goes, TypeOK, diskVars

LEMMA AcquireStep ==
    ASSUME TypeOK, NEW t \in Threads, Acquire(t)
    PROVE  /\ pc[t] = "sink" /\ Home[t] \in alive
           /\ pc'[t] = "append" /\ \A u \in Threads : u # t => pc'[u] = pc[u]
           /\ \A u \in Threads : pc[u] = "append" => Home[u] # Home[t]
           /\ rec'[t].id = rec[t].id /\ rec'[t].day = rec[t].day
           /\ \A u \in Threads : u # t => rec'[u] = rec[u]
           /\ IF cache[Home[t]][rec[t].day] = NotRead
              THEN rec'[t].previous \in ReadLastHash(file[rec[t].day])
              ELSE rec'[t].previous = cache[Home[t]][rec[t].day]
           /\ UNCHANGED <<file, returned, alive, cache, made>>
<1>1. pc[t] = "sink" /\ rec[t] \in Held
  BY HeldTyped DEF Acquire, Goes
<1> DEFINE Candidates == IF cache[Home[t]][rec[t].day] = NotRead
                         THEN ReadLastHash(file[rec[t].day])
                         ELSE {cache[Home[t]][rec[t].day]}
<1>2. PICK h \in Candidates : rec' = [rec EXCEPT ![t].previous = h]
  BY DEF Acquire
<1>3. h \in Candidates
  BY <1>2
<1> HIDE DEF Candidates
<1>4. /\ rec'[t].id = rec[t].id /\ rec'[t].day = rec[t].day /\ rec'[t].previous = h
      /\ \A u \in Threads : u # t => rec'[u] = rec[u]
  BY <1>1, <1>2 DEF TypeOK, Held
<1> QED BY <1>1, <1>3, <1>4 DEF Candidates, Acquire, Goes, Locked, TypeOK, diskVars, memoryVars

LEMMA ReturnsStep ==
    ASSUME TypeOK, NEW t \in Threads, AppendReturns(t)
    PROVE  /\ Writes(t, "line") /\ "line" \in Shapes
           /\ pc'[t] = "idle" /\ \A u \in Threads : u # t => pc'[u] = pc[u]
           /\ \A u \in Threads : u # t => rec'[u] = rec[u]
           /\ Home[t] \in Processes /\ rec[t].day \in Days
           /\ \A p \in Processes, d \in Days :
                 cache'[p][d] = IF p = Home[t] /\ d = rec[t].day THEN rec[t].id ELSE cache[p][d]
           /\ returned' = returned \cup {rec[t].id}
           /\ UNCHANGED <<alive, made>>
<1>1. Home[t] \in Processes /\ rec[t].day \in Days
  BY HeldTyped, HomeAssumption DEF AppendReturns, Ends, Goes
<1> QED BY <1>1 DEF AppendReturns, Ends, Goes, Writes, Shapes, TypeOK

LEMMA RaisesStep ==
    ASSUME TypeOK, NEW t \in Threads, AppendRaises(t)
    PROVE  /\ pc[t] = "append"
           /\ UNCHANGED file \/ \E s \in Shapes : Writes(t, s)
           /\ pc'[t] = "idle" /\ \A u \in Threads : u # t => pc'[u] = pc[u]
           /\ \A u \in Threads : u # t => rec'[u] = rec[u]
           /\ UNCHANGED <<cache, returned, alive, made>>
BY DEF AppendRaises, Ends, Goes, Writes, TypeOK, memoryVars

LEMMA CrashStep ==
    ASSUME TypeOK, NEW p \in alive, Crash(p)
    PROVE  /\ UNCHANGED file \/ \E t \in Threads, s \in Shapes : Home[t] = p /\ Writes(t, s)
           /\ alive' = alive \ {p}
           /\ UNCHANGED <<pc, rec, cache, returned, made>>
BY DEF Crash, Writes, threadVars

LEMMA FreshNext ==
    ASSUME TypeOK, FreshInv, [Next]_vars
    PROVE  FreshInv'
<1> USE DEF FreshInv, Busy
<1>1. ASSUME NEW t \in Threads, NEW d \in Days, Keep(t, d) PROVE FreshInv'
  <2>1. \A u \in Threads : pc[u] # "idle" => rec[u].id \in Nat
    BY HeldTyped, BoundAssumption DEF Records
  <2>2. \A e \in Days : \A i \in 1 .. Len(file[e]) : file[e][i].id \in Nat
    BY PieceTyped
  <2>3. /\ UNCHANGED <<file, alive>> /\ made \in Nat /\ made' = made + 1
        /\ \A u \in Threads : u # t => pc'[u] = pc[u] /\ rec'[u] = rec[u]
        /\ rec'[t].id = made + 1
    BY <1>1, KeepStep
  <2>4. \A e \in Days : \A i \in 1 .. Len(file[e]) : file[e][i].id <= made' /\ file[e][i].id # made'
    <3> TAKE e \in Days
    <3> TAKE i \in 1 .. Len(file[e])
    <3>1. file[e][i].id <= made /\ file[e][i].id \in Nat
      BY <2>2
    <3> QED BY <2>3, <3>1
  <2>5. \A u \in Threads : u # t /\ pc'[u] # "idle" => rec'[u].id <= made' /\ rec'[u].id # made'
    BY <2>1, <2>3
  <2> QED BY <2>3, <2>4, <2>5
<1>2. ASSUME NEW t \in Threads, Acquire(t) PROVE FreshInv'
  BY <1>2, AcquireStep
<1>3. ASSUME NEW t \in Threads, NEW s \in Shapes, Writes(t, s), made' = made,
             \A u \in Threads : u # t /\ pc'[u] # "idle" => rec'[u] = rec[u] /\ pc[u] # "idle",
             alive' \subseteq alive,
             Home[t] \in alive' => pc'[t] = "idle",
             pc'[t] # "idle" => rec'[t] = rec[t]
      PROVE  FreshInv'
  <2>1. \A e \in Days : \A i \in 1 .. Len(file'[e]) :
           \/ i \in 1 .. Len(file[e]) /\ file'[e][i] = file[e][i]
           \/ file'[e][i] = piece(t, s)
    BY <1>3, Grows
  <2>2. \A e \in Days : \A i \in 1 .. Len(file'[e]) :
           \/ i \in 1 .. Len(file[e]) /\ file'[e][i] = file[e][i]
           \/ file'[e][i].id = rec[t].id
    BY <2>1 DEF piece
  <2>3. pc[t] = "append"
    BY <1>3 DEF Writes
  <2>4. \A e \in Days : \A i \in 1 .. Len(file'[e]) : file'[e][i].id <= made'
    BY <1>3, <2>2, <2>3
  <2>5. \A u \in Threads : pc'[u] # "idle" => pc[u] # "idle" /\ rec'[u] = rec[u]
    BY <1>3, <2>3
  <2>6. \A u \in Threads, e \in Days : \A i \in 1 .. Len(file'[e]) :
           pc'[u] # "idle" /\ Home[u] \in alive' => file'[e][i].id # rec'[u].id
    BY <1>3, <2>2, <2>3, <2>5
  <2> QED BY <1>3, <2>4, <2>5, <2>6
<1>4. ASSUME NEW t \in Threads, AppendReturns(t) PROVE FreshInv'
  BY <1>3, <1>4, ReturnsStep
<1>5. ASSUME NEW t \in Threads, AppendRaises(t) PROVE FreshInv'
  <2>1. CASE UNCHANGED file BY <1>5, <2>1, RaisesStep
  <2>2. ASSUME NEW s \in Shapes, Writes(t, s) PROVE FreshInv'
    BY <1>3, <1>5, <2>2, RaisesStep
  <2> QED BY <1>5, <2>1, <2>2, RaisesStep
<1>6. ASSUME NEW p \in alive, Crash(p) PROVE FreshInv'
  <2>1. CASE UNCHANGED file BY <1>6, <2>1, CrashStep
  <2>2. ASSUME NEW t \in Threads, NEW s \in Shapes, Home[t] = p, Writes(t, s) PROVE FreshInv'
    BY <1>3, <1>6, <2>2, CrashStep
  <2> QED BY <1>6, <2>1, <2>2, CrashStep
<1>7. CASE UNCHANGED vars
  BY <1>7 DEF vars, diskVars, memoryVars, threadVars
<1> QED BY <1>1, <1>2, <1>4, <1>5, <1>6, <1>7 DEF Next

LEMMA LockNext ==
    ASSUME TypeOK, LockInv, [Next]_vars
    PROVE  LockInv'
<1> USE DEF LockInv
<1>1. ASSUME NEW t \in Threads, NEW d \in Days, Keep(t, d) PROVE LockInv'
  BY <1>1, KeepStep
<1>2. ASSUME NEW t \in Threads, Acquire(t) PROVE LockInv'
  <2>1. \A u, v \in Threads : pc'[u] = "append" /\ pc'[v] = "append" /\ Home[u] = Home[v] => u = v
    BY <1>2, AcquireStep
  <2>2. ASSUME NEW u \in Threads, pc'[u] = "append", Home[u] \in alive',
               cache'[Home[u]][rec'[u].day] # NotRead
        PROVE  rec'[u].previous = cache'[Home[u]][rec'[u].day]
    BY <1>2, <2>2, AcquireStep
  <2> QED BY <2>1, <2>2
<1>3. ASSUME NEW t \in Threads, AppendReturns(t) PROVE LockInv'
  <2>1. pc[t] = "append" /\ rec[t].day \in Days /\ Home[t] \in Processes
    BY <1>3, ReturnsStep, HeldTyped, HomeAssumption DEF Writes
  <2>2. \A u \in Threads : pc'[u] = "append" => u # t /\ pc[u] = "append" /\ Home[u] # Home[t]
    BY <1>3, <2>1, ReturnsStep
  <2>3. \A u \in Threads : pc'[u] = "append" => rec[u].day \in Days /\ Home[u] \in Processes
    BY <2>2, HeldTyped, HomeAssumption
  <2> QED BY <1>3, <2>2, <2>3, ReturnsStep
<1>4. ASSUME NEW t \in Threads, AppendRaises(t) PROVE LockInv'
  BY <1>4, RaisesStep
<1>5. ASSUME NEW p \in alive, Crash(p) PROVE LockInv'
  BY <1>5, CrashStep
<1>6. CASE UNCHANGED vars
  BY <1>6 DEF vars, diskVars, memoryVars, threadVars
<1> QED BY <1>1, <1>2, <1>3, <1>4, <1>5, <1>6 DEF Next

\* Hashes that are in a file stay there, and so does the one being written.
LEMMA KnownStays ==
    ASSUME TypeOK, UNCHANGED file \/ \E t \in Threads, s \in Shapes : Writes(t, s),
           NEW d \in Days, NEW h, Known(d, h)
    PROVE  Known(d, h)'
<1>1. CASE UNCHANGED file
  BY <1>1 DEF Known, Whole
<1>2. ASSUME NEW t \in Threads, NEW s \in Shapes, Writes(t, s) PROVE Known(d, h)'
  <2>1. ASSUME NEW i \in Whole(d) PROVE i \in Whole(d)' /\ file'[d][i] = file[d][i]
    <3>1. i \in 1 .. Len(file[d])
      BY DEF Whole
    <3>2. CASE d # rec[t].day BY <1>2, <3>1, <3>2, Grows DEF Whole
    <3>3. CASE d = rec[t].day BY <1>2, <3>1, <3>3, Grows DEF Whole
    <3> QED BY <3>2, <3>3
  <2> QED BY <2>1 DEF Known
<1> QED BY <1>1, <1>2

LEMMA ReadKnown ==
    ASSUME TypeOK, NEW d \in Days, NEW h \in ReadLastHash(file[d])
    PROVE  Known(d, h)
<1>1. file[d] \in Seq(Piece)
  BY DEF TypeOK
<1> QED BY <1>1 DEF ReadLastHash, LastReadable, Known, Whole

LEMMA LinkNext ==
    ASSUME TypeOK, LinkInv, [Next]_vars
    PROVE  LinkInv'
<1> USE DEF LinkInv
<1>1. ASSUME NEW t \in Threads, NEW d \in Days, Keep(t, d) PROVE LinkInv'
  BY <1>1, KeepStep DEF Known, Whole
<1>2. ASSUME NEW t \in Threads, Acquire(t) PROVE LinkInv'
  <2>1. rec[t].day \in Days /\ Home[t] \in Processes
    BY <1>2, AcquireStep, HeldTyped, HomeAssumption
  <2>2. Known(rec'[t].day, rec'[t].previous)
    BY <1>2, <2>1, AcquireStep, ReadKnown
  <2>3. \A d, h : Known(d, h) => Known(d, h)'
    BY <1>2, AcquireStep DEF Known, Whole
  <2> QED BY <1>2, <2>2, <2>3, AcquireStep
<1>3. ASSUME NEW t \in Threads, AppendReturns(t) PROVE LinkInv'
  <2>1. Writes(t, "line") /\ "line" \in Shapes /\ pc[t] = "append"
    BY <1>3, ReturnsStep DEF Writes
  <2>2. \A d \in Days : \A h : Known(d, h) => Known(d, h)'
    BY <2>1, KnownStays
  <2>3. ASSUME NEW d \in Days, NEW h, d = rec[t].day, h = rec[t].id
        PROVE  Known(d, h)'
    <3>1. PICK k \in 1 .. Len(file'[d]) : file'[d][k] = piece(t, "line")
      <4>1. Len(file[d]) + 1 \in 1 .. Len(file'[d])
        BY <2>1, <2>3, Grows
      <4> QED BY <2>1, <2>3, <4>1, Grows
    <3>2. k \in Whole(d)' /\ file'[d][k].id = h
      BY <2>3, <3>1 DEF Whole, piece
    <3> QED BY <3>2 DEF Known
  <2>4. \A u \in Threads : pc'[u] = "append" => u # t /\ pc[u] = "append" /\ rec[u].day \in Days
    BY <1>3, <2>1, ReturnsStep, HeldTyped
  <2> QED BY <1>3, <2>2, <2>3, <2>4, ReturnsStep
<1>4. ASSUME NEW t \in Threads, AppendRaises(t) PROVE LinkInv'
  <2>1. \A d \in Days : \A h : Known(d, h) => Known(d, h)'
    BY <1>4, RaisesStep, KnownStays
  <2>2. \A u \in Threads : pc'[u] = "append" => u # t /\ pc[u] = "append" /\ rec[u].day \in Days
    BY <1>4, RaisesStep, HeldTyped
  <2> QED BY <1>4, <2>1, <2>2, RaisesStep
<1>5. ASSUME NEW p \in alive, Crash(p) PROVE LinkInv'
  <2>1. \A d \in Days : \A h : Known(d, h) => Known(d, h)'
    BY <1>5, CrashStep, KnownStays
  <2>2. \A u \in Threads : pc[u] = "append" => rec[u].day \in Days
    BY HeldTyped
  <2> QED BY <1>5, <2>1, <2>2, CrashStep
<1>6. CASE UNCHANGED vars
  BY <1>6 DEF vars, diskVars, memoryVars, threadVars, Known, Whole
<1> QED BY <1>1, <1>2, <1>3, <1>4, <1>5, <1>6 DEF Next

\* The record of a living call was not returned and is in no file.
LEMMA StillNew ==
    ASSUME FreshInv, ReturnedIsOnRecord, NEW t \in Threads, NEW s \in Shapes, Writes(t, s)
    PROVE  /\ rec[t].id \notin returned
           /\ \A d \in Days : \A i \in 1 .. Len(file[d]) : file[d][i].id # rec[t].id
BY DEF FreshInv, ReturnedIsOnRecord, Busy, Writes

\* The properties about what is on record survive an append, returned or not.
LEMMA WritesKeep ==
    ASSUME IInv, NEW t \in Threads, NEW s \in Shapes, Writes(t, s), returned' = returned,
           cache' = cache
    PROVE  NamedInv' /\ ReturnedIsOnRecord' /\ TamperEvident'
<1> DEFINE day == rec[t].day
           new == piece(t, s)
<1>1. /\ rec[t].id \notin returned /\ TypeOK
      /\ \A d \in Days : \A i \in 1 .. Len(file[d]) : file[d][i].id # rec[t].id
  BY StillNew DEF IInv
<1>2. \A d \in Days : \A i \in 1 .. Len(file'[d]) :
         \/ i \in 1 .. Len(file[d]) /\ file'[d][i] = file[d][i]
         \/ d = day /\ i = Len(file[d]) + 1 /\ file'[d][i] = new
  BY <1>1, Grows
<1>3. \A d \in Days : \A i \in 1 .. Len(file[d]) :
         i \in 1 .. Len(file'[d]) /\ file'[d][i] = file[d][i]
  <2> TAKE d \in Days
  <2> TAKE i \in 1 .. Len(file[d])
  <2>1. CASE d # day BY <1>1, <2>1, Grows
  <2>2. CASE d = day BY <1>1, <2>2, Grows
  <2> QED BY <2>1, <2>2
<1>4. new.id = rec[t].id
  BY DEF piece
<1> HIDE DEF day, new
<1>5. \A d \in Days : \A i \in 1 .. Len(file'[d]) :
         file'[d][i].id \in returned => i \in 1 .. Len(file[d]) /\ file'[d][i] = file[d][i]
  BY <1>1, <1>2, <1>4
<1>6. \A d \in Days : Len(file[d]) \in Nat /\ Len(file'[d]) \in Nat
  <2>1. file' \in [Days -> Seq(Piece)] /\ file \in [Days -> Seq(Piece)]
    BY <1>1, Grows DEF TypeOK
  <2> QED BY <2>1
<1>7. NamedInv'
  BY <1>3, <1>5, <1>6 DEF IInv, NamedInv
<1>8. ReturnedIsOnRecord'
  <2>1. \A n \in returned : \E d \in Days : \E i \in 1 .. Len(file'[d]) :
           file'[d][i].id = n /\ file'[d][i].shape = "line"
    BY <1>3 DEF IInv, ReturnedIsOnRecord
  <2>2. ASSUME NEW d \in Days, NEW i \in 1 .. Len(file'[d]),
               NEW e \in Days, NEW k \in 1 .. Len(file'[e]), file'[d][i].id = file'[e][k].id
        PROVE  d = e /\ i = k
    <3>1. CASE /\ i \in 1 .. Len(file[d]) /\ file'[d][i] = file[d][i]
               /\ k \in 1 .. Len(file[e]) /\ file'[e][k] = file[e][k]
      BY <2>2, <3>1 DEF IInv, ReturnedIsOnRecord
    <3>2. CASE file'[d][i] = new
      BY <1>1, <1>2, <1>4, <2>2, <3>2
    <3>3. CASE file'[e][k] = new
      BY <1>1, <1>2, <1>4, <2>2, <3>3
    <3> QED BY <1>2, <3>1, <3>2, <3>3
  <2> QED BY <2>1, <2>2 DEF ReturnedIsOnRecord
<1>9. TamperEvident'
  <2> SUFFICES ASSUME NEW d \in Days, NEW i \in 1 .. Len(file'[d]), NEW k \in 1 .. Len(file'[d]),
                      i < k, file'[d][i].by = file'[d][k].by,
                      file'[d][i].id \in returned, file'[d][k].id \in returned
               PROVE  \E j \in i + 1 .. k : file'[d][j].previous = file'[d][i].id
    BY DEF TamperEvident
  <2>1. /\ i \in 1 .. Len(file[d]) /\ file'[d][i] = file[d][i]
        /\ k \in 1 .. Len(file[d]) /\ file'[d][k] = file[d][k]
    BY <1>5
  <2>2. PICK j \in i + 1 .. k : file[d][j].previous = file[d][i].id
    BY <2>1 DEF IInv, TamperEvident
  <2> QED BY <1>3, <1>6, <2>1, <2>2
<1> QED BY <1>7, <1>8, <1>9

\* The same for an append whose hash is remembered and whose call returns.
LEMMA ReturnsKeep ==
    ASSUME IInv, NEW t \in Threads, AppendReturns(t)
    PROVE  NamedInv' /\ ReturnedIsOnRecord' /\ TamperEvident'
<1> DEFINE p == Home[t]
           day == rec[t].day
           new == piece(t, "line")
<1>1. /\ TypeOK /\ Writes(t, "line") /\ "line" \in Shapes /\ p \in Processes /\ day \in Days
      /\ returned' = returned \cup {rec[t].id}
      /\ \A q \in Processes, d \in Days :
            cache'[q][d] = IF q = p /\ d = day THEN rec[t].id ELSE cache[q][d]
  BY ReturnsStep DEF IInv
<1>2. \A d \in Days : \A i \in 1 .. Len(file[d]) : file[d][i].id # rec[t].id
  BY <1>1, StillNew DEF IInv
<1>3. \A d \in Days : \A i \in 1 .. Len(file'[d]) :
         \/ i \in 1 .. Len(file[d]) /\ file'[d][i] = file[d][i]
         \/ d = day /\ i = Len(file[d]) + 1 /\ file'[d][i] = new
  BY <1>1, Grows
<1>4. \A d \in Days : \A i \in 1 .. Len(file[d]) :
         i \in 1 .. Len(file'[d]) /\ file'[d][i] = file[d][i]
  <2> TAKE d \in Days
  <2> TAKE i \in 1 .. Len(file[d])
  <2>1. CASE d # day BY <1>1, <2>1, Grows
  <2>2. CASE d = day BY <1>1, <2>2, Grows
  <2> QED BY <2>1, <2>2
<1>5. /\ Len(file[day]) \in Nat /\ Len(file'[day]) = Len(file[day]) + 1
      /\ file'[day][Len(file[day]) + 1] = new
  BY <1>1, Grows
<1>6. \A d \in Days : Len(file[d]) \in Nat /\ Len(file'[d]) \in Nat
  <2>1. file' \in [Days -> Seq(Piece)] /\ file \in [Days -> Seq(Piece)]
    BY <1>1, Grows DEF TypeOK
  <2> QED BY <2>1
<1>7. new.id = rec[t].id /\ new.by = p /\ new.previous = rec[t].previous /\ new.shape = "line"
  BY DEF piece
\* What the process remembers for this file is what the new line names.
<1>8. \A i \in 1 .. Len(file[day]) :
         file[day][i].by = p /\ file[day][i].id \in returned =>
            \E j \in i + 1 .. Len(file'[day]) : file'[day][j].previous = file[day][i].id
  <2> SUFFICES ASSUME NEW i \in 1 .. Len(file[day]),
                      file[day][i].by = p, file[day][i].id \in returned
               PROVE  \E j \in i + 1 .. Len(file'[day]) : file'[day][j].previous = file[day][i].id
    OBVIOUS
  <2>1. CASE cache[p][day] = file[day][i].id
    <3>1. cache[p][day] # NotRead
      BY <1>1, <2>1, PieceTyped, AbsentAssumption
    <3>2. rec[t].previous = file[day][i].id
      BY <1>1, <2>1, <3>1 DEF IInv, LockInv, Writes
    <3> QED BY <1>5, <1>7, <3>2
  <2>2. CASE \E j \in i + 1 .. Len(file[day]) : file[day][j].previous = file[day][i].id
    BY <1>1, <1>4, <1>5, <2>2
  <2> QED BY <1>1, <2>1, <2>2 DEF IInv, NamedInv
<1> HIDE DEF p, day, new
<1>9. NamedInv'
  <2> SUFFICES ASSUME NEW d \in Days, NEW i \in 1 .. Len(file'[d]), file'[d][i].id \in returned'
               PROVE  \/ cache'[file'[d][i].by][d] = file'[d][i].id
                      \/ \E j \in i + 1 .. Len(file'[d]) : file'[d][j].previous = file'[d][i].id
    BY DEF NamedInv
  <2>1. CASE d = day /\ file'[d][i] = new
    BY <1>1, <1>7, <2>1
  <2>2. CASE i \in 1 .. Len(file[d]) /\ file'[d][i] = file[d][i]
    <3>1. file[d][i].id \in returned /\ file[d][i].by \in Processes
      BY <1>1, <1>2, <2>2, PieceTyped
    <3>2. CASE d = day /\ file[d][i].by = p
      BY <1>8, <2>2, <3>1, <3>2
    <3>3. CASE ~(d = day /\ file[d][i].by = p)
      <4>1. CASE cache[file[d][i].by][d] = file[d][i].id
        BY <1>1, <2>2, <3>1, <3>3, <4>1
      <4>2. CASE \E j \in i + 1 .. Len(file[d]) : file[d][j].previous = file[d][i].id
        <5>1. PICK j \in i + 1 .. Len(file[d]) : file[d][j].previous = file[d][i].id
          BY <4>2
        <5>2. j \in 1 .. Len(file[d])
          BY <1>6, <2>2, <5>1
        <5>3. file'[d][j] = file[d][j] /\ j \in i + 1 .. Len(file'[d])
          BY <1>4, <1>6, <2>2, <5>1, <5>2
        <5> QED BY <2>2, <5>1, <5>3
      <4> QED BY <2>2, <3>1, <4>1, <4>2 DEF IInv, NamedInv
    <3> QED BY <3>2, <3>3
  <2> QED BY <1>3, <2>1, <2>2
<1>10. ReturnedIsOnRecord'
  <2>1. ASSUME NEW n \in returned'
        PROVE  \E d \in Days : \E i \in 1 .. Len(file'[d]) :
                  file'[d][i].id = n /\ file'[d][i].shape = "line"
    <3>1. CASE n \in returned
      BY <1>4, <3>1 DEF IInv, ReturnedIsOnRecord
    <3>2. CASE n = rec[t].id
      <4>1. Len(file[day]) + 1 \in 1 .. Len(file'[day])
        BY <1>5
      <4> QED BY <1>1, <1>5, <1>7, <3>2, <4>1
    <3> QED BY <1>1, <2>1, <3>1, <3>2
  <2>2. ASSUME NEW d \in Days, NEW i \in 1 .. Len(file'[d]),
               NEW e \in Days, NEW k \in 1 .. Len(file'[e]), file'[d][i].id = file'[e][k].id
        PROVE  d = e /\ i = k
    <3>1. CASE /\ i \in 1 .. Len(file[d]) /\ file'[d][i] = file[d][i]
               /\ k \in 1 .. Len(file[e]) /\ file'[e][k] = file[e][k]
      BY <2>2, <3>1 DEF IInv, ReturnedIsOnRecord
    <3>2. CASE file'[d][i] = new
      BY <1>2, <1>3, <1>7, <2>2, <3>2
    <3>3. CASE file'[e][k] = new
      BY <1>2, <1>3, <1>7, <2>2, <3>3
    <3> QED BY <1>3, <3>1, <3>2, <3>3
  <2> QED BY <2>1, <2>2 DEF ReturnedIsOnRecord
<1>11. TamperEvident'
  <2> SUFFICES ASSUME NEW d \in Days, NEW i \in 1 .. Len(file'[d]), NEW k \in 1 .. Len(file'[d]),
                      i < k, file'[d][i].by = file'[d][k].by,
                      file'[d][i].id \in returned', file'[d][k].id \in returned'
               PROVE  \E j \in i + 1 .. k : file'[d][j].previous = file'[d][i].id
    BY DEF TamperEvident
  <2>1. i \in 1 .. Len(file[d]) /\ file'[d][i] = file[d][i]
    BY <1>3, <1>6
  <2>2. file[d][i].id \in returned
    BY <1>1, <1>2, <2>1
  <2>3. CASE k \in 1 .. Len(file[d]) /\ file'[d][k] = file[d][k]
    <3>1. file[d][k].id \in returned
      BY <1>1, <1>2, <2>3
    <3>2. PICK j \in i + 1 .. k : file[d][j].previous = file[d][i].id
      BY <2>1, <2>2, <2>3, <3>1 DEF IInv, TamperEvident
    <3> QED BY <1>4, <1>6, <2>1, <2>3, <3>2
  <2>4. CASE d = day /\ k = Len(file[d]) + 1 /\ file'[d][k] = new
    BY <1>5, <1>7, <1>8, <2>1, <2>2, <2>4
  <2> QED BY <1>3, <2>3, <2>4
<1> QED BY <1>9, <1>10, <1>11

\* A step that leaves the files, the memory of processes and the history alone.
LEMMA QuietKeeps ==
    ASSUME IInv, UNCHANGED <<file, cache, returned>>
    PROVE  NamedInv' /\ ReturnedIsOnRecord' /\ TamperEvident'
<1>1. NamedInv' BY DEF IInv, NamedInv
<1>2. ReturnedIsOnRecord' BY DEF IInv, ReturnedIsOnRecord
<1>3. TamperEvident' BY DEF IInv, TamperEvident
<1> QED BY <1>1, <1>2, <1>3

LEMMA InvInit == Init => IInv
<1> SUFFICES ASSUME Init PROVE IInv
  OBVIOUS
<1>1. TypeOK /\ \A d \in Days : Len(file[d]) = 0
  BY TypeInit DEF Init
<1>2. \A t \in Threads : pc[t] = "idle"
  BY DEF Init
<1>3. FreshInv /\ LockInv
  BY <1>1, <1>2 DEF FreshInv, Busy, LockInv
<1>4. LinkInv
  BY <1>2 DEF Init, LinkInv
<1>5. NamedInv /\ ReturnedIsOnRecord /\ TamperEvident
  BY <1>1 DEF Init, NamedInv, ReturnedIsOnRecord, TamperEvident
<1> QED BY <1>1, <1>3, <1>4, <1>5 DEF IInv

LEMMA InvNext == IInv /\ [Next]_vars => IInv'
<1> SUFFICES ASSUME IInv, [Next]_vars PROVE IInv'
  OBVIOUS
<1>1. TypeOK' /\ FreshInv' /\ LockInv' /\ LinkInv' /\ TypeOK
  BY TypeNext, FreshNext, LockNext, LinkNext DEF IInv
<1> DEFINE Kept == NamedInv' /\ ReturnedIsOnRecord' /\ TamperEvident'
<1>2. ASSUME NEW t \in Threads, NEW d \in Days, Keep(t, d) PROVE Kept
  BY <1>1, <1>2, KeepStep, QuietKeeps
<1>3. ASSUME NEW t \in Threads, Acquire(t) PROVE Kept
  BY <1>1, <1>3, AcquireStep, QuietKeeps
<1>4. ASSUME NEW t \in Threads, AppendReturns(t) PROVE Kept
  BY <1>4, ReturnsKeep
<1>5. ASSUME NEW t \in Threads, AppendRaises(t) PROVE Kept
  BY <1>1, <1>5, RaisesStep, QuietKeeps, WritesKeep
<1>6. ASSUME NEW p \in alive, Crash(p) PROVE Kept
  BY <1>1, <1>6, CrashStep, QuietKeeps, WritesKeep
<1>7. ASSUME UNCHANGED vars PROVE Kept
  BY <1>7, QuietKeeps DEF vars, diskVars, memoryVars
<1>8. Kept
  BY <1>2, <1>3, <1>4, <1>5, <1>6, <1>7 DEF Next
<1> QED BY <1>1, <1>8 DEF IInv

\* The strengthening of the properties below: locks, caches and files agree.
THEOREM Invariance == Spec => []IInv
BY InvInit, InvNext, PTL DEF Spec

\* ExecutionJournal: every returned record but the last one of its process in a
\* file is named by a later line, with any number of writers and failures.
THEOREM TamperCorrect == Spec => []TamperEvident
<1>1. IInv => TamperEvident
  BY DEF IInv
<1> QED BY <1>1, Invariance, PTL

\* ExecutionJournal.write: what returned is on record, nothing is there twice.
THEOREM RecordCorrect == Spec => []ReturnedIsOnRecord
<1>1. IInv => ReturnedIsOnRecord
  BY DEF IInv
<1> QED BY <1>1, Invariance, PTL

-----------------------------------------------------------------------------
(* The journal implements EvidenceForest                                   *)

Lines(d) ==
    {[hash |-> file[d][i].id, previous |-> file[d][i].previous] : i \in Whole(d)}

LEMMA ForestInitial == Init => Forest!ForestInit
<1> SUFFICES ASSUME Init PROVE Forest!ForestInit
  OBVIOUS
<1>1. \A d \in Days : Whole(d) = {}
  BY DEF Init, Whole
<1> QED BY <1>1 DEF Forest!ForestInit

LEMMA SameForest ==
    ASSUME \A d \in Days : Lines(d)' = Lines(d)
    PROVE  UNCHANGED [d \in Days |-> Lines(d)]
OBVIOUS

\* An append adds the entry it writes, or none if the line was cut.
LEMMA WritesEnter ==
    ASSUME IInv, NEW t \in Threads, NEW s \in Shapes, Writes(t, s)
    PROVE  \/ \E d \in Days, e \in Forest!Entry :
                  /\ \A f \in Days : \A g \in Lines(f) : g.hash # e.hash
                  /\ e.previous = Zeros \/ \E f \in Lines(d) : f.hash = e.previous
                  /\ \A f \in Days : Lines(f)' = IF f = d THEN Lines(f) \cup {e} ELSE Lines(f)
           \/ \A d \in Days : Lines(d)' = Lines(d)
<1>1. TypeOK /\ pc[t] = "append" /\ rec[t].day \in Days
  BY HeldTyped DEF IInv, Writes
<1>2. PICK day \in Days : day = rec[t].day
  BY <1>1
<1>3. PICK new : new = piece(t, s)
  OBVIOUS
<1>4. PICK n \in Nat : n = Len(file[day])
  BY <1>1, <1>2, Grows
<1>5. PICK entry : entry = [hash |-> rec[t].id, previous |-> rec[t].previous]
  OBVIOUS
<1>6. /\ Len(file'[day]) = n + 1
      /\ \A i \in 1 .. n : file'[day][i] = file[day][i]
      /\ file'[day][n + 1] = new
      /\ \A d \in Days : d # day => file'[d] = file[d]
  BY <1>1, <1>2, <1>3, <1>4, Grows
<1>7. /\ new.shape = s /\ entry = [hash |-> new.id, previous |-> new.previous]
      /\ entry \in Forest!Entry
      /\ entry.hash = rec[t].id /\ entry.previous = rec[t].previous
  BY <1>1, <1>3, <1>5, HeldTyped DEF piece, Forest!Entry, Links
<1>8. \A d \in Days : d # day => Lines(d)' = Lines(d)
  BY <1>6 DEF Lines, Whole
<1>9. \A i : i \in Whole(day)' <=> i \in Whole(day) \/ (i = n + 1 /\ s # "cut")
  BY <1>4, <1>6, <1>7 DEF Whole
<1>10. \A i \in Whole(day) : file'[day][i] = file[day][i]
  BY <1>4, <1>6 DEF Whole
<1>11. CASE s = "cut"
  <2>1. Lines(day)' = Lines(day)
    <3>1. Whole(day)' = Whole(day)
      BY <1>9, <1>11
    <3> QED BY <1>10, <3>1 DEF Lines
  <2> QED BY <1>8, <2>1
<1>12. CASE s # "cut"
  <2>1. Lines(day)' = Lines(day) \cup {entry}
    <3>1. \A x : x \in Lines(day)' <=> x \in Lines(day) \/ x = entry
      BY <1>6, <1>7, <1>9, <1>10, <1>12 DEF Lines
    <3> QED BY <3>1
  <2>2. \A f \in Days : \A g \in Lines(f) : g.hash # entry.hash
    BY <1>7, StillNew DEF IInv, Lines, Whole
  <2>3. entry.previous = Zeros \/ \E f \in Lines(day) : f.hash = entry.previous
    <3>1. Known(day, entry.previous)
      BY <1>1, <1>2, <1>7 DEF IInv, LinkInv
    <3>2. ASSUME NEW i \in Whole(day), file[day][i].id = entry.previous
          PROVE  \E f \in Lines(day) : f.hash = entry.previous
      <4>1. [hash |-> file[day][i].id, previous |-> file[day][i].previous] \in Lines(day)
        BY DEF Lines
      <4> QED BY <3>2, <4>1
    <3> QED BY <3>1, <3>2 DEF Known
  <2> QED BY <1>7, <1>8, <2>1, <2>2, <2>3
<1> QED BY <1>11, <1>12

LEMMA ForestStep == IInv /\ [Next]_vars => [Forest!ForestNext]_([d \in Days |-> Lines(d)])
<1> SUFFICES ASSUME IInv, [Next]_vars
             PROVE  Forest!ForestNext \/ UNCHANGED [d \in Days |-> Lines(d)]
  OBVIOUS
<1>1. TypeOK
  BY DEF IInv
<1>2. UNCHANGED file \/ \E t \in Threads, s \in Shapes : Writes(t, s)
  BY <1>1, KeepStep, AcquireStep, ReturnsStep, RaisesStep, CrashStep
  DEF Next, vars, diskVars
<1>3. CASE UNCHANGED file
  BY <1>3 DEF Lines, Whole
<1>4. ASSUME NEW t \in Threads, NEW s \in Shapes, Writes(t, s)
      PROVE  Forest!ForestNext \/ UNCHANGED [d \in Days |-> Lines(d)]
  <2>1. CASE \A d \in Days : Lines(d)' = Lines(d)
    BY <2>1, SameForest
  <2>2. ASSUME NEW d \in Days, NEW e \in Forest!Entry,
               \A f \in Days : \A g \in Lines(f) : g.hash # e.hash,
               e.previous = Zeros \/ \E f \in Lines(d) : f.hash = e.previous,
               \A f \in Days : Lines(f)' = IF f = d THEN Lines(f) \cup {e} ELSE Lines(f)
        PROVE  Forest!Enter(d, e)
    <3> DEFINE now == [f \in Days |-> Lines(f)]
    <3>1. e.hash \notin {g.hash : g \in UNION {now[f] : f \in Days}}
      BY <2>2
    <3>2. e.previous = Zeros \/ \E f \in now[d] : f.hash = e.previous
      BY <2>2
    <3>3. now' = [now EXCEPT ![d] = @ \cup {e}]
      BY <2>2
    <3> QED BY <3>1, <3>2, <3>3 DEF Forest!Enter, Forest!Used, Lines
  <2> QED BY <1>4, <2>1, <2>2, WritesEnter DEF Forest!ForestNext
<1> QED BY <1>2, <1>3, <1>4

\* The files of ExecutionJournal are forests of records that only grow.
THEOREM ForestCorrect == Spec => ForestRefined
<1>1. Init => Forest!ForestInit
  BY ForestInitial
<1>2. IInv /\ [Next]_vars => [Forest!ForestNext]_([d \in Days |->
          {[hash |-> file[d][i].id, previous |-> file[d][i].previous] : i \in Whole(d)}])
  BY ForestStep DEF Lines
<1> QED BY <1>1, <1>2, Invariance, PTL DEF Spec, ForestRefined, Forest!ForestSpec
=============================================================================
