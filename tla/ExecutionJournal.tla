--------------------------- MODULE ExecutionJournal ---------------------------
(***************************************************************************)
(* AuditTrail and ExecutionJournal of the runtime.  Every MCP server is a  *)
(* process of its own, and all of them append to the same file of the day. *)
(* A call of record() keeps the record in memory, under the trail's lock,  *)
(* and passes it to the journal, which under another lock finds the hash   *)
(* of the record before it and appends a line that names that hash.        *)
(*                                                                         *)
(* SHA-256 is taken to be injective: a record is its own hash.  Content,   *)
(* redaction and encoding are left out.  The append of one line is one     *)
(* step of the file system.                                                *)
(*                                                                         *)
(* An operator Action_Fault is a faulty variant of Action; no action uses  *)
(* one.                                                                    *)
(***************************************************************************)
EXTENDS Integers, Sequences

CONSTANTS
    Processes,   \* processes that use the directory, one after another or at once
    Threads,     \* their threads that call record()
    Home,        \* the process of each thread
    Days,        \* recordedAtUtc[:10], the name of the file
    Limit,       \* AuditTrail.limit
    NotRead,     \* _previous has no entry for a path
    Zeros,       \* "0" * 64
    NoRecord,    \* a thread is not in a call
    MaxRecords   \* bound: calls of record()

Records == 1 .. MaxRecords
Links == Records \cup {Zeros}

\* The record a thread holds, with the hash it is going to name.
Held == [id : Records, day : Days, previous : Links]

ASSUME HomeAssumption == Home \in [Threads -> Processes]
ASSUME LimitAssumption == Limit \in Nat \ {0}
ASSUME BoundAssumption == MaxRecords \in Nat
ASSUME AbsentAssumption ==
    Zeros \notin Nat /\ NotRead \notin Nat /\ Zeros # NotRead /\ NoRecord \notin Held

VARIABLES
    file,      \* what was appended to the file of each day
    alive,     \* processes that have not ended
    cache,     \* _previous of each process
    trail,     \* AuditTrail._records of each process
    pc,        \* where each thread is
    rec,       \* the record a thread holds, its day and its previousHash
    made,      \* records made so far
    returned   \* history: records whose record() returned

diskVars == <<file, returned>>
memoryVars == <<alive, cache, trail>>
threadVars == <<pc, rec>>
vars == <<diskVars, memoryVars, threadVars, made>>

\* What an append leaves behind: the line, the line without its newline, or
\* the beginning of it.
Shapes == {"line", "noNewline", "cut"}

Piece == [id : Records, previous : Links, by : Processes, shape : Shapes]

TypeOK ==
    /\ file \in [Days -> Seq(Piece)]
    /\ alive \subseteq Processes
    /\ cache \in [Processes -> [Days -> Links \cup {NotRead}]]
    /\ trail \in [Processes -> Seq(Records)]
    /\ \A p \in Processes : Len(trail[p]) <= Limit
    /\ pc \in [Threads -> {"idle", "sink", "append"}]
    /\ rec \in [Threads -> Held \cup {NoRecord}]
    /\ \A t \in Threads : pc[t] = "idle" <=> rec[t] = NoRecord
    /\ made \in 0 .. MaxRecords
    /\ returned \subseteq Records

Init ==
    /\ file = [d \in Days |-> << >>]
    /\ alive = Processes
    /\ cache = [p \in Processes |-> [d \in Days |-> NotRead]]
    /\ trail = [p \in Processes |-> << >>]
    /\ pc = [t \in Threads |-> "idle"]
    /\ rec = [t \in Threads |-> NoRecord]
    /\ made = 0
    /\ returned = {}

-----------------------------------------------------------------------------

Goes(t, from, to) ==
    /\ Home[t] \in alive
    /\ pc[t] = from
    /\ pc' = [pc EXCEPT ![t] = to]

\* The call is over.
Ends(t) ==
    /\ Goes(t, "append", "idle")
    /\ rec' = [rec EXCEPT ![t] = NoRecord]

\* AuditTrail.record up to its sink: the record gets its id and time, and the
\* oldest one is dropped from a full trail.  Two threads may take the two locks
\* in different orders, and clocks need not agree on the day.
Keep_OneMore(t, d) ==
    /\ Goes(t, "idle", "sink")
    /\ made < MaxRecords
    /\ made' = made + 1
    /\ rec' = [rec EXCEPT ![t] = [id |-> made', day |-> d, previous |-> Zeros]]
    /\ LET kept == Append(trail[Home[t]], made')
       IN  trail' = [trail EXCEPT ![Home[t]] = IF Len(kept) > Limit + 1 THEN Tail(kept) ELSE kept]
    /\ UNCHANGED <<diskVars, alive, cache>>

Keep(t, d) ==
    /\ Goes(t, "idle", "sink")
    /\ made < MaxRecords
    /\ made' = made + 1
    /\ rec' = [rec EXCEPT ![t] = [id |-> made', day |-> d, previous |-> Zeros]]
    /\ LET kept == Append(trail[Home[t]], made')
       IN  trail' = [trail EXCEPT ![Home[t]] = IF Len(kept) > Limit THEN Tail(kept) ELSE kept]
    /\ UNCHANGED <<diskVars, alive, cache>>

\* The last line can be parsed: it was written whole, and not behind a piece
\* that lacks its newline.
LastReadable(f) ==
    LET n == Len(f)
    IN  n > 0 /\ f[n].shape # "cut" /\ (n > 1 => f[n - 1].shape = "line")

\* _read_last_hash.  It also returns zeros when the file cannot be opened, when
\* the last line is beyond the 64 KiB it looks at, and when splitlines divides
\* the line at a separator inside of a string.
ReadLastHash(f) ==
    {Zeros} \cup IF LastReadable(f) THEN {f[Len(f)].id} ELSE {}

Locked(p) == \E t \in Threads : Home[t] = p /\ pc[t] = "append"

Acquire_NoLock(t) ==
    /\ Goes(t, "sink", "append")
    /\ \E h \in IF cache[Home[t]][rec[t].day] = NotRead
                THEN ReadLastHash(file[rec[t].day]) ELSE {cache[Home[t]][rec[t].day]} :
          rec' = [rec EXCEPT ![t].previous = h]
    /\ UNCHANGED <<diskVars, memoryVars, made>>

\* ExecutionJournal.write enters its lock and finds the hash to name.
Acquire(t) ==
    /\ Goes(t, "sink", "append")
    /\ ~Locked(Home[t])
    /\ \E h \in IF cache[Home[t]][rec[t].day] = NotRead
                THEN ReadLastHash(file[rec[t].day]) ELSE {cache[Home[t]][rec[t].day]} :
          rec' = [rec EXCEPT ![t].previous = h]
    /\ UNCHANGED <<diskVars, memoryVars, made>>

\* The bytes thread t gets into its file.
Leaves(t, shape) ==
    file' = [file EXCEPT ![rec[t].day] = Append(@,
        [id |-> rec[t].id, previous |-> rec[t].previous, by |-> Home[t], shape |-> shape])]

\* The line is appended, its hash remembered, the lock released.
AppendReturns(t) ==
    /\ Ends(t)
    /\ Leaves(t, "line")
    /\ cache' = [cache EXCEPT ![Home[t]][rec[t].day] = rec[t].id]
    /\ returned' = returned \cup {rec[t].id}
    /\ UNCHANGED <<alive, trail, made>>

AppendRaises_Remembered(t) ==
    /\ Ends(t)
    /\ UNCHANGED file \/ \E s \in Shapes : Leaves(t, s)
    /\ cache' = [cache EXCEPT ![Home[t]][rec[t].day] = rec[t].id]
    /\ UNCHANGED <<returned, alive, trail, made>>

AppendRaises_Swallowed(t) ==
    /\ Ends(t)
    /\ UNCHANGED file \/ \E s \in Shapes : Leaves(t, s)
    /\ returned' = returned \cup {rec[t].id}
    /\ UNCHANGED <<alive, cache, trail, made>>

\* Creating the directory, opening, writing or closing the file raises: nothing
\* or a part of the line was written, or all of it.  record() raises as well.
AppendRaises(t) ==
    /\ Ends(t)
    /\ UNCHANGED file \/ \E s \in Shapes : Leaves(t, s)
    /\ UNCHANGED <<returned, memoryVars, made>>

\* A process ends or dies, perhaps in the middle of an append.  Its memory is
\* not looked at again; another process stands for the next one.
Crash(p) ==
    /\ alive' = alive \ {p}
    /\ \/ UNCHANGED file
       \/ \E t \in Threads, s \in Shapes : Home[t] = p /\ pc[t] = "append" /\ Leaves(t, s)
    /\ UNCHANGED <<returned, cache, trail, threadVars, made>>

Next ==
    \/ \E t \in Threads, d \in Days : Keep(t, d)
    \/ \E t \in Threads : Acquire(t) \/ AppendReturns(t) \/ AppendRaises(t)
    \/ \E p \in alive : Crash(p)

Spec == Init /\ [][Next]_vars

-----------------------------------------------------------------------------

\* architecture.md: "The hash chain is tamper-evident evidence."  With several
\* processes the file is not one chain, but nothing can be taken out of it
\* unnoticed either: a record that write returned from is named by a later one
\* as soon as its process returns from another one in that file, whatever
\* other threads, processes and failures did in between.
TamperEvident ==
    \A d \in Days : \A i, k \in 1 .. Len(file[d]) :
        /\ i < k
        /\ file[d][i].by = file[d][k].by
        /\ {file[d][i].id, file[d][k].id} \subseteq returned
        => \E j \in i + 1 .. k : file[d][j].previous = file[d][i].id

\* A record whose record() returned is a line of exactly one file, and no record
\* is written twice.
ReturnedIsOnRecord ==
    /\ \A n \in returned : \E d \in Days : \E i \in 1 .. Len(file[d]) :
          file[d][i].id = n /\ file[d][i].shape = "line"
    /\ \A d, e \in Days : \A i \in 1 .. Len(file[d]), k \in 1 .. Len(file[e]) :
          file[d][i].id = file[e][k].id => d = e /\ i = k

\* Whatever the writers of a file do to each other, what their appends leave is
\* a forest: no previousHash names a record that failed, one of another day, or
\* one that is not there yet.
Whole(d) == {i \in 1 .. Len(file[d]) : file[d][i].shape # "cut"}
Forest == INSTANCE EvidenceForest WITH
    Hashes <- Records,
    NoHash <- Zeros,
    entries <- [d \in Days |->
                  {[hash |-> file[d][i].id, previous |-> file[d][i].previous] : i \in Whole(d)}]
ForestRefined == Forest!ForestSpec
=============================================================================
