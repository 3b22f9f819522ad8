---------------------------- MODULE InstallProofs ----------------------------
(***************************************************************************)
(* Proofs about InstallTransaction, for any directories, files, orders and *)
(* number of attempts.                                                     *)
(*                                                                         *)
(* That nothing is lost is not inductive: a path may be overwritten by     *)
(* what is staged only because the attempt has moved away what was there,  *)
(* and by what is in the rollback directory only because what is there was *)
(* staged.  PathInv says so of each path, for the records that a catch     *)
(* block has not restored yet.                                             *)
(***************************************************************************)
EXTENDS InstallTransaction, SequenceTheorems, TLAPS

Before == {"stage", "unregister", "stop", "unregisterLegacy", "backup"}
After == {"place", "writeState", "register", "finish"}

\* The records this attempt still answers for.
Held == IF pc = "restore" THEN next ELSE IF pc \in Catching THEN 0 ELSE Len(records)
Recorded(p) == \E i \in 1 .. Held : records[i] = p

\* What is recorded is what is wanted, in its order.
ProgressInv ==
    /\ Len(records) <= Len(Wanted)
    /\ \A i \in 1 .. Len(records) : records[i] = Wanted[i]
    /\ attempt > 0 /\ outcome = "running"
    /\ pc \in Before => next = Len(records) + 1
    /\ pc \in Before \ {"backup"} => Len(records) = 0
    /\ pc \in After => Len(records) = Len(Wanted)
    /\ pc \in {"stage", "place", "writeState", "register"} => action = "install"
    /\ pc = "place" => next > 0
    /\ pc = "finish" /\ action = "install" => mcp["bim-bridge"] = attempt

\* What is left of a path that was there before is in the rollback directory,
\* and what is there now is from this attempt.
PathInv(p) ==
    /\ Recorded(p) => rollback[attempt][p] = original[p] /\ disk[p] \in {Absent, attempt}
    /\ Recorded(p) /\ disk[p] = attempt => action = "install"
    /\ ~Recorded(p) =>
          /\ rollback[attempt][p] = Absent
          /\ \/ disk[p] = original[p]
             \/ /\ pc \in Catching /\ action = "install" /\ p \in Files
                /\ original[p] = Absent /\ disk[p] = attempt
    /\ pc \in Before /\ Recorded(p) => disk[p] = Absent

Put(p) ==
    /\ action = "install"
    /\ \/ p = StateFile /\ pc \in {"register", "finish"}
       \/ \E j \in 1 .. Len(PlaceOrder) : PlaceOrder[j] = p /\ (pc = "place" => j < next)

PlacedInv ==
    pc \in After =>
        \A i \in 1 .. Len(Wanted) :
            disk[Wanted[i]] = IF Put(Wanted[i]) THEN attempt ELSE Absent

\* Nothing is from an attempt that has not begun, and nothing an earlier
\* attempt left can be mistaken for something of this one.
ContentsInv ==
    /\ \A p \in Paths : disk[p] <= attempt /\ baseline[p] <= attempt
    /\ \A a \in 1 .. MaxAttempts, p \in Paths :
          rollback[a][p] <= attempt /\ (a > attempt => rollback[a][p] = Absent)
    /\ pc # "ended" => \A p \in Paths : baseline[p] < attempt

IInv ==
    /\ TypeOK
    /\ pc # "ended" => ProgressInv /\ \A p \in Paths : PathInv(p)
    /\ PlacedInv /\ ContentsInv
    /\ NothingLost /\ OnlyFreshFilesLeft /\ SucceededIsComplete

-----------------------------------------------------------------------------
(* The orders                                                              *)

Distinct(s) == \A i, j \in 1 .. Len(s) : s[i] = s[j] => i = j
Covers(s) == \A p \in ToSet(PlaceOrder) \cup {StateFile} : \E i \in 1 .. Len(s) : s[i] = p

\* An installation moves away every path that it places, and each path once.
LEMMA InstallOrders ==
    /\ BackupOrder \in Seq(Paths) /\ Distinct(BackupOrder) /\ Covers(BackupOrder)
    /\ (BackupOrder \o LegacyOrder) \in Seq(Paths) /\ Distinct(BackupOrder \o LegacyOrder)
    /\ Covers(BackupOrder \o LegacyOrder)
<1> DEFINE all == BackupOrder \o LegacyOrder
<1>1. BackupOrder \in Seq(Paths) /\ LegacyOrder \in Seq(Paths) /\ IsInjective(all)
  BY PathsAssumption
<1>2. /\ all \in Seq(Paths) /\ Len(all) = Len(BackupOrder) + Len(LegacyOrder)
      /\ \A i \in 1 .. Len(BackupOrder) + Len(LegacyOrder) :
            all[i] = IF i <= Len(BackupOrder) THEN BackupOrder[i]
                     ELSE LegacyOrder[i - Len(BackupOrder)]
  BY <1>1, ConcatProperties
<1> HIDE DEF all
<1>3. /\ Len(BackupOrder) \in Nat /\ DOMAIN BackupOrder = 1 .. Len(BackupOrder)
      /\ Len(LegacyOrder) \in Nat /\ DOMAIN all = 1 .. Len(all)
  BY <1>1, <1>2, LenProperties
<1>4. Distinct(all)
  BY <1>1, <1>3 DEF IsInjective, Distinct
<1>5. \A i \in 1 .. Len(BackupOrder) : i \in 1 .. Len(all) /\ all[i] = BackupOrder[i]
  BY <1>2, <1>3
<1>6. Distinct(BackupOrder)
  BY <1>4, <1>5 DEF Distinct
<1>7. Covers(BackupOrder)
  <2> SUFFICES ASSUME NEW p \in ToSet(PlaceOrder) \cup {StateFile}
               PROVE  \E i \in 1 .. Len(BackupOrder) : BackupOrder[i] = p
    BY DEF Covers
  <2>1. PlaceOrder \in Seq(ToSet(BackupOrder) \ {StateFile})
    BY PathsAssumption
  <2>2. DOMAIN PlaceOrder = 1 .. Len(PlaceOrder)
    BY <2>1, LenProperties
  <2>3. p \in ToSet(BackupOrder)
    BY <2>1, <2>2, ElementOfSeq, PathsAssumption DEF ToSet
  <2> QED
    BY <2>3, <1>3 DEF ToSet
<1>8. Covers(all)
  BY <1>5, <1>7 DEF Covers
<1> QED
  BY <1>1, <1>2, <1>4, <1>6, <1>7, <1>8 DEF all

\* The order in which things are put into place.
LEMMA PlaceOrderTyped ==
    /\ PlaceOrder \in Seq(Paths) /\ Len(PlaceOrder) \in Nat
    /\ \A j \in 1 .. Len(PlaceOrder) : PlaceOrder[j] \in Paths \ {StateFile}
    /\ ToSet(PlaceOrder) = {PlaceOrder[j] : j \in 1 .. Len(PlaceOrder)}
<1>1. PlaceOrder \in Seq(ToSet(BackupOrder) \ {StateFile})
  BY PathsAssumption
<1>2. Len(PlaceOrder) \in Nat /\ DOMAIN PlaceOrder = 1 .. Len(PlaceOrder)
  BY <1>1, LenProperties
<1>3. ToSet(BackupOrder) \subseteq Paths
  <2>1. BackupOrder \in Seq(Paths)
    BY PathsAssumption
  <2> QED
    BY <2>1, LenProperties, ElementOfSeq DEF ToSet
<1>4. PlaceOrder \in Seq(Paths)
  BY <1>1, <1>3, SeqMonotonic
<1> QED
  BY <1>1, <1>2, <1>3, <1>4, ElementOfSeq DEF ToSet

\* An uninstallation moves each path away once.
LEMMA UninstallOrder ==
    Append(OwnedOrder, StateFile) \in Seq(Paths) /\ Distinct(Append(OwnedOrder, StateFile))
<1>1. ToSet(BackupOrder) \subseteq Paths /\ StateFile \in Paths
  <2>1. BackupOrder \in Seq(Paths)
    BY PathsAssumption
  <2> QED
    BY <2>1, LenProperties, ElementOfSeq, PathsAssumption DEF ToSet, Paths
<1>2. OwnedOrder \in Seq(ToSet(BackupOrder) \ {StateFile}) /\ IsInjective(OwnedOrder)
  BY PathsAssumption
<1>3. OwnedOrder \in Seq(Paths) /\ \A i \in 1 .. Len(OwnedOrder) : OwnedOrder[i] # StateFile
  BY <1>1, <1>2, SeqMonotonic, ElementOfSeq
<1>4. Len(OwnedOrder) \in Nat /\ DOMAIN OwnedOrder = 1 .. Len(OwnedOrder)
  BY <1>2, LenProperties
<1>5. /\ Append(OwnedOrder, StateFile) \in Seq(Paths)
      /\ Len(Append(OwnedOrder, StateFile)) = Len(OwnedOrder) + 1
      /\ \A i \in 1 .. Len(OwnedOrder) : Append(OwnedOrder, StateFile)[i] = OwnedOrder[i]
      /\ Append(OwnedOrder, StateFile)[Len(OwnedOrder) + 1] = StateFile
  BY <1>1, <1>3, AppendProperties
<1> QED
  BY <1>2, <1>3, <1>4, <1>5 DEF Distinct, IsInjective

\* What an attempt wants to move away.
LEMMA WantedOrder ==
    /\ Wanted \in Seq(Paths) /\ Len(Wanted) \in Nat /\ Distinct(Wanted)
    /\ \A i \in 1 .. Len(Wanted) : Wanted[i] \in Paths
    /\ ToSet(Wanted) = {Wanted[i] : i \in 1 .. Len(Wanted)}
    /\ action # "uninstall" => Covers(Wanted)
<1>1. Wanted \in Seq(Paths) /\ Distinct(Wanted) /\ (action # "uninstall" => Covers(Wanted))
  BY InstallOrders, UninstallOrder DEF Wanted
<1> QED
  BY <1>1, LenProperties, ElementOfSeq DEF ToSet

LEMMA WantedLength == Len(Wanted) \in Nat
BY WantedOrder

LEMMA WantedLengthNext == (Len(Wanted) \in Nat)'
BY WantedLength, PTL

-----------------------------------------------------------------------------
(* The parts of the type invariant                                         *)

Sizes ==
    /\ attempt \in 0 .. MaxAttempts /\ MaxAttempts \in Nat \ {0}
    /\ Len(records) \in Nat
    /\ \A i \in 1 .. Len(records) : records[i] \in Paths
    /\ pc # "ended" => attempt \in 1 .. MaxAttempts /\ action \in {"install", "uninstall"}

LEMMA SizesTyped == IInv => Sizes
<1> SUFFICES ASSUME IInv PROVE Sizes
  OBVIOUS
<1>1. /\ actions \in Seq({"install", "uninstall"}) /\ records \in Seq(Paths)
      /\ attempt \in 0 .. MaxAttempts
  BY DEF IInv, TypeOK
<1>2. pc # "ended" => attempt \in 1 .. MaxAttempts
  BY <1>1, AttemptsAssumption DEF IInv, ProgressInv
<1>3. pc # "ended" => action \in {"install", "uninstall"}
  BY <1>1, <1>2, ElementOfSeq DEF attempt, action
<1> QED
  BY <1>1, <1>2, <1>3, LenProperties, ElementOfSeq, AttemptsAssumption DEF Sizes

\* A step that begins no attempt keeps what is wanted.
LEMMA SameAttempt ==
    UNCHANGED <<actions, migrate>> => attempt' = attempt /\ action' = action /\ Wanted' = Wanted
BY DEF attempt, action, Wanted

\* The variables whose type does not depend on another one.
Locals ==
    /\ pc \in {"ended", "finish"} \cup Trying \cup Catching
    /\ migrate \in BOOLEAN
    /\ mcp \in [Servers -> Contents] /\ previousMcp \in [Servers -> Contents]
    /\ outcome \in Outcomes
Attempts == actions \in Seq({"install", "uninstall"}) /\ attempt \in 0 .. MaxAttempts
Disks ==
    /\ disk \in [Paths -> Contents] /\ original \in [Paths -> Contents]
    /\ baseline \in [Paths -> Contents]
    /\ rollback \in [1 .. MaxAttempts -> [Paths -> Contents]]
Records == records \in Seq(Paths) /\ next \in Nat /\ (pc = "restore" => next <= Len(records))

LEMMA TypeParts == TypeOK <=> Locals /\ Attempts /\ Disks /\ Records
BY DEF TypeOK, Locals, Attempts, Disks, Records

\* The number of an attempt, and nothing at all, are contents.
LEMMA AttemptIsContent ==
    Sizes => Absent \in Contents /\ 0 \in Contents /\ attempt \in Contents
BY DEF Sizes, Absent, Contents

LEMMA LocalsNext == IInv /\ [Next]_vars => Locals'
<1> SUFFICES ASSUME IInv, [Next]_vars PROVE Locals'
  OBVIOUS
<1>1. Locals /\ Sizes
  BY SizesTyped, TypeParts DEF IInv
<1>2. "bim-bridge" \in Servers /\ "aec-codex-local" \in Servers
  BY DEF Servers
<1> USE <1>1, <1>2, AttemptIsContent
<1>3. ASSUME NEW act \in {"install", "uninstall"}, NEW mig \in BOOLEAN, Begin(act, mig)
      PROVE  Locals'
  BY <1>3 DEF Locals, Begin, Goes, Trying, Catching, Outcomes
<1>4. ASSUME Unregister \/ UnregisterLegacy \/ Register \/ RegisterNotFound PROVE Locals'
  BY <1>4 DEF Locals, Unregister, UnregisterLegacy, Register, RegisterNotFound, Goes, Trying,
     Catching, Outcomes
<1>5. ASSUME RestoreServers PROVE Locals'
  BY <1>5 DEF Locals, RestoreServers, RestoreMcp, Goes, Trying, Catching, Outcomes
<1>6. ASSUME \/ Stage \/ Decline \/ StopHosts \/ BackupPath \/ BackedUp \/ Place \/ Placed
             \/ WriteState \/ Finish \/ Throw \/ RestorePath \/ RestoreThrows \/ Restored
             \/ Discard \/ Crash \/ UNCHANGED vars
      PROVE Locals'
  BY <1>6 DEF Locals, Stage, Decline, StopHosts, BackupPath, BackedUp, Place, Placed, WriteState,
     Finish, Throw, RestorePath, RestoreThrows, Restored, Discard, Crash, vars, Goes, Trying,
     Catching, Outcomes
<1> QED
  BY <1>3, <1>4, <1>5, <1>6 DEF Next

LEMMA AttemptsNext == IInv /\ [Next]_vars => Attempts'
<1> SUFFICES ASSUME IInv, [Next]_vars PROVE Attempts'
  OBVIOUS
<1>1. Attempts
  BY TypeParts DEF IInv
<1>2. ASSUME NEW act \in {"install", "uninstall"}, NEW mig \in BOOLEAN, Begin(act, mig)
      PROVE  Attempts'
  BY <1>1, <1>2, AppendProperties, AttemptsAssumption DEF Attempts, Begin, attempt
<1>3. ASSUME UNCHANGED actions PROVE Attempts'
  BY <1>1, <1>3 DEF Attempts, attempt
<1> QED
  BY <1>2, <1>3 DEF Next, vars, Stage, Decline, Unregister, StopHosts, UnregisterLegacy, BackupPath,
     BackedUp, Place, Placed, WriteState, Register, RegisterNotFound, Finish, Throw, RestorePath,
     RestoreThrows, Restored, RestoreServers, RestoreMcp, Discard, Crash

LEMMA RecordsNext == IInv /\ [Next]_vars => Records'
<1> SUFFICES ASSUME IInv, [Next]_vars PROVE Records'
  OBVIOUS
<1>1. Records /\ Sizes
  BY SizesTyped, TypeParts DEF IInv
<1> USE <1>1
<1>2. ASSUME NEW act \in {"install", "uninstall"}, NEW mig \in BOOLEAN, Begin(act, mig)
      PROVE  Records'
  BY <1>2, EmptySeq DEF Records, Begin, Goes
<1>3. ASSUME BackupPath PROVE Records'
  <2>1. next \in 1 .. Len(Wanted) /\ Wanted[next] \in Paths
    BY <1>3, WantedOrder DEF BackupPath, IInv, ProgressInv, Before, Sizes
  <2> QED
    BY <1>3, <2>1, AppendProperties DEF BackupPath, Records
<1>4. ASSUME RegisterNotFound \/ Throw PROVE Records'
  BY <1>4 DEF RegisterNotFound, Throw, Records, Sizes
<1>5. ASSUME RestorePath PROVE Records'
  BY <1>5 DEF RestorePath, Records, Sizes
<1>6. ASSUME BackedUp \/ Place PROVE Records'
  BY <1>6 DEF BackedUp, Place, Records, Goes
<1>7. ASSUME \/ Stage \/ Decline \/ Unregister \/ StopHosts \/ UnregisterLegacy \/ Placed
             \/ WriteState \/ Register \/ Finish \/ RestoreThrows \/ Restored \/ RestoreServers
             \/ Discard \/ Crash \/ UNCHANGED vars
      PROVE Records'
  BY <1>7 DEF Records, Stage, Decline, Unregister, StopHosts, UnregisterLegacy, Placed, WriteState,
     Register, Finish, RestoreThrows, Restored, RestoreServers, RestoreMcp, Discard, Crash, vars,
     Goes
<1> QED
  BY <1>2, <1>3, <1>4, <1>5, <1>6, <1>7 DEF Next

LEMMA DisksNext == IInv /\ [Next]_vars => Disks'
<1> SUFFICES ASSUME IInv, [Next]_vars PROVE Disks'
  OBVIOUS
<1>1. Disks /\ Sizes
  BY SizesTyped, TypeParts DEF IInv
<1> USE <1>1, AttemptIsContent
<1>2. ASSUME BackupPath PROVE Disks'
  <2>1. next \in 1 .. Len(Wanted) /\ Wanted[next] \in Paths
    BY <1>2, WantedOrder DEF BackupPath, IInv, ProgressInv, Before, Sizes
  <2>2. attempt \in 1 .. MaxAttempts
    BY <1>2 DEF BackupPath, Sizes
  <2> QED
    BY <1>2, <2>1, <2>2 DEF BackupPath, Disks
<1>3. ASSUME Place PROVE Disks'
  BY <1>3 DEF Place, Disks
<1>4. ASSUME WriteState PROVE Disks'
  BY <1>4 DEF WriteState, Disks
<1>5. ASSUME Finish PROVE Disks'
  <2>1. PICK gone \in SUBSET (1 .. attempt) :
          rollback' = [a \in 1 .. MaxAttempts |->
                         IF a \in gone THEN [p \in Paths |-> Absent] ELSE rollback[a]]
    BY <1>5 DEF Finish
  <2>2. rollback' \in [1 .. MaxAttempts -> [Paths -> Contents]]
    BY <2>1 DEF Disks
  <2> QED
    BY <1>5, <2>2 DEF Finish, Disks
<1>6. ASSUME RestorePath PROVE Disks'
  <2>1. next \in 1 .. Len(records) /\ records[next] \in Paths /\ attempt \in 1 .. MaxAttempts
    BY <1>6, TypeParts DEF RestorePath, IInv, Records, Sizes
  <2>2. rollback[attempt][records[next]] \in Contents /\ disk[records[next]] \in Contents
    BY <2>1 DEF Disks
  <2> QED
    BY <1>6, <2>1, <2>2 DEF RestorePath, Disks
<1>7. ASSUME RestoreThrows PROVE Disks'
  BY <1>7 DEF RestoreThrows, Disks
<1>8. ASSUME Discard PROVE Disks'
  <2>1. [p \in Paths |-> Absent] \in [Paths -> Contents]
    OBVIOUS
  <2> QED
    BY <1>8, <2>1 DEF Discard, Disks
<1>9. ASSUME NEW act \in {"install", "uninstall"}, NEW mig \in BOOLEAN, Begin(act, mig)
      PROVE  Disks'
  BY <1>9 DEF Begin, Disks
<1>10. ASSUME \/ Stage \/ Decline \/ Unregister \/ StopHosts \/ UnregisterLegacy \/ BackedUp
              \/ Placed \/ Register \/ RegisterNotFound \/ Throw \/ Restored \/ RestoreServers
              \/ Crash \/ UNCHANGED vars
       PROVE Disks'
  BY <1>10 DEF Disks, Stage, Decline, Unregister, StopHosts, UnregisterLegacy, BackedUp, Placed,
     Register, RegisterNotFound, Throw, Restored, RestoreServers, RestoreMcp, Crash, vars
<1> QED
  BY <1>2, <1>3, <1>4, <1>5, <1>6, <1>7, <1>8, <1>9, <1>10 DEF Next

LEMMA TypeNext == IInv /\ [Next]_vars => TypeOK'
<1>1. Locals' /\ Attempts' /\ Disks' /\ Records' => TypeOK'
  BY TypeParts, PTL
<1> QED
  BY <1>1, LocalsNext, AttemptsNext, DisksNext, RecordsNext

-----------------------------------------------------------------------------
(* What is recorded                                                        *)

\* A new attempt starts without records.
LEMMA Begins ==
    ASSUME IInv, NEW act \in {"install", "uninstall"}, NEW mig \in BOOLEAN, Begin(act, mig)
    PROVE  /\ attempt' = attempt + 1 /\ action' = act
           /\ attempt \in Nat /\ attempt' \in 1 .. MaxAttempts
           /\ Len(records') = 0 /\ Held' = 0
           /\ pc' \in {"stage", "unregister"} /\ (pc' = "stage" => act = "install")
<1>1. actions \in Seq({"install", "uninstall"}) /\ attempt \in 0 .. MaxAttempts
  BY DEF IInv, TypeOK
<1>2. attempt' = attempt + 1 /\ action' = act
  BY <1>1, AppendProperties DEF Begin, attempt, action
<1>3. Len(records') = 0 /\ pc' \in {"stage", "unregister"} /\ (pc' = "stage" => act = "install")
  BY EmptySeq DEF Begin, Goes
<1> QED
  BY <1>1, <1>2, <1>3, AttemptsAssumption DEF Begin, Held, Catching

\* The next path to move away, and what becomes of the records.
LEMMA BacksUp ==
    ASSUME IInv, BackupPath
    PROVE  /\ Len(records) \in Nat /\ next = Len(records) + 1
           /\ next \in 1 .. Len(Wanted) /\ Wanted[next] \in Paths
           /\ Len(records') = next /\ records'[next] = Wanted[next]
           /\ \A i \in 1 .. Len(records) : records'[i] = records[i]
           /\ attempt \in 1 .. MaxAttempts
<1>1. /\ Len(records) \in Nat /\ next = Len(records) + 1 /\ attempt \in 1 .. MaxAttempts
      /\ records \in Seq(Paths)
  BY SizesTyped DEF IInv, TypeOK, Sizes, ProgressInv, Before, BackupPath
<1>2. next \in 1 .. Len(Wanted) /\ Wanted[next] \in Paths
  BY <1>1, WantedOrder DEF BackupPath
<1> QED
  BY <1>1, <1>2, AppendProperties DEF BackupPath

LEMMA ProgressNext == IInv /\ [Next]_vars /\ pc' # "ended" => ProgressInv'
<1> SUFFICES ASSUME IInv, [Next]_vars, pc' # "ended" PROVE ProgressInv'
  OBVIOUS
<1>1. Sizes
  BY SizesTyped
<1>2. pc # "ended" => ProgressInv
  BY DEF IInv
<1>3. ASSUME NEW act \in {"install", "uninstall"}, NEW mig \in BOOLEAN, Begin(act, mig)
      PROVE  ProgressInv'
  <2>1. Len(Wanted)' \in Nat
    BY WantedLengthNext
  <2> QED
    BY <1>3, <2>1, Begins DEF Begin, ProgressInv, Before, After
<1>4. ASSUME BackupPath PROVE ProgressInv'
  <2>1. attempt' = attempt /\ action' = action /\ Wanted' = Wanted /\ pc = "backup" /\ pc' = pc
    BY <1>4, SameAttempt DEF BackupPath
  <2>2. \A i \in 1 .. Len(records') : records'[i] = Wanted'[i]
    BY <1>2, <1>4, <2>1, BacksUp DEF ProgressInv
  <2> QED
    BY <1>2, <1>4, <2>1, <2>2, BacksUp DEF ProgressInv, BackupPath, Before, After
<1>5. ASSUME UNCHANGED <<actions, migrate, records, outcome>>, pc # "ended"
      PROVE  /\ Len(records') <= Len(Wanted')
             /\ \A i \in 1 .. Len(records') : records'[i] = Wanted'[i]
             /\ attempt' > 0 /\ outcome' = "running" /\ action' = action /\ attempt' = attempt
  BY <1>2, <1>5, SameAttempt DEF ProgressInv
<1>6. ASSUME Stage \/ Unregister \/ StopHosts \/ UnregisterLegacy PROVE ProgressInv'
  BY <1>2, <1>5, <1>6 DEF Stage, Unregister, StopHosts, UnregisterLegacy, Goes, ProgressInv, Before,
     After
<1>7. ASSUME BackedUp PROVE ProgressInv'
  <2>1. Len(records) = Len(Wanted) /\ Wanted' = Wanted
    BY <1>1, <1>2, <1>7, WantedOrder, SameAttempt DEF BackedUp, Goes, ProgressInv, Before, Sizes
  <2> QED
    BY <1>2, <1>5, <1>7, <2>1 DEF BackedUp, Goes, ProgressInv, Before, After
<1>8. ASSUME Place \/ Placed \/ WriteState PROVE ProgressInv'
  <2>1. next' \in Nat /\ (pc' = "place" => next' > 0)
    BY <1>2, <1>8, TypeNext DEF Place, Placed, WriteState, Goes, ProgressInv, IInv, TypeOK
  <2>2. Wanted' = Wanted
    BY <1>8, SameAttempt DEF Place, Placed, WriteState
  <2> QED
    BY <1>2, <1>5, <1>8, <2>1, <2>2 DEF Place, Placed, WriteState, Goes, ProgressInv, Before, After
<1>9. ASSUME Register PROVE ProgressInv'
  <2>1. mcp'["bim-bridge"] = attempt
    BY <1>9 DEF Register, IInv, TypeOK, Servers
  <2>2. Wanted' = Wanted
    BY <1>9, SameAttempt DEF Register
  <2> QED
    BY <1>2, <1>5, <1>9, <2>1, <2>2 DEF Register, Goes, ProgressInv, Before, After
<1>10. ASSUME RegisterNotFound \/ Throw \/ RestorePath \/ Restored \/ RestoreServers
       PROVE  ProgressInv'
  <2>1. pc # "ended" /\ pc' \in Catching /\ UNCHANGED <<actions, migrate, records, outcome>>
    BY <1>10 DEF RegisterNotFound, Throw, RestorePath, Restored, RestoreServers, RestoreMcp, Goes,
       Trying, Catching
  <2> QED
    BY <1>5, <2>1 DEF ProgressInv, Before, After, Catching
<1>11. ASSUME UNCHANGED vars PROVE ProgressInv'
  BY <1>2, <1>11, SameAttempt DEF vars, ProgressInv
<1>12. ~(Decline \/ Finish \/ RestoreThrows \/ Discard \/ Crash)
  BY DEF Decline, Finish, RestoreThrows, Discard, Crash, Goes
<1> QED
  BY <1>3, <1>4, <1>6, <1>7, <1>8, <1>9, <1>10, <1>11, <1>12 DEF Next

-----------------------------------------------------------------------------
(* What becomes of each path                                               *)

\* The records the attempt still answers for are paths, each once.
LEMMA RecordedOnce ==
    ASSUME IInv, pc # "ended"
    PROVE  /\ Held \in 0 .. Len(records) /\ Len(records) \in Nat
           /\ \A i, j \in 1 .. Len(records) : records[i] = records[j] => i = j
<1>1. Sizes /\ ProgressInv /\ next \in Nat /\ (pc = "restore" => next <= Len(records))
  BY SizesTyped DEF IInv, TypeOK
<1>2. \A i, j \in 1 .. Len(records) : records[i] = records[j] => i = j
  BY <1>1, WantedOrder DEF Sizes, ProgressInv, Distinct
<1> QED
  BY <1>1, <1>2 DEF Held, Sizes

LEMMA RecordedWanted ==
    ASSUME IInv, pc \in After, NEW i \in 1 .. Len(Wanted)
    PROVE  Recorded(Wanted[i])
BY RecordedOnce DEF IInv, ProgressInv, Recorded, Held, After, Catching

\* What an installation places it has moved away before.
LEMMA RecordedPlaced ==
    ASSUME IInv, pc \in After, action # "uninstall",
           NEW p \in ToSet(PlaceOrder) \cup {StateFile}
    PROVE  Recorded(p)
BY RecordedWanted, WantedOrder DEF Covers

Quiet ==
    /\ pc # "ended" /\ pc' # "ended"
    /\ UNCHANGED <<actions, migrate, disk, rollback, records, original, baseline, outcome>>
    /\ Held' = Held
    /\ pc' \in Before => pc \in Before
    /\ pc \in Catching => pc' \in Catching

LEMMA QuietSteps ==
    ASSUME IInv, \/ Stage \/ Unregister \/ StopHosts \/ UnregisterLegacy \/ BackedUp \/ Placed
                 \/ Register \/ RegisterNotFound \/ Throw \/ Restored \/ RestoreServers
    PROVE  Quiet
<1>1. ASSUME \/ Stage \/ Unregister \/ StopHosts \/ UnregisterLegacy \/ BackedUp \/ Placed
             \/ Register
      PROVE  Quiet
  BY <1>1 DEF Stage, Unregister, StopHosts, UnregisterLegacy, BackedUp, Placed, Register, Goes, Quiet,
     Held, Before, Catching
<1>2. ASSUME RegisterNotFound \/ Throw PROVE Quiet
  BY <1>2 DEF RegisterNotFound, Throw, Goes, Quiet, Held, Before, Catching, Trying
<1>3. ASSUME Restored PROVE Quiet
  BY <1>3 DEF Restored, Goes, Quiet, Held, Before, Catching
<1>4. ASSUME RestoreServers PROVE Quiet
  BY <1>4 DEF RestoreServers, RestoreMcp, Goes, Quiet, Held, Before, Catching
<1> QED
  BY <1>1, <1>2, <1>3, <1>4

LEMMA PathQuiet ==
    ASSUME IInv, Quiet, NEW p \in Paths
    PROVE  PathInv(p)'
<1>1. PathInv(p)
  BY DEF IInv, Quiet
<1>2. Recorded(p)' <=> Recorded(p)
  BY DEF Quiet, Recorded
<1> QED
  BY <1>1, <1>2, SameAttempt DEF PathInv, Quiet

LEMMA PathBegin ==
    ASSUME IInv, NEW act \in {"install", "uninstall"}, NEW mig \in BOOLEAN, Begin(act, mig),
           NEW p \in Paths
    PROVE  PathInv(p)'
<1>1. ~Recorded(p)'
  BY Begins DEF Recorded
<1>2. rollback'[attempt'][p] = Absent
  BY Begins DEF IInv, ContentsInv, Begin
<1> QED
  BY <1>1, <1>2 DEF PathInv, Begin

LEMMA PathBackup ==
    ASSUME IInv, BackupPath, NEW p \in Paths
    PROVE  PathInv(p)'
<1>1. PathInv(p) /\ pc = "backup" /\ pc' = pc /\ Held = Len(records) /\ Held' = next
  BY BacksUp DEF IInv, BackupPath, Held, Catching
<1>2. attempt' = attempt /\ action' = action
  BY SameAttempt DEF BackupPath
<1>3. CASE p = Wanted[next]
  <2>1. ~Recorded(p)
    <3> SUFFICES ASSUME NEW i \in 1 .. Len(records), records[i] = p PROVE FALSE
      BY <1>1 DEF Recorded
    <3>1. records[i] = Wanted[i] /\ i \in 1 .. Len(Wanted) /\ i # next
      BY BacksUp, <1>1 DEF IInv, ProgressInv
    <3> QED
      BY <1>3, <3>1, BacksUp, WantedOrder DEF Distinct
  <2>2. disk[p] = original[p]
    BY <1>1, <2>1 DEF PathInv, Catching
  <2>3. Recorded(p)'
    BY <1>1, <1>3, BacksUp DEF Recorded
  <2>4. rollback'[attempt][p] = disk[p] /\ disk'[p] = Absent
    BY <1>3, BacksUp DEF BackupPath, IInv, TypeOK
  <2>5. Absent # attempt
    BY BacksUp DEF Absent
  <2> QED
    BY <1>1, <1>2, <2>2, <2>3, <2>4, <2>5 DEF PathInv, BackupPath
<1>4. CASE p # Wanted[next]
  <2>1. Recorded(p)' <=> Recorded(p)
    BY <1>1, <1>4, BacksUp DEF Recorded
  <2>2. rollback'[attempt][p] = rollback[attempt][p] /\ disk'[p] = disk[p]
    BY <1>4, BacksUp DEF BackupPath, IInv, TypeOK
  <2> QED
    BY <1>1, <1>2, <2>1, <2>2 DEF PathInv, BackupPath
<1> QED
  BY <1>3, <1>4

LEMMA PathPlace ==
    ASSUME IInv, Place \/ WriteState, NEW p \in Paths
    PROVE  PathInv(p)'
<1>1. PathInv(p) /\ pc \in After /\ pc' \in After /\ action = "install" /\ (Place => next > 0)
  <2>1. pc \in {"place", "writeState"} /\ pc' \in {"place", "register"} /\ (Place => pc = "place")
    BY DEF Place, WriteState, Goes
  <2>2. ProgressInv /\ PathInv(p)
    BY <2>1 DEF IInv
  <2> QED
    BY <2>1, <2>2 DEF After, ProgressInv
<1>2. attempt' = attempt /\ action' = action /\ attempt \in 1 .. MaxAttempts
  BY SameAttempt, SizesTyped DEF Place, WriteState, Sizes, Goes
<1>3. Recorded(p)' <=> Recorded(p)
  BY DEF Place, WriteState, Goes, Recorded, Held, Catching
<1>4. disk'[p] = disk[p] \/ (Recorded(p) /\ disk'[p] = attempt)
  <2>1. CASE Place
    <3>1. next \in 1 .. Len(PlaceOrder)
      BY <2>1, PlaceOrderTyped DEF Place, IInv, TypeOK, ProgressInv
    <3>2. Recorded(PlaceOrder[next])
      BY <1>1, <2>1, <3>1, PlaceOrderTyped, RecordedPlaced DEF Place, After
    <3> QED
      BY <2>1, <3>2 DEF Place, IInv, TypeOK
  <2>2. CASE WriteState
    <3>1. Recorded(StateFile)
      BY <1>1, <2>2, RecordedPlaced DEF After
    <3> QED
      BY <2>2, <3>1 DEF WriteState, IInv, TypeOK
  <2> QED
    BY <2>1, <2>2
<1>5. pc' \notin Before /\ pc \notin Catching
  BY <1>1 DEF After, Before, Catching
<1> QED
  BY <1>1, <1>2, <1>3, <1>4, <1>5 DEF PathInv, Place, WriteState

LEMMA PathRestore ==
    ASSUME IInv, RestorePath, NEW p \in Paths
    PROVE  PathInv(p)'
<1>1. PathInv(p) /\ pc = "restore" /\ pc' = pc /\ Held = next /\ Held' = next - 1
  BY DEF IInv, RestorePath, Held
<1>2. attempt' = attempt /\ action' = action /\ attempt \in 1 .. MaxAttempts
  BY <1>1, SameAttempt, SizesTyped DEF RestorePath, Sizes
<1>3. next \in 1 .. Len(records) /\ Len(records) \in Nat
  BY <1>1, RecordedOnce DEF IInv, TypeOK, RestorePath
<1>4. pc \in Catching /\ pc \notin Before
  BY <1>1 DEF Catching, Before
<1>5. CASE p = records[next]
  <2>1. Recorded(p) /\ ~Recorded(p)'
    BY <1>1, <1>3, <1>5, RecordedOnce DEF Recorded, RestorePath
  <2>2. rollback'[attempt][p] = Absent
    BY <1>2, <1>5 DEF RestorePath, IInv, TypeOK
  <2>3. disk'[p] = IF InTheWay(p) THEN disk[p] ELSE rollback[attempt][p]
    BY <1>5 DEF RestorePath, IInv, TypeOK
  <2>4. CASE InTheWay(p)
    BY <1>1, <1>2, <1>4, <1>5, <2>1, <2>2, <2>3, <2>4 DEF PathInv, InTheWay, RestorePath
  <2>5. CASE ~InTheWay(p)
    BY <1>1, <1>2, <1>4, <2>1, <2>2, <2>3, <2>5 DEF PathInv, RestorePath
  <2> QED
    BY <2>4, <2>5
<1>6. CASE p # records[next]
  <2>1. Recorded(p)' <=> Recorded(p)
    BY <1>1, <1>3, <1>6 DEF Recorded, RestorePath
  <2>2. rollback'[attempt][p] = rollback[attempt][p] /\ disk'[p] = disk[p]
    BY <1>2, <1>6 DEF RestorePath, IInv, TypeOK
  <2> QED
    BY <1>1, <1>2, <1>4, <2>1, <2>2 DEF PathInv, RestorePath
<1> QED
  BY <1>5, <1>6

LEMMA PathNext == IInv /\ [Next]_vars /\ pc' # "ended" => \A p \in Paths : PathInv(p)'
<1> SUFFICES ASSUME IInv, [Next]_vars, pc' # "ended", NEW p \in Paths PROVE PathInv(p)'
  OBVIOUS
<1>1. ASSUME UNCHANGED vars PROVE PathInv(p)'
  <2>1. PathInv(p) /\ (Recorded(p)' <=> Recorded(p)) /\ pc # "ended"
    BY <1>1 DEF IInv, vars, Recorded, Held
  <2> QED
    BY <1>1, <2>1, SameAttempt DEF vars, PathInv
<1>2. ~(Decline \/ Finish \/ RestoreThrows \/ Discard \/ Crash)
  BY DEF Decline, Finish, RestoreThrows, Discard, Crash, Goes
<1> QED
  BY <1>1, <1>2, QuietSteps, PathQuiet, PathBegin, PathBackup, PathPlace, PathRestore DEF Next

-----------------------------------------------------------------------------
(* What has been put in place                                              *)

LEMMA PlacedBackedUp == ASSUME IInv, BackedUp PROVE PlacedInv'
<1>1. pc = "backup" /\ Wanted' = Wanted /\ attempt' = attempt /\ disk' = disk /\ next' = 1
      /\ action' = action
  BY SameAttempt DEF BackedUp, Goes
<1>2. Len(records) = Len(Wanted) /\ Held = Len(records)
  BY <1>1, SizesTyped, WantedOrder DEF IInv, ProgressInv, BackedUp, Before, Sizes, Held, Catching
<1>3. \A i \in 1 .. Len(Wanted) : Recorded(Wanted[i]) /\ disk[Wanted[i]] = Absent
  <2> SUFFICES ASSUME NEW i \in 1 .. Len(Wanted)
               PROVE  Recorded(Wanted[i]) /\ disk[Wanted[i]] = Absent
    OBVIOUS
  <2>1. Recorded(Wanted[i]) /\ Wanted[i] \in Paths
    BY <1>1, <1>2, WantedOrder DEF IInv, ProgressInv, Recorded
  <2> QED
    BY <1>1, <2>1 DEF IInv, PathInv, Before
<1>4. \A p : ~Put(p)'
  BY <1>1, PlaceOrderTyped DEF Put, BackedUp, Goes
<1> QED
  BY <1>1, <1>3, <1>4 DEF PlacedInv

LEMMA PlacedPlace == ASSUME IInv, Place PROVE PlacedInv'
<1>1. /\ pc = "place" /\ pc' = pc /\ pc \in After /\ Wanted' = Wanted /\ attempt' = attempt
      /\ action' = action /\ next' = next + 1 /\ action = "install"
  BY SameAttempt DEF Place, IInv, ProgressInv, After
<1>2. next \in 1 .. Len(PlaceOrder)
  BY <1>1, PlaceOrderTyped DEF Place, IInv, TypeOK, ProgressInv
<1> SUFFICES ASSUME NEW i \in 1 .. Len(Wanted)
             PROVE  disk'[Wanted[i]] = IF Put(Wanted[i])' THEN attempt ELSE Absent
  BY <1>1 DEF PlacedInv
<1>3. Put(Wanted[i])' <=> Put(Wanted[i]) \/ Wanted[i] = PlaceOrder[next]
  BY <1>1, <1>2 DEF Put
<1>4. disk'[Wanted[i]] = IF Wanted[i] = PlaceOrder[next] THEN attempt ELSE disk[Wanted[i]]
  BY <1>1, WantedOrder DEF Place, IInv, TypeOK
<1> QED
  BY <1>1, <1>3, <1>4 DEF IInv, PlacedInv

LEMMA PlacedPlaced == ASSUME IInv, Placed \/ Register PROVE PlacedInv'
<1>1. /\ pc \in After /\ pc # "finish" /\ Wanted' = Wanted /\ attempt' = attempt
      /\ action' = action /\ disk' = disk
  BY SameAttempt DEF Placed, Register, Goes, After
\* Every path of the order has been placed by then.
<1>2. \A p : Put(p)' <=> Put(p)
  <2>1. CASE Placed
    BY <1>1, <2>1, PlaceOrderTyped DEF Placed, Goes, Put, IInv, TypeOK
  <2>2. CASE Register
    BY <1>1, <2>2 DEF Register, Goes, Put
  <2> QED
    BY <2>1, <2>2
<1> QED
  BY <1>1, <1>2 DEF IInv, PlacedInv

LEMMA PlacedWriteState == ASSUME IInv, WriteState PROVE PlacedInv'
<1>1. /\ pc = "writeState" /\ pc' = "register" /\ pc \in After /\ Wanted' = Wanted
      /\ attempt' = attempt /\ action' = action /\ action = "install"
  BY SameAttempt DEF WriteState, Goes, IInv, ProgressInv, After
<1> SUFFICES ASSUME NEW i \in 1 .. Len(Wanted)
             PROVE  disk'[Wanted[i]] = IF Put(Wanted[i])' THEN attempt ELSE Absent
  BY <1>1 DEF PlacedInv
<1>2. Put(Wanted[i])' <=> Put(Wanted[i]) \/ Wanted[i] = StateFile
  BY <1>1 DEF Put
<1>3. disk'[Wanted[i]] = IF Wanted[i] = StateFile THEN attempt ELSE disk[Wanted[i]]
  BY WantedOrder DEF WriteState, IInv, TypeOK
<1> QED
  BY <1>1, <1>2, <1>3 DEF IInv, PlacedInv

LEMMA PlacedNext == IInv /\ [Next]_vars => PlacedInv'
<1> SUFFICES ASSUME IInv, [Next]_vars PROVE PlacedInv'
  OBVIOUS
<1>1. ASSUME UNCHANGED vars PROVE PlacedInv'
  <2>1. \A p : Put(p)' <=> Put(p)
    BY <1>1, SameAttempt DEF vars, Put
  <2> QED
    BY <1>1, <2>1, SameAttempt DEF vars, IInv, PlacedInv
<1>2. ASSUME pc' \notin After PROVE PlacedInv'
  BY <1>2 DEF PlacedInv
<1>3. ASSUME NEW act \in {"install", "uninstall"}, NEW mig \in BOOLEAN, Begin(act, mig)
      PROVE  pc' \notin After
  BY <1>3 DEF Begin, Goes, After
<1>4. ASSUME \/ Stage \/ Decline \/ Unregister \/ StopHosts \/ UnregisterLegacy \/ BackupPath
             \/ RegisterNotFound \/ Finish \/ Throw \/ RestorePath \/ RestoreThrows
             \/ Restored \/ RestoreServers \/ Discard \/ Crash
      PROVE  pc' \notin After
  BY <1>4 DEF Stage, Decline, Unregister, StopHosts, UnregisterLegacy, BackupPath, RegisterNotFound,
     Finish, Throw, RestorePath, RestoreThrows, Restored, RestoreServers, RestoreMcp, Discard,
     Crash, Goes, After
<1> QED
  BY <1>1, <1>2, <1>3, <1>4, PlacedBackedUp, PlacedPlace, PlacedPlaced, PlacedWriteState DEF Next

-----------------------------------------------------------------------------
(* What the contents are from                                              *)

ContentsOf(p) ==
    /\ disk[p] <= attempt /\ baseline[p] <= attempt
    /\ \A a \in 1 .. MaxAttempts :
          rollback[a][p] <= attempt /\ (a > attempt => rollback[a][p] = Absent)
    /\ pc # "ended" => baseline[p] < attempt

\* Paths only change to what an attempt puts there, what was there before, or
\* nothing.
LEMMA ContentsNext == IInv /\ [Next]_vars => ContentsInv'
<1> SUFFICES ASSUME IInv, [Next]_vars, NEW p \in Paths PROVE ContentsOf(p)'
  BY DEF ContentsInv, ContentsOf
<1>1. ContentsOf(p) /\ Sizes /\ Disks /\ Absent <= attempt
  BY SizesTyped, TypeParts DEF IInv, ContentsInv, ContentsOf, Absent, Sizes
<1>2. /\ disk[p] \in Int /\ baseline[p] \in Int /\ attempt \in Int
      /\ \A a \in 1 .. MaxAttempts : rollback[a][p] \in Int
  BY <1>1 DEF Disks, Sizes, Contents, Absent
<1>3. ASSUME NEW act \in {"install", "uninstall"}, NEW mig \in BOOLEAN, Begin(act, mig)
      PROVE  ContentsOf(p)'
  BY <1>1, <1>2, <1>3, Begins DEF ContentsOf, Begin
<1>4. ASSUME BackupPath PROVE ContentsOf(p)'
  <2>1. /\ attempt' = attempt /\ baseline' = baseline /\ pc # "ended"
        /\ disk'[p] \in {disk[p], Absent}
        /\ \A a \in 1 .. MaxAttempts :
              rollback'[a][p] = rollback[a][p] \/ (a = attempt /\ rollback'[a][p] = disk[p])
    BY <1>1, <1>4, SameAttempt, BacksUp DEF BackupPath, Disks
  <2> QED
    BY <1>1, <1>2, <2>1 DEF ContentsOf
<1>5. ASSUME Place \/ WriteState PROVE ContentsOf(p)'
  <2>1. /\ attempt' = attempt /\ baseline' = baseline /\ pc # "ended" /\ rollback' = rollback
        /\ disk'[p] \in {disk[p], attempt}
    BY <1>1, <1>5, SameAttempt DEF Place, WriteState, Goes, Disks
  <2> QED
    BY <1>1, <1>2, <2>1 DEF ContentsOf
<1>6. ASSUME Finish PROVE ContentsOf(p)'
  <2>1. /\ attempt' = attempt /\ baseline' = disk /\ disk' = disk /\ pc' = "ended"
        /\ \A a \in 1 .. MaxAttempts : rollback'[a][p] \in {rollback[a][p], Absent}
    BY <1>6, SameAttempt DEF Finish, Goes
  <2> QED
    BY <1>1, <1>2, <2>1 DEF ContentsOf
<1>7. ASSUME RestorePath PROVE ContentsOf(p)'
  <2>1. attempt \in 1 .. MaxAttempts
    BY <1>1, <1>7 DEF RestorePath, Sizes
  <2>2. /\ attempt' = attempt /\ baseline' = baseline /\ pc # "ended"
        /\ disk'[p] \in {disk[p], rollback[attempt][p]}
        /\ \A a \in 1 .. MaxAttempts : rollback'[a][p] \in {rollback[a][p], Absent}
    BY <1>1, <1>7, <2>1, SameAttempt DEF RestorePath, Disks
  <2> QED
    BY <1>1, <1>2, <2>1, <2>2 DEF ContentsOf
<1>8. ASSUME RestoreThrows PROVE ContentsOf(p)'
  <2>1. /\ attempt' = attempt /\ baseline' = baseline /\ pc' = "ended" /\ rollback' = rollback
        /\ disk'[p] \in {disk[p], Absent}
    BY <1>1, <1>8, SameAttempt DEF RestoreThrows, Goes, Disks
  <2> QED
    BY <1>1, <1>2, <2>1 DEF ContentsOf
<1>9. ASSUME Discard PROVE ContentsOf(p)'
  <2>1. /\ attempt' = attempt /\ baseline' = baseline /\ disk' = disk /\ pc' = "ended"
        /\ \A a \in 1 .. MaxAttempts : rollback'[a][p] \in {rollback[a][p], Absent}
    BY <1>1, <1>9, SameAttempt DEF Discard, Goes, Disks
  <2> QED
    BY <1>1, <1>2, <2>1 DEF ContentsOf
<1>10. ASSUME Quiet \/ Decline \/ Crash \/ UNCHANGED vars PROVE ContentsOf(p)'
  <2>1. /\ attempt' = attempt /\ baseline' = baseline /\ disk' = disk /\ rollback' = rollback
        /\ pc = "ended" => pc' = "ended"
    BY <1>10, SameAttempt DEF Quiet, Decline, Crash, vars, Goes
  <2> QED
    BY <1>1, <1>2, <2>1 DEF ContentsOf
<1> QED
  BY <1>3, <1>4, <1>5, <1>6, <1>7, <1>8, <1>9, <1>10, QuietSteps DEF Next

-----------------------------------------------------------------------------
(* Nothing is lost                                                         *)

Kept(p) ==
    \/ baseline[p] = Absent
    \/ disk[p] = baseline[p]
    \/ \E a \in 1 .. MaxAttempts : rollback[a][p] = baseline[p]

\* What is on a path this attempt has moved away is not what must be kept.
LEMMA Fresh ==
    ASSUME IInv, pc # "ended", NEW p \in Paths, Recorded(p), baseline[p] # Absent
    PROVE  disk[p] # baseline[p]
<1>1. disk[p] \in {Absent, attempt} /\ baseline[p] < attempt
  BY DEF IInv, PathInv, ContentsInv
<1>2. baseline[p] \in Int /\ attempt \in Int
  BY SizesTyped DEF IInv, TypeOK, Contents, Absent, Sizes
<1> QED
  BY <1>1, <1>2

LEMMA NothingLostNext == IInv /\ [Next]_vars => NothingLost'
<1> SUFFICES ASSUME IInv, [Next]_vars, NEW p \in Paths PROVE Kept(p)'
  BY DEF NothingLost, Kept
<1>1. Kept(p) /\ Disks
  BY TypeParts DEF IInv, NothingLost, Kept
<1>2. ASSUME BackupPath PROVE Kept(p)'
  <2>1. CASE p = Wanted[next]
    <3>1. ~Recorded(p) => rollback[attempt][p] = Absent
      BY <1>2 DEF IInv, PathInv, BackupPath
    <3>2. Held = Len(records)
      BY <1>2 DEF BackupPath, Held, Catching
    <3>3. ~Recorded(p)
      <4> SUFFICES ASSUME NEW i \in 1 .. Len(records), records[i] = p PROVE FALSE
        BY <3>2 DEF Recorded
      <4>1. records[i] = Wanted[i] /\ i \in 1 .. Len(Wanted) /\ i # next
        BY <1>2, BacksUp DEF IInv, ProgressInv, BackupPath
      <4> QED
        BY <1>2, <2>1, <4>1, BacksUp, WantedOrder DEF Distinct
    <3>4. /\ rollback'[attempt][p] = disk[p] /\ attempt \in 1 .. MaxAttempts
          /\ \A a \in 1 .. MaxAttempts : a # attempt => rollback'[a][p] = rollback[a][p]
      BY <1>1, <1>2, <2>1, BacksUp DEF BackupPath, Disks
    <3> QED
      BY <1>1, <1>2, <3>1, <3>3, <3>4 DEF Kept, BackupPath
  <2>2. CASE p # Wanted[next]
    <3>1. disk'[p] = disk[p] /\ \A a \in 1 .. MaxAttempts : rollback'[a][p] = rollback[a][p]
      BY <1>1, <1>2, <2>2 DEF BackupPath, Disks
    <3> QED
      BY <1>1, <1>2, <3>1 DEF Kept, BackupPath
  <2> QED
    BY <2>1, <2>2
<1>3. ASSUME Place \/ WriteState PROVE Kept(p)'
  <2>1. disk'[p] = disk[p] \/ Recorded(p)
    <3>1. CASE Place
      <4>1. next \in 1 .. Len(PlaceOrder) /\ pc \in After /\ action = "install"
        BY <3>1, PlaceOrderTyped DEF Place, IInv, TypeOK, ProgressInv, After
      <4>2. Recorded(PlaceOrder[next])
        BY <4>1, PlaceOrderTyped, RecordedPlaced
      <4> QED
        BY <1>1, <3>1, <4>2 DEF Place, Disks
    <3>2. CASE WriteState
      <4>1. pc \in After /\ action = "install"
        BY <3>2 DEF WriteState, Goes, IInv, ProgressInv, After
      <4>2. Recorded(StateFile)
        BY <4>1, RecordedPlaced
      <4> QED
        BY <1>1, <3>2, <4>2 DEF WriteState, Disks
    <3> QED
      BY <1>3, <3>1, <3>2
  <2>2. pc # "ended" /\ baseline' = baseline /\ rollback' = rollback
    BY <1>3 DEF Place, WriteState, Goes
  <2> QED
    BY <1>1, <2>1, <2>2, Fresh DEF Kept
<1>4. ASSUME Finish PROVE Kept(p)'
  BY <1>4 DEF Finish, Kept
<1>5. ASSUME RestorePath PROVE Kept(p)'
  <2>1. pc = "restore" /\ next \in 1 .. Len(records) /\ attempt \in 1 .. MaxAttempts
    BY <1>5, SizesTyped DEF RestorePath, IInv, TypeOK, Sizes
  <2>2. CASE p = records[next]
    <3>1. Recorded(p)
      BY <2>1, <2>2, RecordedOnce DEF Recorded, Held
    <3>2. /\ disk'[p] = IF InTheWay(p) THEN disk[p] ELSE rollback[attempt][p]
          /\ InTheWay(p) => rollback[attempt][p] = Absent
          /\ \A a \in 1 .. MaxAttempts : a # attempt => rollback'[a][p] = rollback[a][p]
      BY <1>1, <1>5, <2>1, <2>2 DEF RestorePath, Disks
    <3>3. baseline' = baseline
      BY <1>5 DEF RestorePath
    <3> QED
      BY <1>1, <2>1, <3>1, <3>2, <3>3, Fresh DEF Kept
  <2>3. CASE p # records[next]
    <3>1. /\ disk'[p] = disk[p] /\ baseline' = baseline
          /\ \A a \in 1 .. MaxAttempts : rollback'[a][p] = rollback[a][p]
      BY <1>1, <1>5, <2>1, <2>3 DEF RestorePath, Disks
    <3> QED
      BY <1>1, <3>1 DEF Kept
  <2> QED
    BY <2>2, <2>3
<1>6. ASSUME RestoreThrows PROVE Kept(p)'
  <2>1. pc = "restore" /\ next \in 1 .. Len(records) /\ baseline' = baseline /\ rollback' = rollback
    BY <1>6, SizesTyped DEF RestoreThrows, Goes, IInv, TypeOK, Sizes
  <2>2. disk'[p] = disk[p] \/ p = records[next]
    BY <1>1, <1>6 DEF RestoreThrows, Disks
  <2>3. p = records[next] => Recorded(p)
    BY <2>1, RecordedOnce DEF Recorded, Held
  <2> QED
    BY <1>1, <2>1, <2>2, <2>3, Fresh DEF Kept
<1>7. ASSUME Discard PROVE Kept(p)'
  <2>1. ~Recorded(p) /\ rollback[attempt][p] = Absent
    BY <1>7 DEF Discard, Goes, Recorded, Held, Catching, IInv, PathInv
  <2>2. /\ disk' = disk /\ baseline' = baseline
        /\ \A a \in 1 .. MaxAttempts : rollback'[a][p] = rollback[a][p]
    <3>1. ASSUME NEW a \in 1 .. MaxAttempts PROVE rollback'[a][p] = rollback[a][p]
      <4>1. \/ rollback' = rollback
            \/ rollback'[a] = IF a = attempt THEN [q \in Paths |-> Absent] ELSE rollback[a]
        BY <1>1, <1>7 DEF Discard, Disks
      <4> QED
        BY <2>1, <4>1
    <3> QED
      BY <1>7, <3>1 DEF Discard
  <2> QED
    BY <1>1, <2>2 DEF Kept
<1>8. ASSUME UNCHANGED <<disk, baseline, rollback>> PROVE Kept(p)'
  BY <1>1, <1>8 DEF Kept
<1> QED
  BY <1>2, <1>3, <1>4, <1>5, <1>6, <1>7, <1>8, QuietSteps
  DEF Next, Quiet, Begin, Decline, Crash, vars

-----------------------------------------------------------------------------
(* How an attempt ends                                                     *)

LEMMA FinishComplete == ASSUME IInv, Finish PROVE SucceededIsComplete'
<1>1. /\ pc = "finish" /\ pc \in After /\ disk' = disk /\ Wanted' = Wanted /\ attempt' = attempt
      /\ action' = action /\ mcp' = mcp
  BY SameAttempt DEF Finish, Goes, After
<1>2. \A p \in ToSet(Wanted) : disk[p] = IF Put(p) THEN attempt ELSE Absent
  BY <1>1, WantedOrder DEF IInv, PlacedInv
<1>3. CASE action = "install"
  <2>1. \A p : Put(p) <=> p \in ToSet(PlaceOrder) \cup {StateFile}
    BY <1>1, <1>3, PlaceOrderTyped DEF Put
  <2>2. \A p \in ToSet(PlaceOrder) \cup {StateFile} : p \in ToSet(Wanted)
    BY <1>3, WantedOrder DEF Covers
  <2>3. mcp["bim-bridge"] = attempt
    BY <1>1, <1>3 DEF IInv, ProgressInv
  <2> QED
    BY <1>1, <1>2, <1>3, <2>1, <2>2, <2>3 DEF SucceededIsComplete
<1>4. CASE action # "install"
  BY <1>1, <1>2, <1>4 DEF Put, SucceededIsComplete
<1> QED
  BY <1>3, <1>4

LEMMA DiscardClean == ASSUME IInv, Discard PROVE OnlyFreshFilesLeft'
<1>1. /\ pc = "discard" /\ disk' = disk /\ original' = original /\ attempt' = attempt
      /\ action' = action
  BY SameAttempt DEF Discard, Goes
<1>2. \A p \in Paths : ~Recorded(p)
  BY <1>1 DEF Recorded, Held, Catching
<1> QED
  BY <1>1, <1>2 DEF IInv, PathInv, OnlyFreshFilesLeft

LEMMA OutcomeNext == IInv /\ [Next]_vars => OnlyFreshFilesLeft' /\ SucceededIsComplete'
<1> SUFFICES ASSUME IInv, [Next]_vars PROVE OnlyFreshFilesLeft' /\ SucceededIsComplete'
  OBVIOUS
<1>1. ASSUME outcome' \notin {"rolledBack", "succeeded"}
      PROVE  OnlyFreshFilesLeft' /\ SucceededIsComplete'
  BY <1>1 DEF OnlyFreshFilesLeft, SucceededIsComplete
<1>2. ASSUME pc' # "ended" PROVE outcome' \notin {"rolledBack", "succeeded"}
  BY <1>2, ProgressNext DEF ProgressInv
<1>3. ASSUME Decline \/ RestoreThrows \/ Crash
      PROVE  outcome' \notin {"rolledBack", "succeeded"}
  BY <1>3 DEF Decline, RestoreThrows, Crash
<1>4. Finish => OnlyFreshFilesLeft'
  BY DEF Finish, OnlyFreshFilesLeft
<1>5. Discard => SucceededIsComplete'
  BY DEF Discard, SucceededIsComplete
<1>6. ASSUME UNCHANGED vars PROVE OnlyFreshFilesLeft' /\ SucceededIsComplete'
  BY <1>6, SameAttempt DEF vars, IInv, OnlyFreshFilesLeft, SucceededIsComplete
<1>7. ASSUME NEW act \in {"install", "uninstall"}, NEW mig \in BOOLEAN, Begin(act, mig)
      PROVE  pc' # "ended"
  BY <1>7 DEF Begin, Goes
<1>8. ASSUME BackupPath \/ Place \/ WriteState \/ RestorePath PROVE pc' # "ended"
  BY <1>8 DEF BackupPath, Place, WriteState, RestorePath, Goes
<1> QED
  BY <1>1, <1>2, <1>3, <1>4, <1>5, <1>6, <1>7, <1>8, FinishComplete, DiscardClean, QuietSteps
  DEF Next, Quiet

-----------------------------------------------------------------------------
(* The theorems                                                            *)

LEMMA InitInv == Init => IInv
<1> SUFFICES ASSUME Init PROVE IInv
  OBVIOUS
<1>1. /\ pc = "ended" /\ actions = << >> /\ records = << >> /\ next = 1 /\ outcome = "none"
      /\ disk \in [Paths -> {Absent, 0}] /\ original = disk /\ baseline = disk
      /\ rollback = [a \in 1 .. MaxAttempts |-> [p \in Paths |-> Absent]]
  BY DEF Init
<1>2. attempt = 0 /\ Attempts
  BY <1>1, EmptySeq, AttemptsAssumption DEF attempt, Attempts
<1>3. {Absent, 0} \subseteq Contents
  BY AttemptsAssumption DEF Absent, Contents
<1>4. Records
  BY <1>1, EmptySeq DEF Records
<1>5. Disks
  <2>1. disk \in [Paths -> Contents] /\ [p \in Paths |-> Absent] \in [Paths -> Contents]
    BY <1>1, <1>3
  <2> QED
    BY <1>1, <2>1 DEF Disks
<1>6. Locals
  <2>1. mcp \in [Servers -> Contents] /\ previousMcp = mcp /\ migrate = FALSE
    BY <1>3 DEF Init
  <2> QED
    BY <1>1, <2>1 DEF Locals, Outcomes
<1>7. TypeOK
  BY <1>2, <1>4, <1>5, <1>6, TypeParts
<1>8. ContentsInv
  <2>1. \A p \in Paths : disk[p] <= 0
    BY <1>1 DEF Absent
  <2> QED
    BY <1>1, <1>2, <2>1 DEF ContentsInv, Absent
<1> QED
  BY <1>1, <1>7, <1>8 DEF IInv, PlacedInv, After, NothingLost, OnlyFreshFilesLeft,
     SucceededIsComplete

\* The strengthened invariant holds in every state.
THEOREM Invariance == Spec => []IInv
<1>1. IInv /\ [Next]_vars => IInv'
  BY TypeNext, ProgressNext, PathNext, PlacedNext, ContentsNext, NothingLostNext, OutcomeNext
  DEF IInv
<1> QED
  BY <1>1, InitInv, PTL DEF Spec

\* Every variable keeps to its type, and the catch block never reads beyond the
\* records of the attempt.
THEOREM TypeCorrect == Spec => []TypeOK
<1>1. IInv => TypeOK
  BY DEF IInv
<1> QED
  BY <1>1, Invariance, PTL

\* Whichever step of Install-BimBridge.ps1 throws, and wherever the process
\* dies, in any number of attempts: what the last successful attempt left is in
\* its place or in a rollback directory.
THEOREM NothingLostCorrect == Spec => []NothingLost
<1>1. IInv => NothingLost
  BY DEF IInv
<1> QED
  BY <1>1, Invariance, PTL

\* An attempt that says it was rolled back leaves nothing behind but files it
\* wrote where there was none.
THEOREM RollbackCorrect == Spec => []OnlyFreshFilesLeft
<1>1. IInv => OnlyFreshFilesLeft
  BY DEF IInv
<1> QED
  BY <1>1, Invariance, PTL

\* An attempt that says it has succeeded has put in place, or taken away, all
\* that it is for, the registration included.
THEOREM SuccessCorrect == Spec => []SucceededIsComplete
<1>1. IInv => SucceededIsComplete
  BY DEF IInv
<1> QED
  BY <1>1, Invariance, PTL
=============================================================================
