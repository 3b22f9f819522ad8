------------------------- MODULE InstallTransaction -------------------------
(***************************************************************************)
(* The installation transaction of Install-BimBridge.ps1: the old files are *)
(* moved into a rollback directory, staged ones take their place, the       *)
(* install state is written and the MCP server is registered.  Any step may *)
(* throw, which starts the catch block, and the process may die anywhere.   *)
(*                                                                         *)
(* The content of a path is the number of the attempt that put it there;    *)
(* 0 is what the computer had before the first attempt.                     *)
(***************************************************************************)
EXTENDS Integers, Sequences, SequencesExt

CONSTANTS
    Directories,   \* paths that are directories
    Files,         \* paths that are files: Revit manifests, install-state.json
    StateFile,     \* install-state.json
    BackupOrder,   \* the paths of an installation, as Backup-Path is called
    LegacyOrder,   \* those of the AEC Codex installation, moved if migrating
    PlaceOrder,    \* the order in which staged items are moved into place
    OwnedOrder,    \* the paths the install state lists, in its order
    MaxAttempts    \* how often the script is run

Paths == Directories \cup Files

ASSUME PathsAssumption ==
    /\ Directories \cap Files = {}
    /\ StateFile \in Files
    /\ BackupOrder \in Seq(Paths) /\ LegacyOrder \in Seq(Paths)
    /\ IsInjective(BackupOrder \o LegacyOrder)
    /\ StateFile \in ToSet(BackupOrder)
    /\ PlaceOrder \in Seq(ToSet(BackupOrder) \ {StateFile}) /\ IsInjective(PlaceOrder)
    /\ OwnedOrder \in Seq(ToSet(BackupOrder) \ {StateFile}) /\ IsInjective(OwnedOrder)
ASSUME AttemptsAssumption == MaxAttempts \in Nat \ {0}

Absent == -1
Contents == Absent .. MaxAttempts
Servers == {"bim-bridge", "aec-codex-local"}

VARIABLES
    pc,          \* where the script is
    actions,     \* "install" or "uninstall" of every attempt so far
    migrate,     \* -MigrateLegacy
    disk,        \* content of every path
    rollback,    \* rollback[a][p]: what attempt a's rollback directory holds for p
    records,     \* the paths of $backupRecords, in order
    next,        \* index of the next path of a loop
    mcp,         \* content of the MCP registrations
    previousMcp, \* registrations read at the start of the script
    original,    \* history: disk at the start of the script
    baseline,    \* history: disk when an attempt last succeeded
    outcome      \* how the last attempt ended

vars == <<pc, actions, migrate, disk, rollback, records, next, mcp, previousMcp, original,
          baseline, outcome>>

attempt == Len(actions)
action == actions[attempt]

Trying == {"stage", "unregister", "stop", "unregisterLegacy", "backup", "place", "writeState",
           "register"}
Catching == {"restore", "restoreMcp", "restoreLegacy", "discard"}
Outcomes == {"none", "running", "declined", "succeeded", "rolledBack", "restoreFailed", "crashed"}

TypeOK ==
    /\ pc \in {"ended", "finish"} \cup Trying \cup Catching
    /\ actions \in Seq({"install", "uninstall"})
    /\ attempt \in 0 .. MaxAttempts
    /\ migrate \in BOOLEAN
    /\ disk \in [Paths -> Contents]
    /\ rollback \in [1 .. MaxAttempts -> [Paths -> Contents]]
    /\ records \in Seq(Paths)
    /\ next \in Nat
    /\ pc = "restore" => next <= Len(records)
    /\ mcp \in [Servers -> Contents]
    /\ previousMcp \in [Servers -> Contents]
    /\ original \in [Paths -> Contents]
    /\ baseline \in [Paths -> Contents]
    /\ outcome \in Outcomes

Init ==
    /\ pc = "ended"
    /\ actions = << >>
    /\ migrate = FALSE
    /\ disk \in [Paths -> {Absent, 0}]
    /\ rollback = [a \in 1 .. MaxAttempts |-> [p \in Paths |-> Absent]]
    /\ records = << >>
    /\ next = 1
    /\ mcp \in [Servers -> {Absent, 0}]
    /\ previousMcp = mcp
    /\ original = disk
    /\ baseline = disk
    /\ outcome = "none"

-----------------------------------------------------------------------------

Goes(from, to) == pc = from /\ pc' = to

\* The paths this attempt moves away.  An uninstallation takes the owned paths
\* the install state lists, and then the install state itself.
Wanted ==
    IF action = "uninstall" THEN Append(OwnedOrder, StateFile)
    ELSE IF migrate THEN BackupOrder \o LegacyOrder
    ELSE BackupOrder

Begin(act, mig) ==
    /\ Goes("ended", IF act = "install" THEN "stage" ELSE "unregister")
    /\ attempt < MaxAttempts
    /\ act = "uninstall" => disk[StateFile] # Absent /\ ~mig
    /\ actions' = Append(actions, act)
    /\ migrate' = mig
    /\ records' = << >>
    /\ next' = 1
    /\ previousMcp' = mcp
    /\ original' = disk
    /\ outcome' = "running"
    /\ UNCHANGED <<disk, rollback, mcp, baseline>>

\* Everything is copied below staging-<guid> first.
Stage ==
    /\ Goes("stage", "unregister")
    /\ UNCHANGED <<actions, migrate, disk, rollback, records, next, mcp, previousMcp,
                   original, baseline, outcome>>

\* ShouldProcess was answered with no, or -WhatIf was given.
Decline ==
    /\ Goes("stage", "ended")
    /\ outcome' = "declined"
    /\ UNCHANGED <<actions, migrate, disk, rollback, records, next, mcp, previousMcp, original,
                   baseline>>

Unregister ==
    /\ Goes("unregister", "stop")
    /\ mcp' = [mcp EXCEPT !["bim-bridge"] = Absent]
    /\ UNCHANGED <<actions, migrate, disk, rollback, records, next, previousMcp, original,
                   baseline, outcome>>

StopHosts ==
    /\ Goes("stop", IF migrate THEN "unregisterLegacy" ELSE "backup")
    /\ UNCHANGED <<actions, migrate, disk, rollback, records, next, mcp, previousMcp,
                   original, baseline, outcome>>

UnregisterLegacy ==
    /\ Goes("unregisterLegacy", "backup")
    /\ mcp' = [mcp EXCEPT !["aec-codex-local"] = Absent]
    /\ UNCHANGED <<actions, migrate, disk, rollback, records, next, previousMcp, original,
                   baseline, outcome>>

BackupPath_NotRecorded ==
    /\ pc = "backup"
    /\ next <= Len(Wanted)
    /\ LET p == Wanted[next] IN
        /\ rollback' = [rollback EXCEPT ![attempt][p] = disk[p]]
        /\ disk' = [disk EXCEPT ![p] = Absent]
        /\ records' = IF disk[p] = Absent THEN Append(records, p) ELSE records
    /\ next' = next + 1
    /\ UNCHANGED <<pc, actions, migrate, mcp, previousMcp, original,
                   baseline, outcome>>

\* Backup-Path moves what is there into the rollback directory and records it.
BackupPath ==
    /\ pc = "backup"
    /\ next <= Len(Wanted)
    /\ LET p == Wanted[next] IN
        /\ rollback' = [rollback EXCEPT ![attempt][p] = disk[p]]
        /\ disk' = [disk EXCEPT ![p] = Absent]
        /\ records' = Append(records, p)
    /\ next' = next + 1
    /\ UNCHANGED <<pc, actions, migrate, mcp, previousMcp, original,
                   baseline, outcome>>

BackedUp ==
    /\ Goes("backup", IF action = "install" THEN "place" ELSE "finish")
    /\ next > Len(Wanted)
    /\ next' = 1
    /\ UNCHANGED <<actions, migrate, disk, rollback, records, mcp, previousMcp, original,
                   baseline, outcome>>

Place ==
    /\ pc = "place"
    /\ next <= Len(PlaceOrder)
    /\ disk' = [disk EXCEPT ![PlaceOrder[next]] = attempt]
    /\ next' = next + 1
    /\ UNCHANGED <<pc, actions, migrate, rollback, records, mcp, previousMcp, original,
                   baseline, outcome>>

Placed_StateFirst ==
    /\ Goes("place", "writeState")
    /\ next <= Len(PlaceOrder)
    /\ UNCHANGED <<actions, migrate, disk, rollback, records, next, mcp, previousMcp,
                   original, baseline, outcome>>

Placed ==
    /\ Goes("place", "writeState")
    /\ next > Len(PlaceOrder)
    /\ UNCHANGED <<actions, migrate, disk, rollback, records, next, mcp, previousMcp,
                   original, baseline, outcome>>

\* Write-JsonAtomic replaces the file with one Move-Item -Force.
WriteState ==
    /\ Goes("writeState", "register")
    /\ disk' = [disk EXCEPT ![StateFile] = attempt]
    /\ UNCHANGED <<actions, migrate, rollback, records, next, mcp, previousMcp, original,
                   baseline, outcome>>

Register ==
    /\ Goes("register", "finish")
    /\ mcp' = [mcp EXCEPT !["bim-bridge"] = attempt]
    /\ UNCHANGED <<actions, migrate, disk, rollback, records, next, previousMcp, original,
                   baseline, outcome>>

\* Register-CodexMcp throws too when the new registration is not found.
RegisterNotFound ==
    /\ Goes("register", "restore")
    /\ mcp' = [mcp EXCEPT !["bim-bridge"] = attempt]
    /\ next' = Len(records)
    /\ UNCHANGED <<actions, migrate, disk, rollback, records, previousMcp, original,
                   baseline, outcome>>

\* The rollback directory is removed, as far as possible, and an installation
\* also those of earlier installations that are still below the state root.
Finish ==
    /\ Goes("finish", "ended")
    /\ \E gone \in SUBSET {a \in 1 .. attempt :
                            a = attempt \/ (action = "install" /\ actions[a] = "install")} :
        rollback' = [a \in 1 .. MaxAttempts |->
                        IF a \in gone THEN [p \in Paths |-> Absent] ELSE rollback[a]]
    /\ outcome' = "succeeded"
    /\ baseline' = disk
    /\ UNCHANGED <<actions, migrate, disk, records, next, mcp, previousMcp, original>>

Throw_KeepsIndex ==
    /\ pc \in Trying
    /\ pc' = "restore"
    /\ UNCHANGED <<actions, migrate, disk, rollback, records, next, mcp, previousMcp,
                   original, baseline, outcome>>

\* Any step of the try block may throw before it changed something.
Throw ==
    /\ pc \in Trying
    /\ pc' = "restore"
    /\ next' = Len(records)
    /\ UNCHANGED <<actions, migrate, disk, rollback, records, mcp, previousMcp, original,
                   baseline, outcome>>

-----------------------------------------------------------------------------
(* The catch block                                                         *)

\* Restore-Backups removes a directory that is in the way; a file stays.
InTheWay(p) == disk[p] # Absent /\ p \in Files

RestorePath_KeepsFresh ==
    /\ pc = "restore"
    /\ next > 0
    /\ LET p == records[next] IN
        /\ InTheWay(p) => rollback[attempt][p] = Absent
        /\ disk' = [disk EXCEPT ![p] = IF rollback[attempt][p] = Absent THEN @
                                      ELSE rollback[attempt][p]]
        /\ rollback' = [rollback EXCEPT ![attempt][p] = Absent]
    /\ next' = next - 1
    /\ UNCHANGED <<pc, actions, migrate, records, mcp, previousMcp, original, baseline, outcome>>

RestorePath ==
    /\ pc = "restore"
    /\ next > 0
    /\ LET p == records[next] IN
        /\ InTheWay(p) => rollback[attempt][p] = Absent
        /\ disk' = [disk EXCEPT ![p] = IF InTheWay(p) THEN @ ELSE rollback[attempt][p]]
        /\ rollback' = [rollback EXCEPT ![attempt][p] = Absent]
    /\ next' = next - 1
    /\ UNCHANGED <<pc, actions, migrate, records, mcp, previousMcp, original,
                   baseline, outcome>>

\* Move-Item finds a file in its way, or a directory cannot be removed or
\* moved: the exception leaves the catch block, the rest of it is skipped.
RestoreThrows ==
    /\ Goes("restore", "ended")
    /\ next > 0
    /\ LET p == records[next] IN
        /\ rollback[attempt][p] # Absent \/ (p \in Directories /\ disk[p] # Absent)
        /\ \/ disk' = [disk EXCEPT ![p] = IF p \in Files THEN @ ELSE Absent]
           \/ UNCHANGED disk
    /\ outcome' = "restoreFailed"
    /\ UNCHANGED <<actions, migrate, rollback, records, next, mcp, previousMcp,
                   original, baseline>>

Restored ==
    /\ Goes("restore", "restoreMcp")
    /\ next = 0
    /\ UNCHANGED <<actions, migrate, disk, rollback, records, next, mcp, previousMcp,
                   original, baseline, outcome>>

\* Restore-CodexMcp removes the registration and adds the previous one again.
\* Its failures are swallowed.
RestoreMcp(from, to, s) ==
    /\ Goes(from, to)
    /\ \E c \in {mcp[s], Absent, previousMcp[s]} : mcp' = [mcp EXCEPT ![s] = c]
    /\ UNCHANGED <<actions, migrate, disk, rollback, records, next, previousMcp, original,
                   baseline, outcome>>

RestoreServers ==
    \/ RestoreMcp("restoreMcp", IF migrate THEN "restoreLegacy" ELSE "discard", "bim-bridge")
    \/ RestoreMcp("restoreLegacy", "discard", "aec-codex-local")

\* "... failed and was rolled back"
Discard ==
    /\ Goes("discard", "ended")
    /\ \/ rollback' = [rollback EXCEPT ![attempt] = [p \in Paths |-> Absent]]
       \/ UNCHANGED rollback
    /\ outcome' = "rolledBack"
    /\ UNCHANGED <<actions, migrate, disk, records, next, mcp, previousMcp, original, baseline>>

\* The window is closed or the power fails; nothing resumes the attempt.
Crash ==
    /\ pc # "ended"
    /\ pc' = "ended"
    /\ outcome' = "crashed"
    /\ UNCHANGED <<actions, migrate, disk, rollback, records, next, mcp, previousMcp,
                   original, baseline>>

-----------------------------------------------------------------------------

Next ==
    \/ \E act \in {"install", "uninstall"}, mig \in BOOLEAN : Begin(act, mig)
    \/ Stage \/ Decline \/ Unregister \/ StopHosts \/ UnregisterLegacy
    \/ BackupPath \/ BackedUp
    \/ Place \/ Placed \/ WriteState \/ Register \/ RegisterNotFound
    \/ Finish
    \/ Throw
    \/ RestorePath \/ RestoreThrows \/ Restored \/ RestoreServers \/ Discard
    \/ Crash

Spec == Init /\ [][Next]_vars
-----------------------------------------------------------------------------
(* Properties                                                              *)

\* Whatever throws, and wherever the process dies: what the last successful
\* installation left on a path is still at that path or in the rollback
\* directory of an attempt, until another attempt succeeds.
NothingLost ==
    \A p \in Paths :
        \/ baseline[p] = Absent
        \/ disk[p] = baseline[p]
        \/ \E a \in 1 .. MaxAttempts : rollback[a][p] = baseline[p]

\* After "was rolled back" every directory, and every path that was there
\* before, is as it was.  The only leftovers are files that this attempt wrote
\* where there was none.
OnlyFreshFilesLeft ==
    outcome = "rolledBack" =>
        \A p \in Paths :
            disk[p] # original[p] =>
                action = "install" /\ p \in Files /\ original[p] = Absent /\ disk[p] = attempt

\* A successful installation has put all of its own parts in place, took the
\* others away and is registered; a successful uninstallation owns nothing.
SucceededIsComplete ==
    outcome = "succeeded" =>
        IF action = "install"
        THEN /\ \A p \in ToSet(PlaceOrder) \cup {StateFile} : disk[p] = attempt
             /\ \A p \in ToSet(Wanted) \ (ToSet(PlaceOrder) \cup {StateFile}) : disk[p] = Absent
             /\ mcp["bim-bridge"] = attempt
        ELSE \A p \in ToSet(Wanted) : disk[p] = Absent

\* architecture.md: "rolls back files and MCP registrations on failure".  The
\* catch block could then always take its next step.  A file this attempt
\* replaced is still in the way of its backup, so Move-Item throws out of the
\* catch block before the directories and the registrations are restored.
RestoreNotBlocked ==
    pc = "restore" /\ next > 0 =>
        ~(InTheWay(records[next]) /\ rollback[attempt][records[next]] # Absent)
=============================================================================
