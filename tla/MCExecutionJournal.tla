-------------------------- MODULE MCExecutionJournal --------------------------
(* Processes, threads and days for TLC.                                    *)
EXTENDS JournalProofs, TLC

CONSTANTS p1, p2, t1, t2, t3

TwoProcesses == (t1 :> p1) @@ (t2 :> p1) @@ (t3 :> p2)

Symmetry == Permutations(Days) \cup Permutations({t1, t2})
=============================================================================
