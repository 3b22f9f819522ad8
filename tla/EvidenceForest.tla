---------------------------- MODULE EvidenceForest ----------------------------
(***************************************************************************)
(* What the execution journal promises to somebody who reads its files: an *)
(* entry never changes or goes away, and the hash in it is that of another *)
(* entry of the same file, or none.  The entries of a file are a forest.   *)
(***************************************************************************)
CONSTANTS Days, Hashes, NoHash

VARIABLE entries    \* for each file, its entries: hash and previousHash

Entry == [hash : Hashes, previous : Hashes \cup {NoHash}]

ForestInit == entries = [d \in Days |-> {}]

Used == {e.hash : e \in UNION {entries[d] : d \in Days}}

Enter(d, e) ==
    /\ e.hash \notin Used
    /\ e.previous = NoHash \/ \E f \in entries[d] : f.hash = e.previous
    /\ entries' = [entries EXCEPT ![d] = @ \cup {e}]

ForestNext == \E d \in Days, e \in Entry : Enter(d, e)

ForestSpec == ForestInit /\ [][ForestNext]_entries
=============================================================================
