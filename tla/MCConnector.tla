----------------------------- MODULE MCConnector -----------------------------
(* Connector and its inductive invariant for TLC.                          *)
EXTENDS ConnectorProofs, TLC

Symmetry == Permutations(Requests) \cup Permutations(Documents)
=============================================================================
