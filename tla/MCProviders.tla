----------------------------- MODULE MCProviders -----------------------------
(***************************************************************************)
(* Instances of the manager for TLC.  Tame classifies the tool as          *)
(* read-only, Wild as a write.                                             *)
(***************************************************************************)
EXTENDS Providers, TLC

CONSTANTS c1, c2

Tame == [manifest |-> "none", hint |-> "read"]
Wild == [manifest |-> "write", hint |-> "read"]

OneDescriptor == {Tame}
TwoDescriptors == {Tame, Wild}

Symmetry == Permutations(Calls)
=============================================================================
