--------------------------- MODULE MCProviderFacade ---------------------------
(***************************************************************************)
(* Instances of the facade for TLC: Tame classifies the tool as read-only, *)
(* Wild as a write.                                                        *)
(***************************************************************************)
EXTENDS ProviderFacade

CONSTANTS c1, c2

Tame == [manifest |-> "none", hint |-> "read"]
Wild == [manifest |-> "write", hint |-> "read"]

TwoDescriptors == {Tame, Wild}
=============================================================================
