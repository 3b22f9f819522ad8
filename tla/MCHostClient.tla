----------------------------- MODULE MCHostClient -----------------------------
(***************************************************************************)
(* Instances of HostClient for TLC.                                        *)
(***************************************************************************)
EXTENDS HostClient, TLC

CONSTANTS c1, c2, h1, h2, p1, p2, d1

MCFilters ==
    {[hosts |-> Hosts, document |-> d1], [hosts |-> {h1}, document |-> AnyDocument]}
=============================================================================
