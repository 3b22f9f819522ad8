---------------------------- MODULE RequestLedger ----------------------------
(***************************************************************************)
(* What a connector promises about a request, whatever threads serve it:   *)
(* a request runs at most once, gets at most one outcome, and an outcome   *)
(* that says "did not run" (refused, rejected, expired) is never followed  *)
(* by a run, while "succeeded" is never given without one.  A request is   *)
(* never cancelled after it ran.                                           *)
(*                                                                         *)
(* The ledger deliberately allows Run after the outcomes "cancelled" and   *)
(* "failed": the connector does not exclude it (see CancelExcludesRun and  *)
(* FailureLeavesNoChange of module Connector).                             *)
(***************************************************************************)
EXTENDS Naturals

CONSTANT Requests

VARIABLES
    outcome,   \* outcome[r]: "open", or the one outcome r ever gets
    runs       \* runs[r]: how often the work of r was performed

ledgerVars == <<outcome, runs>>

Outcomes == {"refused", "rejected", "expired", "cancelled", "succeeded", "failed"}

\* Outcomes given only to a request whose work was not performed before.
NotPerformed == {"refused", "rejected", "expired", "cancelled"}

\* Outcomes after which the connector may still perform the work.
MayStillRun == {"open", "failed", "cancelled"}

LedgerInit ==
    /\ outcome = [r \in Requests |-> "open"]
    /\ runs = [r \in Requests |-> 0]

Decide(r, o) ==
    /\ outcome[r] = "open"
    /\ o \in NotPerformed => runs[r] = 0
    /\ o = "succeeded" => runs[r] = 1
    /\ outcome' = [outcome EXCEPT ![r] = o]
    /\ UNCHANGED runs

Run(r) ==
    /\ runs[r] = 0
    /\ outcome[r] \in MayStillRun
    /\ runs' = [runs EXCEPT ![r] = 1]
    /\ UNCHANGED outcome

\* Closing the connector cancels every open request it holds in one step.
CancelAll(S) ==
    /\ \A r \in S : outcome[r] = "open" /\ runs[r] = 0
    /\ outcome' = [r \in Requests |-> IF r \in S THEN "cancelled" ELSE outcome[r]]
    /\ UNCHANGED runs

LedgerNext ==
    \/ \E r \in Requests : Run(r) \/ \E o \in Outcomes : Decide(r, o)
    \/ \E S \in SUBSET Requests : CancelAll(S)

LedgerSpec == LedgerInit /\ [][LedgerNext]_ledgerVars
=============================================================================
