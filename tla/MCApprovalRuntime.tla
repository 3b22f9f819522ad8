-------------------------- MODULE MCApprovalRuntime --------------------------
(***************************************************************************)
(* Requests for TLC.  MCContents is one critical write, so that calls of   *)
(* prepare and execute compete for its grant.  MixedContents are a         *)
(* critical write with two providers and requests a step away from it:     *)
(* another document and a preferred provider, a required verification with *)
(* and without checks, a dry run, a target that is not exact, an untrusted *)
(* provider, a harmless read.                                              *)
(***************************************************************************)
EXTENDS ApprovalProofs, TLC

CONSTANTS c1, c2, c3, s1, n1, d1, d2

MCAdvertised == {"view.capture"}

capability(name) == CHOOSE k \in DefaultRegistry : k.name = name

candidate(id, trust, priority, needs) ==
    [id |-> id, targeting |-> "document", trust |-> trust, priority |-> priority,
     usable |-> TRUE, needs |-> needs]

\* A write with dry-run support whose only provider is unknown.
thirdParty ==
    [name |-> "third.party", intents |-> {"write"}, risk |-> "high", supportsDryRun |-> TRUE,
     needs |-> {}, candidates |-> {candidate(9, "unknown", 100, {})}]

\* code.write with two more providers: one goes first if the host advertises
\* what it needs, the other cannot name a document.
twoProviders ==
    [capability("code.write") EXCEPT !.candidates =
        @ \cup {candidate(2, "approved", 5, {"view.capture"}),
                [candidate(3, "local", 1, {}) EXCEPT !.targeting = "instance"]}]

MCCapabilities == DefaultRegistry \cup {thirdParty, twoProviders}

plain(k, i, d) ==
    [session |-> s1, capability |-> k, intent |-> i, document |-> d, exact |-> TRUE,
     dryRun |-> FALSE, preference |-> None, checks |-> 0, required |-> FALSE]

write == plain(twoProviders, "write", d1)

MCContents == {plain(capability("code.write"), "write", d1)}
MixedContents ==
    {write,
     [write EXCEPT !.document = d2, !.preference = 1, !.required = TRUE],
     [write EXCEPT !.required = TRUE, !.checks = 2],
     [write EXCEPT !.dryRun = TRUE],
     [write EXCEPT !.exact = FALSE],
     plain(thirdParty, "write", d1),
     plain(capability("document.info"), "read", d1)}

Symmetry == Permutations(Calls)
=============================================================================
