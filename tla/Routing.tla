------------------------------- MODULE Routing -------------------------------
(***************************************************************************)
(* CapabilityRegistry.resolve: which provider candidate a contract-v2      *)
(* request is routed to.  Candidates have different provider ids.          *)
(***************************************************************************)
EXTENDS Integers

TargetingOrder == [application |-> 0, instance |-> 1, document |-> 2]
TrustOrder == [unknown |-> 0, third_party |-> 1, approved |-> 2, local |-> 3]

\* "id" is the place of provider_id in the order of strings, "usable" that the
\* provider is healthy and supports the release.
CandidateType ==
    [id : Int, targeting : DOMAIN TargetingOrder, trust : DOMAIN TrustOrder, priority : Int,
     usable : BOOLEAN, needs : SUBSET STRING]

Supports(k, available) == k.usable /\ k.needs \subseteq available

\* A write goes to nobody who cannot address the document it names.
Eligible(candidates, available, intent, exact) ==
    {k \in candidates :
        /\ Supports(k, available)
        /\ intent = "write" => exact /\ TargetingOrder[k.targeting] = 2}

\* The key by which resolve sorts: priority, targeting, trust, provider id.
Before(a, b) ==
    LET targeting(k) == TargetingOrder[k.targeting]
        trust(k) == TrustOrder[k.trust]
    IN  \/ a.priority < b.priority
        \/ /\ a.priority = b.priority
           /\ \/ targeting(a) > targeting(b)
              \/ /\ targeting(a) = targeting(b)
                 /\ trust(a) > trust(b) \/ (trust(a) = trust(b) /\ a.id < b.id)

First(candidates) == CHOOSE k \in candidates : \A m \in candidates \ {k} : Before(k, m)
=============================================================================
