---------------------------- MODULE RoutingProofs ----------------------------
(***************************************************************************)
(* The sort of CapabilityRegistry.resolve puts exactly one candidate       *)
(* first, whatever candidates remain and in whatever order they come:      *)
(* routing is deterministic.                                               *)
(***************************************************************************)
EXTENDS Routing, FiniteSetTheorems, WellFoundedInduction, TLAPS

\* Candidates of one request: finitely many, told apart by their provider ids.
Routable(S) ==
    /\ S \subseteq CandidateType
    /\ IsFiniteSet(S)
    /\ \A a, b \in S : a.id = b.id => a = b

\* The components of the key are numbers.
LEMMA KeyType ==
    ASSUME NEW k \in CandidateType
    PROVE  /\ k.priority \in Int /\ k.id \in Int
           /\ TargetingOrder[k.targeting] \in Int
           /\ TrustOrder[k.trust] \in Int
<1>1. k.priority \in Int /\ k.id \in Int
  BY DEF CandidateType
<1>2. k.targeting \in {"application", "instance", "document"}
  BY DEF CandidateType, TargetingOrder
<1>3. k.trust \in {"unknown", "third_party", "approved", "local"}
  BY DEF CandidateType, TrustOrder
<1>4. TargetingOrder[k.targeting] \in Int
  BY <1>2 DEF TargetingOrder
<1>5. TrustOrder[k.trust] \in Int
  BY <1>3 DEF TrustOrder
<1> QED BY <1>1, <1>4, <1>5

\* Before is a strict total order of them.
LEMMA BeforeIsTotal ==
    ASSUME NEW S, Routable(S), NEW a \in S, NEW b \in S, a # b
    PROVE  Before(a, b) \/ Before(b, a)
<1>1. a \in CandidateType /\ b \in CandidateType /\ a.id # b.id
  BY DEF Routable
<1> QED BY <1>1, KeyType DEF Before

LEMMA BeforeIsStrict ==
    ASSUME NEW a \in CandidateType
    PROVE  ~Before(a, a)
BY KeyType DEF Before

LEMMA BeforeIsTransitive ==
    ASSUME NEW a \in CandidateType, NEW b \in CandidateType, NEW k \in CandidateType,
           Before(a, b), Before(b, k)
    PROVE  Before(a, k)
BY KeyType DEF Before

\* The candidate with the fewest others before it has none.
LEMMA FirstExists ==
    ASSUME NEW S, Routable(S), S # {}
    PROVE  \E k \in S : \A m \in S \ {k} : Before(k, m)
<1> DEFINE Ahead(k) == {m \in S : Before(m, k)}
           Ranks == {Cardinality(Ahead(k)) : k \in S}
<1>1. \A k \in S : IsFiniteSet(Ahead(k)) /\ Cardinality(Ahead(k)) \in Nat
  BY FS_Subset, FS_CardinalityType DEF Routable
<1>2. Ranks \in SUBSET Nat /\ Ranks # {}
  BY <1>1
<1>3. PICK n \in Ranks : \A i \in Ranks : n <= i
  <2>1. PICK n \in Ranks : \A i \in Ranks : <<i, n>> \notin OpToRel(<, Nat)
    BY <1>2, NatLessThanWellFounded, WFMin
  <2>2. \A i, j \in Nat : i < j => <<i, j>> \in OpToRel(<, Nat)
    BY Zenon DEF OpToRel
  <2>3. \A i \in Ranks : i \in Nat /\ n \in Nat
    BY <1>2
  <2>4. \A i \in Ranks : ~(i < n)
    BY <2>1, <2>2, <2>3, Zenon
  <2> HIDE DEF Ranks
  <2>5. \A i \in Ranks : n <= i
    BY <2>3, <2>4
  <2> QED BY <2>5
<1>4. PICK k \in S : n = Cardinality(Ahead(k))
  BY <1>3
<1>5. ASSUME NEW m \in S \ {k}, ~Before(k, m) PROVE FALSE
  <2>1. Before(m, k) /\ ~Before(m, m)
    BY <1>5, BeforeIsTotal, BeforeIsStrict DEF Routable
  <2>2. Ahead(m) \subseteq Ahead(k) /\ Ahead(m) # Ahead(k)
    BY <2>1, BeforeIsTransitive DEF Routable
  <2>3. /\ Cardinality(Ahead(m)) <= Cardinality(Ahead(k))
        /\ Cardinality(Ahead(m)) # Cardinality(Ahead(k))
    BY <1>1, <2>2, FS_Subset
  <2>4. n <= Cardinality(Ahead(m)) /\ n \in Nat /\ Cardinality(Ahead(m)) \in Nat
    BY <1>1, <1>2, <1>3
  <2> QED BY <2>3, <2>4, <1>4
<1> QED BY <1>5

\* What resolve selects is one of the candidates, and it is the only one that
\* goes before all others.
THEOREM RoutingIsDeterministic ==
    ASSUME NEW S, Routable(S), S # {}
    PROVE  /\ First(S) \in S
           /\ \A k \in S : (\A m \in S \ {k} : Before(k, m)) => k = First(S)
<1>1. First(S) \in S /\ \A m \in S \ {First(S)} : Before(First(S), m)
  BY FirstExists DEF First
<1>2. ASSUME NEW k \in S, \A m \in S \ {k} : Before(k, m), k # First(S) PROVE FALSE
  <2>1. Before(k, First(S)) /\ Before(First(S), k)
    BY <1>1, <1>2
  <2> QED BY <1>1, <2>1, BeforeIsTransitive, BeforeIsStrict DEF Routable
<1> QED BY <1>1, <1>2
=============================================================================
