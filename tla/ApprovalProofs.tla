--------------------------- MODULE ApprovalProofs ---------------------------
(***************************************************************************)
(* Proofs about ApprovalRuntime, for every set of calls, sessions, nonces  *)
(* and requests, every capability registry and any number of restarts.     *)
(***************************************************************************)
EXTENDS ApprovalRuntime, RoutingProofs

-----------------------------------------------------------------------------
(* The inductive invariant                                                 *)

Early == {"idle", "target", "route", "session", "grant", "nonce"}
Dispatched == {"waiting", "verifying", "completing"}

Approved(c) == decision[c] = "allowed" /\ NeedsGrant(request[c])

\* What the place of a call says about its decision and about the host.
PhaseInv ==
    \A c \in Calls :
        /\ pc[c] \in Early => decision[c] = "none"
        /\ pc[c] \in {"starting", "dispatch"} => decision[c] = "allowed"
        /\ pc[c] \in Early \cup {"prepared", "decided", "starting", "dispatch", "rejecting"}
              => ~Reached(c)
        /\ pc[c] \in Dispatched => Reached(c)
        /\ pc[c] = "ended" /\ result[c] = "rejected" => host[c] \in {"none", "refused"}
        /\ pc[c] = "completing" /\ result[c] = "rejected" => host[c] = "refused"
        /\ Reached(c) => decision[c] = "allowed"

\* A call that is about to consume a nonce holds a grant of this process for
\* its own request.
SignedInv ==
    \A c \in Calls :
        pc[c] = "nonce" =>
            /\ grant[c] # None
            /\ grant[c].secret = secret
            /\ grant[c].request = request[c]
            /\ grant[c].effect = Effect(request[c], route[c])

\* An approved call used up its nonce in the process that had issued it, and
\* no other call was approved with it.
ApprovedInv ==
    /\ \A c \in Calls :
          Approved(c) =>
              /\ grant[c] # None
              /\ grant[c].request = request[c]
              /\ grant[c].effect = Effect(request[c], route[c])
              /\ grant[c].secret <= secret
              /\ grant[c].secret = secret => grant[c].nonce \in consumed
    /\ \A c1, c2 \in Calls : Approved(c1) /\ Approved(c2) /\ grant[c1] = grant[c2] => c1 = c2

\* A call that came after the end of its session stays without approval.
LateInv ==
    \A c \in late :
        /\ pc[c] # "idle"
        /\ request[c].session \in usedSessions
        /\ Ended(request[c].session)
        /\ decision[c] # "allowed"
        /\ pc[c] \notin {"grant", "nonce"}

JournalInv ==
    \A c \in Calls :
        /\ pc[c] \in Early \cup {"prepared"} => Len(journal[c]) = 0
        /\ pc[c] \in {"decided", "starting"} => Len(journal[c]) = 1 /\ journal[c][1] = "prepared"
        /\ pc[c] = "dispatch" =>
              Len(journal[c]) = 2 /\ journal[c][1] = "prepared" /\ journal[c][2] = "started"
        /\ Reached(c) =>
              Len(journal[c]) >= 2 /\ journal[c][1] = "prepared" /\ journal[c][2] = "started"
        /\ pc[c] \in {"idle", "target", "decided", "starting", "dispatch", "failing", "rejecting"}
                    \cup Dispatched
              => c \notin prepareOnly
        /\ pc[c] = "ended" /\ c \notin prepareOnly =>
              IF Reached(c) THEN journal[c][Len(journal[c])] \in {"completed", "failed"}
              ELSE journal[c][Len(journal[c])] \in {"failed", "rejected"}

\* Checks are only performed once the host worked, one after the other; a
\* result exists from the moment on that the last one is known.
ReadBack(c) ==
    /\ host[c] = "ran"
    /\ request[c].required =>
          /\ request[c].checks > 0 /\ Len(checked[c]) = request[c].checks
          /\ \A i \in 1 .. Len(checked[c]) : checked[c][i]

VerifiedInv ==
    \A c \in Calls :
        /\ pc[c] \in Early \cup {"prepared", "decided", "starting", "dispatch", "waiting",
                               "rejecting"}
              => checked[c] = << >> /\ result[c] = "none"
        /\ pc[c] = "verifying" =>
              host[c] = "ran" /\ result[c] = "none" /\ Len(checked[c]) < request[c].checks
        /\ checked[c] # << >> => host[c] = "ran"
        /\ pc[c] \in {"completing", "ended"} /\ result[c] = "succeeded" => ReadBack(c)

IInv ==
    /\ TypeOK
    /\ PhaseInv
    /\ SignedInv
    /\ ApprovedInv
    /\ LateInv
    /\ JournalInv
    /\ VerifiedInv
-----------------------------------------------------------------------------
(* Its preservation                                                        *)

Environment ==
    \/ \E s \in Sessions : Open(s) \/ Close(s) \/ SessionExpires(s)
    \/ \E n \in Nonces : \E ch \in challenged : Issue(n, ch[1], ch[2])
    \/ \E g \in issued : GrantExpires(g)
    \/ \E d \in Documents \cup {NoDocument} : DescriptorChanges(d)
    \/ Restart
    \/ \E c \in Calls, prepare \in BOOLEAN, r \in Contents, g \in issued \cup {None} :
            Call(c, prepare, r, g)
    \/ \E c \in Calls, how \in {"ran", "refused"} : HostWorks(c, how)

\* Next, split into the steps of calls and everything else.
LEMMA NextCases ==
    ASSUME [Next]_vars
    PROVE  Environment \/ (\E c \in Calls : CallStep(c)) \/ UNCHANGED vars
  BY DEF Next, Environment

\* What resolve selects is a registered candidate.
LEMMA Selected ==
    ASSUME NEW S \in SUBSET Candidates, S # {}
    PROVE  First(S) \in Candidates
<1>1. Candidates \subseteq CandidateType
  BY CapabilitiesAssumption DEF Candidates, CapabilityType
<1>2. Routable(S)
  BY <1>1, CandidatesAssumption, FS_Subset DEF Routable
<1> QED BY <1>2, RoutingIsDeterministic

\* Every action keeps the types.
LEMMA Typed == TypeOK /\ [Next]_vars => TypeOK'
<1> SUFFICES ASSUME TypeOK, [Next]_vars PROVE TypeOK'
  OBVIOUS
<1> USE ContentsAssumption, StartsAssumption
    DEF TypeOK, sessionVars, grantVars, callVars, inputVars, outcomeVars,
        worldVars, Goes, Records, Steps, Routed, Results, Events
<1>1. ASSUME NEW s \in Sessions, Open(s) \/ Close(s) \/ SessionExpires(s) PROVE TypeOK'
  BY <1>1 DEF Open, Close, SessionExpires
<1>2. ASSUME NEW n \in Nonces, NEW ch \in challenged, Issue(n, ch[1], ch[2]) PROVE TypeOK'
  BY <1>2 DEF Issue, GrantType
<1>3. ASSUME NEW g \in issued, GrantExpires(g) PROVE TypeOK'
  BY <1>3 DEF GrantExpires, GrantType
<1>4. ASSUME NEW d \in Documents \cup {NoDocument}, DescriptorChanges(d) PROVE TypeOK'
  BY <1>4 DEF DescriptorChanges
<1>5. CASE Restart
  BY <1>5 DEF Restart, Running
<1>6. ASSUME NEW c \in Calls, NEW prepare \in BOOLEAN, NEW r \in Contents,
             NEW g \in issued \cup {None}, Call(c, prepare, r, g)
      PROVE  TypeOK'
  BY <1>6 DEF Call
<1>7. ASSUME NEW c \in Calls, NEW how \in {"ran", "refused"}, HostWorks(c, how) PROVE TypeOK'
  BY <1>7 DEF HostWorks
<1>8. ASSUME NEW c \in Calls, CallStep(c) PROVE TypeOK'
  <2>1. CASE SelectTarget(c)
    BY <2>1 DEF SelectTarget
  <2>2. ASSUME NEW candidates \in SUBSET Candidates, NEW available,
               Route(c, candidates, available)
        PROVE  TypeOK'
    <3> DEFINE eligible == Preferred(request[c], Eligible(candidates, available,
                                                          request[c].intent, request[c].exact))
    <3>1. eligible # {} => First(eligible) \in Candidates
      <4>1. eligible \subseteq Candidates
        BY DEF Preferred, Eligible
      <4> QED BY <4>1, Selected
    <3>2. \/ /\ pc' = [pc EXCEPT ![c] = "session"]
             /\ eligible # {}
             /\ route' = [route EXCEPT ![c] = First(eligible)]
          \/ /\ pc' = [pc EXCEPT ![c] = Unprepared(c)]
             /\ route' = [route EXCEPT ![c] = route[c]]
      BY <2>2 DEF Route
    <3> HIDE DEF eligible
    <3> QED BY <2>2, <3>1, <3>2 DEF Route, Unprepared
  <2>3. CASE ValidateSession(c)
    BY <2>3 DEF ValidateSession, Ended
  <2>4. CASE CheckGrant(c)
    BY <2>4 DEF CheckGrant, Valid
  <2>5. CASE ConsumeNonce(c)
    BY <2>5 DEF ConsumeNonce, GrantType
  <2>6. CASE Prepared(c)
    <3>1. request[c] \in Contents /\ route[c] \in Candidates
      BY <2>6 DEF Prepared
    <3>2. Effect(request[c], route[c]) \in Effects
      BY <3>1 DEF Effects
    <3> QED BY <2>6, <3>1, <3>2 DEF Prepared, Records
  <2>7. CASE PreparedRaises(c)
    BY <2>7 DEF PreparedRaises, Unprepared
  <2>8. CASE Decided(c)
    BY <2>8 DEF Decided
  <2>9. CASE Started(c)
    BY <2>9 DEF Started, Records
  <2>10. CASE Dispatch(c)
    BY <2>10 DEF Dispatch
  <2>11. CASE DispatchRaises(c) \/ AnswerRaises(c)
    <3>1. pc[c] # "idle" /\ pc' = [pc EXCEPT ![c] = "failing"] /\ request[c] # None
      BY <2>11 DEF DispatchRaises, AnswerRaises
    <3> QED BY <2>11, <3>1 DEF DispatchRaises, AnswerRaises
  <2>12. CASE Completed(c)
    BY <2>12 DEF Completed, Records
  <2>13. CASE CompletedRaises(c)
    BY <2>13 DEF CompletedRaises
  <2>14. CASE Failed(c)
    BY <2>14 DEF Failed, Records
  <2>15. CASE Rejected(c)
    BY <2>15 DEF Rejected, Records
  <2>16. CASE RecordRaises(c)
    <3>1. pc[c] # "idle" /\ pc' = [pc EXCEPT ![c] = "raised"] /\ request[c] # None
      BY <2>16 DEF RecordRaises
    <3> QED BY <2>16, <3>1 DEF RecordRaises
  <2>17. ASSUME NEW status \in Results, Answer(c, status) PROVE TypeOK'
    <3>1. pc[c] = "waiting" /\ request[c] # None
      BY <2>17 DEF Answer
    <3>2. \/ pc' = [pc EXCEPT ![c] = "verifying"] /\ result' = result
          \/ /\ pc' = [pc EXCEPT ![c] = "completing"]
             /\ result' = [result EXCEPT ![c] = Normalized(request[c], status, << >>)]
      BY <2>17 DEF Answer
    <3>3. Normalized(request[c], status, << >>) \in Results
      BY DEF Normalized
    <3>4. UNCHANGED <<sessionVars, grantVars, inputVars, route, decision, checked, worldVars>>
      BY <2>17 DEF Answer
    <3>5. result' \in [Calls -> Results]
      BY <3>2, <3>3
    <3>6. CASE pc' = [pc EXCEPT ![c] = "verifying"]
      BY <3>1, <3>4, <3>5, <3>6
    <3>7. CASE pc' = [pc EXCEPT ![c] = "completing"]
      BY <3>1, <3>4, <3>5, <3>7
    <3> QED BY <3>2, <3>6, <3>7
  <2>18. ASSUME NEW passes \in BOOLEAN, Check(c, passes) PROVE TypeOK'
    BY <2>18 DEF Check, Normalized
  <2>19. pc[c] = "route" => request[c].capability.candidates \in SUBSET Candidates
    BY DEF Requests, Candidates
  <2> QED BY <1>8, <2>1, <2>2, <2>3, <2>4, <2>5, <2>6, <2>7, <2>8, <2>9, <2>10, <2>11,
           <2>12, <2>13, <2>14, <2>15, <2>16, <2>17, <2>18, <2>19 DEF CallStep
<1>9. CASE UNCHANGED vars
  BY <1>9 DEF vars
<1> QED BY <1>1, <1>2, <1>3, <1>4, <1>5, <1>6, <1>7, <1>8, <1>9, NextCases DEF Environment

\* The decision and the host follow the place of a call.
LEMMA Phases == IInv /\ [Next]_vars => PhaseInv'
<1> SUFFICES ASSUME IInv, [Next]_vars PROVE PhaseInv'
  OBVIOUS
<1> USE Typed, ContentsAssumption, StartsAssumption
    DEF IInv, TypeOK, PhaseInv, sessionVars, grantVars, callVars, inputVars, outcomeVars,
        worldVars, Goes,
        Early, Dispatched, Reached, Results
<1>1. CASE \E s \in Sessions : Open(s) \/ Close(s) \/ SessionExpires(s)
  BY <1>1 DEF Open, Close, SessionExpires
<1>2. CASE \E n \in Nonces : \E ch \in challenged : Issue(n, ch[1], ch[2])
  BY <1>2 DEF Issue
<1>3. CASE \/ \E g \in issued : GrantExpires(g)
         \/ \E d \in Documents \cup {NoDocument} : DescriptorChanges(d)
  BY <1>3 DEF GrantExpires, DescriptorChanges
<1>4. CASE Restart
  BY <1>4 DEF Restart, Running, Steps
<1>5. ASSUME NEW c \in Calls, NEW prepare \in BOOLEAN, NEW r \in Contents,
             NEW g \in issued \cup {None}, Call(c, prepare, r, g)
      PROVE  PhaseInv'
  BY <1>5 DEF Call
<1>6. ASSUME NEW c \in Calls, NEW how \in {"ran", "refused"}, HostWorks(c, how) PROVE PhaseInv'
  BY <1>6 DEF HostWorks
<1>7. ASSUME NEW c \in Calls, CallStep(c) PROVE PhaseInv'
  <2>1. CASE SelectTarget(c)
    BY <2>1 DEF SelectTarget
  <2>13. ASSUME NEW candidates, NEW available, Route(c, candidates, available) PROVE PhaseInv'
    BY <2>13 DEF Route, Unprepared
  <2>2. CASE ValidateSession(c)
    BY <2>2 DEF ValidateSession
  <2>3. CASE CheckGrant(c)
    BY <2>3 DEF CheckGrant, Valid
  <2>4. CASE ConsumeNonce(c)
    BY <2>4 DEF ConsumeNonce
  <2>5. CASE Prepared(c) \/ PreparedRaises(c)
    BY <2>5 DEF Prepared, PreparedRaises, Unprepared, Records
  <2>6. CASE Decided(c) \/ Started(c)
    BY <2>6 DEF Decided, Started, Records
  <2>7. CASE Dispatch(c) \/ DispatchRaises(c)
    BY <2>7 DEF Dispatch, DispatchRaises
  <2>8. CASE AnswerRaises(c) \/ Completed(c) \/ CompletedRaises(c)
    BY <2>8 DEF AnswerRaises, Completed, CompletedRaises, Records
  <2>9. CASE Failed(c)
    BY <2>9 DEF Failed
  <2>12. CASE Rejected(c)
    BY <2>12 DEF Rejected
  <2>11. CASE RecordRaises(c)
    <3>1. pc' = [pc EXCEPT ![c] = "raised"]
      BY <2>11 DEF RecordRaises
    <3> QED BY <2>11, <3>1 DEF RecordRaises
  <2>14. ASSUME NEW passes \in BOOLEAN, Check(c, passes) PROVE PhaseInv'
    <3>1. \/ /\ pc' = [pc EXCEPT ![c] = "completing"]
             /\ result' = [result EXCEPT ![c] = Normalized(request[c], "succeeded",
                                                           Append(checked[c], passes))]
          \/ /\ pc' = [pc EXCEPT ![c] = "verifying"]
             /\ result' = [result EXCEPT ![c] = result[c]]
      BY <2>14 DEF Check
    <3>2. Normalized(request[c], "succeeded", Append(checked[c], passes)) # "rejected"
      BY DEF Normalized
    <3> QED BY <2>14, <3>1, <3>2 DEF Check
  <2>10. ASSUME NEW status \in Results, Answer(c, status) PROVE PhaseInv'
    BY <2>10 DEF Answer, Normalized
  <2> QED BY <1>7, <2>1, <2>2, <2>3, <2>4, <2>5, <2>6, <2>7, <2>8, <2>9, <2>10, <2>11, <2>12, <2>13,
           <2>14 DEF CallStep
<1>8. CASE UNCHANGED vars
  BY <1>8 DEF vars
<1> QED BY <1>1, <1>2, <1>3, <1>4, <1>5, <1>6, <1>7, <1>8, NextCases DEF Environment

\* Only CheckGrant leads to ConsumeNonce.
LEMMA Signed == IInv /\ [Next]_vars => SignedInv'
<1> SUFFICES ASSUME IInv, [Next]_vars PROVE SignedInv'
  OBVIOUS
<1> USE Typed, ContentsAssumption, StartsAssumption
    DEF IInv, TypeOK, SignedInv, sessionVars, grantVars, callVars, inputVars, outcomeVars,
        worldVars, Goes
<1>1. CASE \E s \in Sessions : Open(s) \/ Close(s) \/ SessionExpires(s)
  BY <1>1 DEF Open, Close, SessionExpires
<1>2. CASE \E n \in Nonces : \E ch \in challenged : Issue(n, ch[1], ch[2])
  BY <1>2 DEF Issue
<1>3. CASE \/ \E g \in issued : GrantExpires(g)
         \/ \E d \in Documents \cup {NoDocument} : DescriptorChanges(d)
  BY <1>3 DEF GrantExpires, DescriptorChanges
<1>4. CASE Restart
  BY <1>4 DEF Restart, Running, Steps
<1>5. ASSUME NEW c \in Calls, NEW prepare \in BOOLEAN, NEW r \in Contents,
             NEW g \in issued \cup {None}, Call(c, prepare, r, g)
      PROVE  SignedInv'
  BY <1>5 DEF Call
<1>6. ASSUME NEW c \in Calls, NEW how \in {"ran", "refused"}, HostWorks(c, how) PROVE SignedInv'
  BY <1>6 DEF HostWorks
<1>7. ASSUME NEW c \in Calls, CallStep(c) PROVE SignedInv'
  <2>1. CASE SelectTarget(c)
    BY <2>1 DEF SelectTarget
  <2>13. ASSUME NEW candidates, NEW available, Route(c, candidates, available) PROVE SignedInv'
    BY <2>13 DEF Route, Unprepared
  <2>2. CASE ValidateSession(c)
    BY <2>2 DEF ValidateSession
  <2>3. CASE CheckGrant(c)
    BY <2>3 DEF CheckGrant, Valid
  <2>4. CASE ConsumeNonce(c)
    BY <2>4 DEF ConsumeNonce
  <2>5. CASE Prepared(c) \/ PreparedRaises(c)
    BY <2>5 DEF Prepared, PreparedRaises, Unprepared, Records
  <2>6. CASE Decided(c) \/ Started(c)
    BY <2>6 DEF Decided, Started, Records
  <2>7. CASE Dispatch(c) \/ DispatchRaises(c)
    BY <2>7 DEF Dispatch, DispatchRaises
  <2>8. CASE AnswerRaises(c) \/ Completed(c) \/ CompletedRaises(c)
    BY <2>8 DEF AnswerRaises, Completed, CompletedRaises
  <2>9. CASE Failed(c) \/ Rejected(c)
    BY <2>9 DEF Failed, Rejected
  <2>11. CASE RecordRaises(c)
    BY <2>11 DEF RecordRaises
  <2>14. ASSUME NEW passes \in BOOLEAN, Check(c, passes) PROVE SignedInv'
    BY <2>14 DEF Check, Normalized
  <2>10. ASSUME NEW status \in Results, Answer(c, status) PROVE SignedInv'
    BY <2>10 DEF Answer, Normalized
  <2> QED BY <1>7, <2>1, <2>2, <2>3, <2>4, <2>5, <2>6, <2>7, <2>8, <2>9, <2>10, <2>11, <2>13,
           <2>14 DEF CallStep
<1>8. CASE UNCHANGED vars
  BY <1>8 DEF vars
<1> QED BY <1>1, <1>2, <1>3, <1>4, <1>5, <1>6, <1>7, <1>8, NextCases DEF Environment

\* ConsumeNonce approves a call only if no other call used that grant: in this
\* process its nonce would be consumed, in an earlier one the secret differs.
LEMMA ApprovedWithGrant == IInv /\ [Next]_vars => ApprovedInv'
<1> SUFFICES ASSUME IInv, [Next]_vars PROVE ApprovedInv'
  OBVIOUS
<1> USE Typed, ContentsAssumption, StartsAssumption
    DEF IInv, TypeOK, ApprovedInv, sessionVars, grantVars, callVars, inputVars, outcomeVars,
        worldVars, Goes,
        Approved, PhaseInv, SignedInv, Early, GrantType
<1>1. CASE \E s \in Sessions : Open(s) \/ Close(s) \/ SessionExpires(s)
  BY <1>1 DEF Open, Close, SessionExpires
<1>2. CASE \E n \in Nonces : \E ch \in challenged : Issue(n, ch[1], ch[2])
  BY <1>2 DEF Issue
<1>3. CASE \/ \E g \in issued : GrantExpires(g)
         \/ \E d \in Documents \cup {NoDocument} : DescriptorChanges(d)
  BY <1>3 DEF GrantExpires, DescriptorChanges
<1>4. CASE Restart
  <2>1. UNCHANGED <<request, grant, route, decision>>
    BY <1>4 DEF Restart
  <2>2. secret' = secret + 1 /\ secret \in Nat
    BY <1>4 DEF Restart
  <2>3. ASSUME NEW c \in Calls, Approved(c), grant[c].secret \in Nat, grant[c].secret <= secret
        PROVE  grant[c].secret # secret + 1
    BY <2>2, <2>3
  <2> QED BY <2>1, <2>2, <2>3
<1>5. ASSUME NEW c \in Calls, NEW prepare \in BOOLEAN, NEW r \in Contents,
             NEW g \in issued \cup {None}, Call(c, prepare, r, g)
      PROVE  ApprovedInv'
  BY <1>5 DEF Call
<1>6. ASSUME NEW c \in Calls, NEW how \in {"ran", "refused"}, HostWorks(c, how) PROVE ApprovedInv'
  BY <1>6 DEF HostWorks
<1>7. ASSUME NEW c \in Calls, CallStep(c) PROVE ApprovedInv'
  <2>1. CASE SelectTarget(c)
    BY <2>1 DEF SelectTarget
  <2>13. ASSUME NEW candidates, NEW available, Route(c, candidates, available) PROVE ApprovedInv'
    BY <2>13 DEF Route, Unprepared
  <2>2. CASE ValidateSession(c)
    BY <2>2 DEF ValidateSession
  <2>3. CASE CheckGrant(c)
    BY <2>3 DEF CheckGrant, Valid
  <2>4. CASE ConsumeNonce(c)
    BY <2>4 DEF ConsumeNonce
  <2>5. CASE Prepared(c) \/ PreparedRaises(c)
    BY <2>5 DEF Prepared, PreparedRaises, Unprepared, Records
  <2>6. CASE Decided(c) \/ Started(c)
    BY <2>6 DEF Decided, Started, Records
  <2>7. CASE Dispatch(c) \/ DispatchRaises(c)
    BY <2>7 DEF Dispatch, DispatchRaises
  <2>8. CASE AnswerRaises(c) \/ Completed(c) \/ CompletedRaises(c)
    BY <2>8 DEF AnswerRaises, Completed, CompletedRaises, Records
  <2>9. CASE Failed(c) \/ Rejected(c)
    BY <2>9 DEF Failed, Rejected
  <2>11. CASE RecordRaises(c)
    BY <2>11 DEF RecordRaises
  <2>14. ASSUME NEW passes \in BOOLEAN, Check(c, passes) PROVE ApprovedInv'
    BY <2>14 DEF Check, Normalized
  <2>10. ASSUME NEW status \in Results, Answer(c, status) PROVE ApprovedInv'
    BY <2>10 DEF Answer, Normalized
  <2> QED BY <1>7, <2>1, <2>2, <2>3, <2>4, <2>5, <2>6, <2>7, <2>8, <2>9, <2>10, <2>11, <2>13,
           <2>14 DEF CallStep
<1>8. CASE UNCHANGED vars
  BY <1>8 DEF vars
<1> QED BY <1>1, <1>2, <1>3, <1>4, <1>5, <1>6, <1>7, <1>8, NextCases DEF Environment

\* A session that has ended is never registered again.
LEMMA LateUnapproved == IInv /\ [Next]_vars => LateInv'
<1> SUFFICES ASSUME IInv, [Next]_vars PROVE LateInv'
  OBVIOUS
<1> USE Typed, ContentsAssumption, StartsAssumption
    DEF IInv, TypeOK, LateInv, sessionVars, grantVars, callVars, inputVars, outcomeVars,
        worldVars, Goes,
        Ended, PhaseInv, Early
<1>1. CASE \E s \in Sessions : Open(s) \/ Close(s) \/ SessionExpires(s)
  BY <1>1 DEF Open, Close, SessionExpires
<1>2. CASE \E n \in Nonces : \E ch \in challenged : Issue(n, ch[1], ch[2])
  BY <1>2 DEF Issue
<1>3. CASE \/ \E g \in issued : GrantExpires(g)
         \/ \E d \in Documents \cup {NoDocument} : DescriptorChanges(d)
  BY <1>3 DEF GrantExpires, DescriptorChanges
<1>4. CASE Restart
  BY <1>4 DEF Restart, Running, Steps
<1>5. ASSUME NEW c \in Calls, NEW prepare \in BOOLEAN, NEW r \in Contents,
             NEW g \in issued \cup {None}, Call(c, prepare, r, g)
      PROVE  LateInv'
  BY <1>5 DEF Call
<1>6. ASSUME NEW c \in Calls, NEW how \in {"ran", "refused"}, HostWorks(c, how) PROVE LateInv'
  BY <1>6 DEF HostWorks
<1>7. ASSUME NEW c \in Calls, CallStep(c) PROVE LateInv'
  <2>1. CASE SelectTarget(c)
    BY <2>1 DEF SelectTarget
  <2>13. ASSUME NEW candidates, NEW available, Route(c, candidates, available) PROVE LateInv'
    BY <2>13 DEF Route, Unprepared
  <2>2. CASE ValidateSession(c)
    BY <2>2 DEF ValidateSession
  <2>3. CASE CheckGrant(c)
    BY <2>3 DEF CheckGrant, Valid
  <2>4. CASE ConsumeNonce(c)
    BY <2>4 DEF ConsumeNonce
  <2>5. CASE Prepared(c) \/ PreparedRaises(c)
    BY <2>5 DEF Prepared, PreparedRaises, Unprepared, Records
  <2>6. CASE Decided(c) \/ Started(c)
    BY <2>6 DEF Decided, Started, Records
  <2>7. CASE Dispatch(c) \/ DispatchRaises(c)
    BY <2>7 DEF Dispatch, DispatchRaises
  <2>8. CASE AnswerRaises(c) \/ Completed(c) \/ CompletedRaises(c)
    BY <2>8 DEF AnswerRaises, Completed, CompletedRaises
  <2>9. CASE Failed(c) \/ Rejected(c)
    BY <2>9 DEF Failed, Rejected
  <2>11. CASE RecordRaises(c)
    BY <2>11 DEF RecordRaises
  <2>14. ASSUME NEW passes \in BOOLEAN, Check(c, passes) PROVE LateInv'
    BY <2>14 DEF Check, Normalized
  <2>10. ASSUME NEW status \in Results, Answer(c, status) PROVE LateInv'
    BY <2>10 DEF Answer, Normalized
  <2> QED BY <1>7, <2>1, <2>2, <2>3, <2>4, <2>5, <2>6, <2>7, <2>8, <2>9, <2>10, <2>11, <2>13,
           <2>14 DEF CallStep
<1>8. CASE UNCHANGED vars
  BY <1>8 DEF vars
<1> QED BY <1>1, <1>2, <1>3, <1>4, <1>5, <1>6, <1>7, <1>8, NextCases DEF Environment

\* What AuditTrail.record leaves in the journal of one call.
LEMMA Recorded ==
    ASSUME TypeOK, NEW c \in Calls, NEW e \in Events, Records(c, e)
    PROVE  /\ Len(journal'[c]) = Len(journal[c]) + 1
           /\ journal'[c][Len(journal[c]) + 1] = e
           /\ \A i \in 1 .. Len(journal[c]) : journal'[c][i] = journal[c][i]
           /\ \A q \in Calls \ {c} : journal'[q] = journal[q]
<1>1. journal' = [journal EXCEPT ![c] = Append(journal[c], e)] /\ journal[c] \in Seq(Events)
  BY DEF Records, TypeOK
<1> QED BY <1>1 DEF TypeOK

\* Every event is appended in the order of the calls' places.
LEMMA Journals == IInv /\ [Next]_vars => JournalInv'
<1> SUFFICES ASSUME IInv, [Next]_vars PROVE JournalInv'
  OBVIOUS
<1> USE Typed, ContentsAssumption, StartsAssumption
    DEF IInv, TypeOK, JournalInv, sessionVars, grantVars, callVars, inputVars, outcomeVars,
        worldVars, Goes,
        PhaseInv, Early, Dispatched, Reached, Results, Events
<1>1. CASE \E s \in Sessions : Open(s) \/ Close(s) \/ SessionExpires(s)
  BY <1>1 DEF Open, Close, SessionExpires
<1>2. CASE \E n \in Nonces : \E ch \in challenged : Issue(n, ch[1], ch[2])
  BY <1>2 DEF Issue
<1>3. CASE \/ \E g \in issued : GrantExpires(g)
         \/ \E d \in Documents \cup {NoDocument} : DescriptorChanges(d)
  BY <1>3 DEF GrantExpires, DescriptorChanges
<1>4. CASE Restart
  BY <1>4 DEF Restart, Running, Steps
<1>5. ASSUME NEW c \in Calls, NEW prepare \in BOOLEAN, NEW r \in Contents,
             NEW g \in issued \cup {None}, Call(c, prepare, r, g)
      PROVE  JournalInv'
  BY <1>5 DEF Call
<1>6. ASSUME NEW c \in Calls, NEW how \in {"ran", "refused"}, HostWorks(c, how) PROVE JournalInv'
  BY <1>6 DEF HostWorks
<1>7. ASSUME NEW c \in Calls, CallStep(c) PROVE JournalInv'
  <2>1. CASE SelectTarget(c)
    BY <2>1 DEF SelectTarget
  <2>13. ASSUME NEW candidates, NEW available, Route(c, candidates, available) PROVE JournalInv'
    BY <2>13 DEF Route, Unprepared
  <2>2. CASE ValidateSession(c)
    BY <2>2 DEF ValidateSession
  <2>3. CASE CheckGrant(c)
    BY <2>3 DEF CheckGrant, Valid
  <2>4. CASE ConsumeNonce(c)
    <3>1. pc[c] = "nonce" /\ pc' = [pc EXCEPT ![c] = "prepared"]
      BY <2>4 DEF ConsumeNonce
    <3>2. UNCHANGED <<prepareOnly, host, journal>>
      BY <2>4 DEF ConsumeNonce
    <3> QED BY <3>1, <3>2
  <2>5. CASE Prepared(c)
    <3>1. Records(c, "prepared")
      BY <2>5 DEF Prepared
    <3>2. /\ Len(journal'[c]) = Len(journal[c]) + 1
          /\ journal'[c][Len(journal[c]) + 1] = "prepared"
          /\ \A i \in 1 .. Len(journal[c]) : journal'[c][i] = journal[c][i]
          /\ \A q \in Calls \ {c} : journal'[q] = journal[q]
      BY <3>1, Recorded
    <3>3. pc[c] = "prepared" /\ Len(journal[c]) = 0
      BY <2>5 DEF Prepared
    <3>4. Len(journal'[c]) = 1 /\ journal'[c][1] = "prepared"
      BY <3>2, <3>3
    <3> QED BY <2>5, <3>2, <3>3, <3>4 DEF Prepared
  <2>12. CASE PreparedRaises(c)
    BY <2>12 DEF PreparedRaises, Unprepared
  <2>6. CASE Decided(c)
    BY <2>6 DEF Decided
  <2>11. CASE Started(c)
    <3>1. Records(c, "started")
      BY <2>11 DEF Started
    <3>2. /\ Len(journal'[c]) = Len(journal[c]) + 1
          /\ journal'[c][Len(journal[c]) + 1] = "started"
          /\ \A i \in 1 .. Len(journal[c]) : journal'[c][i] = journal[c][i]
          /\ \A q \in Calls \ {c} : journal'[q] = journal[q]
      BY <3>1, Recorded
    <3>3. pc[c] = "starting" /\ Len(journal[c]) = 1 /\ journal[c][1] = "prepared"
      BY <2>11 DEF Started
    <3>4. Len(journal'[c]) = 2 /\ journal'[c][1] = "prepared" /\ journal'[c][2] = "started"
      BY <3>2, <3>3
    <3> QED BY <2>11, <3>2, <3>3, <3>4 DEF Started
  <2>7. CASE Dispatch(c) \/ DispatchRaises(c)
    BY <2>7 DEF Dispatch, DispatchRaises
  <2>8. CASE AnswerRaises(c) \/ CompletedRaises(c) \/ RecordRaises(c)
    BY <2>8 DEF AnswerRaises, CompletedRaises, RecordRaises
  <2>9. CASE Completed(c) \/ Failed(c) \/ Rejected(c)
    <3>1. ASSUME NEW e \in {"completed", "failed", "rejected"}, Records(c, e),
                 \/ pc[c] = "completing" /\ e = "completed"
                 \/ pc[c] = "failing" /\ e = "failed"
                 \/ pc[c] = "rejecting" /\ e = "rejected",
                 pc' = [pc EXCEPT ![c] = "ended"], UNCHANGED <<prepareOnly, host>>
          PROVE  JournalInv'
      <4>1. /\ Len(journal'[c]) = Len(journal[c]) + 1
            /\ journal'[c][Len(journal[c]) + 1] = e
            /\ \A i \in 1 .. Len(journal[c]) : journal'[c][i] = journal[c][i]
            /\ \A q \in Calls \ {c} : journal'[q] = journal[q]
        BY <3>1, Recorded
      <4>2. pc'[c] = "ended" /\ \A q \in Calls \ {c} : pc'[q] = pc[q]
        BY <3>1
      <4>3. Reached(c) =>
                /\ Len(journal'[c]) >= 2
                /\ journal'[c][1] = "prepared" /\ journal'[c][2] = "started"
        <5>1. SUFFICES ASSUME Reached(c) PROVE Len(journal'[c]) >= 2
                                               /\ journal'[c][1] = "prepared"
                                               /\ journal'[c][2] = "started"
          OBVIOUS
        <5>2. /\ Len(journal[c]) >= 2 /\ Len(journal[c]) \in Nat
              /\ journal[c][1] = "prepared" /\ journal[c][2] = "started"
          BY <5>1
        <5>3. 1 \in 1 .. Len(journal[c]) /\ 2 \in 1 .. Len(journal[c])
          BY <5>2
        <5> HIDE DEF IInv, TypeOK, JournalInv, PhaseInv
        <5> QED BY <4>1, <5>2, <5>3
      <4>4. journal'[c][Len(journal'[c])] = e /\ (Reached(c)' <=> Reached(c))
        BY <3>1, <4>1
      <4>5. IF Reached(c) THEN e \in {"completed", "failed"} ELSE e \in {"failed", "rejected"}
        BY <3>1
      <4> QED BY <3>1, <4>1, <4>2, <4>3, <4>4, <4>5
    <3> QED BY <2>9, <3>1 DEF Completed, Failed, Rejected
  <2>14. ASSUME NEW passes \in BOOLEAN, Check(c, passes) PROVE JournalInv'
    BY <2>14 DEF Check, Normalized
  <2>10. ASSUME NEW status \in Results, Answer(c, status) PROVE JournalInv'
    BY <2>10 DEF Answer, Normalized
  <2> QED BY <1>7, <2>1, <2>2, <2>3, <2>4, <2>5, <2>6, <2>7, <2>8, <2>9, <2>10, <2>11,
           <2>12, <2>13, <2>14 DEF CallStep
<1>8. CASE UNCHANGED vars
  BY <1>8 DEF vars
<1> QED BY <1>1, <1>2, <1>3, <1>4, <1>5, <1>6, <1>7, <1>8, NextCases DEF Environment

\* A required verification passes only with its last check.
LEMMA Verified == IInv /\ [Next]_vars => VerifiedInv'
<1> SUFFICES ASSUME IInv, [Next]_vars PROVE VerifiedInv'
  OBVIOUS
<1> USE Typed, ContentsAssumption, StartsAssumption
    DEF IInv, TypeOK, VerifiedInv, ReadBack, sessionVars, grantVars, callVars, inputVars,
        outcomeVars, worldVars, Goes, Early
<1>1. CASE \E s \in Sessions : Open(s) \/ Close(s) \/ SessionExpires(s)
  BY <1>1 DEF Open, Close, SessionExpires
<1>2. CASE \E n \in Nonces : \E ch \in challenged : Issue(n, ch[1], ch[2])
  BY <1>2 DEF Issue
<1>3. CASE \/ \E g \in issued : GrantExpires(g)
         \/ \E d \in Documents \cup {NoDocument} : DescriptorChanges(d)
  BY <1>3 DEF GrantExpires, DescriptorChanges
<1>4. CASE Restart
  BY <1>4 DEF Restart, Running, Steps
<1>5. ASSUME NEW c \in Calls, NEW prepare \in BOOLEAN, NEW r \in Contents,
             NEW g \in issued \cup {None}, Call(c, prepare, r, g)
      PROVE  VerifiedInv'
  BY <1>5 DEF Call
<1>6. ASSUME NEW c \in Calls, NEW how \in {"ran", "refused"}, HostWorks(c, how)
      PROVE  VerifiedInv'
  BY <1>6 DEF HostWorks
<1>7. ASSUME NEW c \in Calls, CallStep(c) PROVE VerifiedInv'
  <2>1. CASE SelectTarget(c)
    BY <2>1 DEF SelectTarget
  <2>2. ASSUME NEW candidates, NEW available, Route(c, candidates, available)
        PROVE  VerifiedInv'
    BY <2>2 DEF Route, Unprepared
  <2>3. CASE ValidateSession(c) \/ CheckGrant(c) \/ ConsumeNonce(c)
    <3>1. PICK to \in {"grant", "nonce", "prepared"} : pc' = [pc EXCEPT ![c] = to]
      BY <2>3 DEF ValidateSession, CheckGrant, ConsumeNonce
    <3>2. pc[c] \in Early /\ UNCHANGED <<request, checked, result, host>>
      BY <2>3 DEF ValidateSession, CheckGrant, ConsumeNonce
    <3>3. checked[c] = << >> /\ result[c] = "none"
      BY <3>2
    <3>4. pc'[c] = to /\ \A q \in Calls \ {c} : pc'[q] = pc[q]
      BY <3>1
    <3> QED BY <3>2, <3>3, <3>4
  <2>4. CASE Prepared(c) \/ PreparedRaises(c) \/ Decided(c)
    <3>1. PICK to \in {"ended", "decided", "raised", "rejecting", "starting"} :
             pc' = [pc EXCEPT ![c] = to]
      BY <2>4 DEF Prepared, PreparedRaises, Unprepared, Decided
    <3>2. pc[c] \in {"prepared", "decided"} /\ UNCHANGED <<request, checked, result, host>>
      BY <2>4 DEF Prepared, PreparedRaises, Decided
    <3>3. checked[c] = << >> /\ result[c] = "none"
      BY <3>2
    <3>4. pc'[c] = to /\ \A q \in Calls \ {c} : pc'[q] = pc[q]
      BY <3>1
    <3> QED BY <3>2, <3>3, <3>4
  <2>5. CASE Started(c) \/ Dispatch(c) \/ DispatchRaises(c)
    BY <2>5 DEF Started, Dispatch, DispatchRaises, PhaseInv, Reached
  <2>6. CASE AnswerRaises(c) \/ CompletedRaises(c) \/ RecordRaises(c)
    <3>1. PICK to \in {"failing", "raised"} : pc' = [pc EXCEPT ![c] = to]
      BY <2>6 DEF AnswerRaises, CompletedRaises, RecordRaises
    <3>2. UNCHANGED <<request, checked, result, host>>
      BY <2>6 DEF AnswerRaises, CompletedRaises, RecordRaises
    <3> QED BY <3>1, <3>2
  <2>7. CASE Completed(c) \/ Failed(c) \/ Rejected(c)
    BY <2>7 DEF Completed, Failed, Rejected
  <2>8. ASSUME NEW status \in Results, Answer(c, status) PROVE VerifiedInv'
    <3>1. request[c].checks \in Nat /\ checked[c] = << >> /\ result[c] = "none"
      BY <2>8 DEF Answer, Requests
    <3>2. Normalized(request[c], status, << >>) = "succeeded" =>
             status = "succeeded" /\ ~request[c].required
      BY DEF Normalized, Passed
    <3>3. status = "succeeded" => host[c] = "ran"
      BY <2>8 DEF Answer
    <3>4. CASE status = "succeeded" /\ request[c].checks > 0
      BY <2>8, <3>1, <3>3, <3>4 DEF Answer
    <3>5. CASE ~(status = "succeeded" /\ request[c].checks > 0)
      BY <2>8, <3>1, <3>2, <3>3, <3>5 DEF Answer
    <3> QED BY <3>4, <3>5
  <2>9. ASSUME NEW passes \in BOOLEAN, Check(c, passes) PROVE VerifiedInv'
    <3> DEFINE performed == Append(checked[c], passes)
    <3>1. /\ pc[c] = "verifying" /\ host[c] = "ran" /\ result[c] = "none"
          /\ request[c].checks \in Nat
          /\ checked[c] \in Seq(BOOLEAN) /\ Len(checked[c]) < request[c].checks
      BY <2>9 DEF Check, Requests
    <3>2. performed \in Seq(BOOLEAN) /\ Len(performed) = Len(checked[c]) + 1
      BY <3>1
    <3>3. checked' = [checked EXCEPT ![c] = performed]
      BY <2>9 DEF Check
    <3>4. Normalized(request[c], "succeeded", performed) = "succeeded" /\ request[c].required =>
             \A i \in 1 .. Len(performed) : performed[i]
      BY DEF Normalized, Passed
    <3>5. UNCHANGED <<request, host>>
      BY <2>9 DEF Check
    <3>6. CASE Len(performed) = request[c].checks
      <4>1. /\ pc' = [pc EXCEPT ![c] = "completing"]
            /\ result' = [result EXCEPT ![c] = Normalized(request[c], "succeeded", performed)]
        BY <2>9, <3>6 DEF Check
      <4> HIDE DEF performed
      <4> QED BY <3>1, <3>2, <3>3, <3>4, <3>5, <3>6, <4>1
    <3>7. CASE Len(performed) # request[c].checks
      <4>1. pc' = [pc EXCEPT ![c] = "verifying"] /\ result' = [result EXCEPT ![c] = result[c]]
        BY <2>9, <3>7 DEF Check
      <4> HIDE DEF performed
      <4> QED BY <3>1, <3>2, <3>3, <3>5, <3>7, <4>1
    <3> QED BY <3>6, <3>7
  <2> QED BY <1>7, <2>1, <2>2, <2>3, <2>4, <2>5, <2>6, <2>7, <2>8, <2>9 DEF CallStep
<1>8. CASE UNCHANGED vars
  BY <1>8 DEF vars
<1> QED BY <1>1, <1>2, <1>3, <1>4, <1>5, <1>6, <1>7, <1>8, NextCases DEF Environment

-----------------------------------------------------------------------------
(* Theorems                                                                *)

\* Nothing was called or issued yet.
LEMMA InitInv == Init => IInv
  BY StartsAssumption DEF Init, IInv, TypeOK, PhaseInv, SignedInv, ApprovedInv, LateInv,
     JournalInv, VerifiedInv, Early, Dispatched, Reached, Approved, Steps, Routed, Results, Events

\* The inductive invariant holds in every reachable state.
THEOREM Invariance == Spec => []IInv
<1>1. IInv /\ [Next]_vars => IInv'
  BY Typed, Phases, Signed, ApprovedWithGrant, LateUnapproved, Journals, Verified
     DEF IInv
<1> QED BY InitInv, <1>1, PTL DEF Spec

\* Every variable of the runtime keeps its type.
THEOREM TypeCorrect == Spec => []TypeOK
<1>1. IInv => TypeOK
  BY DEF IInv
<1> QED BY Invariance, <1>1, PTL

\* A grant takes at most one critical request to the host, however the calls of
\* any number of threads interleave and whenever the runtime restarts.
THEOREM ApprovedOnceCorrect == Spec => []ApprovedOnce
<1>1. IInv => ApprovedOnce
  BY DEF IInv, PhaseInv, ApprovedInv, Approved, ApprovedOnce
<1> QED BY Invariance, <1>1, PTL

\* A critical request reaches the host only with a grant issued for it and for
\* the provider it is routed to.
THEOREM OnlyApprovedCorrect == Spec => []OnlyApprovedReachHost
<1>1. IInv => OnlyApprovedReachHost
  BY DEF IInv, TypeOK, PhaseInv, ApprovedInv, Approved, OnlyApprovedReachHost
<1> QED BY Invariance, <1>1, PTL

\* No call made after the end of its session reaches the host.
THEOREM SessionCorrect == Spec => []EndedSessionNeverReachesHost
<1>1. IInv => EndedSessionNeverReachesHost
  BY DEF IInv, TypeOK, PhaseInv, LateInv, EndedSessionNeverReachesHost
<1> QED BY Invariance, <1>1, PTL

\* Nothing was or will be done for a request reported as rejected.
THEOREM RejectedCorrect == Spec => []RejectedMeansNoWork
<1>1. IInv => RejectedMeansNoWork
  BY DEF IInv, PhaseInv, RejectedMeansNoWork
<1> QED BY Invariance, <1>1, PTL

\* The journal knows of every request before the host does.
THEOREM EvidenceCorrect == Spec => []EvidenceOfEveryEffect
<1>1. IInv => EvidenceOfEveryEffect
  BY DEF IInv, JournalInv, EvidenceOfEveryEffect
<1> QED BY Invariance, <1>1, PTL

\* A required verification is reported as succeeded only if every declared check
\* was read back after the work.
THEOREM VerifiedCorrect == Spec => []VerifiedMeansReadBack
<1>1. IInv => VerifiedMeansReadBack
  BY DEF IInv, VerifiedInv, ReadBack, VerifiedMeansReadBack
<1> QED BY Invariance, <1>1, PTL
=============================================================================
