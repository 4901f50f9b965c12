--------------------------- MODULE HitlGateProofs ---------------------------
(***************************************************************************)
(* Proofs about the gate, for any set of calls, users, actions, tools,     *)
(* keys and hosts.                                                         *)
(***************************************************************************)
EXTENDS HitlGateRefinement, TLAPS

-----------------------------------------------------------------------------
(* Types.                                                                  *)

LEMMA EffectiveTierType ==
    ASSUME NEW u \in User, NEW a \in Action
    PROVE  EffectiveTier(u, a) \in Tier
BY ActionAssumption, PlaceholderAssumption DEF EffectiveTier, BaseTier, Tier

LEMMA SessionDomainsType ==
    ASSUME domains \in [User -> SUBSET Host], NEW u \in User, NEW a \in Action, NEW ok
    PROVE  SessionDomainsAfter(u, a, ok) \in [User -> SUBSET Host]
<1>1. HostOf[a] \in Host \cup {NoHost}
  BY ActionAssumption
<1>. QED
  BY <1>1 DEF SessionDomainsAfter

LEMMA TypeInit == Init => TypeOK
BY BoundAssumption DEF Init, TypeOK

LEMMA TypeNext == TypeOK /\ GateInv /\ [Next]_vars => TypeOK'
<1>. SUFFICES ASSUME TypeOK, GateInv, [Next]_vars PROVE TypeOK'
  OBVIOUS
<1>1. ASSUME NEW c \in Call, NEW u \in User, NEW a \in Action, NEW s \in 1..MaxSessions,
             GateProceed(c, u, a, s)
      PROVE  TypeOK'
  <2>1. domains' \in [User -> SUBSET Host]
    BY <1>1, SessionDomainsType DEF GateProceed, TypeOK
  <2>2. told' \in [Call -> SUBSET {"request", "notification", "expired"}]
    BY <1>1 DEF GateProceed, TypeOK
  <2>3. tier' \in [Call -> Tier \cup {NoTier}]
    BY <1>1, EffectiveTierType DEF GateProceed, Classify, TypeOK
  <2>4. session' \in [Call -> Nat]
    BY <1>1, BoundAssumption DEF GateProceed, Classify, TypeOK
  <2>. QED
    BY <1>1, <2>1, <2>2, <2>3, <2>4 DEF GateProceed, Classify, TypeOK, sessionVars
<1>2. ASSUME NEW c \in Call, NEW u \in User, NEW a \in Action, NEW s \in 1..MaxSessions,
             GateAsk(c, u, a, s)
      PROVE  TypeOK'
  BY <1>2, EffectiveTierType, BoundAssumption DEF GateAsk, Classify, TypeOK, sessionVars
<1>3. ASSUME NEW c \in Call, NEW v \in Verdict, Decide(c, v)
      PROVE  TypeOK'
  <2>1. CASE ResolvePending(c, v)
    <3>1. user[c] \in User /\ action[c] \in Action
      BY <2>1 DEF ResolvePending, GateInv, WaitersAreKnown, CallHistory, OpenCall
    <3>2. GrantOf(c) \in Grant
      BY <3>1, ActionAssumption DEF GrantOf, Grant
    <3>3. grants' \in [User -> SUBSET Grant]
      BY <2>1, <3>1, <3>2 DEF ResolvePending, TypeOK
    <3>. QED
      BY <1>3, <2>1, <3>3 DEF Decide, ResolvePending, Settle, Hear, TypeOK, sessionVars, Verdict
  <2>2. CASE IgnoreDecision(c, v)
    BY <1>3, <2>2 DEF Decide, IgnoreDecision, Hear, TypeOK, sessionVars, Verdict
  <2>. QED
    BY <1>3, <2>1, <2>2 DEF Decide
<1>4. ASSUME NEW c \in Call, Age(c) PROVE TypeOK'
  BY <1>4 DEF Age, TypeOK, callVars, sessionVars
<1>5. ASSUME NEW c \in Call, Timeout(c) PROVE TypeOK'
  BY <1>5 DEF Timeout, Settle, Hear, TypeOK, sessionVars
<1>6. ASSUME NEW c \in Call, GateReturn(c) PROVE TypeOK'
  <2>1. user[c] \in User /\ action[c] \in Action /\ decision[c] \in {"approved", "rejected"}
    BY <1>6 DEF GateReturn, GateInv, CallHistory, OpenCall, Agrees
  <2>. QED
    BY <1>6, <2>1, SessionDomainsType DEF GateReturn, TypeOK, sessionVars
<1>7. ASSUME ExpireStalePending PROVE TypeOK'
  BY <1>7 DEF ExpireStalePending, TypeOK, callVars, sessionVars
<1>8. ASSUME NEW u \in User, OpenSession(u) PROVE TypeOK'
  BY <1>8, BoundAssumption DEF OpenSession, TypeOK, callVars
<1>9. ASSUME NEW u \in User, ExpireSession(u) PROVE TypeOK'
  BY <1>9 DEF ExpireSession, TypeOK, callVars
<1>10. ASSUME Restart PROVE TypeOK'
  BY <1>10, BoundAssumption DEF Restart, TypeOK
<1>11. ASSUME UNCHANGED vars PROVE TypeOK'
  BY <1>11 DEF vars, callVars, sessionVars, TypeOK
<1>. QED
  BY <1>1, <1>2, <1>3, <1>4, <1>5, <1>6, <1>7, <1>8, <1>9, <1>10, <1>11 DEF Next

-----------------------------------------------------------------------------
(* The inductive invariant of the gate.                                    *)

LEMMA GateInvInit == Init => GateInv
BY DEF Init, GateInv, WaitersAreKnown, CallHistory, IdleCall, ExpiredMeansTimeout,
       GrantsWereGiven, DomainsWereAsked

\* A step that leaves the grants alone and, of every call that was started, who
\* asked for what and what was answered, keeps the grants justified.
LEMMA GrantsFrame ==
    ASSUME TypeOK, GrantsWereGiven,
           \A u \in User : grants'[u] \subseteq grants[u],
           \A c \in Call : word[c] # "none" =>
               /\ user'[c] = user[c] /\ action'[c] = action[c]
               /\ word'[c] = word[c] /\ decision'[c] = decision[c]
    PROVE  GrantsWereGiven'
<1>. SUFFICES ASSUME NEW u \in User, NEW g \in grants'[u]
              PROVE  /\ user'[g.by] = u
                     /\ g.tool = ToolOf[action'[g.by]] /\ g.key = KeyOf[action'[g.by]]
                     /\ word'[g.by] = "session-approved"
                     /\ decision'[g.by] = "approved"
  BY DEF GrantsWereGiven
<1>1. g \in grants[u] /\ g.by \in Call
  BY DEF TypeOK, Grant
<1>. QED
  BY <1>1 DEF GrantsWereGiven

\* The same for the domains: calls that have returned stay as they are, and no
\* domain is added.
LEMMA DomainsFrame ==
    ASSUME TypeOK, DomainsWereAsked,
           \A u \in User : domains'[u] \subseteq domains[u],
           \A c \in Call : outcome[c] = "proceed" =>
               user'[c] = user[c] /\ action'[c] = action[c] /\ outcome'[c] = "proceed"
    PROVE  DomainsWereAsked'
<1>. SUFFICES ASSUME NEW u \in User, NEW h \in domains'[u]
              PROVE  \E c \in Call :
                        /\ user'[c] = u /\ outcome'[c] = "proceed"
                        /\ ToolOf[action'[c]] = DomainRequest /\ HostOf[action'[c]] = h
  BY DEF DomainsWereAsked
<1>1. PICK c \in Call : /\ user[c] = u /\ outcome[c] = "proceed"
                        /\ ToolOf[action[c]] = DomainRequest /\ HostOf[action[c]] = h
  BY DEF DomainsWereAsked
<1>. QED
  BY <1>1

\* A call that returns with "proceed" justifies the domain its caller adds.
LEMMA DomainsAfterReturn ==
    ASSUME TypeOK, DomainsWereAsked,
           NEW d \in Call, NEW u \in User, NEW a \in Action, NEW ok \in BOOLEAN,
           domains' = SessionDomainsAfter(u, a, ok),
           ok => outcome'[d] = "proceed" /\ user'[d] = u /\ action'[d] = a,
           \A c \in Call : outcome[c] = "proceed" =>
               user'[c] = user[c] /\ action'[c] = action[c] /\ outcome'[c] = "proceed"
    PROVE  DomainsWereAsked'
<1>1. CASE ~(ok /\ ToolOf[a] = DomainRequest)
  BY <1>1, DomainsFrame DEF SessionDomainsAfter
<1>2. CASE ok /\ ToolOf[a] = DomainRequest
  <2>. SUFFICES ASSUME NEW w \in User, NEW h \in domains'[w]
                PROVE  \E c \in Call :
                          /\ user'[c] = w /\ outcome'[c] = "proceed"
                          /\ ToolOf[action'[c]] = DomainRequest /\ HostOf[action'[c]] = h
    BY DEF DomainsWereAsked
  <2>1. CASE h \in domains[w]
    <3>1. PICK c \in Call : /\ user[c] = w /\ outcome[c] = "proceed"
                            /\ ToolOf[action[c]] = DomainRequest /\ HostOf[action[c]] = h
      BY <2>1 DEF DomainsWereAsked
    <3>. QED
      BY <3>1
  <2>2. CASE h \notin domains[w]
    <3>1. w = u /\ h = HostOf[a]
      BY <1>2, <2>2 DEF SessionDomainsAfter, TypeOK
    <3>. QED
      BY <1>2, <3>1
  <2>. QED
    BY <2>1, <2>2
<1>. QED
  BY <1>1, <1>2

LEMMA GateInvNext == TypeOK /\ GateInv /\ [Next]_vars => GateInv'
<1>. SUFFICES ASSUME TypeOK, GateInv, [Next]_vars PROVE GateInv'
  OBVIOUS
<1>. USE DEF GateInv
<1>1. ASSUME NEW c \in Call, NEW u \in User, NEW a \in Action, NEW s \in 1..MaxSessions,
             GateProceed(c, u, a, s)
      PROVE  GateInv'
  <2>. USE <1>1 DEF GateProceed, Classify
  <2>1. IdleCall(c)
    BY DEF CallHistory
  <2>2. EffectiveTier(u, a) \in Tier
    BY EffectiveTierType
  <2>3. WaitersAreKnown'
    BY DEF WaitersAreKnown, TypeOK
  <2>4. ASSUME NEW d \in Call PROVE CallHistory(d)'
    <3>1. CASE d = c
      BY <2>1, <2>2, <3>1, PlaceholderAssumption DEF IdleCall, CallHistory, ReturnedCall, TypeOK
    <3>2. CASE d # c
      BY <3>2 DEF CallHistory, IdleCall, OpenCall, ReturnedCall, TypeOK
    <3>. QED
      BY <3>1, <3>2
  <2>5. ExpiredMeansTimeout'
    BY DEF ExpiredMeansTimeout, TypeOK
  <2>6. GrantsWereGiven'
    BY <2>1, GrantsFrame DEF IdleCall, TypeOK
  <2>7. DomainsWereAsked'
    <3>1. \A e \in Call : outcome[e] = "proceed" => e # c
      BY <2>1 DEF IdleCall
    <3>. QED
      BY <3>1, DomainsAfterReturn DEF TypeOK
  <2>. QED
    BY <2>3, <2>4, <2>5, <2>6, <2>7
<1>2. ASSUME NEW c \in Call, NEW u \in User, NEW a \in Action, NEW s \in 1..MaxSessions,
             GateAsk(c, u, a, s)
      PROVE  GateInv'
  <2>. USE <1>2 DEF GateAsk, Classify
  <2>1. IdleCall(c)
    BY DEF CallHistory
  <2>3. WaitersAreKnown'
    BY DEF WaitersAreKnown, TypeOK
  <2>4. ASSUME NEW d \in Call PROVE CallHistory(d)'
    <3>1. CASE d = c
      BY <2>1, <3>1 DEF IdleCall, CallHistory, OpenCall, TypeOK
    <3>2. CASE d # c
      BY <3>2 DEF CallHistory, IdleCall, OpenCall, ReturnedCall, TypeOK
    <3>. QED
      BY <3>1, <3>2
  <2>5. ExpiredMeansTimeout'
    BY DEF ExpiredMeansTimeout, TypeOK
  <2>6. GrantsWereGiven'
    BY <2>1, GrantsFrame DEF IdleCall, TypeOK
  <2>7. DomainsWereAsked'
    BY <2>1, DomainsFrame DEF IdleCall, TypeOK
  <2>. QED
    BY <2>3, <2>4, <2>5, <2>6, <2>7
<1>3. ASSUME NEW c \in Call, NEW v \in Verdict, Decide(c, v)
      PROVE  GateInv'
  <2>1. CASE ResolvePending(c, v)
    <3>. USE <1>3, <2>1 DEF Decide, ResolvePending, Settle, Hear
    <3>1. phase[c] = "waiting" /\ OpenCall(c) /\ word[c] = "none" /\ decision[c] = "none"
      BY DEF WaitersAreKnown, CallHistory
    <3>2. /\ phase' = [phase EXCEPT ![c] = "settled"]
          /\ word' = [word EXCEPT ![c] = v]
          /\ decision' = [decision EXCEPT ![c] = IF v = "rejected" THEN "rejected" ELSE "approved"]
      BY <3>1 DEF TypeOK
    <3>3. WaitersAreKnown'
      BY <3>2 DEF WaitersAreKnown, TypeOK
    <3>4. ASSUME NEW d \in Call PROVE CallHistory(d)'
      <4>1. CASE d = c
        BY <3>1, <3>2, <4>1 DEF CallHistory, OpenCall, Agrees, Verdict, TypeOK
      <4>2. CASE d # c
        BY <3>2, <4>2 DEF CallHistory, IdleCall, OpenCall, ReturnedCall, Agrees, TypeOK
      <4>. QED
        BY <4>1, <4>2
    <3>5. ExpiredMeansTimeout'
      BY <3>1, <3>2 DEF ExpiredMeansTimeout, TypeOK
    <3>6. GrantsWereGiven'
      <4>. SUFFICES ASSUME NEW w \in User, NEW g \in grants'[w]
                    PROVE  /\ user'[g.by] = w
                           /\ g.tool = ToolOf[action'[g.by]] /\ g.key = KeyOf[action'[g.by]]
                           /\ word'[g.by] = "session-approved"
                           /\ decision'[g.by] = "approved"
        BY DEF GrantsWereGiven
      <4>1. CASE g \in grants[w]
        <5>1. g.by \in Call /\ word[g.by] = "session-approved"
          BY <4>1 DEF GrantsWereGiven, TypeOK, Grant
        <5>2. g.by # c
          BY <3>1, <5>1
        <5>. QED
          BY <3>2, <4>1, <5>1, <5>2 DEF GrantsWereGiven, TypeOK
      <4>2. CASE g \notin grants[w]
        <5>1. v = "session-approved" /\ w = user[c] /\ g = GrantOf(c)
          BY <4>2 DEF TypeOK
        <5>. QED
          BY <3>2, <5>1 DEF GrantOf, TypeOK
      <4>. QED
        BY <4>1, <4>2
    <3>7. DomainsWereAsked'
      BY DomainsFrame DEF TypeOK
    <3>. QED
      BY <3>3, <3>4, <3>5, <3>6, <3>7
  <2>2. CASE IgnoreDecision(c, v)
    <3>. USE <1>3, <2>2 DEF Decide, IgnoreDecision, Hear
    <3>1. phase[c] # "waiting" /\ phase[c] # "idle"
      BY DEF WaitersAreKnown, CallHistory, IdleCall
    <3>2. WaitersAreKnown'
      BY DEF WaitersAreKnown
    <3>3. word[c] # "none" => word' = word
      BY DEF TypeOK
    <3>4. phase[c] # "lost" => word[c] # "none"
      BY <3>1 DEF CallHistory, ReturnedCall, Agrees, TypeOK
    <3>5. ASSUME NEW d \in Call PROVE CallHistory(d)'
      <4>1. phase[d] # "lost" => word'[d] = word[d]
        BY <3>3, <3>4 DEF TypeOK
      <4>. QED
        BY <4>1 DEF CallHistory, IdleCall, OpenCall, ReturnedCall, Agrees
    <3>6. ExpiredMeansTimeout'
      BY DEF ExpiredMeansTimeout, TypeOK
    <3>7. GrantsWereGiven'
      BY GrantsFrame DEF TypeOK
    <3>8. DomainsWereAsked'
      BY DomainsFrame DEF TypeOK
    <3>. QED
      BY <3>2, <3>5, <3>6, <3>7, <3>8
  <2>. QED
    BY <1>3, <2>1, <2>2 DEF Decide
<1>4. ASSUME NEW c \in Call, Age(c) PROVE GateInv'
  BY <1>4 DEF Age, callVars, WaitersAreKnown, CallHistory, IdleCall, OpenCall,
              ReturnedCall, Agrees, ExpiredMeansTimeout, GrantsWereGiven, DomainsWereAsked
<1>5. ASSUME NEW c \in Call, Timeout(c) PROVE GateInv'
  <2>. USE <1>5 DEF Timeout, Settle, Hear
  <2>1. phase[c] = "waiting" /\ OpenCall(c) /\ word[c] = "none" /\ decision[c] = "none"
    BY DEF WaitersAreKnown, CallHistory
  <2>2. /\ phase' = [phase EXCEPT ![c] = "settled"]
        /\ word' = [word EXCEPT ![c] = "timeout"]
        /\ decision' = [decision EXCEPT ![c] = "rejected"]
    BY <2>1 DEF TypeOK
  <2>3. WaitersAreKnown'
    BY <2>2 DEF WaitersAreKnown, TypeOK
  <2>4. ASSUME NEW d \in Call PROVE CallHistory(d)'
    <3>1. CASE d = c
      BY <2>1, <2>2, <3>1 DEF CallHistory, OpenCall, Agrees, TypeOK
    <3>2. CASE d # c
      BY <2>2, <3>2 DEF CallHistory, IdleCall, OpenCall, ReturnedCall, Agrees, TypeOK
    <3>. QED
      BY <3>1, <3>2
  <2>5. ExpiredMeansTimeout'
    BY <2>2 DEF ExpiredMeansTimeout, TypeOK
  <2>6. GrantsWereGiven'
    BY <2>1, <2>2, GrantsFrame DEF TypeOK
  <2>7. DomainsWereAsked'
    BY DomainsFrame DEF TypeOK
  <2>. QED
    BY <2>3, <2>4, <2>5, <2>6, <2>7
<1>6. ASSUME NEW c \in Call, GateReturn(c) PROVE GateInv'
  <2>. USE <1>6 DEF GateReturn
  <2>1. OpenCall(c) /\ Agrees(decision[c], word[c])
    BY DEF CallHistory
  <2>3. WaitersAreKnown'
    BY DEF WaitersAreKnown, TypeOK
  <2>4. ASSUME NEW d \in Call PROVE CallHistory(d)'
    <3>1. CASE d = c
      BY <2>1, <3>1 DEF CallHistory, OpenCall, ReturnedCall, Agrees, TypeOK
    <3>2. CASE d # c
      BY <3>2 DEF CallHistory, IdleCall, OpenCall, ReturnedCall, Agrees, TypeOK
    <3>. QED
      BY <3>1, <3>2
  <2>5. ExpiredMeansTimeout'
    BY DEF ExpiredMeansTimeout
  <2>6. GrantsWereGiven'
    BY GrantsFrame DEF TypeOK
  <2>7. DomainsWereAsked'
    <3>1. user[c] \in User /\ action[c] \in Action
      BY <2>1 DEF OpenCall
    <3>2. \A e \in Call : outcome[e] = "proceed" => e # c
      BY <2>1 DEF OpenCall
    <3>. QED
      BY <3>1, <3>2, DomainsAfterReturn DEF TypeOK
  <2>. QED
    BY <2>3, <2>4, <2>5, <2>6, <2>7
<1>7. ASSUME ExpireStalePending PROVE GateInv'
  <2>. USE <1>7 DEF ExpireStalePending, callVars
  <2>1. ASSUME NEW d \in Call PROVE CallHistory(d)'
    BY DEF CallHistory, IdleCall, OpenCall, ReturnedCall, Agrees, TypeOK
  <2>2. (WaitersAreKnown /\ ExpiredMeansTimeout /\ GrantsWereGiven /\ DomainsWereAsked)'
    BY DEF WaitersAreKnown, ExpiredMeansTimeout, GrantsWereGiven, DomainsWereAsked
  <2>. QED
    BY <2>1, <2>2
<1>8. ASSUME NEW u \in User, OpenSession(u) PROVE GateInv'
  BY <1>8 DEF OpenSession, callVars, WaitersAreKnown, CallHistory, IdleCall, OpenCall,
              ReturnedCall, Agrees, ExpiredMeansTimeout, GrantsWereGiven, DomainsWereAsked
<1>9. ASSUME NEW u \in User, ExpireSession(u) PROVE GateInv'
  <2>. USE <1>9 DEF ExpireSession, callVars
  <2>1. (WaitersAreKnown /\ (\A d \in Call : CallHistory(d)) /\ ExpiredMeansTimeout)'
    BY DEF WaitersAreKnown, CallHistory, IdleCall, OpenCall, ReturnedCall, Agrees,
           ExpiredMeansTimeout
  <2>2. GrantsWereGiven'
    BY GrantsFrame DEF TypeOK
  <2>3. DomainsWereAsked'
    BY DomainsFrame DEF TypeOK
  <2>. QED
    BY <2>1, <2>2, <2>3
<1>10. ASSUME Restart PROVE GateInv'
  <2>. USE <1>10 DEF Restart
  <2>1. WaitersAreKnown'
    BY DEF WaitersAreKnown, TypeOK
  <2>2. ASSUME NEW d \in Call PROVE CallHistory(d)'
    BY DEF CallHistory, IdleCall, OpenCall, ReturnedCall, Agrees, TypeOK
  <2>3. ExpiredMeansTimeout'
    BY DEF ExpiredMeansTimeout
  <2>4. GrantsWereGiven' /\ DomainsWereAsked'
    BY DEF GrantsWereGiven, DomainsWereAsked
  <2>. QED
    BY <2>1, <2>2, <2>3, <2>4
<1>11. ASSUME UNCHANGED vars PROVE GateInv'
  BY <1>11 DEF vars, callVars, WaitersAreKnown, CallHistory, IdleCall, OpenCall,
               ReturnedCall, Agrees, ExpiredMeansTimeout, GrantsWereGiven, DomainsWereAsked
<1>. QED
  BY <1>1, <1>2, <1>3, <1>4, <1>5, <1>6, <1>7, <1>8, <1>9, <1>10, <1>11 DEF Next

\* The gate's state is well typed and its inductive invariant holds, for any
\* number of calls, users, tools and domains (hitl-gate.ts as a whole).
THEOREM GateInvariant == Spec => [](TypeOK /\ GateInv)
<1>1. Init => TypeOK /\ GateInv
  BY TypeInit, GateInvInit
<1>2. TypeOK /\ GateInv /\ [Next]_vars => (TypeOK /\ GateInv)'
  BY TypeNext, GateInvNext
<1>. QED
  BY <1>1, <1>2, PTL DEF Spec

-----------------------------------------------------------------------------
(* What follows from it.                                                   *)

LEMMA PhaseCases ==
    ASSUME TypeOK, GateInv, NEW c \in Call
    PROVE  \/ IdleCall(c)
           \/ phase[c] \in {"waiting", "settled", "lost"} /\ OpenCall(c)
           \/ phase[c] = "returned" /\ ReturnedCall(c)
BY DEF TypeOK, GateInv, CallHistory

\* The first answer that reaches resolveApproval or the timer decides.
THEOREM FirstAnswerDecides == Spec => []FirstAnswerWins
<1>1. TypeOK /\ GateInv => FirstAnswerWins
  BY PhaseCases, PlaceholderAssumption
     DEF FirstAnswerWins, IdleCall, OpenCall, ReturnedCall, Agrees, Tier
<1>. QED
  BY <1>1, GateInvariant, PTL

\* sessionGrants never holds a grant the user did not give.
THEOREM GrantsAreGiven == Spec => []GrantsWereGiven
<1>1. GateInv => GrantsWereGiven
  BY DEF GateInv
<1>. QED
  BY <1>1, GateInvariant, PTL

\* No call that was reported expired runs.
THEOREM ExpiredIsFinal == Spec => []ExpiredNeverProceeds
<1>1. TypeOK /\ GateInv => ExpiredNeverProceeds
  BY PhaseCases DEF ExpiredNeverProceeds, GateInv, ExpiredMeansTimeout, IdleCall, OpenCall,
                    ReturnedCall, Agrees
<1>. QED
  BY <1>1, GateInvariant, PTL

\* The row of a call that returned stands for what happened: approved exactly
\* if the call went ahead, rejected if the user said no, never still pending.
THEOREM RowsTell == Spec => []RowTellsOutcome
<1>1. TypeOK /\ GateInv => RowTellsOutcome
  BY DEF RowTellsOutcome, GateInv, CallHistory, ReturnedCall, Agrees
<1>. QED
  BY <1>1, GateInvariant, PTL

\* Neither the gate, nor its timer, nor the sweep rewrites a decided row.
THEOREM DecidedRows == Spec => DecidedRowsAreFinal
<1>1. TypeOK /\ GateInv /\ [Next]_vars =>
         [\A c \in Call : store[c] \in {"approved", "rejected"} => store'[c] = store[c]]_vars
  <2>. SUFFICES ASSUME TypeOK, GateInv, Next, NEW c \in Call,
                       store[c] \in {"approved", "rejected"}
                PROVE  store'[c] = store[c]
    OBVIOUS
  <2>1. phase[c] = "returned" /\ c \notin armed
    BY PhaseCases DEF IdleCall, OpenCall, GateInv, WaitersAreKnown
  <2>2. ASSUME NEW d \in Call, Timeout(d) \/ Age(d) \/ GateReturn(d)
        PROVE  store'[c] = store[c]
    BY <2>1, <2>2 DEF Timeout, Age, GateReturn, TypeOK
  <2>3. ASSUME NEW d \in Call, NEW u \in User, NEW a \in Action, NEW s \in 1..MaxSessions,
               GateProceed(d, u, a, s) \/ GateAsk(d, u, a, s)
        PROVE  store'[c] = store[c]
    BY <2>1, <2>3 DEF GateProceed, GateAsk, Classify, TypeOK
  <2>4. ASSUME NEW d \in Call, NEW v \in Verdict, Decide(d, v)
        PROVE  store'[c] = store[c]
    BY <2>4 DEF Decide
  <2>5. ASSUME ExpireStalePending PROVE store'[c] = store[c]
    BY <2>5 DEF ExpireStalePending
  <2>6. ASSUME NEW u \in User, OpenSession(u) \/ ExpireSession(u) PROVE store'[c] = store[c]
    BY <2>6 DEF OpenSession, ExpireSession
  <2>7. ASSUME Restart PROVE store'[c] = store[c]
    BY <2>7 DEF Restart
  <2>. QED
    BY <2>2, <2>3, <2>4, <2>5, <2>6, <2>7 DEF Next
<1>. QED
  BY <1>1, GateInvariant, PTL DEF DecidedRowsAreFinal, Spec

-----------------------------------------------------------------------------
(* Downgrades.                                                             *)

Covered(c) ==
    \/ \E d \in Call : user[d] = user[c] /\ GrantCovers(d, c)
    \/ /\ ToolOf[action[c]] = BrowseWeb
       /\ \/ MatchesDomainSet(HostOf[action[c]], TrustedDomains)
          \/ \E d \in Call : user[d] = user[c] /\ DomainCovers(d, c)

\* What is known of a call that has been answered or has returned stays known.
LEMMA HistoryStays ==
    ASSUME TypeOK, GateInv, Next, NEW d \in Call
    PROVE  /\ phase[d] # "idle" =>
                user'[d] = user[d] /\ action'[d] = action[d] /\ tier'[d] = tier[d]
           /\ word[d] # "none" => word'[d] = word[d]
           /\ outcome[d] # "none" => outcome'[d] = outcome[d]
<1>6. phase[d] = "settled" => outcome[d] = "none"
  BY DEF GateInv, CallHistory, OpenCall
<1>7. phase[d] = "idle" => outcome[d] = "none"
  BY DEF GateInv, CallHistory, IdleCall
<1>1. ASSUME NEW c \in Call, NEW u \in User, NEW a \in Action, NEW s \in 1..MaxSessions,
             GateProceed(c, u, a, s) \/ GateAsk(c, u, a, s)
      PROVE  /\ phase[d] # "idle" =>
                  user'[d] = user[d] /\ action'[d] = action[d] /\ tier'[d] = tier[d]
             /\ word[d] # "none" => word'[d] = word[d]
             /\ outcome[d] # "none" => outcome'[d] = outcome[d]
  BY <1>7, <1>1 DEF GateProceed, GateAsk, Classify, TypeOK
<1>2. ASSUME NEW c \in Call, NEW v \in Verdict, Decide(c, v)
      PROVE  /\ user' = user /\ action' = action /\ tier' = tier /\ outcome' = outcome
             /\ word[d] # "none" => word'[d] = word[d]
  BY <1>2 DEF Decide, Hear, TypeOK
<1>3. ASSUME NEW c \in Call, Timeout(c)
      PROVE  /\ user' = user /\ action' = action /\ tier' = tier /\ outcome' = outcome
             /\ word[d] # "none" => word'[d] = word[d]
  BY <1>3 DEF Timeout, Hear, TypeOK
<1>4. ASSUME NEW c \in Call, GateReturn(c)
      PROVE  /\ user' = user /\ action' = action /\ tier' = tier /\ word' = word
             /\ outcome[d] # "none" => outcome'[d] = outcome[d]
  BY <1>6, <1>4 DEF GateReturn, TypeOK
<1>5. ASSUME \/ \E c \in Call : Age(c)
             \/ ExpireStalePending
             \/ \E u \in User : OpenSession(u) \/ ExpireSession(u)
             \/ Restart
      PROVE  /\ user' = user /\ action' = action /\ tier' = tier /\ outcome' = outcome
             /\ word' = word
  BY <1>5 DEF Age, ExpireStalePending, OpenSession, ExpireSession, Restart, callVars
<1>. QED
  BY <1>1, <1>2, <1>3, <1>4, <1>5 DEF Next

LEMMA CoverStays ==
    ASSUME TypeOK, GateInv, Next, NEW c \in Call, phase[c] # "idle", Covered(c)
    PROVE  Covered(c)'
<1>1. user'[c] = user[c] /\ action'[c] = action[c]
  BY HistoryStays
<1>2. CASE \E d \in Call : user[d] = user[c] /\ GrantCovers(d, c)
  <2>1. PICK d \in Call : user[d] = user[c] /\ GrantCovers(d, c)
    BY <1>2
  <2>2. phase[d] # "idle"
    BY <2>1 DEF GrantCovers, GateInv, CallHistory, IdleCall
  <2>3. user'[d] = user[d] /\ action'[d] = action[d] /\ word'[d] = word[d]
    BY <2>1, <2>2, HistoryStays DEF GrantCovers
  <2>. QED
    BY <1>1, <2>1, <2>3 DEF Covered, GrantCovers
<1>3. CASE /\ ToolOf[action[c]] = BrowseWeb
           /\ MatchesDomainSet(HostOf[action[c]], TrustedDomains)
  BY <1>1, <1>3 DEF Covered, MatchesDomainSet
<1>4. CASE /\ ToolOf[action[c]] = BrowseWeb
           /\ \E d \in Call : user[d] = user[c] /\ DomainCovers(d, c)
  <2>1. PICK d \in Call : user[d] = user[c] /\ DomainCovers(d, c)
    BY <1>4
  <2>2. phase[d] # "idle"
    BY <2>1 DEF DomainCovers, GateInv, CallHistory, IdleCall
  <2>3. user'[d] = user[d] /\ action'[d] = action[d] /\ outcome'[d] = outcome[d]
    BY <2>1, <2>2, HistoryStays DEF DomainCovers
  <2>. QED
    BY <1>1, <1>4, <2>1, <2>3 DEF Covered, DomainCovers
<1>. QED
  BY <1>2, <1>3, <1>4 DEF Covered

\* A call the gate downgrades is covered in the state in which it decides so.
LEMMA DowngradeIsCovered ==
    ASSUME TypeOK, GateInv, NEW c \in Call, NEW u \in User, NEW a \in Action,
           NEW s \in 1..MaxSessions, GateProceed(c, u, a, s),
           BaseTier(a) = "require-approval"
    PROVE  Covered(c)'
<1>. USE DEF GateProceed, Classify
<1>1. IsUrlTrusted(u, a) \/ CheckSessionGrant(u, a)
  BY DEF EffectiveTier
<1>2. user'[c] = u /\ action'[c] = a /\ word' = word
  BY DEF TypeOK
<1>3. \A d \in Call : d # c => user'[d] = user[d] /\ action'[d] = action[d]
                               /\ outcome'[d] = outcome[d]
  BY DEF TypeOK
<1>4. IdleCall(c)
  BY DEF GateInv, CallHistory
<1>5. CASE CheckSessionGrant(u, a)
  <2>1. PICK g \in grants[u] : g.tool = ToolOf[a] /\ g.key \in {AnyKey, KeyOf[a]}
    BY <1>5 DEF CheckSessionGrant
  <2>2. /\ g.by \in Call /\ user[g.by] = u /\ word[g.by] = "session-approved"
        /\ g.tool = ToolOf[action[g.by]] /\ g.key = KeyOf[action[g.by]]
    BY <2>1 DEF GateInv, GrantsWereGiven, TypeOK, Grant
  <2>3. g.by # c
    BY <1>4, <2>2 DEF IdleCall
  <2>4. user'[g.by] = u /\ action'[g.by] = action[g.by]
    BY <1>3, <2>2, <2>3
  <2>5. GrantCovers(g.by, c)'
    BY <1>2, <2>1, <2>2, <2>4 DEF GrantCovers
  <2>. QED
    BY <1>2, <2>2, <2>4, <2>5 DEF Covered
<1>6. CASE IsUrlTrusted(u, a)
  <2>1. ToolOf[a] = BrowseWeb /\ IsDomainTrusted(HostOf[a], u)
    BY <1>6 DEF IsUrlTrusted
  <2>2. CASE MatchesDomainSet(HostOf[a], TrustedDomains)
    BY <1>2, <2>1, <2>2 DEF Covered, MatchesDomainSet
  <2>3. CASE MatchesDomainSet(HostOf[a], domains[u])
    <3>1. PICK h \in domains[u] : <<HostOf[a], h>> \in Within
      BY <2>3 DEF MatchesDomainSet
    <3>2. PICK d \in Call : /\ user[d] = u /\ outcome[d] = "proceed"
                            /\ ToolOf[action[d]] = DomainRequest /\ HostOf[action[d]] = h
      BY DEF GateInv, DomainsWereAsked
    <3>3. d # c
      BY <1>4, <3>2 DEF IdleCall
    <3>. QED
      BY <1>2, <1>3, <2>1, <3>1, <3>2, <3>3 DEF Covered, DomainCovers
  <2>. QED
    BY <2>1, <2>2, <2>3 DEF IsDomainTrusted
<1>. QED
  BY <1>1, <1>5, <1>6

\* No call that needs an approval runs with a mere notification unless its own
\* user, or the configuration, allowed it before: grants and domains of one user
\* never serve another (EffectiveTier against everything that changes grants).
THEOREM DowngradesAreCovered == Spec => []DowngradeWasCovered
<1>1. Init => DowngradeWasCovered
  BY PlaceholderAssumption DEF Init, DowngradeWasCovered, Tier
<1>2. TypeOK /\ GateInv /\ DowngradeWasCovered /\ [Next]_vars => DowngradeWasCovered'
  <2>. SUFFICES ASSUME TypeOK, GateInv, DowngradeWasCovered, Next, NEW c \in Call,
                       tier'[c] = "notify", BaseTier(action'[c]) = "require-approval"
                PROVE  Covered(c)'
    BY DEF DowngradeWasCovered, Covered, vars, callVars, GrantCovers, DomainCovers,
           MatchesDomainSet, BaseTier
  <2>1. CASE phase[c] # "idle"
    <3>1. tier[c] = "notify" /\ action'[c] = action[c]
      BY <2>1, HistoryStays
    <3>2. Covered(c)
      BY <3>1 DEF DowngradeWasCovered, Covered, BaseTier
    <3>. QED
      BY <2>1, <3>2, CoverStays
  <2>2. CASE phase[c] = "idle"
    <3>1. tier[c] = NoTier
      BY <2>2 DEF GateInv, CallHistory, IdleCall
    <3>2. tier'[c] # tier[c]
      BY <3>1, PlaceholderAssumption DEF Tier
    <3>3. PICK d \in Call, u \in User, a \in Action, s \in 1..MaxSessions :
             GateProceed(d, u, a, s) \/ GateAsk(d, u, a, s)
      BY <3>2 DEF Next, Decide, Age, Timeout, GateReturn, ExpireStalePending,
                  OpenSession, ExpireSession, Restart, callVars
    <3>6. d = c
      BY <3>2, <3>3 DEF GateProceed, GateAsk, Classify, TypeOK
    <3>4. action'[c] = a /\ tier'[c] = EffectiveTier(u, a)
      BY <3>3, <3>6 DEF GateProceed, GateAsk, Classify, TypeOK
    <3>5. GateProceed(c, u, a, s)
      BY <3>3, <3>4, <3>6 DEF GateAsk
    <3>. QED
      BY <3>4, <3>5, DowngradeIsCovered
  <2>. QED
    BY <2>1, <2>2
<1>. QED
  BY <1>1, <1>2, GateInvariant, PTL DEF Spec

-----------------------------------------------------------------------------
(* The gate implements module Approval.                                    *)

RequestCase(c) ==
    /\ phase[c] = "idle" => RequestOf(c) = "idle"
    /\ phase[c] = "lost" => RequestOf(c) = "lost"
    /\ phase[c] \in {"waiting", "settled"} => RequestOf(c) = "asked"
    /\ phase[c] = "returned" =>
          RequestOf(c) = IF tier[c] # "require-approval" THEN "waived"
                         ELSE IF outcome[c] = "proceed" THEN "granted" ELSE "denied"

\* What the refinement mapping yields for one call, by its phase.
LEMMA RequestCases ==
    ASSUME NEW c \in Call
    PROVE  RequestCase(c) /\ RequestCase(c)'
<1>1. CASE phase[c] = "returned" /\ tier[c] = "require-approval"
  BY <1>1 DEF RequestOf, RequestCase
<1>2. CASE ~(phase[c] = "returned" /\ tier[c] = "require-approval")
  BY <1>2 DEF RequestOf, RequestCase
<1>3. CASE (phase[c] = "returned" /\ tier[c] = "require-approval")'
  BY <1>3 DEF RequestOf, RequestCase
<1>4. CASE ~(phase[c] = "returned" /\ tier[c] = "require-approval")'
  BY <1>4 DEF RequestOf, RequestCase
<1>. QED
  BY <1>1, <1>2, <1>3, <1>4

\* A step that changes the phase, tier and outcome of no call but c changes
\* nothing that the mapping shows of the other calls.
LEMMA OthersStay ==
    ASSUME TypeOK, NEW c \in Call,
           \A d \in Call : d # c => /\ phase'[d] = phase[d] /\ tier'[d] = tier[d]
                                    /\ outcome'[d] = outcome[d]
    PROVE  \A d \in Call : d # c => RequestOf(d)' = RequestOf(d)
BY DEF RequestOf

LEMMA MapsToBecome ==
    ASSUME NEW c \in Call, NEW from, NEW to,
           \A d \in Call : d # c => RequestOf(d)' = RequestOf(d),
           RequestOf(c) = from, RequestOf(c)' = to, word' = word
    PROVE  Promise!Become(c, from, to)
BY DEF Promise!Become

LEMMA MapInit == Init => Promise!Init
<1>. SUFFICES ASSUME Init PROVE Promise!Init
  OBVIOUS
<1>1. \A c \in Call : RequestOf(c) = "idle"
  BY RequestCases DEF Init, RequestCase
<1>. QED
  BY <1>1 DEF Init, Promise!Init

LEMMA MapStep ==
    TypeOK /\ GateInv /\ [Next]_vars => [Promise!Next]_(Promise!vars)
<1>. SUFFICES ASSUME TypeOK, GateInv, [Next]_vars
              PROVE  Promise!Next \/ UNCHANGED Promise!vars
  BY DEF Promise!vars
<1>1. ASSUME NEW c \in Call, NEW u \in User, NEW a \in Action, NEW s \in 1..MaxSessions,
             GateProceed(c, u, a, s)
      PROVE  Promise!Next
  <2>1. \A d \in Call : d # c => RequestOf(d)' = RequestOf(d)
    BY <1>1, OthersStay DEF GateProceed, Classify, TypeOK
  <2>2. RequestOf(c) = "idle"
    BY <1>1, RequestCases DEF GateProceed, Classify, RequestCase
  <2>3. phase'[c] = "returned" /\ tier'[c] # "require-approval"
    BY <1>1 DEF GateProceed, Classify, TypeOK
  <2>4. RequestOf(c)' = "waived"
    BY <2>3, RequestCases DEF RequestCase
  <2>5. word' = word
    BY <1>1 DEF GateProceed
  <2>. QED
    BY <2>1, <2>2, <2>4, <2>5, MapsToBecome DEF Promise!Next, Promise!Waive
<1>2. ASSUME NEW c \in Call, NEW u \in User, NEW a \in Action, NEW s \in 1..MaxSessions,
             GateAsk(c, u, a, s)
      PROVE  Promise!Next
  <2>1. \A d \in Call : d # c => RequestOf(d)' = RequestOf(d)
    BY <1>2, OthersStay DEF GateAsk, Classify, TypeOK
  <2>2. RequestOf(c) = "idle"
    BY <1>2, RequestCases DEF GateAsk, Classify, RequestCase
  <2>3. phase'[c] = "waiting"
    BY <1>2 DEF GateAsk, Classify, TypeOK
  <2>4. RequestOf(c)' = "asked"
    BY <2>3, RequestCases DEF RequestCase
  <2>5. word' = word
    BY <1>2 DEF GateAsk
  <2>. QED
    BY <2>1, <2>2, <2>4, <2>5, MapsToBecome DEF Promise!Next, Promise!Ask
<1>3. ASSUME NEW c \in Call, NEW w \in Verdict \cup {"timeout"}, Hear(c, w),
             RequestOf(c) \notin {"idle", "waived"},
             tier' = tier, outcome' = outcome,
             phase' = phase \/ phase' = [phase EXCEPT ![c] = IF @ = "waiting" THEN "settled" ELSE @]
      PROVE  Promise!Next \/ UNCHANGED Promise!vars
  <2>1. \A d \in Call : d # c => RequestOf(d)' = RequestOf(d)
    BY <1>3, OthersStay DEF TypeOK
  <2>2. RequestOf(c)' = RequestOf(c)
    <3>1. CASE phase[c] = "waiting" /\ phase'[c] = "settled"
      BY <3>1, RequestCases DEF RequestCase
    <3>2. CASE phase'[c] = phase[c]
      BY <1>3, <3>2 DEF RequestOf
    <3>. QED
      BY <1>3, <3>1, <3>2 DEF TypeOK
  <2>4. [d \in Call |-> RequestOf(d)]' = [d \in Call |-> RequestOf(d)]
    BY <2>1, <2>2
  <2>5. w \in Promise!Yes \cup Promise!No
    BY DEF Verdict, Promise!Yes, Promise!No
  <2>6. CASE word[c] = "none"
    <3>1. Promise!Answer(c, w)
      BY <1>3, <2>4, <2>6 DEF Promise!Answer, Hear, TypeOK
    <3>. QED
      BY <2>5, <3>1 DEF Promise!Next
  <2>7. CASE word[c] # "none"
    <3>1. word' = word
      BY <1>3, <2>7 DEF Hear, TypeOK
    <3>. QED
      BY <2>4, <3>1 DEF Promise!vars
  <2>. QED
    BY <2>6, <2>7
<1>4. ASSUME NEW c \in Call, NEW v \in Verdict, Decide(c, v)
      PROVE  Promise!Next \/ UNCHANGED Promise!vars
  <2>1. RequestOf(c) \notin {"idle", "waived"}
    BY <1>4, PhaseCases, RequestCases
       DEF Decide, RequestCase, IdleCall, OpenCall, ReturnedCall
  <2>. QED
    BY <1>3, <1>4, <2>1 DEF Decide, ResolvePending, IgnoreDecision, Settle
<1>5. ASSUME NEW c \in Call, Timeout(c)
      PROVE  Promise!Next \/ UNCHANGED Promise!vars
  <2>1. RequestOf(c) \notin {"idle", "waived"}
    BY <1>5, RequestCases DEF Timeout, RequestCase, GateInv, WaitersAreKnown
  <2>. QED
    BY <1>3, <1>5, <2>1 DEF Timeout, Settle
<1>6. ASSUME NEW c \in Call, GateReturn(c) PROVE Promise!Next
  <2>1. \A d \in Call : d # c => RequestOf(d)' = RequestOf(d)
    BY <1>6, OthersStay DEF GateReturn, TypeOK
  <2>2. RequestOf(c) = "asked" /\ tier[c] = "require-approval" /\ Agrees(decision[c], word[c])
    BY <1>6, RequestCases DEF GateReturn, RequestCase, GateInv, CallHistory, OpenCall
  <2>3. /\ phase'[c] = "returned" /\ tier'[c] = "require-approval" /\ word' = word
        /\ outcome'[c] = IF decision[c] = "approved" THEN "proceed" ELSE "blocked"
    BY <1>6, <2>2 DEF GateReturn, TypeOK
  <2>4. RequestOf(c)' = IF decision[c] = "approved" THEN "granted" ELSE "denied"
    BY <2>3, RequestCases DEF RequestCase
  <2>5. CASE decision[c] = "approved"
    BY <2>1, <2>2, <2>3, <2>4, <2>5, MapsToBecome
       DEF Agrees, Promise!Next, Promise!Conclude, Promise!Yes, Promise!No
  <2>6. CASE decision[c] # "approved"
    BY <2>1, <2>2, <2>3, <2>4, <2>6, MapsToBecome
       DEF Agrees, Promise!Next, Promise!Conclude, Promise!Yes, Promise!No
  <2>. QED
    BY <2>5, <2>6
<1>7. ASSUME \/ \E c \in Call : Age(c)
             \/ ExpireStalePending
             \/ \E u \in User : OpenSession(u) \/ ExpireSession(u)
             \/ UNCHANGED vars
      PROVE  UNCHANGED Promise!vars
  <2>1. phase' = phase /\ tier' = tier /\ outcome' = outcome /\ word' = word
    BY <1>7 DEF Age, ExpireStalePending, OpenSession, ExpireSession, vars, callVars
  <2>. QED
    BY <2>1 DEF Promise!vars, RequestOf
<1>8. ASSUME Restart PROVE Promise!Lose
  <2>1. ASSUME NEW d \in Call
        PROVE  RequestOf(d)' = IF RequestOf(d) = "asked" THEN "lost" ELSE RequestOf(d)
    <3>1. CASE phase[d] \in {"waiting", "settled"}
      BY <1>8, <3>1, RequestCases DEF Restart, RequestCase, TypeOK
    <3>2. CASE phase[d] \notin {"waiting", "settled"}
      <4>1. phase'[d] = phase[d] /\ tier'[d] = tier[d] /\ outcome'[d] = outcome[d]
        BY <1>8, <3>2 DEF Restart, TypeOK
      <4>2. RequestOf(d)' = RequestOf(d)
        BY <4>1 DEF RequestOf
      <4>3. RequestOf(d) # "asked"
        BY <3>2, RequestCases DEF RequestCase, TypeOK
      <4>. QED
        BY <4>2, <4>3
    <3>. QED
      BY <3>1, <3>2
  <2>2. word' = word
    BY <1>8 DEF Restart
  <2>. QED
    BY <2>1, <2>2 DEF Promise!Lose
<1>. QED
  BY <1>1, <1>2, <1>4, <1>5, <1>6, <1>7, <1>8 DEF Next, Promise!Next

\* The gate implements the promise: gate, awaitDecision, resolveApproval and the
\* timer together behave like a request that is asked, answered and concluded.
THEOREM GateImplementsApproval == Spec => ImplementsApproval
<1>1. Init => Promise!Init
  BY MapInit
<1>2. TypeOK /\ GateInv /\ [Next]_vars => [Promise!Next]_(Promise!vars)
  BY MapStep
<1>. QED
  BY <1>1, <1>2, GateInvariant, PTL DEF ImplementsApproval, Promise!Spec, Spec
=============================================================================
