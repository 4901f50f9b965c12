-------------------------- MODULE CodexOAuthProofs --------------------------
(***************************************************************************)
(* Proofs about the OAuth broker, for any set of users, logins, exchanges  *)
(* and callers and any number of refreshes.                                *)
(***************************************************************************)
EXTENDS CodexOAuth, FiniteSetTheorems, TLAPS

-----------------------------------------------------------------------------
(* What clearing and filing logins does.                                   *)

LEMMA ClearType ==
    ASSUME TypeOK, NEW C \in SUBSET Login, ClearPending(C)
    PROVE  /\ phase' \in [Login -> {"idle", "binding", "open", "ended"}]
           /\ stateByUser' \in [User -> Login \cup {NoLogin}]
           /\ listening' \in SUBSET Login
           /\ bound' \in [Login -> Port \cup {NoPort}]
           /\ callbackServer' \in Login \cup {NoLogin}
BY DEF TypeOK, ClearPending, PhasesWithout, UserStatesWithout, StopServer, serverVars

LEMMA FileType ==
    ASSUME TypeOK, NEW l \in Login, NEW u \in User, NEW C \in SUBSET Login,
           NEW s \in Login, NEW servers \in SUBSET Login,
           bound' \in [Login -> Port \cup {NoPort}],
           File(l, u, C, s, servers)
    PROVE  /\ phase' \in [Login -> {"idle", "binding", "open", "ended"}]
           /\ stateByUser' \in [User -> Login \cup {NoLogin}]
           /\ listening' \in SUBSET Login
           /\ callbackServer' \in Login \cup {NoLogin}
           /\ redirect' \in [Login -> Port \cup {NoPort}]
BY DEF TypeOK, File, PhasesWithout, UserStatesWithout

\* A login that has ended stays so, and one that is open ends or stays open.
Moves == \A l \in Login : /\ phase[l] = "ended" => phase'[l] = "ended"
                          /\ phase[l] = "open" => phase'[l] \in {"open", "ended"}

LEMMA ClearMoves ==
    ASSUME TypeOK, NEW C \in SUBSET Pending, ClearPending(C)
    PROVE  Moves /\ \A l \in C : phase'[l] = "ended"
BY DEF TypeOK, Moves, ClearPending, PhasesWithout, Pending

LEMMA FileMoves ==
    ASSUME TypeOK, NEW l \in Login, phase[l] \in {"idle", "binding"},
           NEW u \in User, NEW C \in SUBSET Login, NEW s, NEW servers,
           File(l, u, C, s, servers)
    PROVE  Moves
BY DEF TypeOK, Moves, File, PhasesWithout

-----------------------------------------------------------------------------
(* Types.                                                                  *)

LEMMA TypeInit == Init => TypeOK
BY DEF Init, TypeOK, Token

LEMMA SuccessorType ==
    ASSUME NEW t \in Token, t.refreshes < MaxRefreshes
    PROVE  Successor(t) \in Token /\ Successor(t).login = t.login
           /\ Successor(t).refreshes = t.refreshes + 1
BY OAuthAssumption DEF Token, Successor

LEMMA OverduePending == Overdue \in SUBSET Pending /\ Pending \in SUBSET Login
BY DEF Overdue, Pending

LEMMA TypeNext == TypeOK /\ OAuthInv /\ [Next]_vars => TypeOK'
<1>. SUFFICES ASSUME TypeOK, OAuthInv, [Next]_vars PROVE TypeOK'
  OBVIOUS
<1>. USE OverduePending
<1>1. ASSUME NEW l \in Login, NEW u \in User, StartLogin(l, u) PROVE TypeOK'
  <2>1. Overdue \cup Earlier(u) \in SUBSET Login
    BY DEF Earlier
  <2>2. callbackServer \in Login /\ listening \in SUBSET Login /\ bound' = bound
    BY <1>1 DEF StartLogin, TypeOK
  <2>3. bound' \in [Login -> Port \cup {NoPort}]
    BY <2>2 DEF TypeOK
  <2>4. File(l, u, Overdue \cup Earlier(u), callbackServer, listening)
    BY <1>1 DEF StartLogin
  <2>. QED
    BY <1>1, <2>1, <2>2, <2>3, <2>4, FileType
       DEF StartLogin, TypeOK, exchangeVars, tokenVars, refreshVars
<1>2. ASSUME NEW l \in Login, NEW u \in User, StartBinding(l, u) PROVE TypeOK'
  BY <1>2 DEF StartBinding, PhasesWithout, UserStatesWithout, StopServer, TypeOK,
              exchangeVars, tokenVars, refreshVars
<1>3. ASSUME NEW l \in Login, NEW p \in Port, Bound(l, p) PROVE TypeOK'
  <2>1. user[l] \in User
    BY <1>3 DEF Bound, OAuthInv, LoginInv
  <2>2. Earlier(user[l]) \in SUBSET Login
    BY DEF Earlier
  <2>3. bound' \in [Login -> Port \cup {NoPort}] /\ listening \cup {l} \in SUBSET Login
    BY <1>3 DEF Bound, TypeOK
  <2>4. File(l, user[l], Earlier(user[l]), l, listening \cup {l})
    BY <1>3 DEF Bound
  <2>. QED
    BY <1>3, <2>1, <2>2, <2>3, <2>4, FileType
       DEF Bound, TypeOK, exchangeVars, tokenVars, refreshVars
<1>4. ASSUME NEW l \in Login, BindFails(l) PROVE TypeOK'
  BY <1>4 DEF BindFails, TypeOK, serverVars, exchangeVars, tokenVars, refreshVars
<1>5. ASSUME NEW l \in Login, Age(l) PROVE TypeOK'
  BY <1>5 DEF Age, TypeOK, serverVars, exchangeVars, tokenVars, refreshVars
<1>6. ASSUME NEW l \in Login, Expire(l) PROVE TypeOK'
  BY <1>6, ClearType DEF Expire, TypeOK, exchangeVars, tokenVars, refreshVars
<1>7. ASSUME NEW l \in Login, Denied(l) PROVE TypeOK'
  BY <1>7, ClearType DEF Denied, TypeOK, exchangeVars, tokenVars, refreshVars
<1>8. ASSUME NEW d \in Delivery, NEW l \in Login, Pasted(d, l) PROVE TypeOK'
  BY <1>8, ClearType DEF Pasted, Begins, TypeOK, tokenVars, refreshVars
<1>9. ASSUME NEW d \in Delivery, NEW l \in Login, CalledBack(d, l) PROVE TypeOK'
  BY <1>9 DEF CalledBack, Begins, TypeOK, serverVars, tokenVars, refreshVars
<1>10. ASSUME NEW d \in Delivery, Exchanged(d) PROVE TypeOK'
  <2>1. exchange[d] \in Login
    BY <1>10 DEF Exchanged, TypeOK
  <2>2. token' \in Token
    BY <1>10, <2>1, OAuthAssumption DEF Exchanged, Token
  <2>3. ({exchange[d]} \cap Pending) \cup PrunedBy(d) \in SUBSET Login
    BY DEF PrunedBy
  <2>. QED
    BY <1>10, <2>2, <2>3, ClearType DEF Exchanged, Delivered, TypeOK, refreshVars
<1>11. ASSUME NEW d \in Delivery, ExchangeFails(d) PROVE TypeOK'
  <2>1. PrunedBy(d) \in SUBSET Login
    BY DEF PrunedBy
  <2>2. \A e \in Delivery \ {d} : exchange[e] \in (inProgress \ {exchange[d]}) \cup {NoLogin}
    BY <1>11 DEF ExchangeFails, TypeOK, OAuthInv, CodeInv
  <2>. QED
    BY <1>11, <2>1, <2>2, ClearType
       DEF ExchangeFails, Delivered, TypeOK, tokenVars, refreshVars
<1>12. ASSUME NEW c \in Caller, Refresh(c) \/ JoinRefresh(c) PROVE TypeOK'
  BY <1>12 DEF Refresh, JoinRefresh, TypeOK, loginVars, serverVars, exchangeVars
<1>13. ASSUME NEW c \in Caller, Refreshed(c) PROVE TypeOK'
  <2>1. Successor(refreshing[c]) \in Token /\ refreshing[c] \in Token
    BY <1>13, SuccessorType DEF Refreshed, RefreshEnds, TypeOK, OAuthInv, RefreshInv
  <2>. QED
    BY <1>13, <2>1
       DEF Refreshed, RefreshEnds, TypeOK, loginVars, serverVars, exchangeVars
<1>14. ASSUME NEW c \in Caller, RefreshRefused(c) \/ RefreshFails(c) PROVE TypeOK'
  BY <1>14 DEF RefreshRefused, RefreshFails, RefreshEnds, TypeOK, loginVars, serverVars,
               exchangeVars
<1>15. ASSUME Prune PROVE TypeOK'
  BY <1>15, ClearType DEF Prune, TypeOK, exchangeVars, tokenVars, refreshVars
<1>16. ASSUME ComesDue \/ Disconnect PROVE TypeOK'
  BY <1>16 DEF ComesDue, Disconnect, TypeOK, loginVars, serverVars, exchangeVars, refreshVars
<1>17. ASSUME Stop PROVE TypeOK'
  BY <1>17 DEF Stop, PhasesWithout, UserStatesWithout, StopServer, TypeOK, exchangeVars,
               tokenVars, refreshVars
<1>18. ASSUME Restart PROVE TypeOK'
  BY <1>18 DEF Restart, TypeOK
<1>19. ASSUME UNCHANGED vars PROVE TypeOK'
  BY <1>19 DEF TypeOK, vars, loginVars, serverVars, exchangeVars, tokenVars, refreshVars
<1>. QED
  BY <1>1, <1>2, <1>3, <1>4, <1>5, <1>6, <1>7, <1>8, <1>9, <1>10, <1>11, <1>12, <1>13,
     <1>14, <1>15, <1>16, <1>17, <1>18, <1>19
     DEF Next, LoginStep, DeliveryStep, CallerStep

-----------------------------------------------------------------------------
(* Logins and the callback server.                                         *)

LEMMA LoginInit == Init => LoginInv
BY DEF Init, LoginInv, OneLoginPerUser, PortIsServed, CallbackServerIsNeeded, Pending

\* Logins may be cleared at any time: a server goes only with the last one.
LEMMA ClearLogins ==
    ASSUME TypeOK, LoginInv, NEW C \in SUBSET Pending, ClearPending(C),
           user' = user, redirect' = redirect
    PROVE  LoginInv'
<1>1. Pending' = Pending \ C
  BY DEF TypeOK, ClearPending, PhasesWithout, Pending
<1>2. \A l \in Login : phase'[l] = IF l \in C THEN "ended" ELSE phase[l]
  BY DEF TypeOK, ClearPending, PhasesWithout
<1>3. \A u \in User : stateByUser'[u] = IF stateByUser[u] \in C THEN NoLogin ELSE stateByUser[u]
  BY DEF TypeOK, ClearPending, UserStatesWithout
<1>4. OneLoginPerUser'
  <2>1. \A l \in Pending' : stateByUser'[user'[l]] = l
    <3>1. TAKE l \in Pending'
    <3>2. l \in Pending \ C /\ l \in Login /\ user[l] \in User
      BY <1>1, <3>1 DEF LoginInv, Pending
    <3>. QED
      BY <1>3, <3>2 DEF LoginInv, OneLoginPerUser
  <2>2. \A u \in User : stateByUser'[u] # NoLogin =>
           stateByUser'[u] \in Pending' /\ user'[stateByUser'[u]] = u
    BY <1>1, <1>3 DEF LoginInv, OneLoginPerUser
  <2>. QED
    BY <2>1, <2>2 DEF OneLoginPerUser
<1>5. CASE IsLast(C)
  <2>1. Pending' = {}
    BY <1>1, <1>5 DEF IsLast
  <2>2. callbackServer' = NoLogin /\ listening' \in SUBSET listening
    BY <1>5 DEF ClearPending, StopServer
  <2>. QED
    BY <1>2, <1>4, <2>1, <2>2 DEF LoginInv, PortIsServed, CallbackServerIsNeeded, TypeOK
<1>6. CASE ~IsLast(C)
  <2>1. listening' = listening /\ bound' = bound /\ callbackServer' = callbackServer
    BY <1>6 DEF ClearPending, serverVars
  <2>2. Pending # {} => Pending' # {}
    BY <1>1, <1>6 DEF IsLast
  <2>. QED
    BY <1>1, <1>2, <1>4, <2>1, <2>2
       DEF LoginInv, PortIsServed, CallbackServerIsNeeded, TypeOK
<1>. QED
  BY <1>5, <1>6

\* A login is filed on a server that listens, after its user's earlier one went.
LEMMA FileLogins ==
    ASSUME TypeOK, LoginInv, NEW l \in Login, NEW u \in User, NEW C \in SUBSET Pending,
           NEW s \in Login, NEW servers \in SUBSET Login,
           phase[l] \in {"idle", "binding"}, Earlier(u) \in SUBSET C,
           s \in servers, listening \in SUBSET servers,
           \A x \in servers : x = l \/ x \in listening,
           \A x \in listening : bound'[x] = bound[x],
           user' = [user EXCEPT ![l] = u],
           File(l, u, C, s, servers)
    PROVE  LoginInv'
<1>1. l \notin Pending /\ l \notin C
  BY DEF Pending
<1>2. \A x \in Login : phase'[x] = IF x = l THEN "open" ELSE IF x \in C THEN "ended" ELSE phase[x]
  BY DEF TypeOK, File, PhasesWithout
<1>3. Pending' = (Pending \ C) \cup {l}
  BY <1>1, <1>2 DEF Pending
<1>4. \A v \in User : stateByUser'[v] =
          IF v = u THEN l ELSE IF stateByUser[v] \in C THEN NoLogin ELSE stateByUser[v]
  BY DEF TypeOK, File, UserStatesWithout
<1>5. \A x \in Login : user'[x] = IF x = l THEN u ELSE user[x]
  BY DEF TypeOK
<1>6. OneLoginPerUser'
  <2>1. \A x \in Pending' : stateByUser'[user'[x]] = x
    <3>1. TAKE x \in Pending'
    <3>2. CASE x = l
      BY <1>4, <1>5, <3>2
    <3>3. CASE x # l
      <4>1. x \in Pending /\ x \notin C /\ x \in Login
        BY <1>3, <3>1, <3>3 DEF Pending
      <4>2. user[x] \in User /\ stateByUser[user[x]] = x
        BY <4>1 DEF LoginInv, OneLoginPerUser, Pending
      <4>3. user[x] # u
        BY <4>1, <4>2 DEF Earlier
      <4>. QED
        BY <1>4, <1>5, <3>3, <4>1, <4>2, <4>3
    <3>. QED
      BY <3>2, <3>3
  <2>2. \A v \in User : stateByUser'[v] # NoLogin =>
           stateByUser'[v] \in Pending' /\ user'[stateByUser'[v]] = v
    <3>1. TAKE v \in User
    <3>2. CASE v = u
      BY <1>3, <1>4, <1>5, <3>2
    <3>3. CASE v # u
      <4>1. stateByUser[v] # NoLogin => stateByUser[v] \in Pending /\ user[stateByUser[v]] = v
        BY DEF LoginInv, OneLoginPerUser
      <4>. QED
        BY <1>1, <1>3, <1>4, <1>5, <3>3, <4>1 DEF Pending
    <3>. QED
      BY <3>2, <3>3
  <2>. QED
    BY <2>1, <2>2 DEF OneLoginPerUser
<1>7. \A x \in Login : phase'[x] \in {"binding", "open"} => user'[x] \in User
  BY <1>2, <1>5 DEF LoginInv
<1>8. listening' \in SUBSET servers /\ \A x \in listening' : phase'[x] \in {"open", "ended"}
  BY <1>2 DEF File, LoginInv
<1>9. \A x \in Login : redirect'[x] =
          IF x = l THEN IF IsLast(C) THEN NoPort ELSE bound'[s] ELSE redirect[x]
  BY DEF File, TypeOK
<1>10. CASE IsLast(C)
  <2>1. Pending' = {l} /\ redirect'[l] = NoPort /\ callbackServer' = NoLogin
    BY <1>3, <1>9, <1>10 DEF IsLast, File
  <2>. QED
    BY <1>6, <1>7, <1>8, <2>1 DEF LoginInv, PortIsServed, CallbackServerIsNeeded
<1>11. CASE ~IsLast(C)
  <2>1. listening' = servers /\ callbackServer' = s
    BY <1>11 DEF File
  <2>2. \A x \in Pending' : redirect'[x] # NoPort =>
           \E y \in listening' : bound'[y] = redirect'[x]
    <3>1. TAKE x \in Pending'
    <3>2. CASE x = l
      BY <1>9, <1>11, <2>1, <3>2
    <3>3. CASE x # l
      BY <1>3, <1>9, <2>1, <3>1, <3>3 DEF LoginInv, PortIsServed, Pending
    <3>. QED
      BY <3>2, <3>3
  <2>. QED
    BY <1>3, <1>6, <1>7, <1>8, <2>1, <2>2 DEF LoginInv, PortIsServed, CallbackServerIsNeeded
<1>. QED
  BY <1>10, <1>11

LEMMA LoginNext == TypeOK /\ OAuthInv /\ [Next]_vars => LoginInv'
<1>. SUFFICES ASSUME TypeOK, OAuthInv, [Next]_vars PROVE LoginInv'
  OBVIOUS
<1>. USE OverduePending
<1>a. LoginInv
  BY DEF OAuthInv
<1>b. \A u \in User : Earlier(u) \in SUBSET Pending
  BY <1>a, OAuthAssumption DEF Earlier, LoginInv, OneLoginPerUser
<1>c. (UNCHANGED <<phase, user, redirect, stateByUser, listening, bound, callbackServer>>)
         => LoginInv'
  BY <1>a DEF LoginInv, OneLoginPerUser, PortIsServed, CallbackServerIsNeeded, Pending
<1>1. ASSUME NEW l \in Login, NEW u \in User, StartLogin(l, u) PROVE LoginInv'
  <2>1. Overdue \cup Earlier(u) \in SUBSET Pending
    BY <1>b
  <2>2. callbackServer \in Login /\ callbackServer \in listening
    BY <1>1, <1>a DEF StartLogin, TypeOK, LoginInv, CallbackServerIsNeeded
  <2>3. listening \in SUBSET Login /\ phase[l] = "idle" /\ bound' = bound
    BY <1>1 DEF StartLogin, TypeOK
  <2>4. user' = [user EXCEPT ![l] = u]
    BY <1>1 DEF StartLogin
  <2>5. File(l, u, Overdue \cup Earlier(u), callbackServer, listening)
    BY <1>1 DEF StartLogin
  <2>. QED
    BY <1>a, <2>1, <2>2, <2>3, <2>4, <2>5, FileLogins
<1>2. ASSUME NEW l \in Login, NEW u \in User, StartBinding(l, u) PROVE LoginInv'
  <2>1. \A x \in Login : phase'[x] = IF x = l THEN "binding"
                                     ELSE IF x \in Overdue THEN "ended" ELSE phase[x]
    BY <1>2 DEF StartBinding, PhasesWithout, TypeOK
  <2>2. Pending' = Pending \ Overdue /\ l \notin Pending
    BY <1>2, <2>1 DEF StartBinding, Pending
  <2>3. \A v \in User : stateByUser'[v] =
            IF stateByUser[v] \in Overdue THEN NoLogin ELSE stateByUser[v]
    BY <1>2 DEF StartBinding, UserStatesWithout, TypeOK
  <2>4. \A x \in Login : user'[x] = IF x = l THEN u ELSE user[x]
    BY <1>2 DEF StartBinding, TypeOK
  <2>5. redirect' = redirect /\ bound' = bound /\ callbackServer' = NoLogin
        /\ listening' = listening \ {callbackServer}
    BY <1>2 DEF StartBinding, StopServer
  <2>6. l \notin listening /\ \A x \in Login : x \in listening => phase[x] \in {"open", "ended"}
    BY <1>2, <1>a DEF StartBinding, LoginInv, TypeOK
  <2>7. \A x \in listening' : phase'[x] \in {"open", "ended"}
    BY <2>1, <2>5, <2>6 DEF TypeOK
  <2>8. \A x \in Login : phase'[x] \in {"binding", "open"} => user'[x] \in User
    BY <1>a, <2>1, <2>4 DEF LoginInv
  <2>9. OneLoginPerUser'
    <3>1. \A x \in Pending' : stateByUser'[user'[x]] = x
      <4>1. TAKE x \in Pending'
      <4>2. x \in Pending \ Overdue /\ x \in Login /\ x # l /\ user[x] \in User
        BY <1>a, <2>2, <4>1 DEF LoginInv, Pending
      <4>. QED
        BY <1>a, <2>3, <2>4, <4>2 DEF LoginInv, OneLoginPerUser
    <3>2. \A v \in User : stateByUser'[v] # NoLogin =>
             stateByUser'[v] \in Pending' /\ user'[stateByUser'[v]] = v
      <4>1. TAKE v \in User
      <4>2. stateByUser[v] # NoLogin => stateByUser[v] \in Pending /\ user[stateByUser[v]] = v
        BY <1>a DEF LoginInv, OneLoginPerUser
      <4>. QED
        BY <2>2, <2>3, <2>4, <4>2 DEF Pending
    <3>. QED
      BY <3>1, <3>2 DEF OneLoginPerUser
  <2>10. PortIsServed'
    <3>1. CASE callbackServer = NoLogin
      <4>1. listening' = listening
        BY <2>5, <3>1, OAuthAssumption DEF TypeOK
      <4>. QED
        BY <1>a, <2>2, <2>5, <4>1 DEF LoginInv, PortIsServed
    <3>2. CASE IsLast(Overdue)
      BY <2>2, <3>2 DEF IsLast, PortIsServed
    <3>. QED
      BY <1>2, <3>1, <3>2 DEF StartBinding
  <2>11. CallbackServerIsNeeded'
    BY <2>5 DEF CallbackServerIsNeeded
  <2>. QED
    BY <2>7, <2>8, <2>9, <2>10, <2>11 DEF LoginInv
<1>3. ASSUME NEW l \in Login, NEW p \in Port, Bound(l, p) PROVE LoginInv'
  <2>1. user[l] \in User /\ phase[l] = "binding"
    BY <1>3, <1>a DEF Bound, LoginInv
  <2>2. listening \cup {l} \in SUBSET Login
    BY DEF TypeOK
  <2>3. \A x \in listening : bound'[x] = bound[x]
    BY <1>3, <1>a, <2>1 DEF Bound, TypeOK, LoginInv
  <2>4. user' = [user EXCEPT ![l] = user[l]]
    BY <1>3 DEF Bound, TypeOK
  <2>5. File(l, user[l], Earlier(user[l]), l, listening \cup {l})
    BY <1>3 DEF Bound
  <2>. QED
    BY <1>a, <1>b, <2>1, <2>2, <2>3, <2>4, <2>5, FileLogins
<1>4. ASSUME NEW l \in Login, BindFails(l) PROVE LoginInv'
  <2>1. \A x \in Login : phase'[x] = IF x = l THEN "ended" ELSE phase[x]
    BY <1>4 DEF BindFails, TypeOK
  <2>2. Pending' = Pending
    BY <1>4, <2>1 DEF BindFails, Pending
  <2>. QED
    BY <1>4, <1>a, <2>1, <2>2
       DEF BindFails, TypeOK, LoginInv, OneLoginPerUser, PortIsServed,
           CallbackServerIsNeeded, serverVars
<1>5. ASSUME NEW l \in Login, Age(l) PROVE LoginInv'
  BY <1>5, <1>c DEF Age, serverVars
<1>6. ASSUME NEW l \in Login, Expire(l) PROVE LoginInv'
  BY <1>6, <1>a, ClearLogins DEF Expire
<1>7. ASSUME NEW l \in Login, Denied(l) PROVE LoginInv'
  BY <1>7, <1>a, ClearLogins DEF Denied
<1>8. ASSUME NEW d \in Delivery, NEW l \in Login, Pasted(d, l) PROVE LoginInv'
  BY <1>8, <1>a, ClearLogins DEF Pasted
<1>9. ASSUME NEW d \in Delivery, NEW l \in Login, CalledBack(d, l) PROVE LoginInv'
  BY <1>9, <1>c DEF CalledBack, serverVars
<1>10. ASSUME NEW d \in Delivery, Exchanged(d) PROVE LoginInv'
  <2>1. ({exchange[d]} \cap Pending) \cup PrunedBy(d) \in SUBSET Pending
    BY DEF PrunedBy
  <2>. QED
    BY <1>10, <1>a, <2>1, ClearLogins DEF Exchanged
<1>11. ASSUME NEW d \in Delivery, ExchangeFails(d) PROVE LoginInv'
  <2>1. PrunedBy(d) \in SUBSET Pending
    BY DEF PrunedBy
  <2>. QED
    BY <1>11, <1>a, <2>1, ClearLogins DEF ExchangeFails
<1>12. ASSUME NEW c \in Caller, CallerStep(c) PROVE LoginInv'
  BY <1>12, <1>c DEF CallerStep, Refresh, JoinRefresh, Refreshed, RefreshRefused,
                     RefreshFails, RefreshEnds, loginVars, serverVars
<1>13. ASSUME Prune PROVE LoginInv'
  BY <1>13, <1>a, ClearLogins DEF Prune
<1>14. ASSUME ComesDue \/ Disconnect \/ UNCHANGED vars PROVE LoginInv'
  BY <1>14, <1>c DEF ComesDue, Disconnect, vars, loginVars, serverVars
<1>15. ASSUME Stop PROVE LoginInv'
  <2>1. \A x \in Login : phase'[x] = IF x \in Pending THEN "ended" ELSE phase[x]
    BY <1>15 DEF Stop, PhasesWithout
  <2>2. Pending' = {}
    BY <2>1 DEF Pending
  <2>3. \A u \in User : stateByUser'[u] = NoLogin
    BY <1>15, <1>a DEF Stop, UserStatesWithout, LoginInv, OneLoginPerUser
  <2>4. callbackServer' = NoLogin /\ listening' \in SUBSET listening /\ user' = user
    BY <1>15 DEF Stop, StopServer
  <2>5. OneLoginPerUser' /\ PortIsServed' /\ CallbackServerIsNeeded'
    BY <2>2, <2>3, <2>4 DEF OneLoginPerUser, PortIsServed, CallbackServerIsNeeded
  <2>. QED
    BY <1>a, <2>1, <2>4, <2>5 DEF LoginInv, TypeOK
<1>16. ASSUME Restart PROVE LoginInv'
  <2>1. \A x \in Login : phase'[x] \in {"idle", "ended"}
    BY <1>16 DEF Restart
  <2>2. Pending' = {}
    BY <2>1 DEF Pending
  <2>. QED
    BY <1>16, <2>1, <2>2
       DEF Restart, LoginInv, OneLoginPerUser, PortIsServed, CallbackServerIsNeeded
<1>. QED
  BY <1>1, <1>2, <1>3, <1>4, <1>5, <1>6, <1>7, <1>8, <1>9, <1>10, <1>11, <1>12, <1>13,
     <1>14, <1>15, <1>16 DEF Next, LoginStep, DeliveryStep

-----------------------------------------------------------------------------
(* Authorization codes.                                                    *)

LEMMA CodeInit == Init => CodeInv
BY DEF Init, CodeInv, Touched

\* Steps that start no exchange and bring no token.
LEMMA CodeKept ==
    ASSUME CodeInv, Moves, token' \in {token, NoToken}, spent' = spent,
           \A c \in Caller : refreshing'[c] \in {refreshing[c], NoToken},
           \A d \in Delivery : exchange'[d] \in {exchange[d], NoLogin},
           TypeOK
    PROVE  CodeInv'
<1>1. \A l \in Login : Touched(l)' => Touched(l)
  BY DEF Touched
<1>2. \A l \in Login : Touched(l)' => phase'[l] = "ended" /\ \A d \in Delivery : exchange'[d] # l
  BY <1>1, OAuthAssumption DEF CodeInv, Moves
<1>3. \A d \in Delivery : exchange'[d] # NoLogin =>
         exchange'[d] = exchange[d] /\ exchange[d] \in Login
  BY DEF TypeOK
<1>. QED
  BY <1>2, <1>3 DEF CodeInv, Moves

\* Steps that start the exchange of a pending login.
LEMMA CodeBegins ==
    ASSUME TypeOK, CodeInv, Moves, UNCHANGED <<token, refreshing, spent>>,
           NEW d \in Delivery, NEW l \in Login, Begins(d, l)
    PROVE  CodeInv'
<1>1. phase[l] = "open" /\ \A e \in Delivery : exchange[e] # l
  BY OAuthAssumption DEF Begins, Pending, TypeOK
<1>2. \A e \in Delivery : exchange'[e] = IF e = d THEN l ELSE exchange[e]
  BY DEF Begins, TypeOK
<1>3. \A x \in Login : Touched(x)' <=> Touched(x)
  BY DEF Touched
<1>4. \A x \in Login : Touched(x)' =>
         phase'[x] = "ended" /\ \A e \in Delivery : exchange'[e] # x
  BY <1>1, <1>2, <1>3 DEF CodeInv, Moves
<1>5. \A e \in Delivery : exchange[e] # NoLogin => exchange[e] \in Login
  BY DEF TypeOK
<1>. QED
  BY <1>1, <1>2, <1>4, <1>5 DEF CodeInv, Moves

LEMMA CodeNext == TypeOK /\ OAuthInv /\ [Next]_vars => CodeInv'
<1>. SUFFICES ASSUME TypeOK, OAuthInv, [Next]_vars PROVE CodeInv'
  OBVIOUS
<1>. USE OverduePending
<1>a. CodeInv /\ LoginInv
  BY DEF OAuthInv
<1>b. phase' = phase => Moves
  BY DEF Moves
<1>1. ASSUME NEW l \in Login, NEW u \in User, StartLogin(l, u) PROVE CodeInv'
  <2>1. Overdue \cup Earlier(u) \in SUBSET Login
    BY DEF Earlier
  <2>2. Moves
    BY <1>1, <2>1, FileMoves DEF StartLogin
  <2>. QED
    BY <1>1, <1>a, <2>2, CodeKept DEF StartLogin, exchangeVars, tokenVars, refreshVars
<1>2. ASSUME NEW l \in Login, NEW u \in User, StartBinding(l, u) PROVE CodeInv'
  <2>1. Moves
    BY <1>2 DEF StartBinding, PhasesWithout, Moves, TypeOK, Pending
  <2>. QED
    BY <1>2, <1>a, <2>1, CodeKept DEF StartBinding, exchangeVars, tokenVars, refreshVars
<1>3. ASSUME NEW l \in Login, NEW p \in Port, Bound(l, p) PROVE CodeInv'
  <2>1. user[l] \in User /\ Earlier(user[l]) \in SUBSET Login
    BY <1>3, <1>a DEF Bound, LoginInv, Earlier
  <2>2. Moves
    BY <1>3, <2>1, FileMoves DEF Bound
  <2>. QED
    BY <1>3, <1>a, <2>2, CodeKept DEF Bound, exchangeVars, tokenVars, refreshVars
<1>4. ASSUME NEW l \in Login, BindFails(l) PROVE CodeInv'
  <2>1. Moves
    BY <1>4 DEF BindFails, Moves, TypeOK
  <2>. QED
    BY <1>4, <1>a, <2>1, CodeKept DEF BindFails, exchangeVars, tokenVars, refreshVars
<1>5. ASSUME NEW l \in Login, Age(l) PROVE CodeInv'
  BY <1>5, <1>a, <1>b, CodeKept DEF Age, exchangeVars, tokenVars, refreshVars
<1>6. ASSUME NEW l \in Login, Expire(l) PROVE CodeInv'
  <2>1. Moves
    BY <1>6, ClearMoves DEF Expire
  <2>. QED
    BY <1>6, <1>a, <2>1, CodeKept DEF Expire, exchangeVars, tokenVars, refreshVars
<1>7. ASSUME NEW l \in Login, Denied(l) PROVE CodeInv'
  <2>1. Moves
    BY <1>7, ClearMoves DEF Denied
  <2>. QED
    BY <1>7, <1>a, <2>1, CodeKept DEF Denied, exchangeVars, tokenVars, refreshVars
<1>8. ASSUME NEW d \in Delivery, NEW l \in Login, Pasted(d, l) PROVE CodeInv'
  <2>1. Moves
    BY <1>8, ClearMoves DEF Pasted
  <2>. QED
    BY <1>8, <1>a, <2>1, CodeBegins DEF Pasted, tokenVars, refreshVars
<1>9. ASSUME NEW d \in Delivery, NEW l \in Login, CalledBack(d, l) PROVE CodeInv'
  BY <1>9, <1>a, <1>b, CodeBegins DEF CalledBack, tokenVars, refreshVars
<1>10. ASSUME NEW d \in Delivery, Exchanged(d) PROVE CodeInv'
  <2> DEFINE C == ({exchange[d]} \cap Pending) \cup PrunedBy(d)
  <2>1. C \in SUBSET Pending
    BY DEF PrunedBy
  <2>2. ClearPending(C)
    BY <1>10 DEF Exchanged
  <2>3. Moves /\ \A l \in C : phase'[l] = "ended"
    BY <2>1, <2>2, ClearMoves
  <2>4. exchange[d] \in Login /\ phase[exchange[d]] \in {"open", "ended"}
    BY <1>10, <1>a DEF Exchanged, TypeOK, CodeInv
  <2>5. phase'[exchange[d]] = "ended"
    BY <2>3, <2>4 DEF Moves, Pending
  <2>6. \A e \in Delivery : exchange'[e] = IF e = d THEN NoLogin ELSE exchange[e]
    BY <1>10 DEF Exchanged, Delivered, TypeOK
  <2>7. \A l \in Login : Touched(l)' => Touched(l) \/ l = exchange[d]
    BY <1>10 DEF Exchanged, Touched, refreshVars
  <2>8. \A l \in Login : Touched(l)' =>
           phase'[l] = "ended" /\ \A e \in Delivery : exchange'[e] # l
    BY <1>10, <1>a, <2>3, <2>4, <2>5, <2>6, <2>7, OAuthAssumption
       DEF CodeInv, Moves, Exchanged
  <2>9. \A e \in Delivery : exchange[e] # NoLogin => exchange[e] \in Login
    BY DEF TypeOK
  <2>. QED
    BY <1>a, <2>3, <2>6, <2>8, <2>9 DEF CodeInv, Moves
<1>11. ASSUME NEW d \in Delivery, ExchangeFails(d) PROVE CodeInv'
  <2>1. PrunedBy(d) \in SUBSET Pending
    BY DEF PrunedBy
  <2>2. Moves
    BY <1>11, <2>1, ClearMoves DEF ExchangeFails
  <2>3. \A e \in Delivery : exchange'[e] \in {exchange[e], NoLogin}
    BY <1>11 DEF ExchangeFails, Delivered, TypeOK
  <2>. QED
    BY <1>11, <1>a, <2>2, <2>3, CodeKept DEF ExchangeFails, tokenVars, refreshVars
<1>12. ASSUME NEW c \in Caller, Refresh(c) PROVE CodeInv'
  <2>1. \A l \in Login : Touched(l)' => Touched(l)
    BY <1>12 DEF Refresh, Touched, TypeOK
  <2>. QED
    BY <1>12, <1>a, <2>1 DEF Refresh, CodeInv, loginVars, exchangeVars
<1>13. ASSUME NEW c \in Caller, Refreshed(c) PROVE CodeInv'
  <2>1. Successor(refreshing[c]).login = refreshing[c].login
    BY <1>13, SuccessorType DEF Refreshed, RefreshEnds, TypeOK, OAuthInv, RefreshInv
  <2>2. \A l \in Login : Touched(l)' => Touched(l)
    BY <1>13, <2>1 DEF Refreshed, RefreshEnds, Touched, TypeOK
  <2>. QED
    BY <1>13, <1>a, <2>2 DEF Refreshed, RefreshEnds, CodeInv, loginVars, exchangeVars
<1>14. ASSUME NEW c \in Caller, RefreshRefused(c) PROVE CodeInv'
  <2>1. \A l \in Login : Touched(l)' => Touched(l)
    BY <1>14 DEF RefreshRefused, RefreshEnds, Touched, TypeOK
  <2>. QED
    BY <1>14, <1>a, <2>1 DEF RefreshRefused, RefreshEnds, CodeInv, loginVars, exchangeVars
<1>15. ASSUME NEW c \in Caller, RefreshFails(c) \/ JoinRefresh(c) PROVE CodeInv'
  <2>1. \A d \in Caller : refreshing'[d] \in {refreshing[d], NoToken}
    BY <1>15 DEF RefreshFails, JoinRefresh, RefreshEnds, TypeOK
  <2>. QED
    BY <1>15, <1>a, <1>b, <2>1, CodeKept
       DEF RefreshFails, JoinRefresh, RefreshEnds, loginVars, exchangeVars
<1>16. ASSUME Prune PROVE CodeInv'
  <2>1. Moves
    BY <1>16, ClearMoves DEF Prune
  <2>. QED
    BY <1>16, <1>a, <2>1, CodeKept DEF Prune, exchangeVars, tokenVars, refreshVars
<1>17. ASSUME ComesDue \/ Disconnect \/ UNCHANGED vars PROVE CodeInv'
  BY <1>17, <1>a, <1>b, CodeKept
     DEF ComesDue, Disconnect, vars, loginVars, exchangeVars, tokenVars, refreshVars
<1>18. ASSUME Stop PROVE CodeInv'
  <2>1. Moves
    BY <1>18 DEF Stop, PhasesWithout, Moves, TypeOK
  <2>. QED
    BY <1>18, <1>a, <2>1, CodeKept DEF Stop, exchangeVars, tokenVars, refreshVars
<1>19. ASSUME Restart PROVE CodeInv'
  <2>1. Moves
    BY <1>19 DEF Restart, Moves, TypeOK
  <2>. QED
    BY <1>19, <1>a, <2>1, CodeKept DEF Restart
<1>. QED
  BY <1>1, <1>2, <1>3, <1>4, <1>5, <1>6, <1>7, <1>8, <1>9, <1>10, <1>11, <1>12, <1>13,
     <1>14, <1>15, <1>16, <1>17, <1>18, <1>19
     DEF Next, LoginStep, DeliveryStep, CallerStep

-----------------------------------------------------------------------------
(* Refresh tokens.                                                         *)

LEMMA RefreshInit == Init => RefreshInv
BY OAuthAssumption DEF Init, RefreshInv

\* The refreshes are left alone; the stored token may be deleted.
LEMMA RefreshKept ==
    ASSUME RefreshInv, UNCHANGED refreshVars, token' \in {token, NoToken}
    PROVE  RefreshInv'
BY DEF RefreshInv, refreshVars, Older

LEMMA RefreshNext == TypeOK /\ OAuthInv /\ [Next]_vars => RefreshInv'
<1>. SUFFICES ASSUME TypeOK, OAuthInv, [Next]_vars PROVE RefreshInv'
  OBVIOUS
<1>a. RefreshInv /\ CodeInv
  BY DEF OAuthInv
<1>1. ASSUME NEW l \in Login, LoginStep(l) PROVE RefreshInv'
  BY <1>1, <1>a, RefreshKept
     DEF LoginStep, StartLogin, StartBinding, Bound, BindFails, Age, Expire, Denied, tokenVars
<1>2. ASSUME NEW d \in Delivery, NEW l \in Login, Pasted(d, l) \/ CalledBack(d, l)
      PROVE  RefreshInv'
  BY <1>2, <1>a, RefreshKept DEF Pasted, CalledBack, tokenVars
<1>3. ASSUME NEW d \in Delivery, Exchanged(d) PROVE RefreshInv'
  <2>1. exchange[d] \in Login
    BY <1>3 DEF Exchanged, TypeOK
  <2>2. \A t \in spent : t.login # exchange[d]
    BY <1>3, <1>a, <2>1 DEF CodeInv, Touched
  <2>3. token' = [login |-> exchange[d], refreshes |-> 0] /\ UNCHANGED refreshVars
    BY <1>3 DEF Exchanged
  <2>. QED
    BY <1>a, <2>2, <2>3 DEF RefreshInv, Older, refreshVars
<1>4. ASSUME NEW d \in Delivery, ExchangeFails(d) PROVE RefreshInv'
  BY <1>4, <1>a, RefreshKept DEF ExchangeFails, tokenVars
<1>5. ASSUME NEW c \in Caller, Refresh(c) PROVE RefreshInv'
  <2>1. \A x \in Caller : refreshing[x] = NoToken
    BY <1>5, <1>a, OAuthAssumption DEF Refresh, RefreshInv
  <2>2. \A x \in Caller : refreshing'[x] = IF x = c THEN token ELSE NoToken
    BY <1>5, <2>1 DEF Refresh, TypeOK
  <2>3. \A x \in Caller : waits'[x] = NoCaller
    BY <1>5, <1>a DEF Refresh, RefreshInv, TypeOK
  <2>4. token # NoToken /\ token.refreshes < MaxRefreshes /\ token' = token
        /\ refreshPromise' = c /\ spent' = spent
    BY <1>5 DEF Refresh
  <2>. QED
    BY <1>a, <2>2, <2>3, <2>4 DEF RefreshInv, Older
<1>6. ASSUME NEW c \in Caller, JoinRefresh(c) PROVE RefreshInv'
  <2>1. \A x \in Caller : waits'[x] = IF x = c THEN refreshPromise ELSE waits[x]
    BY <1>6 DEF JoinRefresh, TypeOK
  <2>. QED
    BY <1>6, <1>a, <2>1 DEF JoinRefresh, RefreshInv
<1>7. ASSUME NEW c \in Caller, RefreshEnds(c)
      PROVE  /\ \A x \in Caller : refreshing'[x] = NoToken /\ waits'[x] = NoCaller
             /\ refreshPromise' = NoCaller
             /\ refreshing[c] \in Token
             /\ refreshing[c].refreshes < MaxRefreshes
             /\ \A t \in spent : Older(t, refreshing[c])
  <2>1. refreshPromise = c
    BY <1>7, <1>a DEF RefreshEnds, RefreshInv
  <2>2. \A x \in Caller : waits[x] \in {NoCaller, c}
    BY <1>a, <2>1 DEF RefreshInv
  <2>3. \A x \in Caller \ {c} : refreshing[x] = NoToken
    BY <1>a, <2>1 DEF RefreshInv
  <2>. QED
    BY <1>7, <1>a, <2>2, <2>3 DEF RefreshEnds, RefreshInv, TypeOK
<1>8. ASSUME NEW c \in Caller, Refreshed(c) PROVE RefreshInv'
  <2>0. CASE token' = refreshing[c] /\ spent' = spent
    BY <1>7, <1>8, <2>0, OAuthAssumption DEF Refreshed, RefreshInv, Older
  <2>. SUFFICES ASSUME ~(token' = refreshing[c] /\ spent' = spent)
                PROVE  RefreshInv'
    BY <2>0
  <2>1. RefreshEnds(c) /\ token' = Successor(refreshing[c])
        /\ spent' = spent \cup {refreshing[c]}
    BY <1>8 DEF Refreshed
  <2>2. Successor(refreshing[c]).login = refreshing[c].login
        /\ Successor(refreshing[c]).refreshes = refreshing[c].refreshes + 1
    BY <1>7, <2>1, SuccessorType
  <2>3. refreshing[c].refreshes \in Nat /\ \A t \in spent : t.refreshes \in Nat
    BY <1>7, <2>1, OAuthAssumption DEF Token, TypeOK
  <2>4. \A t \in spent' : Older(t, token')
    <3>1. TAKE t \in spent'
    <3>2. CASE t = refreshing[c]
      BY <2>1, <2>2, <2>3, <3>2 DEF Older
    <3>3. CASE t \in spent
      BY <1>7, <2>1, <2>2, <2>3, <3>3, OAuthAssumption DEF Older
    <3>. QED
      BY <2>1, <3>1, <3>2, <3>3
  <2>5. \A t \in spent' : \A x \in Caller : Older(t, refreshing'[x])
    BY <1>7, <2>1 DEF Older
  <2>. QED
    BY <1>7, <2>1, <2>4, <2>5, OAuthAssumption DEF RefreshInv
<1>9. ASSUME NEW c \in Caller, RefreshRefused(c) PROVE RefreshInv'
  <2>1. RefreshEnds(c) /\ token' = NoToken
    BY <1>9 DEF RefreshRefused
  <2>. QED
    BY <1>7, <2>1, OAuthAssumption DEF RefreshInv, Older
<1>10. ASSUME NEW c \in Caller, RefreshFails(c) PROVE RefreshInv'
  <2>1. RefreshEnds(c) /\ token' = token /\ spent' = spent
    BY <1>10 DEF RefreshFails
  <2>. QED
    BY <1>7, <1>a, <2>1, OAuthAssumption DEF RefreshInv, Older
<1>11. ASSUME Prune \/ Stop PROVE RefreshInv'
  BY <1>11, <1>a, RefreshKept DEF Prune, Stop, tokenVars
<1>12. ASSUME ComesDue \/ Disconnect \/ UNCHANGED vars PROVE RefreshInv'
  BY <1>12, <1>a, RefreshKept DEF ComesDue, Disconnect, vars, tokenVars
<1>13. ASSUME Restart PROVE RefreshInv'
  BY <1>13, <1>a, OAuthAssumption DEF Restart, RefreshInv, Older
<1>. QED
  BY <1>1, <1>2, <1>3, <1>4, <1>5, <1>6, <1>8, <1>9, <1>10, <1>11, <1>12, <1>13
     DEF Next, DeliveryStep, CallerStep

-----------------------------------------------------------------------------
(* The theorems.                                                           *)

\* The broker's bookkeeping (services/openai-codex-oauth.ts) is well typed and its
\* inductive invariant holds in every state: logins and servers agree, codes and
\* tokens are not mixed up, and one refresh is filed at a time.
THEOREM OAuthInvariant == Spec => [](TypeOK /\ OAuthInv)
<1>1. Init => TypeOK /\ OAuthInv
  BY TypeInit, LoginInit, CodeInit, RefreshInit DEF OAuthInv
<1>2. TypeOK /\ OAuthInv /\ [Next]_vars => TypeOK' /\ OAuthInv'
  BY TypeNext, LoginNext, CodeNext, RefreshNext DEF OAuthInv
<1>. QED
  BY <1>1, <1>2, PTL DEF Spec

\* A user never has two pending logins, whichever starts, timers and callbacks
\* startLogin awaits the server between.
THEOREM OAuthOneLogin == Spec => []OneLoginPerUser
<1>1. OAuthInv => OneLoginPerUser
  BY DEF OAuthInv, LoginInv
<1>. QED
  BY <1>1, OAuthInvariant, PTL

\* A pending login that was given a port is served on it, and the filed callback
\* server listens, for somebody: stopCallbackServer never closes a server in use.
THEOREM OAuthServers == Spec => [](PortIsServed /\ CallbackServerIsNeeded)
<1>1. OAuthInv => PortIsServed /\ CallbackServerIsNeeded
  BY DEF OAuthInv, LoginInv
<1>. QED
  BY <1>1, OAuthInvariant, PTL

\* completeWithCode exchanges no authorization code twice at a time, nor one whose
\* token is stored.
THEOREM OAuthCodes == Spec => []CodesAreUsedOnce
<1>1. TypeOK /\ OAuthInv => CodesAreUsedOnce
  <2>1. SUFFICES ASSUME TypeOK, OAuthInv, NEW d \in Delivery, exchange[d] # NoLogin
                 PROVE  /\ \A e \in Delivery \ {d} : exchange[e] # exchange[d]
                        /\ token # NoToken => token.login # exchange[d]
    BY DEF CodesAreUsedOnce
  <2>2. exchange[d] \in Login
    BY <2>1 DEF TypeOK
  <2>. QED
    BY <2>1, <2>2 DEF OAuthInv, CodeInv, Touched
<1>. QED
  BY <1>1, OAuthInvariant, PTL

\* refreshTokenSerialized runs one refresh at a time, and no refresh token that the
\* issuer has answered for is stored or presented again.
THEOREM OAuthRefreshTokens == Spec => []RefreshTokensAreUsedOnce
<1>1. TypeOK /\ OAuthInv => RefreshTokensAreUsedOnce
  <2>. SUFFICES ASSUME TypeOK, OAuthInv PROVE RefreshTokensAreUsedOnce
    OBVIOUS
  <2> DEFINE busy == {c \in Caller : refreshing[c] # NoToken}
  <2>1. busy \in SUBSET {refreshPromise}
    BY DEF OAuthInv, RefreshInv
  <2>2. IsFiniteSet({refreshPromise}) /\ Cardinality({refreshPromise}) = 1
    BY FS_Singleton
  <2>3. Cardinality(busy) <= Cardinality({refreshPromise})
    BY <2>1, <2>2, FS_Subset
  <2>4. \A t \in spent : t # token /\ \A c \in Caller : t # refreshing[c]
    <3>1. TAKE t \in spent
    <3>2. t \in Token /\ t.refreshes \in Nat
      BY <3>1, OAuthAssumption DEF TypeOK, Token
    <3>3. t # NoToken
      BY <3>2, OAuthAssumption
    <3>4. ~ (t.refreshes < t.refreshes)
      BY <3>2
    <3>. QED
      BY <3>3, <3>4 DEF OAuthInv, RefreshInv, Older
  <2>5. (({refreshing[c] : c \in Caller} \ {NoToken}) \cup {token}) \cap spent = {}
    BY <2>4
  <2>6. Cardinality(busy) <= 1
    BY <2>2, <2>3
  <2>. QED
    BY <2>5, <2>6, Zenon DEF RefreshTokensAreUsedOnce
<1>. QED
  BY <1>1, OAuthInvariant, PTL

\* Whoever waits for a refresh waits for one that is in flight: the filed promise
\* is taken back when its refresh is over.
THEOREM OAuthPromises == Spec => []PromiseIsInFlight
<1>1. TypeOK /\ OAuthInv => PromiseIsInFlight
  BY DEF TypeOK, OAuthInv, RefreshInv, PromiseIsInFlight
<1>. QED
  BY <1>1, OAuthInvariant, PTL
=============================================================================
