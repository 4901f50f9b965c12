----------------------------- MODULE CodexOAuth -----------------------------
(***************************************************************************)
(* The Codex OAuth broker (services/openai-codex-oauth.ts) with the entry  *)
(* of the token store it reads and writes: logins and the callback server  *)
(* they share, the exchange of authorization codes, the refresh of the     *)
(* token, disconnect, shutdown and restart.                                *)
(*                                                                         *)
(* A login is one call of startLogin; its state parameter and the server   *)
(* it may create are named after it.  A delivery is a call of              *)
(* completeWithCode that awaits the exchange.  A caller is a call of       *)
(* getValidAccessCredentials that awaits a refresh; calls that need none   *)
(* change nothing.  An action is what happens between two awaits.          *)
(***************************************************************************)
EXTENDS Naturals, FiniteSets

CONSTANTS
    User,         \* user ids
    Login,        \* calls of startLogin
    Delivery,     \* names for the exchanges at work at one time
    Caller,       \* names for the calls that wait for a refresh at one time
    MaxRefreshes, \* bound on the refreshes of one login's tokens
    DefaultPort,  \* the callback port of the configuration
    NoPort, NoUser, NoLogin, NoCaller, NoToken

\* A server that cannot have the default port gets one of its own, named after it.
Port == Login \cup {DefaultPort}

\* A token is told apart by the login it goes back to and its refreshes since.
Token == [login : Login, refreshes : 0..MaxRefreshes]

ASSUME OAuthAssumption ==
    /\ MaxRefreshes \in Nat
    /\ DefaultPort \notin Login
    /\ NoPort \notin Port
    /\ NoUser \notin User
    /\ NoLogin \notin Login
    /\ NoCaller \notin Caller
    /\ NoToken \notin Token

VARIABLES
    \* logins
    phase,          \* "open" while in pendingByState
    user,           \* userId
    redirect,       \* the port of its redirectUri
    expired,        \* logins past their expiresAt
    inProgress,     \* logins whose inProgress flag is set
    stateByUser,    \* stateByUser
    \* callback servers, named after the login that created them
    listening,      \* servers that listen
    bound,          \* the port of a server
    callbackServer, \* callbackServer; callbackPort is its port
    \* exchanges of codes
    exchange,       \* the login of a delivery
    viaServer,      \* the deliveries that are requests of a callback server
    \* the stored token and its refresh
    token,          \* what the store holds
    due,            \* whether it needsRefresh
    refreshing,     \* the token whose refresh a caller started and awaits
    refreshPromise, \* the caller whose refresh is filed
    waits,          \* the caller whose refresh a caller awaits
    \* history
    spent           \* tokens whose refresh token the issuer replaced or refused

loginVars == <<phase, user, redirect, expired, inProgress, stateByUser>>
serverVars == <<listening, bound, callbackServer>>
refreshVars == <<refreshing, refreshPromise, waits, spent>>
tokenVars == <<token, due, refreshVars>>
exchangeVars == <<exchange, viaServer>>
vars == <<loginVars, serverVars, exchangeVars, tokenVars>>

TypeOK ==
    /\ phase \in [Login -> {"idle", "binding", "open", "ended"}]
    /\ user \in [Login -> User \cup {NoUser}]
    /\ redirect \in [Login -> Port \cup {NoPort}]
    /\ expired \in SUBSET Login
    /\ inProgress \in SUBSET Login
    /\ stateByUser \in [User -> Login \cup {NoLogin}]
    /\ listening \in SUBSET Login
    /\ bound \in [Login -> Port \cup {NoPort}]
    /\ callbackServer \in Login \cup {NoLogin}
    /\ exchange \in [Delivery -> inProgress \cup {NoLogin}]
    /\ viaServer \in SUBSET Delivery
    /\ token \in Token \cup {NoToken}
    /\ due \in BOOLEAN
    /\ refreshing \in [Caller -> Token \cup {NoToken}]
    /\ refreshPromise \in Caller \cup {NoCaller}
    /\ waits \in [Caller -> Caller \cup {NoCaller}]
    /\ spent \in SUBSET Token

Init ==
    /\ phase = [l \in Login |-> "idle"]
    /\ user = [l \in Login |-> NoUser]
    /\ redirect = [l \in Login |-> NoPort]
    /\ expired = {}
    /\ inProgress = {}
    /\ stateByUser = [u \in User |-> NoLogin]
    /\ listening = {}
    /\ bound = [l \in Login |-> NoPort]
    /\ callbackServer = NoLogin
    /\ exchange = [d \in Delivery |-> NoLogin]
    /\ viaServer = {}
    /\ token = NoToken
    /\ due = FALSE
    /\ refreshing = [c \in Caller |-> NoToken]
    /\ refreshPromise = NoCaller
    /\ waits = [c \in Caller |-> NoCaller]
    /\ spent = {}

-----------------------------------------------------------------------------
(* Pending logins and the callback server.                                 *)

Pending == {l \in Login : phase[l] = "open"}
Overdue == Pending \cap expired

\* clearPendingState for the logins of C, one after the other: the server goes
\* with the last pending login.
UserStatesWithout(C) ==
    [u \in User |-> IF stateByUser[u] \in C THEN NoLogin ELSE stateByUser[u]]

PhasesWithout(C) == [l \in Login |-> IF l \in C THEN "ended" ELSE phase[l]]

\* Variant of IsLast: whichever login is cleared takes the server with it.
IsAny(C) == C # {}

\* Clearing the logins of C leaves none pending.
IsLast(C) == C # {} /\ Pending \subseteq C

StopServer(s) ==
    /\ listening' = listening \ {s}
    /\ callbackServer' = NoLogin
    /\ UNCHANGED bound

ClearPending(C) ==
    /\ phase' = PhasesWithout(C)
    /\ stateByUser' = UserStatesWithout(C)
    /\ IF IsLast(C) THEN StopServer(callbackServer) ELSE UNCHANGED serverVars

\* The end of startLogin: the login is filed for its user, for the server s that
\* ensureCallbackServer found or bound.  An earlier login of the user is cleared
\* first, which may stop that very server.
File(l, u, C, s, servers) ==
    LET stops == IsLast(C)
    IN  /\ phase' = [PhasesWithout(C) EXCEPT ![l] = "open"]
        /\ stateByUser' = [UserStatesWithout(C) EXCEPT ![u] = l]
        /\ listening' = IF stops THEN servers \ {s} ELSE servers
        /\ callbackServer' = IF stops THEN NoLogin ELSE s
        /\ redirect' = [redirect EXCEPT ![l] = IF stops THEN NoPort ELSE bound'[s]]

Earlier(u) == {stateByUser[u]} \cap Login

\* startLogin with a callback server: prune, clear, file.
StartLogin(l, u) ==
    /\ phase[l] = "idle"
    /\ callbackServer # NoLogin
    /\ ~IsLast(Overdue)
    /\ user' = [user EXCEPT ![l] = u]
    /\ UNCHANGED bound
    /\ File(l, u, Overdue \cup Earlier(u), callbackServer, listening)
    /\ UNCHANGED <<expired, inProgress, exchangeVars, tokenVars>>

\* startLogin without one, which pruning may be the reason for: it binds one.
StartBinding(l, u) ==
    /\ phase[l] = "idle"
    /\ callbackServer = NoLogin \/ IsLast(Overdue)
    /\ user' = [user EXCEPT ![l] = u]
    /\ phase' = [PhasesWithout(Overdue) EXCEPT ![l] = "binding"]
    /\ stateByUser' = UserStatesWithout(Overdue)
    /\ StopServer(callbackServer)
    /\ UNCHANGED <<redirect, expired, inProgress, exchangeVars, tokenVars>>

\* The port is free, or another one is taken; another program may hold it, too.
PortFor(l, p) ==
    \/ p = DefaultPort /\ \A s \in listening : bound[s] # DefaultPort
    \/ p = l

\* The server listens: it becomes the callback server, whichever was before.
Bound(l, p) ==
    /\ phase[l] = "binding"
    /\ PortFor(l, p)
    /\ bound' = [bound EXCEPT ![l] = p]
    /\ File(l, user[l], Earlier(user[l]), l, listening \cup {l})
    /\ UNCHANGED <<user, expired, inProgress, exchangeVars, tokenVars>>

BindFails(l) ==
    /\ phase[l] = "binding"
    /\ phase' = [phase EXCEPT ![l] = "ended"]
    /\ UNCHANGED <<user, redirect, expired, inProgress, stateByUser, serverVars,
                   exchangeVars, tokenVars>>

\* Ten minutes pass.
Age(l) ==
    /\ l \in Pending \ expired
    /\ expired' = expired \cup {l}
    /\ UNCHANGED <<phase, user, redirect, inProgress, stateByUser, serverVars,
                   exchangeVars, tokenVars>>

\* The timer of a login, also while its code is being exchanged.
Expire(l) ==
    /\ l \in Overdue
    /\ ClearPending({l})
    /\ UNCHANGED <<user, redirect, expired, inProgress, exchangeVars, tokenVars>>

\* Every callback input and every request of the callback server prunes, those
\* that are turned down as well.
Prune ==
    /\ Overdue # {}
    /\ ClearPending(Overdue)
    /\ UNCHANGED <<user, redirect, expired, inProgress, exchangeVars, tokenVars>>

\* The browser comes back with an error: the authorization was denied.
Denied(l) ==
    /\ listening # {}
    /\ l \in Pending
    /\ ClearPending({l} \cup Overdue)
    /\ UNCHANGED <<user, redirect, expired, inProgress, exchangeVars, tokenVars>>

-----------------------------------------------------------------------------
(* Authorization codes.                                                    *)

\* Variant of Begins: the flag is not looked at.
BeginsTwice(d, l) ==
    /\ exchange[d] = NoLogin
    /\ l \in Pending \ expired
    /\ inProgress' = inProgress \cup {l}
    /\ exchange' = [exchange EXCEPT ![d] = l]

\* Variant of Begins: the flag is set when the exchange is over.
BeginsUnmarked(d, l) ==
    /\ exchange[d] = NoLogin
    /\ l \in Pending \ expired
    /\ l \notin inProgress
    /\ exchange' = [exchange EXCEPT ![d] = l]
    /\ UNCHANGED inProgress

\* completeWithCode up to the exchange.
Begins(d, l) ==
    /\ exchange[d] = NoLogin
    /\ l \in Pending \ expired
    /\ l \notin inProgress
    /\ inProgress' = inProgress \cup {l}
    /\ exchange' = [exchange EXCEPT ![d] = l]

\* A code pasted by the user of the login.
Pasted(d, l) ==
    /\ Begins(d, l)
    /\ ClearPending(Overdue)
    /\ UNCHANGED <<user, redirect, expired, viaServer, tokenVars>>

\* A code brought by the browser to a callback server.
CalledBack(d, l) ==
    /\ listening # {}
    /\ Begins(d, l)
    /\ viaServer' = viaServer \cup {d}
    /\ UNCHANGED <<phase, user, redirect, expired, stateByUser, serverVars, tokenVars>>

\* A request of the callback server prunes at its end.
PrunedBy(d) == IF d \in viaServer THEN Overdue ELSE {}

Delivered(d) ==
    /\ exchange' = [exchange EXCEPT ![d] = NoLogin]
    /\ viaServer' = viaServer \ {d}

\* The issuer accepts the code: the token is stored whatever became of the login
\* meanwhile.
Exchanged(d) ==
    LET l == exchange[d]
    IN  /\ l # NoLogin
        /\ token' = [login |-> l, refreshes |-> 0]
        /\ due' = FALSE
        /\ Delivered(d)
        /\ ClearPending(({l} \cap Pending) \cup PrunedBy(d))
        /\ UNCHANGED <<user, redirect, expired, inProgress, refreshVars>>

\* It does not, or its answer is of no use: the login may be tried again.
ExchangeFails(d) ==
    LET l == exchange[d]
    IN  /\ l # NoLogin
        /\ inProgress' = inProgress \ {l}
        /\ Delivered(d)
        /\ ClearPending(PrunedBy(d))
        /\ UNCHANGED <<user, redirect, expired, tokenVars>>

-----------------------------------------------------------------------------
(* The token.                                                              *)

\* The access token comes within 90 seconds of its expiry.
ComesDue ==
    /\ token # NoToken /\ ~due
    /\ due' = TRUE
    /\ UNCHANGED <<loginVars, serverVars, exchangeVars, token, refreshVars>>

Idle(c) == refreshing[c] = NoToken /\ waits[c] = NoCaller

\* Variant of Refresh: a refresh in flight is not shared.
RefreshAlone(c) ==
    /\ Idle(c)
    /\ token # NoToken /\ due
    /\ token.refreshes < MaxRefreshes
    /\ refreshing' = [refreshing EXCEPT ![c] = token]
    /\ refreshPromise' = c
    /\ UNCHANGED <<loginVars, serverVars, exchangeVars, token, due, waits, spent>>

\* getValidAccessCredentials finds a token that is due and no refresh in flight.
Refresh(c) ==
    /\ Idle(c)
    /\ token # NoToken /\ due
    /\ refreshPromise = NoCaller
    /\ token.refreshes < MaxRefreshes
    /\ refreshing' = [refreshing EXCEPT ![c] = token]
    /\ refreshPromise' = c
    /\ UNCHANGED <<loginVars, serverVars, exchangeVars, token, due, waits, spent>>

\* It finds one in flight, for this token or an earlier one, and awaits it.
JoinRefresh(c) ==
    /\ Idle(c)
    /\ token # NoToken /\ due
    /\ refreshPromise # NoCaller
    /\ waits' = [waits EXCEPT ![c] = refreshPromise]
    /\ UNCHANGED <<loginVars, serverVars, exchangeVars, token, due, refreshing,
                   refreshPromise, spent>>

\* The refresh of c is over, for it and for all who wait for it.
RefreshEnds(c) ==
    /\ refreshing[c] # NoToken
    /\ refreshing' = [refreshing EXCEPT ![c] = NoToken]
    /\ waits' = [d \in Caller |-> IF waits[d] = c THEN NoCaller ELSE waits[d]]
    /\ refreshPromise' = NoCaller
    /\ UNCHANGED <<loginVars, serverVars, exchangeVars>>

\* The token of an answer that carries a new refresh token.
Successor(t) == [t EXCEPT !.refreshes = @ + 1]

\* The issuer answers, and what it says replaces what is stored.  It rotates the
\* refresh token, or answers without one: toTokenData keeps the one presented.
Refreshed(c) ==
    /\ RefreshEnds(c)
    /\ due' = FALSE
    /\ \/ /\ token' = Successor(refreshing[c])
          /\ spent' = spent \cup {refreshing[c]}
       \/ /\ token' = refreshing[c]
          /\ UNCHANGED spent

\* It refuses (400, 401): what is stored is deleted.
RefreshRefused(c) ==
    /\ RefreshEnds(c)
    /\ token' = NoToken
    /\ due' = FALSE
    /\ spent' = spent \cup {refreshing[c]}

\* It does not answer, or not with a token.
RefreshFails(c) ==
    /\ RefreshEnds(c)
    /\ UNCHANGED <<token, due, spent>>

Disconnect ==
    /\ token # NoToken
    /\ token' = NoToken
    /\ due' = FALSE
    /\ UNCHANGED <<loginVars, serverVars, exchangeVars, refreshVars>>

-----------------------------------------------------------------------------
(* The process.                                                            *)

\* stop, at shutdown: what is in flight goes on until the process exits.
Stop ==
    /\ phase' = PhasesWithout(Pending)
    /\ stateByUser' = UserStatesWithout(Pending)
    /\ StopServer(callbackServer)
    /\ UNCHANGED <<user, redirect, expired, inProgress, exchangeVars, tokenVars>>

\* The process ends and comes back with the store alone.
Restart ==
    /\ phase' = [l \in Login |-> IF phase[l] = "idle" THEN "idle" ELSE "ended"]
    /\ stateByUser' = [u \in User |-> NoLogin]
    /\ expired' = {}
    /\ inProgress' = {}
    /\ listening' = {}
    /\ callbackServer' = NoLogin
    /\ exchange' = [d \in Delivery |-> NoLogin]
    /\ viaServer' = {}
    /\ refreshing' = [c \in Caller |-> NoToken]
    /\ refreshPromise' = NoCaller
    /\ waits' = [c \in Caller |-> NoCaller]
    /\ UNCHANGED <<user, redirect, bound, token, due, spent>>

-----------------------------------------------------------------------------
LoginStep(l) ==
    \/ \E u \in User : StartLogin(l, u) \/ StartBinding(l, u)
    \/ \E p \in Port : Bound(l, p)
    \/ BindFails(l)
    \/ Age(l) \/ Expire(l) \/ Denied(l)

DeliveryStep(d) ==
    \/ \E l \in Login : Pasted(d, l) \/ CalledBack(d, l)
    \/ Exchanged(d) \/ ExchangeFails(d)

CallerStep(c) ==
    \/ Refresh(c) \/ JoinRefresh(c)
    \/ Refreshed(c) \/ RefreshRefused(c) \/ RefreshFails(c)

Next ==
    \/ \E l \in Login : LoginStep(l)
    \/ \E d \in Delivery : DeliveryStep(d)
    \/ \E c \in Caller : CallerStep(c)
    \/ Prune \/ ComesDue \/ Disconnect \/ Stop \/ Restart

Spec == Init /\ [][Next]_vars

-----------------------------------------------------------------------------
(* Properties.                                                             *)

\* Each user has at most one pending login, the one stateByUser names, which a
\* pasted code without a state goes to.  startLogin awaits the server between
\* its prune and its look at the user's earlier login, and other logins, timers
\* and callbacks end in between.
OneLoginPerUser ==
    /\ \A l \in Pending : stateByUser[user[l]] = l
    /\ \A u \in User : stateByUser[u] # NoLogin =>
          stateByUser[u] \in Pending /\ user[stateByUser[u]] = u

\* A pending login that was given a port is served on it until it ends, however
\* many other logins come and go and whichever server is filed by then.
PortIsServed ==
    \A l \in Pending : redirect[l] # NoPort => \E s \in listening : bound[s] = redirect[l]

\* The filed callback server listens, and for somebody: it is closed with the
\* last pending login.
CallbackServerIsNeeded ==
    callbackServer # NoLogin => callbackServer \in listening /\ Pending # {}

\* An authorization code is good for one exchange: no login is exchanged twice at
\* a time, although its code may be pasted and called back any number of times,
\* and none whose token is already in the store.
CodesAreUsedOnce ==
    \A d \in Delivery : exchange[d] # NoLogin =>
        /\ \A e \in Delivery \ {d} : exchange[e] # exchange[d]
        /\ token # NoToken => token.login # exchange[d]

\* At most one refresh is in flight, and a refresh token that the issuer has
\* replaced or refused is neither stored nor presented again, also across
\* disconnects, new logins and restarts in the middle of a refresh.
RefreshTokensAreUsedOnce ==
    LET used == {refreshing[c] : c \in Caller} \ {NoToken}
    IN  /\ Cardinality({c \in Caller : refreshing[c] # NoToken}) <= 1
        /\ (used \cup {token}) \cap spent = {}

\* Who waits for a refresh, or will, waits for one that is in flight: a promise
\* that has settled is never shared again.
PromiseIsInFlight ==
    /\ refreshPromise # NoCaller => refreshing[refreshPromise] # NoToken
    /\ \A c \in Caller : waits[c] # NoCaller => refreshing[waits[c]] # NoToken

\* Why the properties hold.  Logins: who is pending or binding has a user, and a
\* server is named after a login that has bound it.
LoginInv ==
    /\ OneLoginPerUser
    /\ PortIsServed
    /\ CallbackServerIsNeeded
    /\ \A l \in Login : phase[l] \in {"binding", "open"} => user[l] \in User
    /\ \A s \in listening : phase[s] \in {"open", "ended"}

\* Codes: once a token goes back to a login, the login has ended and its code is
\* never exchanged again.
Touched(l) ==
    \/ \E t \in spent : t.login = l
    \/ token # NoToken /\ token.login = l
    \/ \E c \in Caller : refreshing[c] # NoToken /\ refreshing[c].login = l

CodeInv ==
    /\ \A l \in Login : Touched(l) =>
          phase[l] = "ended" /\ \A d \in Delivery : exchange[d] # l
    /\ \A d, e \in Delivery : exchange[d] # NoLogin /\ exchange[d] = exchange[e] => d = e
    /\ \A d \in Delivery : exchange[d] # NoLogin => phase[exchange[d]] \in {"open", "ended"}

\* Refreshes: the filed promise is the one refresh in flight, and spent tokens are
\* older than the token in the store and the one in flight.
Older(t, v) == v # NoToken /\ t.login = v.login => t.refreshes < v.refreshes

RefreshInv ==
    /\ \A c \in Caller : refreshing[c] # NoToken <=> refreshPromise = c
    /\ \A c \in Caller : refreshing[c] # NoToken => refreshing[c].refreshes < MaxRefreshes
    /\ \A c \in Caller : waits[c] # NoCaller => waits[c] = refreshPromise
    /\ \A t \in spent : Older(t, token) /\ \A c \in Caller : Older(t, refreshing[c])

OAuthInv == LoginInv /\ CodeInv /\ RefreshInv

=============================================================================
