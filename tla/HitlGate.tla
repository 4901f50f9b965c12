------------------------------ MODULE HitlGate ------------------------------
(***************************************************************************)
(* The human-in-the-loop gate of the gateway process                       *)
(* (packages/gateway/src/hitl-gate.ts), with everything whose state it     *)
(* reads or writes: the approval table (approval-store.ts), the session    *)
(* table and its expiry hook (session.ts, index.ts), the per-session       *)
(* domain list (domain-manager.ts) and the domain pre-flight of the        *)
(* orchestrator, which is the one caller that acts on a gate result with   *)
(* state of its own (orchestrator.ts).                                     *)
(*                                                                         *)
(* The gateway is one event loop.  A handler runs without interruption up  *)
(* to its next await, so an action is what one handler does between two    *)
(* awaits.  A gate call is a process: it is started by some conversation,  *)
(* may wait for the user, and returns.  A decision settles the promise of  *)
(* the call; the code after the await runs as a microtask of its own, when *)
(* the lines of the socket chunk that carried the decision are consumed.   *)
(***************************************************************************)
EXTENDS Naturals, FiniteSets

CONSTANTS
    Call,            \* gate calls; a call that asks is its own approval id
    User,            \* user ids
    Action,          \* tool calls, told apart by tool, input and rule
    Tool, Key, Host, \* tool names, grant pattern keys, host names
    ToolOf,          \* the tool of an action
    KeyOf,           \* its pattern key, what extractPatternKey returns
    HostOf,          \* the host of its url input, or NoHost
    RuleTier,        \* the tier classifyAction returns for it
    Explicit,        \* the actions some rule of actionTiers matched
    McpTier,         \* the defaultTier of its MCP server, or NoTier
    BrowseWeb,       \* the tool browse_web
    DomainRequest,   \* the pseudo tool __domain_request
    AnyKey,          \* the key '*'
    AllowedDomains,  \* allowedDomains of the configuration
    TrustedDomains,  \* trustedDomains of the configuration
    Within,          \* <<h, d>>: h is d or a subdomain of d
    MaxSessions,     \* bound on the sessions of a user in one process
    NoHost, NoTier, NoUser, NoAction

Tier == {"auto-approve", "notify", "require-approval"}

ASSUME ActionAssumption ==
    /\ \A a \in Action :
          /\ ToolOf[a] \in Tool
          /\ KeyOf[a] \in Key
          /\ HostOf[a] \in Host \cup {NoHost}
          /\ RuleTier[a] \in Tier
          /\ McpTier[a] \in Tier \cup {NoTier}
    /\ AnyKey \in Key

ASSUME PlaceholderAssumption ==
    /\ NoTier \notin Tier
    /\ NoHost \notin Host
    /\ NoUser \notin User
    /\ NoAction \notin Action

ASSUME DomainAssumption ==
    /\ AllowedDomains \subseteq Host
    /\ TrustedDomains \subseteq Host
    /\ Within \subseteq Host \X Host
    /\ \A h \in Host : <<h, h>> \in Within

ASSUME BoundAssumption == MaxSessions \in Nat

VARIABLES
    \* one gate call
    phase,     \* where the call stands
    user,      \* userId of the call
    action,    \* toolName and toolInput of the call
    session,   \* sessionId of the call
    tier,      \* the tier the gate settled on
    decision,  \* the value the promise of awaitDecision settled to
    outcome,   \* the result handed to the orchestrator
    \* tables in memory
    pending,   \* keys of pendingDecisions
    armed,     \* calls whose expiry timer is armed
    grants,    \* sessionGrants
    domains,   \* sessionDomains of the domain manager
    live,      \* users that have a session
    made,      \* number of sessions made for each user by this process
    \* on disk
    store,     \* status of the row of each approval id
    aged,      \* approvals made more than five minutes ago
    \* outside the gateway
    told,      \* what the channels were sent about a call
    word       \* the first answer that reached the gateway for a call

callVars == <<phase, user, action, session, tier, decision, outcome>>
sessionVars == <<live, made>>
vars == <<callVars, pending, armed, grants, domains, sessionVars, store, aged,
          told, word>>

Verdict == {"approved", "rejected", "session-approved"}
Grant == [tool : Tool, key : Key, by : Call]

TypeOK ==
    /\ phase \in [Call -> {"idle", "waiting", "settled", "returned", "lost"}]
    /\ user \in [Call -> User \cup {NoUser}]
    /\ action \in [Call -> Action \cup {NoAction}]
    /\ session \in [Call -> Nat]
    /\ tier \in [Call -> Tier \cup {NoTier}]
    /\ decision \in [Call -> {"none", "approved", "rejected"}]
    /\ outcome \in [Call -> {"none", "proceed", "blocked"}]
    /\ pending \in SUBSET Call
    /\ armed \in SUBSET Call
    /\ grants \in [User -> SUBSET Grant]
    /\ domains \in [User -> SUBSET Host]
    /\ live \in SUBSET User
    /\ made \in [User -> 0..MaxSessions]
    /\ store \in [Call -> {"absent", "pending", "approved", "rejected", "expired"}]
    /\ aged \in SUBSET Call
    /\ told \in [Call -> SUBSET {"request", "notification", "expired"}]
    /\ word \in [Call -> Verdict \cup {"none", "timeout"}]

Init ==
    /\ phase = [c \in Call |-> "idle"]
    /\ user = [c \in Call |-> NoUser]
    /\ action = [c \in Call |-> NoAction]
    /\ session = [c \in Call |-> 0]
    /\ tier = [c \in Call |-> NoTier]
    /\ decision = [c \in Call |-> "none"]
    /\ outcome = [c \in Call |-> "none"]
    /\ pending = {}
    /\ armed = {}
    /\ grants = [u \in User |-> {}]
    /\ domains = [u \in User |-> {}]
    /\ live = {}
    /\ made = [u \in User |-> 0]
    /\ store = [c \in Call |-> "absent"]
    /\ aged = {}
    /\ told = [c \in Call |-> {}]
    /\ word = [c \in Call |-> "none"]

-----------------------------------------------------------------------------
(* The tier of a tool call.                                                *)

\* A host matches a set of domains: exactly, or as a subdomain of a member.
MatchesDomainSet(h, ds) == \E d \in ds : <<h, d>> \in Within

IsDomainAllowed(h, u) ==
    MatchesDomainSet(h, AllowedDomains) \/ MatchesDomainSet(h, domains[u])

IsDomainTrusted(h, u) ==
    MatchesDomainSet(h, TrustedDomains) \/ MatchesDomainSet(h, domains[u])

\* An explicit rule beats the MCP server's defaultTier, which beats the
\* classifier's fail-safe answer.
BaseTier(a) ==
    IF a \notin Explicit /\ McpTier[a] # NoTier THEN McpTier[a] ELSE RuleTier[a]

IsUrlTrusted(u, a) ==
    /\ ToolOf[a] = BrowseWeb
    /\ HostOf[a] # NoHost
    /\ IsDomainTrusted(HostOf[a], u)

\* Variant of CheckSessionGrant: the grants of every user are looked up.
GrantOfAnyUser(u, a) ==
    \E w \in User : \E g \in grants[w] : g.tool = ToolOf[a] /\ g.key \in {AnyKey, KeyOf[a]}

CheckSessionGrant(u, a) ==
    \E g \in grants[u] : g.tool = ToolOf[a] /\ g.key \in {AnyKey, KeyOf[a]}

EffectiveTier(u, a) ==
    IF BaseTier(a) = "require-approval" /\ (IsUrlTrusted(u, a) \/ CheckSessionGrant(u, a))
    THEN "notify"
    ELSE BaseTier(a)

-----------------------------------------------------------------------------
(* The promise of a waiting call settles once; later calls of its resolver *)
(* have no effect.                                                         *)

Settle(c, d) ==
    /\ decision' = [decision EXCEPT ![c] = IF @ = "none" THEN d ELSE @]
    /\ phase' = [phase EXCEPT ![c] = IF @ = "waiting" THEN "settled" ELSE @]

\* The continuation of a settled call is a microtask: timers and other
\* macrotasks start only when none is left.
MicrotasksDrained == \A c \in Call : phase[c] # "settled"

\* History: the first answer that arrives for a call, whether or not the
\* gate still listens.
Hear(c, w) == word' = [word EXCEPT ![c] = IF @ = "none" THEN w ELSE @]

\* What handleDomainPreFlight does with the result of its gate call.
SessionDomainsAfter(u, a, ok) ==
    IF ok /\ ToolOf[a] = DomainRequest
    THEN [domains EXCEPT ![u] = @ \cup ({HostOf[a]} \ {NoHost})]
    ELSE domains

\* The pre-flight asks only for a host the user may not reach yet, after the
\* gate let a browse_web call to it proceed.
PreFlightDue(u, a) ==
    /\ HostOf[a] # NoHost
    /\ ~IsDomainAllowed(HostOf[a], u)
    /\ \E c \in Call :
          /\ outcome[c] = "proceed" /\ user[c] = u
          /\ ToolOf[action[c]] = BrowseWeb /\ HostOf[action[c]] = HostOf[a]

-----------------------------------------------------------------------------
(* gate(): the part before the first await.                                *)

\* Common to the three tiers: what the call is, for whom, in which session of
\* this process (the session may have ended since the conversation began).
Classify(c, u, a, s) ==
    /\ phase[c] = "idle"
    /\ s \in 1..made[u]
    /\ ToolOf[a] = DomainRequest => PreFlightDue(u, a)
    /\ user' = [user EXCEPT ![c] = u]
    /\ action' = [action EXCEPT ![c] = a]
    /\ session' = [session EXCEPT ![c] = s]
    /\ tier' = [tier EXCEPT ![c] = EffectiveTier(u, a)]
    /\ UNCHANGED <<grants, sessionVars, aged>>

\* auto-approve and notify return at once; notify tells the user.
GateProceed(c, u, a, s) ==
    /\ Classify(c, u, a, s)
    /\ EffectiveTier(u, a) # "require-approval"
    /\ phase' = [phase EXCEPT ![c] = "returned"]
    /\ outcome' = [outcome EXCEPT ![c] = "proceed"]
    /\ told' = IF EffectiveTier(u, a) = "notify"
               THEN [told EXCEPT ![c] = @ \cup {"notification"}]
               ELSE told
    /\ domains' = SessionDomainsAfter(u, a, TRUE)
    /\ UNCHANGED <<decision, pending, armed, store, word>>

\* require-approval writes the row, sends the request and starts to wait: one
\* synchronous stretch up to the await of awaitDecision.
GateAsk(c, u, a, s) ==
    /\ Classify(c, u, a, s)
    /\ EffectiveTier(u, a) = "require-approval"
    /\ phase' = [phase EXCEPT ![c] = "waiting"]
    /\ store' = [store EXCEPT ![c] = "pending"]
    /\ told' = [told EXCEPT ![c] = @ \cup {"request"}]
    /\ pending' = pending \cup {c}
    /\ armed' = armed \cup {c}
    /\ UNCHANGED <<decision, outcome, domains, word>>

-----------------------------------------------------------------------------
(* Answers.                                                                *)

GrantOf(c) == [tool |-> ToolOf[action[c]], key |-> KeyOf[action[c]], by |-> c]

\* Variant of ResolvePending: the decision is handed on as it came.
ResolveRaw(c, v) ==
    /\ c \in pending
    /\ armed' = armed \ {c}
    /\ pending' = pending \ {c}
    /\ grants' = IF v = "session-approved"
                 THEN [grants EXCEPT ![user[c]] = @ \cup {GrantOf(c)}]
                 ELSE grants
    /\ Settle(c, v)

\* resolveApproval for an id that is pending.
ResolvePending(c, v) ==
    /\ c \in pending
    /\ armed' = armed \ {c}
    /\ pending' = pending \ {c}
    /\ grants' = IF v = "session-approved"
                 THEN [grants EXCEPT ![user[c]] = @ \cup {GrantOf(c)}]
                 ELSE grants
    /\ Settle(c, IF v = "rejected" THEN "rejected" ELSE "approved")

\* Variants of IgnoreDecision: a late decision still replaces an earlier one
\* the call has not seen; a late "Allow for Session" still leaves a grant.
LateDecisionApplies(c, v) ==
    /\ c \notin pending
    /\ decision' = [decision EXCEPT
                      ![c] = IF phase[c] # "settled" THEN @
                             ELSE IF v = "rejected" THEN "rejected" ELSE "approved"]
    /\ UNCHANGED <<armed, pending, grants, phase>>

LateGrantStored(c, v) ==
    /\ c \notin pending
    /\ grants' = IF v = "session-approved"
                 THEN [grants EXCEPT ![user[c]] = @ \cup {GrantOf(c)}]
                 ELSE grants
    /\ UNCHANGED <<armed, pending, decision, phase>>

\* resolveApproval for any other id: a warning, nothing else.
IgnoreDecision(c, v) ==
    /\ c \notin pending
    /\ UNCHANGED <<armed, pending, grants, decision, phase>>

\* A decision arrives, from a Telegram button or the dashboard.  Both channels
\* may answer, in any order, twice, or long after the call returned or was
\* lost in a restart; the gateway is only told the approval id.
Decide(c, v) ==
    /\ "request" \in told[c]
    /\ ResolvePending(c, v) \/ IgnoreDecision(c, v)
    /\ Hear(c, v)
    /\ UNCHANGED <<user, action, session, tier, outcome, domains, sessionVars,
                   store, aged, told>>

\* Five minutes have passed since the call asked.
Age(c) ==
    /\ c \notin aged
    /\ c \in armed \/ store[c] = "pending"
    /\ aged' = aged \cup {c}
    /\ UNCHANGED <<callVars, pending, armed, grants, domains, sessionVars, store,
                   told, word>>

\* Variant of Timeout: the promise is not settled.
TimeoutLeavesWaiting(c) ==
    /\ c \in armed /\ c \in aged
    /\ MicrotasksDrained
    /\ armed' = armed \ {c}
    /\ pending' = pending \ {c}
    /\ store' = [store EXCEPT ![c] = "expired"]
    /\ told' = [told EXCEPT ![c] = @ \cup {"expired"}]
    /\ Hear(c, "timeout")
    /\ UNCHANGED <<callVars, grants, domains, sessionVars, aged>>

\* The timer callback of awaitDecision.
Timeout(c) ==
    /\ c \in armed /\ c \in aged
    /\ MicrotasksDrained
    /\ armed' = armed \ {c}
    /\ pending' = pending \ {c}
    /\ store' = [store EXCEPT ![c] = "expired"]
    /\ told' = [told EXCEPT ![c] = @ \cup {"expired"}]
    /\ Settle(c, "rejected")
    /\ Hear(c, "timeout")
    /\ UNCHANGED <<user, action, session, tier, outcome, grants, domains,
                   sessionVars, aged>>

\* Variant of GateReturn: the row is written only while it is pending.
GateReturnIfPending(c) ==
    /\ phase[c] = "settled"
    /\ phase' = [phase EXCEPT ![c] = "returned"]
    /\ store' = [store EXCEPT ![c] = IF @ = "pending" THEN decision[c] ELSE @]
    /\ outcome' = [outcome EXCEPT
                     ![c] = IF decision[c] = "approved" THEN "proceed" ELSE "blocked"]
    /\ domains' = SessionDomainsAfter(user[c], action[c], decision[c] = "approved")
    /\ UNCHANGED <<user, action, session, tier, decision, pending, armed, grants,
                   sessionVars, aged, told, word>>

\* gate() after its await, and the caller's continuation behind it.
GateReturn(c) ==
    /\ phase[c] = "settled"
    /\ phase' = [phase EXCEPT ![c] = "returned"]
    /\ store' = [store EXCEPT ![c] = decision[c]]
    /\ outcome' = [outcome EXCEPT
                     ![c] = IF decision[c] = "approved" THEN "proceed" ELSE "blocked"]
    /\ domains' = SessionDomainsAfter(user[c], action[c], decision[c] = "approved")
    /\ UNCHANGED <<user, action, session, tier, decision, pending, armed, grants,
                   sessionVars, aged, told, word>>

-----------------------------------------------------------------------------
(* The rest of the process.                                                *)

\* Variants of the sweep: it looks at the age of a row alone; it sweeps only
\* rows some call still waits for.
ExpireAllOld ==
    /\ MicrotasksDrained
    /\ \E c \in aged : store[c] # "expired"
    /\ store' = [c \in Call |-> IF c \in aged THEN "expired" ELSE store[c]]
    /\ UNCHANGED <<callVars, pending, armed, grants, domains, sessionVars, aged,
                   told, word>>

ExpireAwaited ==
    /\ MicrotasksDrained
    /\ \E c \in aged \cap pending : store[c] = "pending"
    /\ store' = [c \in Call |-> IF c \in aged \cap pending /\ store[c] = "pending"
                                THEN "expired" ELSE store[c]]
    /\ UNCHANGED <<callVars, pending, armed, grants, domains, sessionVars, aged,
                   told, word>>

\* The sweep of the approval table that runs every minute.
ExpireStalePending ==
    /\ MicrotasksDrained
    /\ \E c \in aged : store[c] = "pending"
    /\ store' = [c \in Call |-> IF c \in aged /\ store[c] = "pending"
                                THEN "expired" ELSE store[c]]
    /\ UNCHANGED <<callVars, pending, armed, grants, domains, sessionVars, aged,
                   told, word>>

\* getOrCreate for a user without a session.
OpenSession(u) ==
    /\ u \notin live
    /\ made[u] < MaxSessions
    /\ live' = live \cup {u}
    /\ made' = [made EXCEPT ![u] = @ + 1]
    /\ UNCHANGED <<callVars, pending, armed, grants, domains, store, aged, told, word>>

\* cleanup finds the session idle for an hour and calls onSessionExpired.
ExpireSession(u) ==
    /\ u \in live
    /\ MicrotasksDrained
    /\ live' = live \ {u}
    /\ grants' = [grants EXCEPT ![u] = {}]
    /\ domains' = [domains EXCEPT ![u] = {}]
    /\ UNCHANGED <<callVars, pending, armed, made, store, aged, told, word>>

\* The process dies and is started again: the approval table is what is left.
\* Calls that had not returned never do.
Restart ==
    /\ \E u \in User : made[u] # 0
    /\ phase' = [c \in Call |-> IF phase[c] \in {"waiting", "settled"}
                                THEN "lost" ELSE phase[c]]
    /\ pending' = {}
    /\ armed' = {}
    /\ grants' = [u \in User |-> {}]
    /\ domains' = [u \in User |-> {}]
    /\ live' = {}
    /\ made' = [u \in User |-> 0]
    /\ UNCHANGED <<user, action, session, tier, decision, outcome, store, aged,
                   told, word>>

Next ==
    \/ \E c \in Call, u \in User, a \in Action, s \in 1..MaxSessions :
          GateProceed(c, u, a, s) \/ GateAsk(c, u, a, s)
    \/ \E c \in Call, v \in Verdict : Decide(c, v)
    \/ \E c \in Call : Age(c) \/ Timeout(c) \/ GateReturn(c)
    \/ ExpireStalePending
    \/ \E u \in User : OpenSession(u) \/ ExpireSession(u)
    \/ Restart

Spec == Init /\ [][Next]_vars

\* Time passes, the event loop runs its timers and microtasks.  Nobody is
\* obliged to answer, to start a call or to keep a session alive.
Fairness ==
    /\ \A c \in Call : WF_vars(Age(c)) /\ WF_vars(Timeout(c)) /\ WF_vars(GateReturn(c))
    /\ WF_vars(ExpireStalePending)

FairSpec == Spec /\ Fairness

-----------------------------------------------------------------------------
(* Properties.                                                             *)

\* The first answer that reaches the gateway for an approval decides the call,
\* whatever arrives later and from whichever channel: a call that asked proceeds
\* only if that answer was a yes, and is blocked only if it was a no or the
\* five minutes.  (resolveApproval and the timer race for one promise.)
FirstAnswerWins ==
    \A c \in Call : tier[c] = "require-approval" =>
        /\ outcome[c] = "proceed" => word[c] \in {"approved", "session-approved"}
        /\ outcome[c] = "blocked" => word[c] \in {"rejected", "timeout"}

\* Every session grant was given: the call it names is its user's, is for its
\* tool, and the first answer to it was "Allow for Session".  A late click on
\* an approval that timed out or was rejected never leaves a grant behind.
GrantsWereGiven ==
    \A u \in User : \A g \in grants[u] :
        /\ user[g.by] = u
        /\ g.tool = ToolOf[action[g.by]] /\ g.key = KeyOf[action[g.by]]
        /\ word[g.by] = "session-approved"
        /\ decision[g.by] = "approved"

\* A call that needs an approval and ran with a mere notification was covered
\* beforehand: by the configuration's trusted domains, by a domain this user
\* approved, or by a grant this user gave for the same tool and key.  No grant
\* or domain of one user ever covers another.
GrantCovers(d, c) ==
    /\ word[d] = "session-approved"
    /\ ToolOf[action[d]] = ToolOf[action[c]]
    /\ KeyOf[action[d]] \in {AnyKey, KeyOf[action[c]]}

DomainCovers(d, c) ==
    /\ outcome[d] = "proceed"
    /\ ToolOf[action[d]] = DomainRequest
    /\ <<HostOf[action[c]], HostOf[action[d]]>> \in Within

DowngradeWasCovered ==
    \A c \in Call :
        tier[c] = "notify" /\ BaseTier(action[c]) = "require-approval" =>
            \/ \E d \in Call : user[d] = user[c] /\ GrantCovers(d, c)
            \/ /\ ToolOf[action[c]] = BrowseWeb
               /\ \/ MatchesDomainSet(HostOf[action[c]], TrustedDomains)
                  \/ \E d \in Call : user[d] = user[c] /\ DomainCovers(d, c)

\* A call whose channels were told "expired" ("The action was not executed")
\* never proceeds: the timer of a decided call has been cancelled.
ExpiredNeverProceeds ==
    \A c \in Call : "expired" \in told[c] => outcome[c] # "proceed"

\* When a call has returned, its row in the approval table stands for what
\* happened, though the timer, the sweep and the gate all write that row: it
\* says "approved" exactly if the call went ahead, "rejected" if the user said
\* no, and does not say "pending".  Whether a call that timed out is "expired"
\* is left to ExpiredRowsSayExpired.
RowTellsOutcome ==
    \A c \in Call : phase[c] = "returned" /\ tier[c] = "require-approval" =>
        /\ store[c] = "approved" <=> outcome[c] = "proceed"
        /\ word[c] = "rejected" => store[c] = "rejected"
        /\ store[c] # "pending"

\* "Mark an approval as approved, rejected, or expired" (approval-store.ts): the
\* row of a call that nobody answered in time says "expired".  The timer of
\* awaitDecision writes that, and gate() writes "rejected" over it.
ExpiredRowsSayExpired ==
    \A c \in Call :
        phase[c] = "returned" /\ word[c] = "timeout" => store[c] = "expired"

\* A row that says approved or rejected is final, also for the sweep and across
\* restarts.
DecidedRowsAreFinal ==
    [][\A c \in Call : store[c] \in {"approved", "rejected"} => store'[c] = store[c]]_vars

\* No row stays pending for ever: what a restart leaves behind is swept.
RowsAreSettled ==
    \A c \in Call : store[c] = "pending" ~> store[c] # "pending"

\* Why the properties above hold: the inductive invariant of the gate.  Who is
\* in pendingDecisions, whose timer is armed and who waits are the same calls;
\* a call that waits has not been answered; a settled promise holds the first
\* answer; what has been returned is what was settled.
WaitersAreKnown ==
    \A c \in Call : /\ c \in pending <=> phase[c] = "waiting"
                    /\ c \in armed <=> phase[c] = "waiting"

Agrees(d, w) == \/ d = "approved" /\ w \in {"approved", "session-approved"}
                \/ d = "rejected" /\ w \in {"rejected", "timeout"}

IdleCall(c) ==
    /\ told[c] = {} /\ word[c] = "none" /\ decision[c] = "none"
    /\ outcome[c] = "none" /\ store[c] = "absent" /\ tier[c] = NoTier

\* A call that asked and has not returned.
OpenCall(c) ==
    /\ outcome[c] = "none" /\ store[c] \in {"pending", "expired"}
    /\ user[c] \in User /\ action[c] \in Action /\ tier[c] = "require-approval"

ReturnedCall(c) ==
    /\ user[c] \in User /\ action[c] \in Action
    /\ IF tier[c] = "require-approval"
       THEN /\ Agrees(decision[c], word[c])
            /\ store[c] = decision[c]
            /\ outcome[c] = IF decision[c] = "approved" THEN "proceed" ELSE "blocked"
       ELSE /\ "request" \notin told[c] /\ "expired" \notin told[c]
            /\ word[c] = "none" /\ store[c] = "absent" /\ outcome[c] = "proceed"

CallHistory(c) ==
    /\ phase[c] = "idle" => IdleCall(c)
    /\ phase[c] \in {"waiting", "settled", "lost"} => OpenCall(c)
    /\ phase[c] = "waiting" => word[c] = "none" /\ decision[c] = "none"
    /\ phase[c] = "settled" => Agrees(decision[c], word[c])
    /\ phase[c] = "returned" => ReturnedCall(c)

ExpiredMeansTimeout == \A c \in Call : "expired" \in told[c] => word[c] = "timeout"

\* Every domain of a session list came out of a domain request that proceeded.
DomainsWereAsked ==
    \A u \in User : \A h \in domains[u] :
        \E c \in Call : /\ user[c] = u /\ outcome[c] = "proceed"
                        /\ ToolOf[action[c]] = DomainRequest /\ HostOf[action[c]] = h

GateInv ==
    /\ WaitersAreKnown
    /\ \A c \in Call : CallHistory(c)
    /\ ExpiredMeansTimeout
    /\ GrantsWereGiven
    /\ DomainsWereAsked

\* orchestrator.ts, handleDomainPreFlight: "We bypass classification ... and go
\* straight to require-approval".  A domain of the session list was approved by
\* an answer to a request for that very domain.
DomainsWereApproved ==
    \A u \in User : \A h \in domains[u] :
        \E c \in Call : /\ user[c] = u /\ HostOf[action[c]] = h
                        /\ ToolOf[action[c]] = DomainRequest
                        /\ word[c] \in {"approved", "session-approved"}
=============================================================================
