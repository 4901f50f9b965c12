----------------------------- MODULE McpServers -----------------------------
(***************************************************************************)
(* The long-lived MCP servers of the gateway (packages/gateway/src/mcp):   *)
(* the states of the manager (manager.ts), the Docker containers, health   *)
(* checks and restarts of the container manager (container.ts) and the     *)
(* registrations of the proxy (proxy.ts), from the start of the gateway to *)
(* its shutdown (index.ts).                                                *)
(*                                                                         *)
(* Every call of Docker is an await, and so is the handshake with a server *)
(* that has been started.  A flow is an async function on its way through  *)
(* these awaits: startServer, called by startAll for one server after the  *)
(* other, or handleCrash.  Health checks, flows and stopServer of the same *)
(* server run side by side; nothing but the maps of the container manager  *)
(* tells them about each other.                                            *)
(*                                                                         *)
(* The interval of a health check is named by the container whose start    *)
(* set it up.  A call of Docker takes effect when its answer arrives.  An  *)
(* inspect may take any time, also longer than the interval of the health  *)
(* check: MaxProbes bounds how many of them overlap, for TLC only.         *)
(***************************************************************************)
EXTENDS Naturals, FiniteSets

CONSTANTS
    Server,       \* enabled servers of the configuration
    NetServer,    \* those with allowedDomains
    Container,    \* containers Docker may create; bounds their number
    Ip,           \* addresses of the gateway's network
    Flow,         \* names for the flows at work at one time
    MaxRestarts,  \* MAX_RESTART_ATTEMPTS
    MaxProbes,    \* inspects a health check may have in flight
    MaxExits,     \* bound on the containers that die by themselves
    Failing,      \* the calls of Docker that may fail
    NoContainer, NoServer, NoIp

ASSUME McpAssumption ==
    /\ NetServer \subseteq Server
    /\ MaxRestarts \in Nat /\ MaxProbes \in Nat /\ MaxExits \in Nat
    /\ Failing \subseteq {"create", "start", "inspect", "remove", "probe", "stop"}
    /\ NoContainer \notin Container
    /\ NoServer \notin Server
    /\ NoIp \notin Ip

VARIABLES
    \* Docker
    cont,        \* what became of a container
    of,          \* the server it was created for
    ip,          \* its address while it runs
    exits,       \* number of containers that died by themselves
    \* container manager and proxy
    containers,  \* containers
    known,       \* ip of the McpContainerInfo of a container
    count,       \* restartCounts
    healthOf,    \* healthChecks, the interval filed for a server
    ticking,     \* intervals that have not been cleared
    probes,      \* answers a health check waits for, by container inspected
    found,       \* history: health checks that found their server dead
    again,       \* history: those that did so again after they were cleared
    reg,         \* registrations of the proxy
    \* manager
    toStart,     \* servers startAll has yet to come to
    servers,     \* which state object is filed: of startServer, of startAll
    status,      \* its status
    client,      \* the container its client talks to
    flow,        \* the flows
    stop,        \* where stopServer stands
    target,      \* the container it stops
    closed       \* the process has exited

dockerVars == <<cont, of, ip, exits>>
historyVars == <<found, again>>
watchVars == <<healthOf, ticking, probes, historyVars>>
stateVars == <<servers, status, client>>
vars == <<dockerVars, containers, known, count, watchVars, reg, toStart,
          stateVars, flow, stop, target, closed>>

NoFlow == [kind |-> "none", at |-> "idle", server |-> NoServer,
           on |-> NoContainer, object |-> 0]

TypeOK ==
    /\ cont \in [Container -> {"none", "created", "running", "exited", "removed"}]
    /\ of \in [Container -> Server \cup {NoServer}]
    /\ ip \in [Container -> Ip \cup {NoIp}]
    /\ exits \in 0..MaxExits
    /\ containers \in [Server -> Container \cup {NoContainer}]
    /\ known \in [Container -> Ip \cup {NoIp}]
    /\ count \in [Server -> Nat]
    /\ healthOf \in [Server -> Container \cup {NoContainer}]
    /\ ticking \in SUBSET Container
    /\ probes \in [Container -> [Container -> 0..MaxProbes]]
    /\ found \in SUBSET Container
    /\ again \in SUBSET Container
    /\ reg \in [Ip -> Server \cup {NoServer}]
    /\ toStart \in SUBSET Server
    /\ servers \in [Server -> 0..2]
    /\ status \in [Server -> {"starting", "ready", "error", "stopped"}]
    /\ client \in [Server -> Container \cup {NoContainer}]
    /\ flow \in [Flow -> [kind : {"none", "boot", "crash"},
                          at : {"idle", "remove", "create", "start", "inspect", "init"},
                          server : Server \cup {NoServer},
                          on : Container \cup {NoContainer},
                          object : 0..2]]
    /\ stop \in [Server -> {"no", "halt", "remove", "done"}]
    /\ target \in [Server -> Container \cup {NoContainer}]
    /\ closed \in BOOLEAN

Init ==
    /\ cont = [k \in Container |-> "none"]
    /\ of = [k \in Container |-> NoServer]
    /\ ip = [k \in Container |-> NoIp]
    /\ exits = 0
    /\ containers = [s \in Server |-> NoContainer]
    /\ known = [k \in Container |-> NoIp]
    /\ count = [s \in Server |-> 0]
    /\ healthOf = [s \in Server |-> NoContainer]
    /\ ticking = {}
    /\ probes = [k \in Container |-> [c \in Container |-> 0]]
    /\ found = {}
    /\ again = {}
    /\ reg = [i \in Ip |-> NoServer]
    /\ toStart = Server
    /\ servers = [s \in Server |-> 0]
    /\ status = [s \in Server |-> "stopped"]
    /\ client = [s \in Server |-> NoContainer]
    /\ flow = [f \in Flow |-> NoFlow]
    /\ stop = [s \in Server |-> "no"]
    /\ target = [s \in Server |-> NoContainer]
    /\ closed = FALSE

-----------------------------------------------------------------------------
(* Docker.                                                                 *)

\* A container ends; its address may be given to another one.
Ends(k, how) ==
    /\ cont' = [cont EXCEPT ![k] = how]
    /\ ip' = [ip EXCEPT ![k] = NoIp]

\* remove with force; its errors are swallowed.
Removes(k) ==
    \/ Ends(k, "removed")
    \/ "remove" \in Failing /\ UNCHANGED <<cont, ip>>

FreeIps == {i \in Ip : \A k \in Container : ip[k] # i}

\* The server in a container dies.
Exit(k) ==
    /\ cont[k] = "running"
    /\ exits < MaxExits
    /\ exits' = exits + 1
    /\ Ends(k, "exited")
    /\ UNCHANGED <<of, containers, known, count, watchVars, reg, toStart,
                   stateVars, flow, stop, target, closed>>

-----------------------------------------------------------------------------
(* Starting a container.                                                   *)

At(f, place) == flow[f].at = place

Booting == \E f \in Flow : flow[f].kind = "boot"

\* startServer, up to its first await.
StartServer(f, s) ==
    /\ At(f, "idle")
    /\ s \in toStart
    /\ ~Booting
    /\ toStart' = toStart \ {s}
    /\ servers' = [servers EXCEPT ![s] = 1]
    /\ status' = [status EXCEPT ![s] = "starting"]
    /\ flow' = [flow EXCEPT ![f] = [kind |-> "boot", at |-> "create", server |-> s,
                                    on |-> NoContainer, object |-> 0]]
    /\ UNCHANGED <<dockerVars, containers, known, count, watchVars, reg, client,
                   stop, target, closed>>

Create(f, k) ==
    /\ At(f, "create")
    /\ cont[k] = "none"
    /\ cont' = [cont EXCEPT ![k] = "created"]
    /\ of' = [of EXCEPT ![k] = flow[f].server]
    /\ flow' = [flow EXCEPT ![f].at = "start", ![f].on = k]
    /\ UNCHANGED <<ip, exits, containers, known, count, watchVars, reg, toStart,
                   stateVars, stop, target, closed>>

\* Docker starts the container and gives it an address of the network.
Start(f) ==
    LET k == flow[f].on
    IN  /\ At(f, "start")
        /\ cont' = [cont EXCEPT ![k] = "running"]
        /\ IF flow[f].server \in NetServer
           THEN \E i \in FreeIps : ip' = [ip EXCEPT ![k] = i]
           ELSE UNCHANGED ip
        /\ flow' = [flow EXCEPT ![f].at = "inspect"]
        /\ UNCHANGED <<of, exits, containers, known, count, watchVars, reg,
                       toStart, stateVars, stop, target, closed>>

\* Variant of Register: after a crash the address is not registered again.
RegisterAtBoot(f) ==
    LET i == ip[flow[f].on]
    IN  reg' = IF i = NoIp \/ flow[f].kind = "crash"
               THEN reg ELSE [reg EXCEPT ![i] = flow[f].server]

\* The address is asked for and registered; a container that died has none.
Register(f) ==
    LET i == ip[flow[f].on]
    IN  reg' = IF i = NoIp THEN reg ELSE [reg EXCEPT ![i] = flow[f].server]

\* Variant of StartHealthCheck: there is none after a restart.
WatchAtBoot(s, k) ==
    IF healthOf[s] = NoContainer /\ \E l \in Container \ {k} : of[l] = s
    THEN UNCHANGED <<healthOf, ticking>>
    ELSE /\ healthOf' = [healthOf EXCEPT ![s] = k]
         /\ ticking' = (ticking \ {healthOf[s]}) \cup {k}

\* The interval that is filed is cleared and replaced.
StartHealthCheck(s, k) ==
    /\ healthOf' = [healthOf EXCEPT ![s] = k]
    /\ ticking' = (ticking \ {healthOf[s]}) \cup {k}

\* The rest of startContainer: the container is registered and filed, the count
\* of restarts begins anew, a health check is set up, and the handshake begins.
Install(f) ==
    LET k == flow[f].on
        s == flow[f].server
    IN  /\ At(f, "inspect")
        /\ Register(f)
        /\ known' = [known EXCEPT ![k] = ip[k]]
        /\ containers' = [containers EXCEPT ![s] = k]
        /\ count' = [count EXCEPT ![s] = 0]
        /\ StartHealthCheck(s, k)
        /\ flow' = [flow EXCEPT ![f].at = "init"]
        /\ UNCHANGED <<dockerVars, probes, historyVars, toStart, stateVars, stop,
                       target, closed>>

\* How a flow ends that failed.  startAll files a new state object; handleCrash
\* leaves the status "error" it began with.
Abandon(f) ==
    LET s == flow[f].server
        boot == flow[f].kind = "boot"
    IN  /\ servers' = IF boot THEN [servers EXCEPT ![s] = 2] ELSE servers
        /\ status' = IF boot THEN [status EXCEPT ![s] = "error"] ELSE status
        /\ client' = IF boot THEN [client EXCEPT ![s] = NoContainer] ELSE client
        /\ flow' = [flow EXCEPT ![f] = NoFlow]

\* Docker does not create, attach, start or inspect the container.
DockerError(f) ==
    /\ flow[f].at \in Failing \cap {"create", "start", "inspect"}
    /\ At(f, "inspect") => flow[f].server \in NetServer
    /\ Abandon(f)
    /\ UNCHANGED <<dockerVars, containers, known, count, watchVars, reg, toStart,
                   stop, target, closed>>

\* Variant of MakeReady: the status of the container info is taken for that of
\* the server.
MakeRunning(s, k) ==
    /\ status' = [status EXCEPT ![s] = "running"]
    /\ client' = [client EXCEPT ![s] = k]

MakeReady(s, k) ==
    /\ status' = [status EXCEPT ![s] = "ready"]
    /\ client' = [client EXCEPT ![s] = k]

\* The handshake and the list of tools arrive.  startServer looks the state
\* object up again, handleCrash writes the one it found at the crash, which may
\* have been replaced.
InitSucceeds(f) ==
    LET k == flow[f].on
        s == flow[f].server
        boot == flow[f].kind = "boot"
    IN  /\ At(f, "init")
        /\ cont[k] = "running"
        /\ IF boot \/ flow[f].object = servers[s]
           THEN MakeReady(s, k)
           ELSE UNCHANGED <<status, client>>
        /\ flow' = [flow EXCEPT ![f] = NoFlow]
        /\ UNCHANGED <<dockerVars, containers, known, count, watchVars, reg,
                       toStart, servers, stop, target, closed>>

\* They do not, for a minute: nothing tells the client that a container died.
InitFails(f) ==
    /\ At(f, "init")
    /\ Abandon(f)
    /\ UNCHANGED <<dockerVars, containers, known, count, watchVars, reg, toStart,
                   stop, target, closed>>

-----------------------------------------------------------------------------
(* Health checks and restarts.                                             *)

\* The interval fires.  Without a container to look at it ends itself, and
\* removes whatever interval is filed; otherwise it asks Docker.
TickEnds(k) ==
    LET s == of[k]
    IN  /\ k \in ticking
        /\ containers[s] = NoContainer
        /\ ticking' = ticking \ {k}
        /\ healthOf' = [healthOf EXCEPT ![s] = NoContainer]
        /\ UNCHANGED <<dockerVars, containers, known, count, probes, historyVars,
                       reg, toStart, stateVars, flow, stop, target, closed>>

Tick(k) ==
    LET c == containers[of[k]]
    IN  /\ k \in ticking
        /\ c # NoContainer
        /\ probes[k][c] < MaxProbes
        /\ probes' = [probes EXCEPT ![k][c] = @ + 1]
        /\ UNCHANGED <<dockerVars, containers, known, count, healthOf, ticking,
                       historyVars, reg, toStart, stateVars, flow, stop, target,
                       closed>>

Answered(k, c) ==
    /\ probes[k][c] > 0
    /\ probes' = [probes EXCEPT ![k][c] = @ - 1]

\* The answer is that the container runs, or an error: it is gone, or the call
\* failed.
ProbeChangesNothing(k, c) ==
    /\ Answered(k, c)
    /\ cont[c] \in {"running", "removed"} \/ "probe" \in Failing
    /\ UNCHANGED <<dockerVars, containers, known, count, healthOf, ticking,
                   historyVars, reg, toStart, stateVars, flow, stop, target, closed>>

\* Variant of ClearOwn: the interval goes on.
ClearNothing(k) == UNCHANGED <<ticking, healthOf>>

\* The interval clears itself and removes whatever interval is filed.
ClearOwn(k) ==
    /\ ticking' = ticking \ {k}
    /\ healthOf' = [healthOf EXCEPT ![of[k]] = NoContainer]

ProbeFindsExit(k, c) ==
    /\ Answered(k, c)
    /\ cont[c] = "exited"
    /\ ClearOwn(k)
    /\ found' = found \cup {k}
    /\ again' = IF k \in found \ ticking THEN again \cup {k} ELSE again

\* Variant of MarkCrashed: the state is left to the restart.
MarkNothing(s) == UNCHANGED stateVars

\* handleCrash, before restartContainer.
MarkCrashed(s) ==
    /\ status' = [status EXCEPT ![s] = "error"]
    /\ client' = [client EXCEPT ![s] = NoContainer]
    /\ UNCHANGED servers

\* The proxy forgets the address of a container, whoever has it by now.
Unregister(k) ==
    reg' = IF k # NoContainer /\ known[k] # NoIp
           THEN [reg EXCEPT ![known[k]] = NoServer] ELSE reg

\* The check finds the container dead: handleCrash and restartContainer up to
\* the next await, the removal of the old container or the creation of the new.
CrashRestarts(k, c, f) ==
    LET s == of[k]
        old == containers[s]
    IN  /\ ProbeFindsExit(k, c)
        /\ servers[s] # 0
        /\ MarkCrashed(s)
        /\ count' = [count EXCEPT ![s] = @ + 1]
        /\ count'[s] <= MaxRestarts
        /\ Unregister(old)
        /\ At(f, "idle")
        /\ flow' = [flow EXCEPT
                      ![f] = [kind |-> "crash", server |-> s, on |-> old,
                              at |-> IF old = NoContainer THEN "create" ELSE "remove",
                              object |-> servers[s]]]
        /\ UNCHANGED <<dockerVars, containers, known, toStart, stop, target, closed>>

\* Too many restarts: restartContainer returns null.
CrashGivesUp(k, c) ==
    LET s == of[k]
    IN  /\ ProbeFindsExit(k, c)
        /\ servers[s] # 0
        /\ MarkCrashed(s)
        /\ count' = [count EXCEPT ![s] = @ + 1]
        /\ count'[s] > MaxRestarts
        /\ UNCHANGED <<dockerVars, containers, known, reg, toStart, flow, stop,
                       target, closed>>

\* The server has been stopped meanwhile: handleCrash returns.
CrashOfStopped(k, c) ==
    /\ ProbeFindsExit(k, c)
    /\ servers[of[k]] = 0
    /\ UNCHANGED <<dockerVars, containers, known, count, reg, toStart, stateVars,
                   flow, stop, target, closed>>

\* The old container is removed, if Docker does; the entry of the server goes,
\* whichever container it names by now.
Remove(f) ==
    /\ At(f, "remove")
    /\ Removes(flow[f].on)
    /\ containers' = [containers EXCEPT ![flow[f].server] = NoContainer]
    /\ flow' = [flow EXCEPT ![f].at = "create", ![f].on = NoContainer]
    /\ UNCHANGED <<of, exits, known, count, watchVars, reg, toStart, stateVars, stop,
                   target, closed>>

-----------------------------------------------------------------------------
(* Shutdown.  Its handlers are registered when startAll has returned.      *)

Closing == \E s \in Server : stop[s] # "no"

\* stopAll: the servers without a container are forgotten at once; the others
\* lose their health check and their registration before Docker is asked to
\* stop the container they have at this moment.
Shutdown ==
    LET held == {s \in Server : containers[s] # NoContainer}
    IN  /\ toStart = {} /\ ~Booting
        /\ ~Closing
        /\ stop' = [s \in Server |-> IF s \in held THEN "halt" ELSE "done"]
        /\ target' = containers
        /\ ticking' = ticking \ {healthOf[s] : s \in held}
        /\ healthOf' = [s \in Server |-> IF s \in held THEN NoContainer ELSE healthOf[s]]
        /\ reg' = [i \in Ip |-> IF \E s \in held : known[containers[s]] = i
                                THEN NoServer ELSE reg[i]]
        /\ servers' = [s \in Server |-> IF s \in held THEN servers[s] ELSE 0]
        /\ status' = [s \in Server |-> IF s \in held THEN status[s] ELSE "stopped"]
        /\ client' = [s \in Server |-> IF s \in held THEN client[s] ELSE NoContainer]
        /\ UNCHANGED <<dockerVars, containers, known, count, probes, historyVars,
                       toStart, flow, closed>>

\* The container stops, within five seconds or by force.
Halt(s) ==
    /\ stop[s] = "halt"
    /\ \/ cont[target[s]] = "running" /\ Ends(target[s], "exited")
       \/ (cont[target[s]] # "running" \/ "stop" \in Failing) /\ UNCHANGED <<cont, ip>>
    /\ stop' = [stop EXCEPT ![s] = "remove"]
    /\ UNCHANGED <<of, exits, containers, known, count, watchVars, reg, toStart,
                   stateVars, flow, target, closed>>

\* It is removed, and the server forgotten with whatever container it has now.
Forget(s) ==
    /\ stop[s] = "remove"
    /\ Removes(target[s])
    /\ containers' = [containers EXCEPT ![s] = NoContainer]
    /\ count' = [count EXCEPT ![s] = 0]
    /\ servers' = [servers EXCEPT ![s] = 0]
    /\ status' = [status EXCEPT ![s] = "stopped"]
    /\ client' = [client EXCEPT ![s] = NoContainer]
    /\ stop' = [stop EXCEPT ![s] = "done"]
    /\ UNCHANGED <<of, exits, known, watchVars, reg, toStart, flow, target, closed>>

\* process.exit, whatever is still at work.
ProcessExit ==
    /\ \A s \in Server : stop[s] = "done"
    /\ closed' = TRUE
    /\ UNCHANGED <<dockerVars, containers, known, count, watchVars, reg, toStart,
                   stateVars, flow, stop, target>>

-----------------------------------------------------------------------------
FlowStep(f) ==
    \/ \E k \in Container : Create(f, k)
    \/ Start(f) \/ Install(f) \/ DockerError(f)
    \/ InitSucceeds(f) \/ InitFails(f)
    \/ Remove(f)

CrashSeen(k, c) ==
    \/ \E f \in Flow : CrashRestarts(k, c, f)
    \/ CrashGivesUp(k, c)
    \/ CrashOfStopped(k, c)

Next ==
    /\ ~closed
    /\ \/ \E f \in Flow : FlowStep(f) \/ \E s \in Server : StartServer(f, s)
       \/ \E k \in Container : Exit(k) \/ Tick(k) \/ TickEnds(k)
       \/ \E k, c \in Container : CrashSeen(k, c) \/ ProbeChangesNothing(k, c)
       \/ Shutdown
       \/ \E s \in Server : Halt(s) \/ Forget(s)
       \/ ProcessExit

Spec == Init /\ [][Next]_vars

\* Intervals fire, Docker answers, and a shutdown goes on once it has begun.
\* Nothing obliges a server to shake hands or a container to live or die.
Fairness ==
    /\ \A k \in Container : WF_vars(~closed /\ Tick(k))
    /\ \A k, c \in Container : WF_vars(~closed /\ (CrashSeen(k, c) \/ ProbeChangesNothing(k, c)))
    /\ \A s \in Server : WF_vars(~closed /\ (Halt(s) \/ Forget(s)))

FairSpec == Spec /\ Fairness

-----------------------------------------------------------------------------
(* Properties.                                                             *)

\* An interval does not wait for its inspect: one that takes longer than 30
\* seconds is overtaken by the next, and both may find the server dead.  The
\* health check has cleared itself when the second answer comes, but handleCrash
\* restarts the server once more.  These are the servers it happened to.
SeenTwice == {of[k] : k \in again}

\* No server ever runs twice, unless one health check saw its crash twice: the
\* restart after a crash is the only code that creates a second container for a
\* server, and the check that sees the crash has cleared itself by then.
OneContainerPerServer ==
    \A k, l \in Container :
        /\ cont[k] = "running" /\ cont[l] = "running"
        /\ of[k] = of[l] /\ of[k] \notin SeenTwice
        => k = l

\* A server that says "ready", whose tools are offered and called, talks to the
\* container that is filed for it and watched, not to one of an earlier start:
\* handleCrash, the restart, startServer and stopServer write these in turns.
ReadyHasItsContainer ==
    \A s \in Server : status[s] = "ready" /\ s \notin SeenTwice =>
        client[s] # NoContainer /\ client[s] = containers[s]

\* A filed container that runs is watched, unless a restart is about to remove
\* it or its server is being stopped: whatever checks clear and file over each
\* other, the chain of health checks of a server does not break.
RunningIsWatched ==
    \A s \in Server :
        /\ containers[s] # NoContainer /\ cont[containers[s]] = "running"
        /\ stop[s] = "no" /\ s \notin SeenTwice
        => \/ \E k \in ticking : of[k] = s
           \/ \E f \in Flow : At(f, "remove") /\ flow[f].server = s

\* The proxy serves a ready server, by its own list of domains, as long as no two
\* containers were ever given the same address.
OnlyReuseUnregisters ==
    \A s \in Server :
        LET k == containers[s]
        IN  /\ status[s] = "ready" /\ stop[s] = "no" /\ s \notin SeenTwice
            /\ cont[k] = "running" /\ known[k] # NoIp
            /\ \A l \in Container \ {k} : known[l] # known[k]
            => reg[known[k]] = s

\* A server does not stay "ready" on a container that died: its health check
\* finds out.
DeadClient(s) == status[s] = "ready" /\ cont[client[s]] = "exited"


=============================================================================
