-------------------------- MODULE McpServersProofs --------------------------
(* The proofs about module McpServers.                                     *)
EXTENDS McpServers, TLAPS

-----------------------------------------------------------------------------
(* Types, for any number of inspects in flight.                            *)

\* What a flow is.
FlowRecord ==
    [kind : {"none", "boot", "crash"},
     at : {"idle", "remove", "create", "start", "inspect", "init"},
     server : Server \cup {NoServer},
     on : Container \cup {NoContainer},
     object : 0..2]

\* What ticks, is inspected or is being started belongs to a server.
Owned ==
    /\ \A k, c \in Container : probes[k][c] > 0 => of[k] # NoServer
    /\ \A k \in ticking : of[k] # NoServer
    /\ \A f \in Flow :
          /\ flow[f].at # "idle" => flow[f].server # NoServer
          /\ flow[f].at \in {"start", "inspect"} =>
                flow[f].on # NoContainer /\ of[flow[f].on] # NoServer

\* A flow that moves on keeps its shape.
LEMMA FlowMoved ==
  ASSUME TypeOK, NEW f \in Flow,
         NEW place \in {"idle", "remove", "create", "start", "inspect", "init"},
         NEW k \in Container \cup {NoContainer}
  PROVE  /\ [flow EXCEPT ![f].at = place] \in [Flow -> FlowRecord]
         /\ [flow EXCEPT ![f].at = place, ![f].on = k] \in [Flow -> FlowRecord]
<1>. DEFINE r == flow[f]
            r1 == [r EXCEPT !.at = place]
            r2 == [r1 EXCEPT !.on = k]
<1>1. flow \in [Flow -> FlowRecord] /\ r \in FlowRecord
  BY DEF TypeOK, FlowRecord
<1>2. /\ [flow EXCEPT ![f].at = place] = [flow EXCEPT ![f] = r1]
      /\ [flow EXCEPT ![f].at = place, ![f].on = k] = [flow EXCEPT ![f] = r2]
  BY DEF TypeOK
<1>. HIDE DEF r
<1>3. r1 \in FlowRecord
  BY <1>1 DEF FlowRecord
<1>. HIDE DEF r1
<1>4. r2 \in FlowRecord
  BY <1>3 DEF FlowRecord
<1>. HIDE DEF r2
<1>. QED
  BY <1>1, <1>2, <1>3, <1>4

\* So do the containers when one of them ends.
LEMMA DockerTypes ==
  ASSUME TypeOK, NEW k, NEW how \in {"exited", "removed"},
         Ends(k, how) \/ UNCHANGED <<cont, ip>>
  PROVE  /\ cont' \in [Container -> {"none", "created", "running", "exited", "removed"}]
         /\ ip' \in [Container -> Ip \cup {NoIp}]
<1>1. CASE Ends(k, how)
  BY <1>1 DEF TypeOK, Ends
<1>2. CASE UNCHANGED <<cont, ip>>
  BY <1>2 DEF TypeOK
<1>. QED
  BY <1>1, <1>2

\* Every step keeps what belongs to a server with it.
LEMMA OwnedStep ==
  ASSUME McpAssumption, TypeOK, Owned, [Next]_vars
  PROVE Owned'
<1>. USE DEF TypeOK, Owned
<1>1. ASSUME NEW k \in Container, Exit(k)
      PROVE Owned'
  BY <1>1 DEF Exit, Ends, dockerVars, historyVars, watchVars, stateVars,
     NoFlow, McpAssumption
<1>2. ASSUME NEW f \in Flow, NEW s \in Server, StartServer(f, s) PROVE Owned'
  BY <1>2 DEF StartServer, At, dockerVars, historyVars, watchVars, stateVars,
     NoFlow, McpAssumption
<1>3. ASSUME NEW f \in Flow, NEW k \in Container, Create(f, k) PROVE Owned'
  BY <1>3 DEF Create, At, dockerVars, historyVars, watchVars, stateVars,
     NoFlow, McpAssumption
<1>4. ASSUME NEW f \in Flow, Start(f) PROVE Owned'
  BY <1>4 DEF Start, At, FreeIps, dockerVars, historyVars, watchVars,
     stateVars, NoFlow, McpAssumption
<1>5. ASSUME NEW f \in Flow, Install(f) PROVE Owned'
  BY <1>5 DEF Install, At, Register, StartHealthCheck, dockerVars, historyVars,
     watchVars, stateVars, NoFlow, McpAssumption
<1>6. ASSUME NEW f \in Flow, DockerError(f) PROVE Owned'
  BY <1>6 DEF DockerError, At, Abandon, dockerVars, historyVars, watchVars,
     stateVars, NoFlow, McpAssumption
<1>7. ASSUME NEW f \in Flow, InitSucceeds(f) PROVE Owned'
  BY <1>7 DEF InitSucceeds, At, MakeReady, dockerVars, historyVars, watchVars,
     stateVars, NoFlow, McpAssumption
<1>8. ASSUME NEW f \in Flow, InitFails(f) PROVE Owned'
  BY <1>8 DEF InitFails, At, Abandon, dockerVars, historyVars, watchVars,
     stateVars, NoFlow, McpAssumption
<1>9. ASSUME NEW f \in Flow, Remove(f) PROVE Owned'
  BY <1>9 DEF Remove, At, Removes, Ends, dockerVars, historyVars, watchVars,
     stateVars, NoFlow, McpAssumption
<1>10. ASSUME NEW k \in Container, Tick(k)
      PROVE Owned'
  BY <1>10 DEF Tick, dockerVars, historyVars, watchVars, stateVars, NoFlow,
     McpAssumption
<1>11. ASSUME NEW k \in Container, TickEnds(k)
      PROVE Owned'
  BY <1>11 DEF TickEnds, dockerVars, historyVars, watchVars, stateVars, NoFlow,
     McpAssumption
<1>12. ASSUME NEW k \in Container, NEW c \in Container, NEW f \in Flow,
             CrashRestarts(k, c, f)
      PROVE Owned'
  BY <1>12 DEF CrashRestarts, At, ProbeFindsExit, Answered, ClearOwn,
     MarkCrashed, Unregister, dockerVars, historyVars, watchVars, stateVars,
     NoFlow, McpAssumption
<1>13. ASSUME NEW k \in Container, NEW c \in Container, CrashGivesUp(k, c)
      PROVE Owned'
  BY <1>13 DEF CrashGivesUp, ProbeFindsExit, Answered, ClearOwn, MarkCrashed,
     dockerVars, historyVars, watchVars, stateVars, NoFlow, McpAssumption
<1>14. ASSUME NEW k \in Container, NEW c \in Container, CrashOfStopped(k, c)
      PROVE Owned'
  BY <1>14 DEF CrashOfStopped, ProbeFindsExit, Answered, ClearOwn, dockerVars,
     watchVars, stateVars, NoFlow, McpAssumption
<1>15. ASSUME NEW k \in Container, NEW c \in Container, ProbeChangesNothing(k, c)
      PROVE Owned'
  BY <1>15 DEF ProbeChangesNothing, Answered, dockerVars, historyVars,
     watchVars, stateVars, NoFlow, McpAssumption
<1>16. CASE Shutdown
  BY <1>16 DEF Shutdown, dockerVars, historyVars, watchVars, stateVars, NoFlow,
     McpAssumption
<1>17. ASSUME NEW s \in Server, Halt(s) PROVE Owned'
  BY <1>17 DEF Halt, Ends, dockerVars, historyVars, watchVars, stateVars,
     NoFlow, McpAssumption
<1>18. ASSUME NEW s \in Server, Forget(s) PROVE Owned'
  BY <1>18 DEF Forget, Removes, Ends, dockerVars, historyVars, watchVars,
     stateVars, NoFlow, McpAssumption
<1>19. CASE ProcessExit
  BY <1>19 DEF ProcessExit, dockerVars, historyVars, watchVars, stateVars,
     NoFlow, McpAssumption
<1>20. CASE UNCHANGED vars
  BY <1>20 DEF vars, dockerVars, historyVars, watchVars, stateVars, NoFlow,
     McpAssumption
<1>. QED
  BY <1>1, <1>2, <1>3, <1>4, <1>5, <1>6, <1>7, <1>8, <1>9, <1>10, <1>11, <1>12,
     <1>13, <1>14, <1>15, <1>16, <1>17, <1>18, <1>19, <1>20 DEF Next, FlowStep,
     CrashSeen
\* Every step keeps the types.
LEMMA TypesStep ==
  ASSUME McpAssumption, TypeOK, Owned, [Next]_vars
  PROVE TypeOK'
<1>. USE DEF TypeOK, Owned
<1>1. ASSUME NEW k \in Container, Exit(k)
      PROVE TypeOK'
  BY <1>1 DEF Exit, Ends, dockerVars, historyVars, watchVars, stateVars,
     NoFlow, McpAssumption
<1>2. ASSUME NEW f \in Flow, NEW s \in Server, StartServer(f, s) PROVE TypeOK'
  BY <1>2 DEF StartServer, At, dockerVars, historyVars, watchVars, stateVars,
     NoFlow, McpAssumption
<1>3. ASSUME NEW f \in Flow, NEW k \in Container, Create(f, k) PROVE TypeOK'
  <2>1. flow' \in [Flow -> FlowRecord]
    BY <1>3, FlowMoved DEF Create
  <2>. QED
    BY <1>3, <2>1 DEF Create, At, FlowRecord, dockerVars, historyVars,
       watchVars, stateVars
<1>4. ASSUME NEW f \in Flow, Start(f) PROVE TypeOK'
  <2>1. flow' \in [Flow -> FlowRecord]
    BY <1>4, FlowMoved DEF Start
  <2>2. ip' \in [Container -> Ip \cup {NoIp}]
    BY <1>4 DEF Start, FreeIps
  <2>. QED
    BY <1>4, <2>1, <2>2 DEF Start, FlowRecord, dockerVars, historyVars,
       watchVars, stateVars
<1>5. ASSUME NEW f \in Flow, Install(f) PROVE TypeOK'
  <2>1. flow' \in [Flow -> FlowRecord]
    BY <1>5, FlowMoved DEF Install
  <2>2. reg' \in [Ip -> Server \cup {NoServer}]
    BY <1>5 DEF Install, Register
  <2>. QED
    BY <1>5, <2>1, <2>2 DEF Install, At, StartHealthCheck, FlowRecord,
       dockerVars, historyVars, watchVars, stateVars
<1>6. ASSUME NEW f \in Flow, DockerError(f) PROVE TypeOK'
  BY <1>6 DEF DockerError, At, Abandon, dockerVars, historyVars, watchVars,
     stateVars, NoFlow, McpAssumption
<1>7. ASSUME NEW f \in Flow, InitSucceeds(f) PROVE TypeOK'
  <2>1. flow' \in [Flow -> FlowRecord]
    BY <1>7 DEF InitSucceeds, FlowRecord, NoFlow
  <2>2. /\ status' \in [Server -> {"starting", "ready", "error", "stopped"}]
        /\ client' \in [Server -> Container \cup {NoContainer}]
    <3>1. CASE MakeReady(flow[f].server, flow[f].on)
      BY <3>1 DEF MakeReady
    <3>2. CASE UNCHANGED <<status, client>>
      BY <3>2
    <3>. QED
      BY <1>7, <3>1, <3>2 DEF InitSucceeds
  <2>. QED
    BY <1>7, <2>1, <2>2 DEF InitSucceeds, FlowRecord, dockerVars, historyVars,
       watchVars, stateVars
<1>8. ASSUME NEW f \in Flow, InitFails(f) PROVE TypeOK'
  BY <1>8 DEF InitFails, At, Abandon, dockerVars, historyVars, watchVars,
     stateVars, NoFlow, McpAssumption
<1>9. ASSUME NEW f \in Flow, Remove(f) PROVE TypeOK'
  <2>1. flow' \in [Flow -> FlowRecord]
    BY <1>9, FlowMoved DEF Remove
  <2>2. /\ cont' \in [Container -> {"none", "created", "running", "exited", "removed"}]
        /\ ip' \in [Container -> Ip \cup {NoIp}]
    BY <1>9, DockerTypes DEF Remove, Removes
  <2>. QED
    BY <1>9, <2>1, <2>2 DEF Remove, FlowRecord, dockerVars, historyVars,
       watchVars, stateVars
<1>10. ASSUME NEW k \in Container, Tick(k)
      PROVE TypeOK'
  BY <1>10 DEF Tick, dockerVars, historyVars, watchVars, stateVars, NoFlow,
     McpAssumption
<1>11. ASSUME NEW k \in Container, TickEnds(k)
      PROVE TypeOK'
  BY <1>11 DEF TickEnds, dockerVars, historyVars, watchVars, stateVars, NoFlow,
     McpAssumption
<1>12. ASSUME NEW k \in Container, NEW c \in Container, NEW f \in Flow,
             CrashRestarts(k, c, f)
      PROVE TypeOK'
  BY <1>12 DEF CrashRestarts, At, ProbeFindsExit, Answered, ClearOwn,
     MarkCrashed, Unregister, dockerVars, historyVars, watchVars, stateVars,
     NoFlow, McpAssumption
<1>13. ASSUME NEW k \in Container, NEW c \in Container, CrashGivesUp(k, c)
      PROVE TypeOK'
  BY <1>13 DEF CrashGivesUp, ProbeFindsExit, Answered, ClearOwn, MarkCrashed,
     dockerVars, historyVars, watchVars, stateVars, NoFlow, McpAssumption
<1>14. ASSUME NEW k \in Container, NEW c \in Container, CrashOfStopped(k, c)
      PROVE TypeOK'
  BY <1>14 DEF CrashOfStopped, ProbeFindsExit, Answered, ClearOwn, dockerVars,
     watchVars, stateVars, NoFlow, McpAssumption
<1>15. ASSUME NEW k \in Container, NEW c \in Container, ProbeChangesNothing(k, c)
      PROVE TypeOK'
  BY <1>15 DEF ProbeChangesNothing, Answered, dockerVars, historyVars,
     watchVars, stateVars, NoFlow, McpAssumption
<1>16. CASE Shutdown
  BY <1>16 DEF Shutdown, dockerVars, historyVars, watchVars, stateVars, NoFlow,
     McpAssumption
<1>17. ASSUME NEW s \in Server, Halt(s) PROVE TypeOK'
  <2>2. /\ cont' \in [Container -> {"none", "created", "running", "exited", "removed"}]
        /\ ip' \in [Container -> Ip \cup {NoIp}]
    BY <1>17, DockerTypes DEF Halt
  <2>. QED
    BY <1>17, <2>2 DEF Halt, dockerVars, historyVars, watchVars, stateVars
<1>18. ASSUME NEW s \in Server, Forget(s) PROVE TypeOK'
  <2>2. /\ cont' \in [Container -> {"none", "created", "running", "exited", "removed"}]
        /\ ip' \in [Container -> Ip \cup {NoIp}]
    BY <1>18, DockerTypes DEF Forget, Removes
  <2>. QED
    BY <1>18, <2>2 DEF Forget, dockerVars, historyVars, watchVars, stateVars
<1>19. CASE ProcessExit
  BY <1>19 DEF ProcessExit, dockerVars, historyVars, watchVars, stateVars,
     NoFlow, McpAssumption
<1>20. CASE UNCHANGED vars
  BY <1>20 DEF vars, dockerVars, historyVars, watchVars, stateVars, NoFlow,
     McpAssumption
<1>. QED
  BY <1>1, <1>2, <1>3, <1>4, <1>5, <1>6, <1>7, <1>8, <1>9, <1>10, <1>11, <1>12,
     <1>13, <1>14, <1>15, <1>16, <1>17, <1>18, <1>19, <1>20 DEF Next, FlowStep,
     CrashSeen

\* The tables of Docker, of the container manager, of the proxy and of the
\* manager keep their shapes, however many health checks and flows write them
\* and whatever Docker answers.
THEOREM McpTypes == Spec => [](TypeOK /\ Owned)
<1>. USE McpAssumption
<1>1. Init => TypeOK
  <2>. SUFFICES ASSUME Init PROVE TypeOK
    OBVIOUS
  <2>1. flow \in [Flow -> FlowRecord]
    BY DEF Init, FlowRecord, NoFlow
  <2>2. closed \in BOOLEAN
    BY DEF Init
  <2>3. exits \in 0..MaxExits /\ probes \in [Container -> [Container -> 0..MaxProbes]]
    BY DEF Init, McpAssumption
  <2>. QED
    BY <2>1, <2>2, <2>3 DEF Init, TypeOK, FlowRecord
<1>2. Init => Owned
  BY DEF Init, Owned, NoFlow
<1>3. TypeOK /\ Owned /\ [Next]_vars => (TypeOK /\ Owned)'
  BY OwnedStep, TypesStep
<1>. QED
  BY <1>1, <1>2, <1>3, PTL DEF Spec

-----------------------------------------------------------------------------
(***************************************************************************)
(* The invariant.  At most one piece of code carries a server forward: the *)
(* flow that prepares its next container, or the health check of its last  *)
(* one, which stays at work until it has seen the container dead or the    *)
(* answer of its last inspect is in.  That is so until a check sees the    *)
(* same crash twice, and of the other servers it stays so after that.      *)
(***************************************************************************)

\* A container that has been started, whatever became of it.
Started(k) == cont[k] \in {"running", "exited", "removed"}

\* The flow has yet to file a container for its server.
Prepares(f) == flow[f].at \in {"remove", "create", "start", "inspect"}

\* The health check of the container ticks or may yet find it dead.
Watches(k) == k \in ticking \/ (probes[k][k] > 0 /\ k \notin found)

\* There is or was a health check of the container.
Checked(k) ==
    k \in ticking \cup found \/ \E c \in Container : probes[k][c] > 0

\* Containers are created for a server.
CreatedForOne ==
    \A k \in Container :
        /\ of[k] = NoServer <=> cont[k] = "none"
        /\ cont[k] \in {"none", "created"} => known[k] = NoIp

\* Before startAll comes to a server there is nothing of it.
NothingBefore ==
    \A s \in toStart :
        /\ \A k \in Container : of[k] # s
        /\ \A f \in Flow : flow[f].server # s
        /\ \A t \in Server : stop[t] = "no"

\* What is filed for a server was created for it and has been started.
FiledIsOwn ==
    \A s \in Server :
        /\ containers[s] # NoContainer => of[containers[s]] = s /\ Started(containers[s])
        /\ healthOf[s] # NoContainer => of[healthOf[s]] = s
        /\ stop[s] \in {"halt", "remove"} =>
              target[s] # NoContainer /\ of[target[s]] = s /\ Started(target[s])

\* What a flow knows of its server and its container.
FlowIsSound ==
    \A f \in Flow :
        LET s == flow[f].server
            k == flow[f].on
        IN  /\ flow[f].at = "idle" <=> flow[f].kind = "none"
            /\ flow[f].at = "idle" => s = NoServer
            /\ flow[f].at # "idle" => s \in Server
            /\ flow[f].kind = "boot" => \A t \in Server : stop[t] = "no"
            /\ flow[f].kind = "crash" => flow[f].object # 0
            /\ flow[f].at \in {"remove", "start", "inspect", "init"} =>
                  k # NoContainer /\ of[k] = s
            /\ flow[f].at \in {"remove", "inspect", "init"} => Started(k)
            /\ flow[f].at = "start" => cont[k] = "created"
            /\ flow[f].at = "inspect" => known[k] = NoIp /\ containers[s] # k

\* Two flows never prepare the same container, and it has no health check yet.
OwnContainer ==
    /\ \A f, g \in Flow :
          /\ flow[f].at \in {"start", "inspect"}
          /\ flow[g].at \in {"start", "inspect"}
          /\ flow[f].on = flow[g].on
          => f = g
    /\ \A f \in Flow : flow[f].at \in {"start", "inspect"} =>
          ~Checked(flow[f].on)

\* A health check that found its container dead does not tick any more; checks
\* are those of started containers.
FoundIsCleared ==
    /\ found \cap ticking = {}
    /\ again \subseteq found
    /\ \A k \in Container : Checked(k) => Started(k)

\* A health check looks at its own container, the one that is filed unless
\* the server has been forgotten.
WatchesOwn ==
    /\ \A k, c \in Container :
          probes[k][c] > 0 /\ of[k] \notin SeenTwice => c = k
    /\ \A k \in Container : Watches(k) /\ of[k] \notin SeenTwice =>
          /\ of[k] # NoServer
          /\ Started(k)
          /\ \/ containers[of[k]] = k
             \/ /\ containers[of[k]] = NoContainer
                /\ servers[of[k]] = 0
                /\ stop[of[k]] # "no"

\* One flow or one health check for each server.
OneFlow ==
    \A f, g \in Flow :
        /\ Prepares(f) /\ Prepares(g) /\ flow[f].server = flow[g].server
        /\ flow[f].server \notin SeenTwice
        => f = g

FlowOrCheck ==
    \A f \in Flow, k \in Container :
        Prepares(f) /\ Watches(k) /\ of[k] \notin SeenTwice =>
            flow[f].server # of[k]

OneCheck ==
    \A k, l \in Container :
        Watches(k) /\ Watches(l) /\ of[k] = of[l] /\ of[k] \notin SeenTwice => k = l

\* While a container is being prepared no other one of its server runs, nor
\* while one is watched.
RunningIsPrepared ==
    \A f \in Flow, k \in Container :
        /\ Prepares(f) /\ cont[k] = "running" /\ of[k] = flow[f].server
        /\ of[k] \notin SeenTwice
        => flow[f].at = "inspect" /\ flow[f].on = k

WatchedIsRunning ==
    \A k, l \in Container :
        /\ Watches(k) /\ cont[l] = "running" /\ of[k] = of[l]
        /\ of[k] \notin SeenTwice
        => k = l

\* A filed container that runs has its own health check.
FiledIsWatched ==
    \A s \in Server :
        /\ containers[s] # NoContainer /\ cont[containers[s]] = "running"
        /\ stop[s] = "no" /\ s \notin SeenTwice
        => containers[s] \in ticking

\* A handshake that may still succeed is with the container that is filed.
ShakesWithFiled ==
    \A f \in Flow :
        /\ flow[f].at = "init"
        /\ cont[flow[f].on] = "running" /\ flow[f].server \notin SeenTwice
        => \/ containers[flow[f].server] = flow[f].on
           \/ /\ flow[f].kind = "crash"
              /\ servers[flow[f].server] = 0
              /\ stop[flow[f].server] # "no"

\* No container is prepared for a server that is ready.
ReadyIsSettled ==
    \A f \in Flow :
        Prepares(f) /\ flow[f].server \notin SeenTwice =>
            status[flow[f].server] # "ready"

\* A running container with an address of its own is registered, whatever the
\* status of its server.
RunningIsRegistered ==
    \A s \in Server :
        LET k == containers[s]
        IN  /\ stop[s] = "no" /\ k # NoContainer /\ cont[k] = "running"
            /\ known[k] # NoIp /\ s \notin SeenTwice
            /\ \A l \in Container \ {k} : known[l] # known[k]
            => reg[known[k]] = s

ChainInv ==
    /\ CreatedForOne /\ NothingBefore /\ FiledIsOwn /\ FlowIsSound
    /\ OwnContainer /\ FoundIsCleared /\ WatchesOwn /\ OneFlow /\ FlowOrCheck /\ OneCheck

ServerInv ==
    /\ OneContainerPerServer /\ RunningIsPrepared /\ WatchedIsRunning
    /\ FiledIsWatched /\ ShakesWithFiled /\ ReadyIsSettled
    /\ ReadyHasItsContainer /\ RunningIsRegistered

-----------------------------------------------------------------------------
(* Steps of the chain of flows and health checks.                          *)

\* A container that has yet to be started is filed for no server.
LEMMA CreatedIsNotFiled ==
  ASSUME TypeOK, FiledIsOwn, NEW k \in Container, cont[k] = "created",
         NEW s \in Server
  PROVE containers[s] # k
<1>. SUFFICES ASSUME containers[s] = k PROVE FALSE
  OBVIOUS
<1>1. k # NoContainer
  BY McpAssumption DEF McpAssumption
<1>2. Started(k)
  BY <1>1 DEF FiledIsOwn
<1>. QED
  BY <1>2 DEF Started

\* Nor is a handshake with it under way.
LEMMA CreatedIsNotAtInit ==
  ASSUME TypeOK, FlowIsSound, NEW k \in Container, cont[k] = "created",
         NEW f \in Flow, flow[f].at \in {"init", "inspect"}
  PROVE flow[f].on # k
<1>1. Started(flow[f].on)
  BY DEF FlowIsSound
<1>. QED
  BY <1>1 DEF Started

\* Servers are not forgotten that a health check saw crash twice.
LEMMA SeenTwiceGrows ==
  ASSUME TypeOK, CreatedForOne, FoundIsCleared, [Next]_vars
  PROVE  SeenTwice \subseteq SeenTwice'
<1>1. again \subseteq again'
  BY DEF Next, vars, FlowStep, CrashSeen, Exit, StartServer, Create, Start, Install,
     DockerError, InitSucceeds, InitFails, Remove, Tick, TickEnds, CrashRestarts,
     CrashGivesUp, CrashOfStopped, ProbeFindsExit, ProbeChangesNothing, Shutdown,
     Halt, Forget, ProcessExit, watchVars, historyVars
<1>2. \A k \in Container : cont[k] # "none" => of'[k] = of[k]
  <2>1. ASSUME NEW f \in Flow, NEW l \in Container, Create(f, l)
        PROVE  \A k \in Container : cont[k] # "none" => of'[k] = of[k]
    BY <2>1 DEF Create, TypeOK
  <2>2. CASE UNCHANGED of
    BY <2>2
  <2>. QED
    BY <2>1, <2>2 DEF Next, vars, FlowStep, CrashSeen, Exit, StartServer, Start,
       Install, DockerError, InitSucceeds, InitFails, Remove, Tick, TickEnds,
       CrashRestarts, CrashGivesUp, CrashOfStopped, ProbeChangesNothing, Shutdown,
       Halt, Forget, ProcessExit, dockerVars
<1>3. \A k \in again : k \in Container /\ cont[k] # "none"
  BY DEF TypeOK, FoundIsCleared, Checked, Started
<1>. QED
  BY <1>1, <1>2, <1>3 DEF SeenTwice

\* The check that finds a container dead does so for the first time, or its
\* server is one of those.
LEMMA SecondAnswer ==
  ASSUME FoundIsCleared, NEW k, NEW c, ProbeFindsExit(k, c), UNCHANGED of
  PROVE  k \notin found \/ of[k] \in SeenTwice'
<1>. SUFFICES ASSUME k \in found PROVE of[k] \in SeenTwice'
  OBVIOUS
<1>1. k \in again'
  BY DEF ProbeFindsExit, FoundIsCleared
<1>. QED
  BY <1>1 DEF SeenTwice

\* Docker names a container once, and its address is asked for after its start.
LEMMA CreatedSteps ==
  ASSUME McpAssumption, TypeOK, TypeOK', CreatedForOne, FlowIsSound,
         FiledIsOwn, Owned, [Next]_vars
  PROVE  CreatedForOne'
<1>. USE McpAssumption DEF TypeOK, CreatedForOne, FlowIsSound, FiledIsOwn,
        Owned, Started, dockerVars, historyVars, watchVars, stateVars, NoFlow,
        McpAssumption
<1>1. ASSUME NEW k \in Container, Exit(k) PROVE CreatedForOne'
  BY <1>1 DEF Exit, Ends
<1>2. ASSUME NEW f \in Flow, NEW s \in Server, StartServer(f, s)
      PROVE CreatedForOne'
  BY <1>2 DEF StartServer, At
<1>3. ASSUME NEW f \in Flow, NEW k \in Container, Create(f, k)
      PROVE CreatedForOne'
  BY <1>3 DEF Create, At
<1>4. ASSUME NEW f \in Flow, Start(f) PROVE CreatedForOne'
  BY <1>4 DEF Start, At, FreeIps
<1>5. ASSUME NEW f \in Flow, Install(f) PROVE CreatedForOne'
  <2>1. flow[f].on \in Container /\ Started(flow[f].on)
    BY <1>5 DEF Install, At
  <2>2. known' = [known EXCEPT ![flow[f].on] = ip[flow[f].on]] /\ UNCHANGED <<cont, of>>
    BY <1>5 DEF Install, dockerVars
  <2>. QED
    BY <2>1, <2>2
<1>6. ASSUME NEW f \in Flow, DockerError(f) PROVE CreatedForOne'
  BY <1>6 DEF DockerError, At, Abandon
<1>7. ASSUME NEW f \in Flow, InitSucceeds(f) PROVE CreatedForOne'
  BY <1>7 DEF InitSucceeds, At, MakeReady
<1>8. ASSUME NEW f \in Flow, InitFails(f) PROVE CreatedForOne'
  BY <1>8 DEF InitFails, At, Abandon
<1>9. ASSUME NEW f \in Flow, Remove(f) PROVE CreatedForOne'
  BY <1>9 DEF Remove, At, Removes, Ends
<1>10. ASSUME NEW k \in Container, Tick(k) PROVE CreatedForOne'
  BY <1>10 DEF Tick
<1>11. ASSUME NEW k \in Container, TickEnds(k) PROVE CreatedForOne'
  BY <1>11 DEF TickEnds
<1>12. ASSUME NEW k \in Container, NEW c \in Container, NEW f \in Flow,
             CrashRestarts(k, c, f)
      PROVE CreatedForOne'
  BY <1>12 DEF CrashRestarts, At, ProbeFindsExit, Answered, ClearOwn,
     MarkCrashed, Unregister
<1>13. ASSUME NEW k \in Container, NEW c \in Container, CrashGivesUp(k, c)
      PROVE CreatedForOne'
  BY <1>13 DEF CrashGivesUp, ProbeFindsExit, Answered, ClearOwn, MarkCrashed
<1>14. ASSUME NEW k \in Container, NEW c \in Container, CrashOfStopped(k, c)
      PROVE CreatedForOne'
  BY <1>14 DEF CrashOfStopped, ProbeFindsExit, Answered, ClearOwn
<1>15. ASSUME NEW k \in Container, NEW c \in Container, ProbeChangesNothing(k, c)
      PROVE CreatedForOne'
  BY <1>15 DEF ProbeChangesNothing, Answered
<1>16. CASE Shutdown
  BY <1>16 DEF Shutdown
<1>17. ASSUME NEW s \in Server, Halt(s) PROVE CreatedForOne'
  BY <1>17 DEF Halt, Ends
<1>18. ASSUME NEW s \in Server, Forget(s) PROVE CreatedForOne'
  BY <1>18 DEF Forget, Removes, Ends
<1>19. CASE ProcessExit
  BY <1>19 DEF ProcessExit
<1>20. CASE UNCHANGED vars
  BY <1>20 DEF vars
<1>. QED
  BY <1>1, <1>2, <1>3, <1>4, <1>5, <1>6, <1>7, <1>8, <1>9, <1>10, <1>11, <1>12,
     <1>13, <1>14, <1>15, <1>16, <1>17, <1>18, <1>19, <1>20 DEF Next, FlowStep,
     CrashSeen

\* A server that startAll has yet to come to gets nothing from anybody else.
LEMMA NothingSteps ==
  ASSUME McpAssumption, TypeOK, TypeOK', NothingBefore, FlowIsSound, Owned,
         FiledIsOwn, [Next]_vars
  PROVE  NothingBefore'
<1>. USE McpAssumption DEF TypeOK, NothingBefore, FlowIsSound, Owned,
        FiledIsOwn, dockerVars, historyVars, watchVars, stateVars, NoFlow,
        McpAssumption
<1>1. ASSUME NEW k \in Container, Exit(k) PROVE NothingBefore'
  BY <1>1 DEF Exit, Ends
<1>2. ASSUME NEW f \in Flow, NEW s \in Server, StartServer(f, s)
      PROVE NothingBefore'
  BY <1>2 DEF StartServer, At
<1>3. ASSUME NEW f \in Flow, NEW k \in Container, Create(f, k)
      PROVE NothingBefore'
  BY <1>3 DEF Create, At
<1>4. ASSUME NEW f \in Flow, Start(f) PROVE NothingBefore'
  BY <1>4 DEF Start, At, FreeIps
<1>5. ASSUME NEW f \in Flow, Install(f) PROVE NothingBefore'
  BY <1>5 DEF Install, At, Register, StartHealthCheck
<1>6. ASSUME NEW f \in Flow, DockerError(f) PROVE NothingBefore'
  BY <1>6 DEF DockerError, At, Abandon
<1>7. ASSUME NEW f \in Flow, InitSucceeds(f) PROVE NothingBefore'
  BY <1>7 DEF InitSucceeds, At, MakeReady
<1>8. ASSUME NEW f \in Flow, InitFails(f) PROVE NothingBefore'
  BY <1>8 DEF InitFails, At, Abandon
<1>9. ASSUME NEW f \in Flow, Remove(f) PROVE NothingBefore'
  BY <1>9 DEF Remove, At, Removes, Ends
<1>10. ASSUME NEW k \in Container, Tick(k) PROVE NothingBefore'
  BY <1>10 DEF Tick
<1>11. ASSUME NEW k \in Container, TickEnds(k) PROVE NothingBefore'
  BY <1>11 DEF TickEnds
<1>12. ASSUME NEW k \in Container, NEW c \in Container, NEW f \in Flow,
             CrashRestarts(k, c, f)
      PROVE NothingBefore'
  BY <1>12 DEF CrashRestarts, At, ProbeFindsExit, Answered, ClearOwn,
     MarkCrashed, Unregister
<1>13. ASSUME NEW k \in Container, NEW c \in Container, CrashGivesUp(k, c)
      PROVE NothingBefore'
  BY <1>13 DEF CrashGivesUp, ProbeFindsExit, Answered, ClearOwn, MarkCrashed
<1>14. ASSUME NEW k \in Container, NEW c \in Container, CrashOfStopped(k, c)
      PROVE NothingBefore'
  BY <1>14 DEF CrashOfStopped, ProbeFindsExit, Answered, ClearOwn
<1>15. ASSUME NEW k \in Container, NEW c \in Container, ProbeChangesNothing(k, c)
      PROVE NothingBefore'
  BY <1>15 DEF ProbeChangesNothing, Answered
<1>16. CASE Shutdown
  BY <1>16 DEF Shutdown
<1>17. ASSUME NEW s \in Server, Halt(s) PROVE NothingBefore'
  BY <1>17 DEF Halt, Ends
<1>18. ASSUME NEW s \in Server, Forget(s) PROVE NothingBefore'
  BY <1>18 DEF Forget, Removes, Ends
<1>19. CASE ProcessExit
  BY <1>19 DEF ProcessExit
<1>20. CASE UNCHANGED vars
  BY <1>20 DEF vars
<1>. QED
  BY <1>1, <1>2, <1>3, <1>4, <1>5, <1>6, <1>7, <1>8, <1>9, <1>10, <1>11, <1>12,
     <1>13, <1>14, <1>15, <1>16, <1>17, <1>18, <1>19, <1>20 DEF Next, FlowStep,
     CrashSeen

\* Nobody files a container, an interval or a target of another server.
LEMMA FiledSteps ==
  ASSUME McpAssumption, TypeOK, TypeOK', FiledIsOwn, FlowIsSound,
         CreatedForOne, [Next]_vars
  PROVE  FiledIsOwn'
<1>. USE McpAssumption DEF TypeOK, FiledIsOwn, FlowIsSound, CreatedForOne,
        Started, dockerVars, historyVars, watchVars, stateVars, NoFlow,
        McpAssumption
<1>1. ASSUME NEW k \in Container, Exit(k) PROVE FiledIsOwn'
  BY <1>1 DEF Exit, Ends
<1>2. ASSUME NEW f \in Flow, NEW s \in Server, StartServer(f, s)
      PROVE FiledIsOwn'
  BY <1>2 DEF StartServer, At
<1>3. ASSUME NEW f \in Flow, NEW k \in Container, Create(f, k)
      PROVE FiledIsOwn'
  BY <1>3 DEF Create, At
<1>4. ASSUME NEW f \in Flow, Start(f) PROVE FiledIsOwn'
  BY <1>4 DEF Start, At, FreeIps
<1>5. ASSUME NEW f \in Flow, Install(f) PROVE FiledIsOwn'
  BY <1>5 DEF Install, At, Register, StartHealthCheck
<1>6. ASSUME NEW f \in Flow, DockerError(f) PROVE FiledIsOwn'
  BY <1>6 DEF DockerError, At, Abandon
<1>7. ASSUME NEW f \in Flow, InitSucceeds(f) PROVE FiledIsOwn'
  BY <1>7 DEF InitSucceeds, At, MakeReady
<1>8. ASSUME NEW f \in Flow, InitFails(f) PROVE FiledIsOwn'
  BY <1>8 DEF InitFails, At, Abandon
<1>9. ASSUME NEW f \in Flow, Remove(f) PROVE FiledIsOwn'
  BY <1>9 DEF Remove, At, Removes, Ends
<1>10. ASSUME NEW k \in Container, Tick(k) PROVE FiledIsOwn'
  BY <1>10 DEF Tick
<1>11. ASSUME NEW k \in Container, TickEnds(k) PROVE FiledIsOwn'
  BY <1>11 DEF TickEnds
<1>12. ASSUME NEW k \in Container, NEW c \in Container, NEW f \in Flow,
             CrashRestarts(k, c, f)
      PROVE FiledIsOwn'
  BY <1>12 DEF CrashRestarts, At, ProbeFindsExit, Answered, ClearOwn,
     MarkCrashed, Unregister
<1>13. ASSUME NEW k \in Container, NEW c \in Container, CrashGivesUp(k, c)
      PROVE FiledIsOwn'
  BY <1>13 DEF CrashGivesUp, ProbeFindsExit, Answered, ClearOwn, MarkCrashed
<1>14. ASSUME NEW k \in Container, NEW c \in Container, CrashOfStopped(k, c)
      PROVE FiledIsOwn'
  BY <1>14 DEF CrashOfStopped, ProbeFindsExit, Answered, ClearOwn
<1>15. ASSUME NEW k \in Container, NEW c \in Container, ProbeChangesNothing(k, c)
      PROVE FiledIsOwn'
  BY <1>15 DEF ProbeChangesNothing, Answered
<1>16. CASE Shutdown
  BY <1>16 DEF Shutdown
<1>17. ASSUME NEW s \in Server, Halt(s) PROVE FiledIsOwn'
  BY <1>17 DEF Halt, Ends
<1>18. ASSUME NEW s \in Server, Forget(s) PROVE FiledIsOwn'
  BY <1>18 DEF Forget, Removes, Ends
<1>19. CASE ProcessExit
  BY <1>19 DEF ProcessExit
<1>20. CASE UNCHANGED vars
  BY <1>20 DEF vars
<1>. QED
  BY <1>1, <1>2, <1>3, <1>4, <1>5, <1>6, <1>7, <1>8, <1>9, <1>10, <1>11, <1>12,
     <1>13, <1>14, <1>15, <1>16, <1>17, <1>18, <1>19, <1>20 DEF Next, FlowStep,
     CrashSeen

\* A flow loses neither its server nor its container between two awaits.
LEMMA FlowSteps ==
  ASSUME McpAssumption, TypeOK, TypeOK', FlowIsSound, FiledIsOwn,
         CreatedForOne, NothingBefore, OwnContainer, Owned, [Next]_vars
  PROVE  FlowIsSound'
<1>. USE McpAssumption DEF TypeOK, FlowIsSound, FiledIsOwn, CreatedForOne,
        NothingBefore, OwnContainer, Owned, Started, Closing, Booting,
        dockerVars, historyVars, watchVars, stateVars, NoFlow, McpAssumption
<1>1. ASSUME NEW k \in Container, Exit(k) PROVE FlowIsSound'
  BY <1>1 DEF Exit, Ends
<1>2. ASSUME NEW f \in Flow, NEW s \in Server, StartServer(f, s)
      PROVE FlowIsSound'
  BY <1>2 DEF StartServer, At
<1>3. ASSUME NEW f \in Flow, NEW k \in Container, Create(f, k)
      PROVE FlowIsSound'
  BY <1>3 DEF Create, At
<1>4. ASSUME NEW f \in Flow, Start(f) PROVE FlowIsSound'
  <2>1. flow[f].on \in Container /\ cont[flow[f].on] = "created"
    BY <1>4 DEF Start, At
  <2>2. cont' = [cont EXCEPT ![flow[f].on] = "running"]
    BY <1>4 DEF Start
  <2>3. flow' = [flow EXCEPT ![f].at = "inspect"]
    BY <1>4 DEF Start
  <2>4. UNCHANGED <<of, known, containers, stop>>
    BY <1>4 DEF Start, dockerVars
  <2>5. \A g \in Flow \ {f} :
           flow[g].at \in {"start", "inspect"} => flow[g].on # flow[f].on
    BY <1>4 DEF Start, At
  <2>6. \A g \in Flow \ {f} : flow'[g] = flow[g]
    BY <2>3
  <2>7. /\ flow'[f].at = "inspect"
        /\ flow'[f].kind = flow[f].kind /\ flow'[f].server = flow[f].server
        /\ flow'[f].on = flow[f].on /\ flow'[f].object = flow[f].object
    BY <2>3
  <2>8. known[flow[f].on] = NoIp /\ containers[flow[f].server] # flow[f].on
    <3>1. flow[f].at = "start" /\ flow[f].server \in Server
      BY <1>4 DEF Start, At
    <3>. QED
      BY <2>1, <3>1, CreatedIsNotFiled
  <2>. QED
    BY <1>4, <2>1, <2>2, <2>4, <2>5, <2>6, <2>7, <2>8 DEF Start, At
<1>5. ASSUME NEW f \in Flow, Install(f) PROVE FlowIsSound'
  BY <1>5 DEF Install, At, Register, StartHealthCheck
<1>6. ASSUME NEW f \in Flow, DockerError(f) PROVE FlowIsSound'
  BY <1>6 DEF DockerError, At, Abandon
<1>7. ASSUME NEW f \in Flow, InitSucceeds(f) PROVE FlowIsSound'
  BY <1>7 DEF InitSucceeds, At, MakeReady
<1>8. ASSUME NEW f \in Flow, InitFails(f) PROVE FlowIsSound'
  BY <1>8 DEF InitFails, At, Abandon
<1>9. ASSUME NEW f \in Flow, Remove(f) PROVE FlowIsSound'
  BY <1>9 DEF Remove, At, Removes, Ends
<1>10. ASSUME NEW k \in Container, Tick(k) PROVE FlowIsSound'
  BY <1>10 DEF Tick
<1>11. ASSUME NEW k \in Container, TickEnds(k) PROVE FlowIsSound'
  BY <1>11 DEF TickEnds
<1>12. ASSUME NEW k \in Container, NEW c \in Container, NEW f \in Flow,
             CrashRestarts(k, c, f)
      PROVE FlowIsSound'
  BY <1>12 DEF CrashRestarts, At, ProbeFindsExit, Answered, ClearOwn,
     MarkCrashed, Unregister
<1>13. ASSUME NEW k \in Container, NEW c \in Container, CrashGivesUp(k, c)
      PROVE FlowIsSound'
  BY <1>13 DEF CrashGivesUp, ProbeFindsExit, Answered, ClearOwn, MarkCrashed
<1>14. ASSUME NEW k \in Container, NEW c \in Container, CrashOfStopped(k, c)
      PROVE FlowIsSound'
  BY <1>14 DEF CrashOfStopped, ProbeFindsExit, Answered, ClearOwn
<1>15. ASSUME NEW k \in Container, NEW c \in Container, ProbeChangesNothing(k, c)
      PROVE FlowIsSound'
  BY <1>15 DEF ProbeChangesNothing, Answered
<1>16. CASE Shutdown
  BY <1>16 DEF Shutdown
<1>17. ASSUME NEW s \in Server, Halt(s) PROVE FlowIsSound'
  <2>1. target[s] \in Container /\ Started(target[s])
    BY <1>17 DEF Halt
  <2>2. \A k \in Container :
           /\ Started(k) => Started(k)'
           /\ cont[k] = "created" => cont'[k] = "created"
    BY <1>17, <2>1 DEF Halt, Ends, Removes
  <2>3. \A f \in Flow : flow[f].at # "idle" => flow[f].kind # "boot"
    BY <1>17 DEF Halt
  <2>. QED
    BY <1>17, <2>2, <2>3 DEF Halt, dockerVars
<1>18. ASSUME NEW s \in Server, Forget(s) PROVE FlowIsSound'
  <2>1. target[s] \in Container /\ Started(target[s])
    BY <1>18 DEF Forget
  <2>2. \A k \in Container :
           /\ Started(k) => Started(k)'
           /\ cont[k] = "created" => cont'[k] = "created"
    BY <1>18, <2>1 DEF Forget, Ends, Removes
  <2>3. \A f \in Flow : flow[f].at # "idle" => flow[f].kind # "boot"
    BY <1>18 DEF Forget
  <2>. QED
    BY <1>18, <2>2, <2>3 DEF Forget, dockerVars
<1>19. CASE ProcessExit
  BY <1>19 DEF ProcessExit
<1>20. CASE UNCHANGED vars
  BY <1>20 DEF vars
<1>. QED
  BY <1>1, <1>2, <1>3, <1>4, <1>5, <1>6, <1>7, <1>8, <1>9, <1>10, <1>11, <1>12,
     <1>13, <1>14, <1>15, <1>16, <1>17, <1>18, <1>19, <1>20 DEF Next, FlowStep,
     CrashSeen

\* Docker gives every flow a container of its own, and a health check is set up
\* when the container has been filed.
LEMMA OwnContainerSteps ==
  ASSUME McpAssumption, TypeOK, TypeOK', OwnContainer, FoundIsCleared,
         FlowIsSound, CreatedForOne, Owned, [Next]_vars
  PROVE  OwnContainer'
<1>. USE McpAssumption DEF TypeOK, OwnContainer, FoundIsCleared, FlowIsSound,
        CreatedForOne, Owned, Started, Checked, dockerVars, historyVars,
        watchVars, stateVars, NoFlow, McpAssumption
<1>1. ASSUME NEW k \in Container, Exit(k) PROVE OwnContainer'
  BY <1>1 DEF Exit, Ends
<1>2. ASSUME NEW f \in Flow, NEW s \in Server, StartServer(f, s)
      PROVE OwnContainer'
  BY <1>2 DEF StartServer, At
<1>3. ASSUME NEW f \in Flow, NEW k \in Container, Create(f, k)
      PROVE OwnContainer'
  <2>1. cont[k] = "none"
    BY <1>3 DEF Create
  <2>2. ~Checked(k)
    BY <2>1
  <2>3. \A g \in Flow : flow[g].at \in {"start", "inspect"} => flow[g].on # k
    BY <2>1
  <2>4. /\ flow'[f].on = k
        /\ \A g \in Flow \ {f} : flow'[g] = flow[g]
        /\ UNCHANGED <<ticking, found, probes>>
    BY <1>3 DEF Create
  <2>. HIDE DEF TypeOK, FlowIsSound, CreatedForOne, Owned, FoundIsCleared
  <2>6. ASSUME NEW g \in Flow, flow'[g].at \in {"start", "inspect"}
        PROVE  ~Checked(flow[g].on)'
    BY <2>2, <2>4, <2>6
  <2>7. ASSUME NEW g \in Flow, flow'[g].at \in {"start", "inspect"},
               NEW h \in Flow, flow'[h].at \in {"start", "inspect"},
               flow'[g].on = flow'[h].on
        PROVE  g = h
    BY <2>3, <2>4, <2>7
  <2>. QED
    BY <2>6, <2>7
<1>4. ASSUME NEW f \in Flow, Start(f) PROVE OwnContainer'
  BY <1>4 DEF Start, At, FreeIps
<1>5. ASSUME NEW f \in Flow, Install(f) PROVE OwnContainer'
  BY <1>5 DEF Install, At, Register, StartHealthCheck
<1>6. ASSUME NEW f \in Flow, DockerError(f) PROVE OwnContainer'
  BY <1>6 DEF DockerError, At, Abandon
<1>7. ASSUME NEW f \in Flow, InitSucceeds(f) PROVE OwnContainer'
  BY <1>7 DEF InitSucceeds, At, MakeReady
<1>8. ASSUME NEW f \in Flow, InitFails(f) PROVE OwnContainer'
  BY <1>8 DEF InitFails, At, Abandon
<1>9. ASSUME NEW f \in Flow, Remove(f) PROVE OwnContainer'
  BY <1>9 DEF Remove, At, Removes, Ends
<1>10. ASSUME NEW k \in Container, Tick(k) PROVE OwnContainer'
  BY <1>10 DEF Tick
<1>11. ASSUME NEW k \in Container, TickEnds(k) PROVE OwnContainer'
  BY <1>11 DEF TickEnds
<1>12. ASSUME NEW k \in Container, NEW c \in Container, NEW f \in Flow,
             CrashRestarts(k, c, f)
      PROVE OwnContainer'
  BY <1>12 DEF CrashRestarts, At, ProbeFindsExit, Answered, ClearOwn,
     MarkCrashed, Unregister
<1>13. ASSUME NEW k \in Container, NEW c \in Container, CrashGivesUp(k, c)
      PROVE OwnContainer'
  BY <1>13 DEF CrashGivesUp, ProbeFindsExit, Answered, ClearOwn, MarkCrashed
<1>14. ASSUME NEW k \in Container, NEW c \in Container, CrashOfStopped(k, c)
      PROVE OwnContainer'
  BY <1>14 DEF CrashOfStopped, ProbeFindsExit, Answered, ClearOwn
<1>15. ASSUME NEW k \in Container, NEW c \in Container, ProbeChangesNothing(k, c)
      PROVE OwnContainer'
  BY <1>15 DEF ProbeChangesNothing, Answered
<1>16. CASE Shutdown
  BY <1>16 DEF Shutdown
<1>17. ASSUME NEW s \in Server, Halt(s) PROVE OwnContainer'
  BY <1>17 DEF Halt, Ends
<1>18. ASSUME NEW s \in Server, Forget(s) PROVE OwnContainer'
  BY <1>18 DEF Forget, Removes, Ends
<1>19. CASE ProcessExit
  BY <1>19 DEF ProcessExit
<1>20. CASE UNCHANGED vars
  BY <1>20 DEF vars
<1>. QED
  BY <1>1, <1>2, <1>3, <1>4, <1>5, <1>6, <1>7, <1>8, <1>9, <1>10, <1>11, <1>12,
     <1>13, <1>14, <1>15, <1>16, <1>17, <1>18, <1>19, <1>20 DEF Next, FlowStep,
     CrashSeen

\* What finds a container dead clears itself.
LEMMA FoundSteps ==
  ASSUME McpAssumption, TypeOK, TypeOK', FoundIsCleared, OwnContainer,
         FlowIsSound, FiledIsOwn, CreatedForOne, Owned, [Next]_vars
  PROVE  FoundIsCleared'
<1>. USE McpAssumption DEF TypeOK, FoundIsCleared, OwnContainer, FlowIsSound,
        FiledIsOwn, CreatedForOne, Owned, Started, Checked, dockerVars,
        historyVars, watchVars, stateVars, NoFlow, McpAssumption
<1>1. ASSUME NEW k \in Container, Exit(k) PROVE FoundIsCleared'
  BY <1>1 DEF Exit, Ends
<1>2. ASSUME NEW f \in Flow, NEW s \in Server, StartServer(f, s)
      PROVE FoundIsCleared'
  BY <1>2 DEF StartServer, At
<1>3. ASSUME NEW f \in Flow, NEW k \in Container, Create(f, k)
      PROVE FoundIsCleared'
  BY <1>3 DEF Create, At
<1>4. ASSUME NEW f \in Flow, Start(f) PROVE FoundIsCleared'
  BY <1>4 DEF Start, At, FreeIps
<1>5. ASSUME NEW f \in Flow, Install(f) PROVE FoundIsCleared'
  BY <1>5 DEF Install, At, Register, StartHealthCheck
<1>6. ASSUME NEW f \in Flow, DockerError(f) PROVE FoundIsCleared'
  BY <1>6 DEF DockerError, At, Abandon
<1>7. ASSUME NEW f \in Flow, InitSucceeds(f) PROVE FoundIsCleared'
  BY <1>7 DEF InitSucceeds, At, MakeReady
<1>8. ASSUME NEW f \in Flow, InitFails(f) PROVE FoundIsCleared'
  BY <1>8 DEF InitFails, At, Abandon
<1>9. ASSUME NEW f \in Flow, Remove(f) PROVE FoundIsCleared'
  BY <1>9 DEF Remove, At, Removes, Ends
<1>10. ASSUME NEW k \in Container, Tick(k) PROVE FoundIsCleared'
  BY <1>10 DEF Tick
<1>11. ASSUME NEW k \in Container, TickEnds(k) PROVE FoundIsCleared'
  BY <1>11 DEF TickEnds
<1>12. ASSUME NEW k \in Container, NEW c \in Container, NEW f \in Flow,
             CrashRestarts(k, c, f)
      PROVE FoundIsCleared'
  BY <1>12 DEF CrashRestarts, At, ProbeFindsExit, Answered, ClearOwn,
     MarkCrashed, Unregister
<1>13. ASSUME NEW k \in Container, NEW c \in Container, CrashGivesUp(k, c)
      PROVE FoundIsCleared'
  BY <1>13 DEF CrashGivesUp, ProbeFindsExit, Answered, ClearOwn, MarkCrashed
<1>14. ASSUME NEW k \in Container, NEW c \in Container, CrashOfStopped(k, c)
      PROVE FoundIsCleared'
  BY <1>14 DEF CrashOfStopped, ProbeFindsExit, Answered, ClearOwn
<1>15. ASSUME NEW k \in Container, NEW c \in Container, ProbeChangesNothing(k, c)
      PROVE FoundIsCleared'
  BY <1>15 DEF ProbeChangesNothing, Answered
<1>16. CASE Shutdown
  BY <1>16 DEF Shutdown
<1>17. ASSUME NEW s \in Server, Halt(s) PROVE FoundIsCleared'
  <2>1. target[s] \in Container /\ Started(target[s])
    BY <1>17 DEF Halt
  <2>2. \A k \in Container : Started(k) => Started(k)'
    BY <1>17, <2>1 DEF Halt, Ends, Removes
  <2>. QED
    BY <1>17, <2>2 DEF Halt
<1>18. ASSUME NEW s \in Server, Forget(s) PROVE FoundIsCleared'
  <2>1. target[s] \in Container /\ Started(target[s])
    BY <1>18 DEF Forget
  <2>2. \A k \in Container : Started(k) => Started(k)'
    BY <1>18, <2>1 DEF Forget, Ends, Removes
  <2>. QED
    BY <1>18, <2>2 DEF Forget
<1>19. CASE ProcessExit
  BY <1>19 DEF ProcessExit
<1>20. CASE UNCHANGED vars
  BY <1>20 DEF vars
<1>. QED
  BY <1>1, <1>2, <1>3, <1>4, <1>5, <1>6, <1>7, <1>8, <1>9, <1>10, <1>11, <1>12,
     <1>13, <1>14, <1>15, <1>16, <1>17, <1>18, <1>19, <1>20 DEF Next, FlowStep,
     CrashSeen

\* A health check goes on looking at its own container.
LEMMA WatchSteps ==
  ASSUME McpAssumption, TypeOK, TypeOK', WatchesOwn, FiledIsOwn, FlowIsSound,
         CreatedForOne, FlowOrCheck, NothingBefore, Owned, FoundIsCleared,
         SeenTwice \subseteq SeenTwice', [Next]_vars
  PROVE  WatchesOwn'
<1>. USE McpAssumption DEF TypeOK, WatchesOwn, FiledIsOwn, FlowIsSound,
        CreatedForOne, FlowOrCheck, NothingBefore, Owned, FoundIsCleared,
        Checked, Started, Prepares, Watches, dockerVars, historyVars,
        watchVars, stateVars, NoFlow, McpAssumption
<1>1. ASSUME NEW k \in Container, Exit(k) PROVE WatchesOwn'
  BY <1>1 DEF Exit, Ends
<1>2. ASSUME NEW f \in Flow, NEW s \in Server, StartServer(f, s)
      PROVE WatchesOwn'
  BY <1>2 DEF StartServer, At
<1>3. ASSUME NEW f \in Flow, NEW k \in Container, Create(f, k)
      PROVE WatchesOwn'
  BY <1>3 DEF Create, At
<1>4. ASSUME NEW f \in Flow, Start(f) PROVE WatchesOwn'
  BY <1>4 DEF Start, At, FreeIps
<1>5. ASSUME NEW f \in Flow, Install(f) PROVE WatchesOwn'
  BY <1>5 DEF Install, At, Register, StartHealthCheck
<1>6. ASSUME NEW f \in Flow, DockerError(f) PROVE WatchesOwn'
  BY <1>6 DEF DockerError, At, Abandon
<1>7. ASSUME NEW f \in Flow, InitSucceeds(f) PROVE WatchesOwn'
  BY <1>7 DEF InitSucceeds, At, MakeReady
<1>8. ASSUME NEW f \in Flow, InitFails(f) PROVE WatchesOwn'
  BY <1>8 DEF InitFails, At, Abandon
<1>9. ASSUME NEW f \in Flow, Remove(f) PROVE WatchesOwn'
  BY <1>9 DEF Remove, At, Removes, Ends
<1>10. ASSUME NEW k \in Container, Tick(k) PROVE WatchesOwn'
  BY <1>10 DEF Tick
<1>11. ASSUME NEW k \in Container, TickEnds(k) PROVE WatchesOwn'
  BY <1>11 DEF TickEnds
<1>12. ASSUME NEW k \in Container, NEW c \in Container, NEW f \in Flow,
             CrashRestarts(k, c, f)
      PROVE WatchesOwn'
  <2>1. k \notin found \/ of[k] \in SeenTwice'
    BY <1>12, SecondAnswer DEF CrashRestarts
  <2>. QED
    BY <1>12, <2>1 DEF CrashRestarts, At, ProbeFindsExit, Answered, ClearOwn,
       MarkCrashed, Unregister
<1>13. ASSUME NEW k \in Container, NEW c \in Container, CrashGivesUp(k, c)
      PROVE WatchesOwn'
  <2>1. k \notin found \/ of[k] \in SeenTwice'
    BY <1>13, SecondAnswer DEF CrashGivesUp
  <2>. QED
    BY <1>13, <2>1 DEF CrashGivesUp, ProbeFindsExit, Answered, ClearOwn,
       MarkCrashed
<1>14. ASSUME NEW k \in Container, NEW c \in Container, CrashOfStopped(k, c)
      PROVE WatchesOwn'
  <2>1. k \notin found \/ of[k] \in SeenTwice'
    BY <1>14, SecondAnswer DEF CrashOfStopped
  <2>. QED
    BY <1>14, <2>1 DEF CrashOfStopped, ProbeFindsExit, Answered, ClearOwn
<1>15. ASSUME NEW k \in Container, NEW c \in Container, ProbeChangesNothing(k, c)
      PROVE WatchesOwn'
  BY <1>15 DEF ProbeChangesNothing, Answered
<1>16. CASE Shutdown
  BY <1>16 DEF Shutdown
<1>17. ASSUME NEW s \in Server, Halt(s) PROVE WatchesOwn'
  BY <1>17 DEF Halt, Ends
<1>18. ASSUME NEW s \in Server, Forget(s) PROVE WatchesOwn'
  <2>1. target[s] \in Container /\ Started(target[s])
    BY <1>18 DEF Forget
  <2>2. \A k \in Container : Started(k) => Started(k)'
    BY <1>18, <2>1 DEF Forget, Ends, Removes
  <2>3. UNCHANGED <<of, probes, ticking, found>>
    BY <1>18 DEF Forget
  <2>4. /\ containers'[s] = NoContainer /\ servers'[s] = 0 /\ stop'[s] # "no"
        /\ \A t \in Server \ {s} :
              /\ containers'[t] = containers[t]
              /\ servers'[t] = servers[t] /\ stop'[t] = stop[t]
    BY <1>18 DEF Forget
  <2>5. ASSUME NEW k \in Container, Watches(k)', of'[k] \notin SeenTwice'
        PROVE  /\ of'[k] # NoServer
               /\ Started(k)'
               /\ \/ containers'[of'[k]] = k
                  \/ /\ containers'[of'[k]] = NoContainer
                     /\ servers'[of'[k]] = 0
                     /\ stop'[of'[k]] # "no"
    <3>1. /\ Watches(k) /\ of[k] \notin SeenTwice
          /\ of[k] \in Server /\ Started(k)
      BY <2>3, <2>5
    <3>2. CASE of[k] = s
      BY <2>2, <2>3, <2>4, <3>1, <3>2
    <3>3. CASE of[k] # s
      BY <2>2, <2>3, <2>4, <3>1, <3>3
    <3>. QED
      BY <3>2, <3>3
  <2>6. \A k, c \in Container :
           probes'[k][c] > 0 /\ of'[k] \notin SeenTwice' => c = k
    BY <2>3
  <2>. QED
    BY <2>5, <2>6
<1>19. CASE ProcessExit
  BY <1>19 DEF ProcessExit
<1>20. CASE UNCHANGED vars
  BY <1>20 DEF vars
<1>. QED
  BY <1>1, <1>2, <1>3, <1>4, <1>5, <1>6, <1>7, <1>8, <1>9, <1>10, <1>11, <1>12,
     <1>13, <1>14, <1>15, <1>16, <1>17, <1>18, <1>19, <1>20 DEF Next, FlowStep,
     CrashSeen

\* A crash starts a flow only when the last one has filed its container.
LEMMA OneFlowSteps ==
  ASSUME McpAssumption, TypeOK, TypeOK', OneFlow, FlowOrCheck, NothingBefore,
         WatchesOwn, FlowIsSound, FoundIsCleared, SeenTwice \subseteq
         SeenTwice', [Next]_vars
  PROVE  OneFlow'
<1>. USE McpAssumption DEF TypeOK, OneFlow, FlowOrCheck, NothingBefore,
        WatchesOwn, FlowIsSound, Prepares, Watches, dockerVars, historyVars,
        watchVars, stateVars, NoFlow, McpAssumption
<1>1. ASSUME NEW k \in Container, Exit(k) PROVE OneFlow'
  BY <1>1 DEF Exit, Ends
<1>2. ASSUME NEW f \in Flow, NEW s \in Server, StartServer(f, s) PROVE OneFlow'
  BY <1>2 DEF StartServer, At
<1>3. ASSUME NEW f \in Flow, NEW k \in Container, Create(f, k) PROVE OneFlow'
  BY <1>3 DEF Create, At
<1>4. ASSUME NEW f \in Flow, Start(f) PROVE OneFlow'
  BY <1>4 DEF Start, At, FreeIps
<1>5. ASSUME NEW f \in Flow, Install(f) PROVE OneFlow'
  BY <1>5 DEF Install, At, Register, StartHealthCheck
<1>6. ASSUME NEW f \in Flow, DockerError(f) PROVE OneFlow'
  BY <1>6 DEF DockerError, At, Abandon
<1>7. ASSUME NEW f \in Flow, InitSucceeds(f) PROVE OneFlow'
  BY <1>7 DEF InitSucceeds, At, MakeReady
<1>8. ASSUME NEW f \in Flow, InitFails(f) PROVE OneFlow'
  BY <1>8 DEF InitFails, At, Abandon
<1>9. ASSUME NEW f \in Flow, Remove(f) PROVE OneFlow'
  BY <1>9 DEF Remove, At, Removes, Ends
<1>10. ASSUME NEW k \in Container, Tick(k) PROVE OneFlow'
  BY <1>10 DEF Tick
<1>11. ASSUME NEW k \in Container, TickEnds(k) PROVE OneFlow'
  BY <1>11 DEF TickEnds
<1>12. ASSUME NEW k \in Container, NEW c \in Container, NEW f \in Flow,
             CrashRestarts(k, c, f)
      PROVE OneFlow'
  <2>1. k \notin found \/ of[k] \in SeenTwice'
    BY <1>12, SecondAnswer DEF CrashRestarts
  <2>. QED
    BY <1>12, <2>1 DEF CrashRestarts, At, ProbeFindsExit, Answered, ClearOwn,
       MarkCrashed, Unregister
<1>13. ASSUME NEW k \in Container, NEW c \in Container, CrashGivesUp(k, c)
      PROVE OneFlow'
  <2>1. k \notin found \/ of[k] \in SeenTwice'
    BY <1>13, SecondAnswer DEF CrashGivesUp
  <2>. QED
    BY <1>13, <2>1 DEF CrashGivesUp, ProbeFindsExit, Answered, ClearOwn,
       MarkCrashed
<1>14. ASSUME NEW k \in Container, NEW c \in Container, CrashOfStopped(k, c)
      PROVE OneFlow'
  <2>1. k \notin found \/ of[k] \in SeenTwice'
    BY <1>14, SecondAnswer DEF CrashOfStopped
  <2>. QED
    BY <1>14, <2>1 DEF CrashOfStopped, ProbeFindsExit, Answered, ClearOwn
<1>15. ASSUME NEW k \in Container, NEW c \in Container, ProbeChangesNothing(k, c)
      PROVE OneFlow'
  BY <1>15 DEF ProbeChangesNothing, Answered
<1>16. CASE Shutdown
  BY <1>16 DEF Shutdown
<1>17. ASSUME NEW s \in Server, Halt(s) PROVE OneFlow'
  BY <1>17 DEF Halt, Ends
<1>18. ASSUME NEW s \in Server, Forget(s) PROVE OneFlow'
  BY <1>18 DEF Forget, Removes, Ends
<1>19. CASE ProcessExit
  BY <1>19 DEF ProcessExit
<1>20. CASE UNCHANGED vars
  BY <1>20 DEF vars
<1>. QED
  BY <1>1, <1>2, <1>3, <1>4, <1>5, <1>6, <1>7, <1>8, <1>9, <1>10, <1>11, <1>12,
     <1>13, <1>14, <1>15, <1>16, <1>17, <1>18, <1>19, <1>20 DEF Next, FlowStep,
     CrashSeen

\* The check that sees a crash clears itself before the flow begins; the flow sets
\* up the next one when it ends.
LEMMA FlowOrCheckSteps ==
  ASSUME McpAssumption, TypeOK, TypeOK', FlowOrCheck, OneFlow, OneCheck,
         NothingBefore, WatchesOwn, FlowIsSound, CreatedForOne, FiledIsOwn,
         FoundIsCleared, SeenTwice \subseteq SeenTwice', [Next]_vars
  PROVE  FlowOrCheck'
<1>. USE McpAssumption DEF TypeOK, FlowOrCheck, OneFlow, OneCheck,
        NothingBefore, WatchesOwn, FlowIsSound, CreatedForOne, FiledIsOwn,
        FoundIsCleared, Checked, Prepares, Watches, Started, dockerVars,
        historyVars, watchVars, stateVars, NoFlow, McpAssumption
<1>1. ASSUME NEW k \in Container, Exit(k) PROVE FlowOrCheck'
  BY <1>1 DEF Exit, Ends
<1>2. ASSUME NEW f \in Flow, NEW s \in Server, StartServer(f, s)
      PROVE FlowOrCheck'
  BY <1>2 DEF StartServer, At
<1>3. ASSUME NEW f \in Flow, NEW k \in Container, Create(f, k)
      PROVE FlowOrCheck'
  <2>1. cont[k] = "none"
    BY <1>3 DEF Create
  <2>2. \A l \in Container : Watches(l) => of'[l] = of[l]
    <3>1. \A l \in Container : Watches(l) => Started(l)
      OBVIOUS
    <3>2. of' = [of EXCEPT ![k] = flow[f].server]
      BY <1>3 DEF Create
    <3>3. \A l \in Container : l # k => of'[l] = of[l]
      BY <3>2
    <3>. QED
      BY <2>1, <3>1, <3>3
  <2>3. /\ flow'[f].server = flow[f].server /\ Prepares(f)
        /\ \A g \in Flow \ {f} : flow'[g] = flow[g]
        /\ UNCHANGED <<ticking, found, probes>>
    BY <1>3 DEF Create, At
  <2>4. ASSUME NEW g \in Flow, NEW l \in Container, Prepares(g)', Watches(l)',
               of'[l] \notin SeenTwice'
        PROVE  flow'[g].server # of'[l]
    <3>. HIDE DEF TypeOK, FlowIsSound, CreatedForOne, FoundIsCleared, WatchesOwn,
                  OneFlow, OneCheck, NothingBefore, FiledIsOwn
    <3>1. Watches(l) /\ of'[l] = of[l] /\ of[l] \notin SeenTwice
      BY <2>2, <2>3, <2>4
    <3>2. Prepares(g) /\ flow'[g].server = flow[g].server
      BY <2>3, <2>4
    <3>. QED
      BY <3>1, <3>2
  <2>. QED
    BY <2>4
<1>4. ASSUME NEW f \in Flow, Start(f) PROVE FlowOrCheck'
  BY <1>4 DEF Start, At, FreeIps
<1>5. ASSUME NEW f \in Flow, Install(f) PROVE FlowOrCheck'
  BY <1>5 DEF Install, At, Register, StartHealthCheck
<1>6. ASSUME NEW f \in Flow, DockerError(f) PROVE FlowOrCheck'
  BY <1>6 DEF DockerError, At, Abandon
<1>7. ASSUME NEW f \in Flow, InitSucceeds(f) PROVE FlowOrCheck'
  BY <1>7 DEF InitSucceeds, At, MakeReady
<1>8. ASSUME NEW f \in Flow, InitFails(f) PROVE FlowOrCheck'
  BY <1>8 DEF InitFails, At, Abandon
<1>9. ASSUME NEW f \in Flow, Remove(f) PROVE FlowOrCheck'
  BY <1>9 DEF Remove, At, Removes, Ends
<1>10. ASSUME NEW k \in Container, Tick(k) PROVE FlowOrCheck'
  BY <1>10 DEF Tick
<1>11. ASSUME NEW k \in Container, TickEnds(k) PROVE FlowOrCheck'
  BY <1>11 DEF TickEnds
<1>12. ASSUME NEW k \in Container, NEW c \in Container, NEW f \in Flow,
             CrashRestarts(k, c, f)
      PROVE FlowOrCheck'
  <2>1. k \notin found \/ of[k] \in SeenTwice'
    BY <1>12, SecondAnswer DEF CrashRestarts
  <2>. QED
    BY <1>12, <2>1 DEF CrashRestarts, At, ProbeFindsExit, Answered, ClearOwn,
       MarkCrashed, Unregister
<1>13. ASSUME NEW k \in Container, NEW c \in Container, CrashGivesUp(k, c)
      PROVE FlowOrCheck'
  <2>1. k \notin found \/ of[k] \in SeenTwice'
    BY <1>13, SecondAnswer DEF CrashGivesUp
  <2>. QED
    BY <1>13, <2>1 DEF CrashGivesUp, ProbeFindsExit, Answered, ClearOwn,
       MarkCrashed
<1>14. ASSUME NEW k \in Container, NEW c \in Container, CrashOfStopped(k, c)
      PROVE FlowOrCheck'
  <2>1. k \notin found \/ of[k] \in SeenTwice'
    BY <1>14, SecondAnswer DEF CrashOfStopped
  <2>. QED
    BY <1>14, <2>1 DEF CrashOfStopped, ProbeFindsExit, Answered, ClearOwn
<1>15. ASSUME NEW k \in Container, NEW c \in Container, ProbeChangesNothing(k, c)
      PROVE FlowOrCheck'
  BY <1>15 DEF ProbeChangesNothing, Answered
<1>16. CASE Shutdown
  BY <1>16 DEF Shutdown
<1>17. ASSUME NEW s \in Server, Halt(s) PROVE FlowOrCheck'
  BY <1>17 DEF Halt, Ends
<1>18. ASSUME NEW s \in Server, Forget(s) PROVE FlowOrCheck'
  BY <1>18 DEF Forget, Removes, Ends
<1>19. CASE ProcessExit
  BY <1>19 DEF ProcessExit
<1>20. CASE UNCHANGED vars
  BY <1>20 DEF vars
<1>. QED
  BY <1>1, <1>2, <1>3, <1>4, <1>5, <1>6, <1>7, <1>8, <1>9, <1>10, <1>11, <1>12,
     <1>13, <1>14, <1>15, <1>16, <1>17, <1>18, <1>19, <1>20 DEF Next, FlowStep,
     CrashSeen

\* A health check is set up when there is none.
LEMMA OneCheckSteps ==
  ASSUME McpAssumption, TypeOK, TypeOK', OneCheck, FlowOrCheck, WatchesOwn,
         FlowIsSound, FiledIsOwn, CreatedForOne, FoundIsCleared, SeenTwice
         \subseteq SeenTwice', [Next]_vars
  PROVE  OneCheck'
<1>. USE McpAssumption DEF TypeOK, OneCheck, FlowOrCheck, WatchesOwn,
        FlowIsSound, FiledIsOwn, CreatedForOne, FoundIsCleared, Checked,
        Prepares, Watches, Started, dockerVars, historyVars, watchVars,
        stateVars, NoFlow, McpAssumption
<1>1. ASSUME NEW k \in Container, Exit(k) PROVE OneCheck'
  BY <1>1 DEF Exit, Ends
<1>2. ASSUME NEW f \in Flow, NEW s \in Server, StartServer(f, s)
      PROVE OneCheck'
  BY <1>2 DEF StartServer, At
<1>3. ASSUME NEW f \in Flow, NEW k \in Container, Create(f, k) PROVE OneCheck'
  BY <1>3 DEF Create, At
<1>4. ASSUME NEW f \in Flow, Start(f) PROVE OneCheck'
  BY <1>4 DEF Start, At, FreeIps
<1>5. ASSUME NEW f \in Flow, Install(f) PROVE OneCheck'
  BY <1>5 DEF Install, At, Register, StartHealthCheck
<1>6. ASSUME NEW f \in Flow, DockerError(f) PROVE OneCheck'
  BY <1>6 DEF DockerError, At, Abandon
<1>7. ASSUME NEW f \in Flow, InitSucceeds(f) PROVE OneCheck'
  BY <1>7 DEF InitSucceeds, At, MakeReady
<1>8. ASSUME NEW f \in Flow, InitFails(f) PROVE OneCheck'
  BY <1>8 DEF InitFails, At, Abandon
<1>9. ASSUME NEW f \in Flow, Remove(f) PROVE OneCheck'
  BY <1>9 DEF Remove, At, Removes, Ends
<1>10. ASSUME NEW k \in Container, Tick(k) PROVE OneCheck'
  BY <1>10 DEF Tick
<1>11. ASSUME NEW k \in Container, TickEnds(k) PROVE OneCheck'
  BY <1>11 DEF TickEnds
<1>12. ASSUME NEW k \in Container, NEW c \in Container, NEW f \in Flow,
             CrashRestarts(k, c, f)
      PROVE OneCheck'
  <2>1. k \notin found \/ of[k] \in SeenTwice'
    BY <1>12, SecondAnswer DEF CrashRestarts
  <2>. QED
    BY <1>12, <2>1 DEF CrashRestarts, At, ProbeFindsExit, Answered, ClearOwn,
       MarkCrashed, Unregister
<1>13. ASSUME NEW k \in Container, NEW c \in Container, CrashGivesUp(k, c)
      PROVE OneCheck'
  <2>1. k \notin found \/ of[k] \in SeenTwice'
    BY <1>13, SecondAnswer DEF CrashGivesUp
  <2>. QED
    BY <1>13, <2>1 DEF CrashGivesUp, ProbeFindsExit, Answered, ClearOwn,
       MarkCrashed
<1>14. ASSUME NEW k \in Container, NEW c \in Container, CrashOfStopped(k, c)
      PROVE OneCheck'
  <2>1. k \notin found \/ of[k] \in SeenTwice'
    BY <1>14, SecondAnswer DEF CrashOfStopped
  <2>. QED
    BY <1>14, <2>1 DEF CrashOfStopped, ProbeFindsExit, Answered, ClearOwn
<1>15. ASSUME NEW k \in Container, NEW c \in Container, ProbeChangesNothing(k, c)
      PROVE OneCheck'
  BY <1>15 DEF ProbeChangesNothing, Answered
<1>16. CASE Shutdown
  BY <1>16 DEF Shutdown
<1>17. ASSUME NEW s \in Server, Halt(s) PROVE OneCheck'
  BY <1>17 DEF Halt, Ends
<1>18. ASSUME NEW s \in Server, Forget(s) PROVE OneCheck'
  BY <1>18 DEF Forget, Removes, Ends
<1>19. CASE ProcessExit
  BY <1>19 DEF ProcessExit
<1>20. CASE UNCHANGED vars
  BY <1>20 DEF vars
<1>. QED
  BY <1>1, <1>2, <1>3, <1>4, <1>5, <1>6, <1>7, <1>8, <1>9, <1>10, <1>11, <1>12,
     <1>13, <1>14, <1>15, <1>16, <1>17, <1>18, <1>19, <1>20 DEF Next, FlowStep,
     CrashSeen

-----------------------------------------------------------------------------
(* Steps of what runs, is ready and is registered.                         *)

\* No second container of a server starts beside a running one.
LEMMA OneContainerSteps ==
  ASSUME McpAssumption, TypeOK, TypeOK', OneContainerPerServer,
         RunningIsPrepared, FlowIsSound, FiledIsOwn, CreatedForOne,
         FoundIsCleared, SeenTwice \subseteq SeenTwice', [Next]_vars
  PROVE  OneContainerPerServer'
<1>. USE McpAssumption DEF TypeOK, OneContainerPerServer, RunningIsPrepared,
        FlowIsSound, FiledIsOwn, CreatedForOne, Started, Prepares, dockerVars,
        historyVars, watchVars, stateVars, NoFlow, McpAssumption
<1>1. ASSUME NEW k \in Container, Exit(k) PROVE OneContainerPerServer'
  BY <1>1 DEF Exit, Ends
<1>2. ASSUME NEW f \in Flow, NEW s \in Server, StartServer(f, s)
      PROVE OneContainerPerServer'
  BY <1>2 DEF StartServer, At
<1>3. ASSUME NEW f \in Flow, NEW k \in Container, Create(f, k)
      PROVE OneContainerPerServer'
  BY <1>3 DEF Create, At
<1>4. ASSUME NEW f \in Flow, Start(f) PROVE OneContainerPerServer'
  BY <1>4 DEF Start, At, FreeIps
<1>5. ASSUME NEW f \in Flow, Install(f) PROVE OneContainerPerServer'
  BY <1>5 DEF Install, At, Register, StartHealthCheck
<1>6. ASSUME NEW f \in Flow, DockerError(f) PROVE OneContainerPerServer'
  BY <1>6 DEF DockerError, At, Abandon
<1>7. ASSUME NEW f \in Flow, InitSucceeds(f) PROVE OneContainerPerServer'
  BY <1>7 DEF InitSucceeds, At, MakeReady
<1>8. ASSUME NEW f \in Flow, InitFails(f) PROVE OneContainerPerServer'
  BY <1>8 DEF InitFails, At, Abandon
<1>9. ASSUME NEW f \in Flow, Remove(f) PROVE OneContainerPerServer'
  BY <1>9 DEF Remove, At, Removes, Ends
<1>10. ASSUME NEW k \in Container, Tick(k) PROVE OneContainerPerServer'
  BY <1>10 DEF Tick
<1>11. ASSUME NEW k \in Container, TickEnds(k) PROVE OneContainerPerServer'
  BY <1>11 DEF TickEnds
<1>12. ASSUME NEW k \in Container, NEW c \in Container, NEW f \in Flow,
             CrashRestarts(k, c, f)
      PROVE OneContainerPerServer'
  <2>1. k \notin found \/ of[k] \in SeenTwice'
    BY <1>12, SecondAnswer DEF CrashRestarts
  <2>. QED
    BY <1>12, <2>1 DEF CrashRestarts, At, ProbeFindsExit, Answered, ClearOwn,
       MarkCrashed, Unregister
<1>13. ASSUME NEW k \in Container, NEW c \in Container, CrashGivesUp(k, c)
      PROVE OneContainerPerServer'
  <2>1. k \notin found \/ of[k] \in SeenTwice'
    BY <1>13, SecondAnswer DEF CrashGivesUp
  <2>. QED
    BY <1>13, <2>1 DEF CrashGivesUp, ProbeFindsExit, Answered, ClearOwn,
       MarkCrashed
<1>14. ASSUME NEW k \in Container, NEW c \in Container, CrashOfStopped(k, c)
      PROVE OneContainerPerServer'
  <2>1. k \notin found \/ of[k] \in SeenTwice'
    BY <1>14, SecondAnswer DEF CrashOfStopped
  <2>. QED
    BY <1>14, <2>1 DEF CrashOfStopped, ProbeFindsExit, Answered, ClearOwn
<1>15. ASSUME NEW k \in Container, NEW c \in Container, ProbeChangesNothing(k, c)
      PROVE OneContainerPerServer'
  BY <1>15 DEF ProbeChangesNothing, Answered
<1>16. CASE Shutdown
  BY <1>16 DEF Shutdown
<1>17. ASSUME NEW s \in Server, Halt(s) PROVE OneContainerPerServer'
  BY <1>17 DEF Halt, Ends
<1>18. ASSUME NEW s \in Server, Forget(s) PROVE OneContainerPerServer'
  BY <1>18 DEF Forget, Removes, Ends
<1>19. CASE ProcessExit
  BY <1>19 DEF ProcessExit
<1>20. CASE UNCHANGED vars
  BY <1>20 DEF vars
<1>. QED
  BY <1>1, <1>2, <1>3, <1>4, <1>5, <1>6, <1>7, <1>8, <1>9, <1>10, <1>11, <1>12,
     <1>13, <1>14, <1>15, <1>16, <1>17, <1>18, <1>19, <1>20 DEF Next, FlowStep,
     CrashSeen

\* A restart begins with a dead container and creates one.
LEMMA PreparedSteps ==
  ASSUME McpAssumption, TypeOK, TypeOK', RunningIsPrepared,
         OneContainerPerServer, WatchedIsRunning, FlowIsSound, NothingBefore,
         WatchesOwn, OneFlow, FiledIsOwn, CreatedForOne, FoundIsCleared,
         SeenTwice \subseteq SeenTwice', [Next]_vars
  PROVE  RunningIsPrepared'
<1>. USE McpAssumption DEF TypeOK, RunningIsPrepared, OneContainerPerServer,
        WatchedIsRunning, FlowIsSound, NothingBefore, WatchesOwn, OneFlow,
        FiledIsOwn, CreatedForOne, Started, Prepares, Watches, dockerVars,
        historyVars, watchVars, stateVars, NoFlow, McpAssumption
<1>1. ASSUME NEW k \in Container, Exit(k) PROVE RunningIsPrepared'
  BY <1>1 DEF Exit, Ends
<1>2. ASSUME NEW f \in Flow, NEW s \in Server, StartServer(f, s)
      PROVE RunningIsPrepared'
  BY <1>2 DEF StartServer, At
<1>3. ASSUME NEW f \in Flow, NEW k \in Container, Create(f, k)
      PROVE RunningIsPrepared'
  BY <1>3 DEF Create, At
<1>4. ASSUME NEW f \in Flow, Start(f) PROVE RunningIsPrepared'
  BY <1>4 DEF Start, At, FreeIps
<1>5. ASSUME NEW f \in Flow, Install(f) PROVE RunningIsPrepared'
  BY <1>5 DEF Install, At, Register, StartHealthCheck
<1>6. ASSUME NEW f \in Flow, DockerError(f) PROVE RunningIsPrepared'
  BY <1>6 DEF DockerError, At, Abandon
<1>7. ASSUME NEW f \in Flow, InitSucceeds(f) PROVE RunningIsPrepared'
  BY <1>7 DEF InitSucceeds, At, MakeReady
<1>8. ASSUME NEW f \in Flow, InitFails(f) PROVE RunningIsPrepared'
  BY <1>8 DEF InitFails, At, Abandon
<1>9. ASSUME NEW f \in Flow, Remove(f) PROVE RunningIsPrepared'
  BY <1>9 DEF Remove, At, Removes, Ends
<1>10. ASSUME NEW k \in Container, Tick(k) PROVE RunningIsPrepared'
  BY <1>10 DEF Tick
<1>11. ASSUME NEW k \in Container, TickEnds(k) PROVE RunningIsPrepared'
  BY <1>11 DEF TickEnds
<1>12. ASSUME NEW k \in Container, NEW c \in Container, NEW f \in Flow,
             CrashRestarts(k, c, f)
      PROVE RunningIsPrepared'
  <2>1. k \notin found \/ of[k] \in SeenTwice'
    BY <1>12, SecondAnswer DEF CrashRestarts
  <2>. QED
    BY <1>12, <2>1 DEF CrashRestarts, At, ProbeFindsExit, Answered, ClearOwn,
       MarkCrashed, Unregister
<1>13. ASSUME NEW k \in Container, NEW c \in Container, CrashGivesUp(k, c)
      PROVE RunningIsPrepared'
  <2>1. k \notin found \/ of[k] \in SeenTwice'
    BY <1>13, SecondAnswer DEF CrashGivesUp
  <2>. QED
    BY <1>13, <2>1 DEF CrashGivesUp, ProbeFindsExit, Answered, ClearOwn,
       MarkCrashed
<1>14. ASSUME NEW k \in Container, NEW c \in Container, CrashOfStopped(k, c)
      PROVE RunningIsPrepared'
  <2>1. k \notin found \/ of[k] \in SeenTwice'
    BY <1>14, SecondAnswer DEF CrashOfStopped
  <2>. QED
    BY <1>14, <2>1 DEF CrashOfStopped, ProbeFindsExit, Answered, ClearOwn
<1>15. ASSUME NEW k \in Container, NEW c \in Container, ProbeChangesNothing(k, c)
      PROVE RunningIsPrepared'
  BY <1>15 DEF ProbeChangesNothing, Answered
<1>16. CASE Shutdown
  BY <1>16 DEF Shutdown
<1>17. ASSUME NEW s \in Server, Halt(s) PROVE RunningIsPrepared'
  BY <1>17 DEF Halt, Ends
<1>18. ASSUME NEW s \in Server, Forget(s) PROVE RunningIsPrepared'
  BY <1>18 DEF Forget, Removes, Ends
<1>19. CASE ProcessExit
  BY <1>19 DEF ProcessExit
<1>20. CASE UNCHANGED vars
  BY <1>20 DEF vars
<1>. QED
  BY <1>1, <1>2, <1>3, <1>4, <1>5, <1>6, <1>7, <1>8, <1>9, <1>10, <1>11, <1>12,
     <1>13, <1>14, <1>15, <1>16, <1>17, <1>18, <1>19, <1>20 DEF Next, FlowStep,
     CrashSeen

\* A health check watches the only container that runs.
LEMMA WatchedSteps ==
  ASSUME McpAssumption, TypeOK, TypeOK', WatchedIsRunning, RunningIsPrepared,
         FlowOrCheck, FlowIsSound, FiledIsOwn, WatchesOwn, CreatedForOne,
         FoundIsCleared, SeenTwice \subseteq SeenTwice', [Next]_vars
  PROVE  WatchedIsRunning'
<1>. USE McpAssumption DEF TypeOK, WatchedIsRunning, RunningIsPrepared,
        FlowOrCheck, FlowIsSound, FiledIsOwn, WatchesOwn, CreatedForOne,
        FoundIsCleared, Checked, Started, Prepares, Watches, dockerVars,
        historyVars, watchVars, stateVars, NoFlow, McpAssumption
<1>1. ASSUME NEW k \in Container, Exit(k) PROVE WatchedIsRunning'
  BY <1>1 DEF Exit, Ends
<1>2. ASSUME NEW f \in Flow, NEW s \in Server, StartServer(f, s)
      PROVE WatchedIsRunning'
  BY <1>2 DEF StartServer, At
<1>3. ASSUME NEW f \in Flow, NEW k \in Container, Create(f, k)
      PROVE WatchedIsRunning'
  BY <1>3 DEF Create, At
<1>4. ASSUME NEW f \in Flow, Start(f) PROVE WatchedIsRunning'
  BY <1>4 DEF Start, At, FreeIps
<1>5. ASSUME NEW f \in Flow, Install(f) PROVE WatchedIsRunning'
  BY <1>5 DEF Install, At, Register, StartHealthCheck
<1>6. ASSUME NEW f \in Flow, DockerError(f) PROVE WatchedIsRunning'
  BY <1>6 DEF DockerError, At, Abandon
<1>7. ASSUME NEW f \in Flow, InitSucceeds(f) PROVE WatchedIsRunning'
  BY <1>7 DEF InitSucceeds, At, MakeReady
<1>8. ASSUME NEW f \in Flow, InitFails(f) PROVE WatchedIsRunning'
  BY <1>8 DEF InitFails, At, Abandon
<1>9. ASSUME NEW f \in Flow, Remove(f) PROVE WatchedIsRunning'
  BY <1>9 DEF Remove, At, Removes, Ends
<1>10. ASSUME NEW k \in Container, Tick(k) PROVE WatchedIsRunning'
  BY <1>10 DEF Tick
<1>11. ASSUME NEW k \in Container, TickEnds(k) PROVE WatchedIsRunning'
  BY <1>11 DEF TickEnds
<1>12. ASSUME NEW k \in Container, NEW c \in Container, NEW f \in Flow,
             CrashRestarts(k, c, f)
      PROVE WatchedIsRunning'
  <2>1. k \notin found \/ of[k] \in SeenTwice'
    BY <1>12, SecondAnswer DEF CrashRestarts
  <2>. QED
    BY <1>12, <2>1 DEF CrashRestarts, At, ProbeFindsExit, Answered, ClearOwn,
       MarkCrashed, Unregister
<1>13. ASSUME NEW k \in Container, NEW c \in Container, CrashGivesUp(k, c)
      PROVE WatchedIsRunning'
  <2>1. k \notin found \/ of[k] \in SeenTwice'
    BY <1>13, SecondAnswer DEF CrashGivesUp
  <2>. QED
    BY <1>13, <2>1 DEF CrashGivesUp, ProbeFindsExit, Answered, ClearOwn,
       MarkCrashed
<1>14. ASSUME NEW k \in Container, NEW c \in Container, CrashOfStopped(k, c)
      PROVE WatchedIsRunning'
  <2>1. k \notin found \/ of[k] \in SeenTwice'
    BY <1>14, SecondAnswer DEF CrashOfStopped
  <2>. QED
    BY <1>14, <2>1 DEF CrashOfStopped, ProbeFindsExit, Answered, ClearOwn
<1>15. ASSUME NEW k \in Container, NEW c \in Container, ProbeChangesNothing(k, c)
      PROVE WatchedIsRunning'
  BY <1>15 DEF ProbeChangesNothing, Answered
<1>16. CASE Shutdown
  BY <1>16 DEF Shutdown
<1>17. ASSUME NEW s \in Server, Halt(s) PROVE WatchedIsRunning'
  BY <1>17 DEF Halt, Ends
<1>18. ASSUME NEW s \in Server, Forget(s) PROVE WatchedIsRunning'
  BY <1>18 DEF Forget, Removes, Ends
<1>19. CASE ProcessExit
  BY <1>19 DEF ProcessExit
<1>20. CASE UNCHANGED vars
  BY <1>20 DEF vars
<1>. QED
  BY <1>1, <1>2, <1>3, <1>4, <1>5, <1>6, <1>7, <1>8, <1>9, <1>10, <1>11, <1>12,
     <1>13, <1>14, <1>15, <1>16, <1>17, <1>18, <1>19, <1>20 DEF Next, FlowStep,
     CrashSeen

\* The interval of a running container goes on until a shutdown.
LEMMA FiledWatchedSteps ==
  ASSUME McpAssumption, TypeOK, TypeOK', FiledIsWatched, FiledIsOwn,
         FlowIsSound, WatchesOwn, CreatedForOne, FoundIsCleared, SeenTwice
         \subseteq SeenTwice', [Next]_vars
  PROVE  FiledIsWatched'
<1>. USE McpAssumption DEF TypeOK, FiledIsWatched, FiledIsOwn, FlowIsSound,
        WatchesOwn, CreatedForOne, FoundIsCleared, Checked, Started, Watches,
        Closing, Booting, dockerVars, historyVars, watchVars, stateVars,
        NoFlow, McpAssumption
<1>1. ASSUME NEW k \in Container, Exit(k) PROVE FiledIsWatched'
  BY <1>1 DEF Exit, Ends
<1>2. ASSUME NEW f \in Flow, NEW s \in Server, StartServer(f, s)
      PROVE FiledIsWatched'
  BY <1>2 DEF StartServer, At
<1>3. ASSUME NEW f \in Flow, NEW k \in Container, Create(f, k)
      PROVE FiledIsWatched'
  BY <1>3 DEF Create, At
<1>4. ASSUME NEW f \in Flow, Start(f) PROVE FiledIsWatched'
  <2>1. flow[f].on \in Container /\ cont[flow[f].on] = "created"
    BY <1>4 DEF Start, At
  <2>2. cont' = [cont EXCEPT ![flow[f].on] = "running"]
    BY <1>4 DEF Start
  <2>3. UNCHANGED <<containers, ticking, stop>>
    BY <1>4 DEF Start, watchVars
  <2>4. \A s \in Server : containers[s] # flow[f].on
    BY <2>1, CreatedIsNotFiled
  <2>. QED
    BY <2>1, <2>2, <2>3, <2>4
<1>5. ASSUME NEW f \in Flow, Install(f) PROVE FiledIsWatched'
  BY <1>5 DEF Install, At, Register, StartHealthCheck
<1>6. ASSUME NEW f \in Flow, DockerError(f) PROVE FiledIsWatched'
  BY <1>6 DEF DockerError, At, Abandon
<1>7. ASSUME NEW f \in Flow, InitSucceeds(f) PROVE FiledIsWatched'
  BY <1>7 DEF InitSucceeds, At, MakeReady
<1>8. ASSUME NEW f \in Flow, InitFails(f) PROVE FiledIsWatched'
  BY <1>8 DEF InitFails, At, Abandon
<1>9. ASSUME NEW f \in Flow, Remove(f) PROVE FiledIsWatched'
  BY <1>9 DEF Remove, At, Removes, Ends
<1>10. ASSUME NEW k \in Container, Tick(k) PROVE FiledIsWatched'
  BY <1>10 DEF Tick
<1>11. ASSUME NEW k \in Container, TickEnds(k) PROVE FiledIsWatched'
  BY <1>11 DEF TickEnds
<1>12. ASSUME NEW k \in Container, NEW c \in Container, NEW f \in Flow,
             CrashRestarts(k, c, f)
      PROVE FiledIsWatched'
  <2>1. k \notin found \/ of[k] \in SeenTwice'
    BY <1>12, SecondAnswer DEF CrashRestarts
  <2>. QED
    BY <1>12, <2>1 DEF CrashRestarts, At, ProbeFindsExit, Answered, ClearOwn,
       MarkCrashed, Unregister
<1>13. ASSUME NEW k \in Container, NEW c \in Container, CrashGivesUp(k, c)
      PROVE FiledIsWatched'
  <2>1. k \notin found \/ of[k] \in SeenTwice'
    BY <1>13, SecondAnswer DEF CrashGivesUp
  <2>. QED
    BY <1>13, <2>1 DEF CrashGivesUp, ProbeFindsExit, Answered, ClearOwn,
       MarkCrashed
<1>14. ASSUME NEW k \in Container, NEW c \in Container, CrashOfStopped(k, c)
      PROVE FiledIsWatched'
  <2>1. k \notin found \/ of[k] \in SeenTwice'
    BY <1>14, SecondAnswer DEF CrashOfStopped
  <2>. QED
    BY <1>14, <2>1 DEF CrashOfStopped, ProbeFindsExit, Answered, ClearOwn
<1>15. ASSUME NEW k \in Container, NEW c \in Container, ProbeChangesNothing(k, c)
      PROVE FiledIsWatched'
  BY <1>15 DEF ProbeChangesNothing, Answered
<1>16. CASE Shutdown
  BY <1>16 DEF Shutdown
<1>17. ASSUME NEW s \in Server, Halt(s) PROVE FiledIsWatched'
  BY <1>17 DEF Halt, Ends
<1>18. ASSUME NEW s \in Server, Forget(s) PROVE FiledIsWatched'
  BY <1>18 DEF Forget, Removes, Ends
<1>19. CASE ProcessExit
  BY <1>19 DEF ProcessExit
<1>20. CASE UNCHANGED vars
  BY <1>20 DEF vars
<1>. QED
  BY <1>1, <1>2, <1>3, <1>4, <1>5, <1>6, <1>7, <1>8, <1>9, <1>10, <1>11, <1>12,
     <1>13, <1>14, <1>15, <1>16, <1>17, <1>18, <1>19, <1>20 DEF Next, FlowStep,
     CrashSeen

\* What is filed changes only when the container of a handshake is dead, or at a
\* shutdown.
LEMMA ShakesSteps ==
  ASSUME McpAssumption, TypeOK, TypeOK', ShakesWithFiled, RunningIsPrepared,
         FlowIsSound, FiledIsOwn, CreatedForOne, NothingBefore, WatchesOwn,
         FoundIsCleared, SeenTwice \subseteq SeenTwice', [Next]_vars
  PROVE  ShakesWithFiled'
<1>. USE McpAssumption DEF TypeOK, ShakesWithFiled, RunningIsPrepared,
        FlowIsSound, FiledIsOwn, CreatedForOne, NothingBefore, WatchesOwn,
        Started, Prepares, Watches, Booting, Closing, dockerVars, historyVars,
        watchVars, stateVars, NoFlow, McpAssumption
<1>1. ASSUME NEW k \in Container, Exit(k) PROVE ShakesWithFiled'
  BY <1>1 DEF Exit, Ends
<1>2. ASSUME NEW f \in Flow, NEW s \in Server, StartServer(f, s)
      PROVE ShakesWithFiled'
  BY <1>2 DEF StartServer, At
<1>3. ASSUME NEW f \in Flow, NEW k \in Container, Create(f, k)
      PROVE ShakesWithFiled'
  BY <1>3 DEF Create, At
<1>4. ASSUME NEW f \in Flow, Start(f) PROVE ShakesWithFiled'
  <2>1. flow[f].on \in Container /\ cont[flow[f].on] = "created"
    BY <1>4 DEF Start, At
  <2>2. cont' = [cont EXCEPT ![flow[f].on] = "running"]
    BY <1>4 DEF Start
  <2>3. \A g \in Flow : flow'[g].at = "init" =>
           /\ flow[g].at = "init" /\ flow[g].on # flow[f].on
           /\ flow'[g] = flow[g]
    <3>1. \A g \in Flow \ {f} : flow'[g] = flow[g]
      BY <1>4 DEF Start
    <3>2. flow'[f].at = "inspect"
      BY <1>4 DEF Start
    <3>. QED
      BY <2>1, <3>1, <3>2, CreatedIsNotAtInit
  <2>4. UNCHANGED <<containers, servers, stop>>
    BY <1>4 DEF Start, stateVars
  <2>. QED
    BY <2>1, <2>2, <2>3, <2>4
<1>5. ASSUME NEW f \in Flow, Install(f) PROVE ShakesWithFiled'
  BY <1>5 DEF Install, At, Register, StartHealthCheck
<1>6. ASSUME NEW f \in Flow, DockerError(f) PROVE ShakesWithFiled'
  BY <1>6 DEF DockerError, At, Abandon
<1>7. ASSUME NEW f \in Flow, InitSucceeds(f) PROVE ShakesWithFiled'
  BY <1>7 DEF InitSucceeds, At, MakeReady
<1>8. ASSUME NEW f \in Flow, InitFails(f) PROVE ShakesWithFiled'
  BY <1>8 DEF InitFails, At, Abandon
<1>9. ASSUME NEW f \in Flow, Remove(f) PROVE ShakesWithFiled'
  BY <1>9 DEF Remove, At, Removes, Ends
<1>10. ASSUME NEW k \in Container, Tick(k) PROVE ShakesWithFiled'
  BY <1>10 DEF Tick
<1>11. ASSUME NEW k \in Container, TickEnds(k) PROVE ShakesWithFiled'
  BY <1>11 DEF TickEnds
<1>12. ASSUME NEW k \in Container, NEW c \in Container, NEW f \in Flow,
             CrashRestarts(k, c, f)
      PROVE ShakesWithFiled'
  <2>1. k \notin found \/ of[k] \in SeenTwice'
    BY <1>12, SecondAnswer DEF CrashRestarts
  <2>. QED
    BY <1>12, <2>1 DEF CrashRestarts, At, ProbeFindsExit, Answered, ClearOwn,
       MarkCrashed, Unregister
<1>13. ASSUME NEW k \in Container, NEW c \in Container, CrashGivesUp(k, c)
      PROVE ShakesWithFiled'
  <2>1. k \notin found \/ of[k] \in SeenTwice'
    BY <1>13, SecondAnswer DEF CrashGivesUp
  <2>. QED
    BY <1>13, <2>1 DEF CrashGivesUp, ProbeFindsExit, Answered, ClearOwn,
       MarkCrashed
<1>14. ASSUME NEW k \in Container, NEW c \in Container, CrashOfStopped(k, c)
      PROVE ShakesWithFiled'
  <2>1. k \notin found \/ of[k] \in SeenTwice'
    BY <1>14, SecondAnswer DEF CrashOfStopped
  <2>. QED
    BY <1>14, <2>1 DEF CrashOfStopped, ProbeFindsExit, Answered, ClearOwn
<1>15. ASSUME NEW k \in Container, NEW c \in Container, ProbeChangesNothing(k, c)
      PROVE ShakesWithFiled'
  BY <1>15 DEF ProbeChangesNothing, Answered
<1>16. CASE Shutdown
  BY <1>16 DEF Shutdown
<1>17. ASSUME NEW s \in Server, Halt(s) PROVE ShakesWithFiled'
  BY <1>17 DEF Halt, Ends
<1>18. ASSUME NEW s \in Server, Forget(s) PROVE ShakesWithFiled'
  BY <1>18 DEF Forget, Removes, Ends
<1>19. CASE ProcessExit
  BY <1>19 DEF ProcessExit
<1>20. CASE UNCHANGED vars
  BY <1>20 DEF vars
<1>. QED
  BY <1>1, <1>2, <1>3, <1>4, <1>5, <1>6, <1>7, <1>8, <1>9, <1>10, <1>11, <1>12,
     <1>13, <1>14, <1>15, <1>16, <1>17, <1>18, <1>19, <1>20 DEF Next, FlowStep,
     CrashSeen

\* The handshake of an earlier start cannot make a server ready that is restarted.
LEMMA SettledSteps ==
  ASSUME McpAssumption, TypeOK, TypeOK', ReadyIsSettled, RunningIsPrepared,
         ShakesWithFiled, FlowIsSound, FlowOrCheck, WatchesOwn, NothingBefore,
         FiledIsOwn, FoundIsCleared, SeenTwice \subseteq SeenTwice',
         [Next]_vars
  PROVE  ReadyIsSettled'
<1>. USE McpAssumption DEF TypeOK, ReadyIsSettled, RunningIsPrepared,
        ShakesWithFiled, FlowIsSound, FlowOrCheck, WatchesOwn, NothingBefore,
        FiledIsOwn, Started, Prepares, Watches, dockerVars, historyVars,
        watchVars, stateVars, NoFlow, McpAssumption
<1>1. ASSUME NEW k \in Container, Exit(k) PROVE ReadyIsSettled'
  BY <1>1 DEF Exit, Ends
<1>2. ASSUME NEW f \in Flow, NEW s \in Server, StartServer(f, s)
      PROVE ReadyIsSettled'
  BY <1>2 DEF StartServer, At
<1>3. ASSUME NEW f \in Flow, NEW k \in Container, Create(f, k)
      PROVE ReadyIsSettled'
  BY <1>3 DEF Create, At
<1>4. ASSUME NEW f \in Flow, Start(f) PROVE ReadyIsSettled'
  BY <1>4 DEF Start, At, FreeIps
<1>5. ASSUME NEW f \in Flow, Install(f) PROVE ReadyIsSettled'
  BY <1>5 DEF Install, At, Register, StartHealthCheck
<1>6. ASSUME NEW f \in Flow, DockerError(f) PROVE ReadyIsSettled'
  BY <1>6 DEF DockerError, At, Abandon
<1>7. ASSUME NEW f \in Flow, InitSucceeds(f) PROVE ReadyIsSettled'
  BY <1>7 DEF InitSucceeds, At, MakeReady
<1>8. ASSUME NEW f \in Flow, InitFails(f) PROVE ReadyIsSettled'
  BY <1>8 DEF InitFails, At, Abandon
<1>9. ASSUME NEW f \in Flow, Remove(f) PROVE ReadyIsSettled'
  BY <1>9 DEF Remove, At, Removes, Ends
<1>10. ASSUME NEW k \in Container, Tick(k) PROVE ReadyIsSettled'
  BY <1>10 DEF Tick
<1>11. ASSUME NEW k \in Container, TickEnds(k) PROVE ReadyIsSettled'
  BY <1>11 DEF TickEnds
<1>12. ASSUME NEW k \in Container, NEW c \in Container, NEW f \in Flow,
             CrashRestarts(k, c, f)
      PROVE ReadyIsSettled'
  <2>1. k \notin found \/ of[k] \in SeenTwice'
    BY <1>12, SecondAnswer DEF CrashRestarts
  <2>. QED
    BY <1>12, <2>1 DEF CrashRestarts, At, ProbeFindsExit, Answered, ClearOwn,
       MarkCrashed, Unregister
<1>13. ASSUME NEW k \in Container, NEW c \in Container, CrashGivesUp(k, c)
      PROVE ReadyIsSettled'
  <2>1. k \notin found \/ of[k] \in SeenTwice'
    BY <1>13, SecondAnswer DEF CrashGivesUp
  <2>. QED
    BY <1>13, <2>1 DEF CrashGivesUp, ProbeFindsExit, Answered, ClearOwn,
       MarkCrashed
<1>14. ASSUME NEW k \in Container, NEW c \in Container, CrashOfStopped(k, c)
      PROVE ReadyIsSettled'
  <2>1. k \notin found \/ of[k] \in SeenTwice'
    BY <1>14, SecondAnswer DEF CrashOfStopped
  <2>. QED
    BY <1>14, <2>1 DEF CrashOfStopped, ProbeFindsExit, Answered, ClearOwn
<1>15. ASSUME NEW k \in Container, NEW c \in Container, ProbeChangesNothing(k, c)
      PROVE ReadyIsSettled'
  BY <1>15 DEF ProbeChangesNothing, Answered
<1>16. CASE Shutdown
  BY <1>16 DEF Shutdown
<1>17. ASSUME NEW s \in Server, Halt(s) PROVE ReadyIsSettled'
  BY <1>17 DEF Halt, Ends
<1>18. ASSUME NEW s \in Server, Forget(s) PROVE ReadyIsSettled'
  BY <1>18 DEF Forget, Removes, Ends
<1>19. CASE ProcessExit
  BY <1>19 DEF ProcessExit
<1>20. CASE UNCHANGED vars
  BY <1>20 DEF vars
<1>. QED
  BY <1>1, <1>2, <1>3, <1>4, <1>5, <1>6, <1>7, <1>8, <1>9, <1>10, <1>11, <1>12,
     <1>13, <1>14, <1>15, <1>16, <1>17, <1>18, <1>19, <1>20 DEF Next, FlowStep,
     CrashSeen

\* The client of a ready server changes with the container that is filed.
LEMMA ReadySteps ==
  ASSUME McpAssumption, TypeOK, TypeOK', ReadyHasItsContainer, ReadyIsSettled,
         ShakesWithFiled, FlowIsSound, FoundIsCleared, SeenTwice \subseteq
         SeenTwice', [Next]_vars
  PROVE  ReadyHasItsContainer'
<1>. USE McpAssumption DEF TypeOK, ReadyHasItsContainer, ReadyIsSettled,
        ShakesWithFiled, FlowIsSound, Prepares, dockerVars, historyVars,
        watchVars, stateVars, NoFlow, McpAssumption
<1>1. ASSUME NEW k \in Container, Exit(k) PROVE ReadyHasItsContainer'
  BY <1>1 DEF Exit, Ends
<1>2. ASSUME NEW f \in Flow, NEW s \in Server, StartServer(f, s)
      PROVE ReadyHasItsContainer'
  BY <1>2 DEF StartServer, At
<1>3. ASSUME NEW f \in Flow, NEW k \in Container, Create(f, k)
      PROVE ReadyHasItsContainer'
  BY <1>3 DEF Create, At
<1>4. ASSUME NEW f \in Flow, Start(f) PROVE ReadyHasItsContainer'
  BY <1>4 DEF Start, At, FreeIps
<1>5. ASSUME NEW f \in Flow, Install(f) PROVE ReadyHasItsContainer'
  BY <1>5 DEF Install, At, Register, StartHealthCheck
<1>6. ASSUME NEW f \in Flow, DockerError(f) PROVE ReadyHasItsContainer'
  BY <1>6 DEF DockerError, At, Abandon
<1>7. ASSUME NEW f \in Flow, InitSucceeds(f) PROVE ReadyHasItsContainer'
  BY <1>7 DEF InitSucceeds, At, MakeReady
<1>8. ASSUME NEW f \in Flow, InitFails(f) PROVE ReadyHasItsContainer'
  BY <1>8 DEF InitFails, At, Abandon
<1>9. ASSUME NEW f \in Flow, Remove(f) PROVE ReadyHasItsContainer'
  BY <1>9 DEF Remove, At, Removes, Ends
<1>10. ASSUME NEW k \in Container, Tick(k) PROVE ReadyHasItsContainer'
  BY <1>10 DEF Tick
<1>11. ASSUME NEW k \in Container, TickEnds(k) PROVE ReadyHasItsContainer'
  BY <1>11 DEF TickEnds
<1>12. ASSUME NEW k \in Container, NEW c \in Container, NEW f \in Flow,
             CrashRestarts(k, c, f)
      PROVE ReadyHasItsContainer'
  <2>1. k \notin found \/ of[k] \in SeenTwice'
    BY <1>12, SecondAnswer DEF CrashRestarts
  <2>. QED
    BY <1>12, <2>1 DEF CrashRestarts, At, ProbeFindsExit, Answered, ClearOwn,
       MarkCrashed, Unregister
<1>13. ASSUME NEW k \in Container, NEW c \in Container, CrashGivesUp(k, c)
      PROVE ReadyHasItsContainer'
  <2>1. k \notin found \/ of[k] \in SeenTwice'
    BY <1>13, SecondAnswer DEF CrashGivesUp
  <2>. QED
    BY <1>13, <2>1 DEF CrashGivesUp, ProbeFindsExit, Answered, ClearOwn,
       MarkCrashed
<1>14. ASSUME NEW k \in Container, NEW c \in Container, CrashOfStopped(k, c)
      PROVE ReadyHasItsContainer'
  <2>1. k \notin found \/ of[k] \in SeenTwice'
    BY <1>14, SecondAnswer DEF CrashOfStopped
  <2>. QED
    BY <1>14, <2>1 DEF CrashOfStopped, ProbeFindsExit, Answered, ClearOwn
<1>15. ASSUME NEW k \in Container, NEW c \in Container, ProbeChangesNothing(k, c)
      PROVE ReadyHasItsContainer'
  BY <1>15 DEF ProbeChangesNothing, Answered
<1>16. CASE Shutdown
  BY <1>16 DEF Shutdown
<1>17. ASSUME NEW s \in Server, Halt(s) PROVE ReadyHasItsContainer'
  BY <1>17 DEF Halt, Ends
<1>18. ASSUME NEW s \in Server, Forget(s) PROVE ReadyHasItsContainer'
  BY <1>18 DEF Forget, Removes, Ends
<1>19. CASE ProcessExit
  BY <1>19 DEF ProcessExit
<1>20. CASE UNCHANGED vars
  BY <1>20 DEF vars
<1>. QED
  BY <1>1, <1>2, <1>3, <1>4, <1>5, <1>6, <1>7, <1>8, <1>9, <1>10, <1>11, <1>12,
     <1>13, <1>14, <1>15, <1>16, <1>17, <1>18, <1>19, <1>20 DEF Next, FlowStep,
     CrashSeen

\* The proxy forgets the address of a running container only if another one had it.
LEMMA RegisteredSteps ==
  ASSUME McpAssumption, TypeOK, TypeOK', RunningIsRegistered, FiledIsOwn,
         FlowIsSound, CreatedForOne, WatchesOwn, Owned, FoundIsCleared,
         SeenTwice \subseteq SeenTwice', [Next]_vars
  PROVE  RunningIsRegistered'
<1>. USE McpAssumption DEF TypeOK, RunningIsRegistered, FiledIsOwn,
        FlowIsSound, CreatedForOne, WatchesOwn, Owned, Started, Watches,
        Closing, Booting, dockerVars, historyVars, watchVars, stateVars,
        NoFlow, McpAssumption
<1>1. ASSUME NEW k \in Container, Exit(k) PROVE RunningIsRegistered'
  BY <1>1 DEF Exit, Ends
<1>2. ASSUME NEW f \in Flow, NEW s \in Server, StartServer(f, s)
      PROVE RunningIsRegistered'
  BY <1>2 DEF StartServer, At
<1>3. ASSUME NEW f \in Flow, NEW k \in Container, Create(f, k)
      PROVE RunningIsRegistered'
  BY <1>3 DEF Create, At
<1>4. ASSUME NEW f \in Flow, Start(f) PROVE RunningIsRegistered'
  BY <1>4 DEF Start, At, FreeIps
<1>5. ASSUME NEW f \in Flow, Install(f) PROVE RunningIsRegistered'
  BY <1>5 DEF Install, At, Register, StartHealthCheck
<1>6. ASSUME NEW f \in Flow, DockerError(f) PROVE RunningIsRegistered'
  BY <1>6 DEF DockerError, At, Abandon
<1>7. ASSUME NEW f \in Flow, InitSucceeds(f) PROVE RunningIsRegistered'
  BY <1>7 DEF InitSucceeds, At, MakeReady
<1>8. ASSUME NEW f \in Flow, InitFails(f) PROVE RunningIsRegistered'
  BY <1>8 DEF InitFails, At, Abandon
<1>9. ASSUME NEW f \in Flow, Remove(f) PROVE RunningIsRegistered'
  BY <1>9 DEF Remove, At, Removes, Ends
<1>10. ASSUME NEW k \in Container, Tick(k) PROVE RunningIsRegistered'
  BY <1>10 DEF Tick
<1>11. ASSUME NEW k \in Container, TickEnds(k) PROVE RunningIsRegistered'
  BY <1>11 DEF TickEnds
<1>12. ASSUME NEW k \in Container, NEW c \in Container, NEW f \in Flow,
             CrashRestarts(k, c, f)
      PROVE RunningIsRegistered'
  <2>1. k \notin found \/ of[k] \in SeenTwice'
    BY <1>12, SecondAnswer DEF CrashRestarts
  <2>. QED
    BY <1>12, <2>1 DEF CrashRestarts, At, ProbeFindsExit, Answered, ClearOwn,
       MarkCrashed, Unregister
<1>13. ASSUME NEW k \in Container, NEW c \in Container, CrashGivesUp(k, c)
      PROVE RunningIsRegistered'
  <2>1. k \notin found \/ of[k] \in SeenTwice'
    BY <1>13, SecondAnswer DEF CrashGivesUp
  <2>. QED
    BY <1>13, <2>1 DEF CrashGivesUp, ProbeFindsExit, Answered, ClearOwn,
       MarkCrashed
<1>14. ASSUME NEW k \in Container, NEW c \in Container, CrashOfStopped(k, c)
      PROVE RunningIsRegistered'
  <2>1. k \notin found \/ of[k] \in SeenTwice'
    BY <1>14, SecondAnswer DEF CrashOfStopped
  <2>. QED
    BY <1>14, <2>1 DEF CrashOfStopped, ProbeFindsExit, Answered, ClearOwn
<1>15. ASSUME NEW k \in Container, NEW c \in Container, ProbeChangesNothing(k, c)
      PROVE RunningIsRegistered'
  BY <1>15 DEF ProbeChangesNothing, Answered
<1>16. CASE Shutdown
  BY <1>16 DEF Shutdown
<1>17. ASSUME NEW s \in Server, Halt(s) PROVE RunningIsRegistered'
  BY <1>17 DEF Halt, Ends
<1>18. ASSUME NEW s \in Server, Forget(s) PROVE RunningIsRegistered'
  BY <1>18 DEF Forget, Removes, Ends
<1>19. CASE ProcessExit
  BY <1>19 DEF ProcessExit
<1>20. CASE UNCHANGED vars
  BY <1>20 DEF vars
<1>. QED
  BY <1>1, <1>2, <1>3, <1>4, <1>5, <1>6, <1>7, <1>8, <1>9, <1>10, <1>11, <1>12,
     <1>13, <1>14, <1>15, <1>16, <1>17, <1>18, <1>19, <1>20 DEF Next, FlowStep,
     CrashSeen

-----------------------------------------------------------------------------
(* The invariant holds.                                                    *)

\* At the start of the gateway there is nothing.
LEMMA InvHoldsAtFirst == Init => ChainInv /\ ServerInv
<1>. SUFFICES ASSUME Init PROVE ChainInv /\ ServerInv
  OBVIOUS
<1>. USE McpAssumption DEF Init, NoFlow, McpAssumption
<1>1. CreatedForOne
  BY DEF CreatedForOne
<1>2. NothingBefore
  BY DEF NothingBefore
<1>3. FiledIsOwn
  BY DEF FiledIsOwn, Started
<1>4. FlowIsSound
  BY DEF FlowIsSound, Started
<1>17. OwnContainer /\ FoundIsCleared
  BY DEF OwnContainer, FoundIsCleared, Checked, Started
<1>5. WatchesOwn
  BY DEF WatchesOwn, Watches, Started
<1>6. OneFlow
  BY DEF OneFlow, Prepares
<1>7. FlowOrCheck
  BY DEF FlowOrCheck, Prepares, Watches
<1>8. OneCheck
  BY DEF OneCheck, Watches
<1>9. OneContainerPerServer
  BY DEF OneContainerPerServer
<1>10. RunningIsPrepared
  BY DEF RunningIsPrepared, Prepares
<1>11. WatchedIsRunning
  BY DEF WatchedIsRunning, Watches
<1>12. FiledIsWatched
  BY DEF FiledIsWatched
<1>13. ShakesWithFiled
  BY DEF ShakesWithFiled
<1>14. ReadyIsSettled
  BY DEF ReadyIsSettled, Prepares
<1>15. ReadyHasItsContainer
  BY DEF ReadyHasItsContainer
<1>16. RunningIsRegistered
  BY DEF RunningIsRegistered
<1>. QED
  BY <1>1, <1>2, <1>3, <1>4, <1>5, <1>6, <1>7, <1>8, <1>9, <1>10, <1>11, <1>12,
     <1>13, <1>14, <1>15, <1>16, <1>17 DEF ChainInv, ServerInv

\* Every step keeps the invariant, however many inspects are in flight.
LEMMA InvSteps ==
  ASSUME TypeOK, TypeOK', Owned, ChainInv, ServerInv, [Next]_vars
  PROVE  ChainInv' /\ ServerInv'
<1>. USE McpAssumption
<1>0. /\ CreatedForOne /\ NothingBefore /\ FiledIsOwn /\ FlowIsSound
      /\ OwnContainer /\ FoundIsCleared
      /\ WatchesOwn /\ OneFlow /\ FlowOrCheck /\ OneCheck
      /\ OneContainerPerServer /\ RunningIsPrepared /\ WatchedIsRunning
      /\ FiledIsWatched /\ ShakesWithFiled /\ ReadyIsSettled
      /\ ReadyHasItsContainer /\ RunningIsRegistered
  BY DEF ChainInv, ServerInv
<1>1. CreatedForOne'
  BY <1>0, CreatedSteps
<1>2. NothingBefore'
  BY <1>0, NothingSteps
<1>3. FiledIsOwn'
  BY <1>0, FiledSteps
<1>4. FlowIsSound'
  BY <1>0, FlowSteps
<1>17. OwnContainer' /\ FoundIsCleared'
  BY <1>0, OwnContainerSteps, FoundSteps
<1>18. SeenTwice \subseteq SeenTwice'
  BY <1>0, SeenTwiceGrows
<1>5. WatchesOwn'
  BY <1>0, <1>18, WatchSteps
<1>6. OneFlow'
  BY <1>0, <1>18, OneFlowSteps
<1>7. FlowOrCheck'
  BY <1>0, <1>18, FlowOrCheckSteps
<1>8. OneCheck'
  BY <1>0, <1>18, OneCheckSteps
<1>9. OneContainerPerServer'
  BY <1>0, <1>18, OneContainerSteps
<1>10. RunningIsPrepared'
  BY <1>0, <1>18, PreparedSteps
<1>11. WatchedIsRunning'
  BY <1>0, <1>18, WatchedSteps
<1>12. FiledIsWatched'
  BY <1>0, <1>18, FiledWatchedSteps
<1>13. ShakesWithFiled'
  BY <1>0, <1>18, ShakesSteps
<1>14. ReadyIsSettled'
  BY <1>0, <1>18, SettledSteps
<1>15. ReadyHasItsContainer'
  BY <1>0, <1>18, ReadySteps
<1>16. RunningIsRegistered'
  BY <1>0, <1>18, RegisteredSteps
<1>. QED
  BY <1>1, <1>2, <1>3, <1>4, <1>5, <1>6, <1>7, <1>8, <1>9, <1>10, <1>11, <1>12,
     <1>13, <1>14, <1>15, <1>16, <1>17 DEF ChainInv, ServerInv

\* The invariant of the container manager, the proxy and the manager: at most one
\* flow or one health check carries a server forward, however long the inspects
\* of a check take and overlap, until a check sees one crash twice.
THEOREM McpInvariant == Spec => [](ChainInv /\ ServerInv)
<1>1. Init => ChainInv /\ ServerInv
  BY InvHoldsAtFirst
<1>2. TypeOK /\ TypeOK' /\ Owned /\ ChainInv /\ ServerInv /\ [Next]_vars
         => ChainInv' /\ ServerInv'
  BY InvSteps
<1>. QED
  BY <1>1, <1>2, McpTypes, PTL DEF Spec

\* No server ever runs twice, for any number of servers, crashes, restarts,
\* overlapping inspects and answers of Docker, unless one health check saw its
\* crash twice: a restart is begun only by a check that has just cleared itself,
\* for a container that is dead.
THEOREM NoServerRunsTwice == Spec => []OneContainerPerServer
<1>1. ChainInv /\ ServerInv => OneContainerPerServer
  BY DEF ServerInv
<1>. QED
  BY <1>1, McpInvariant, PTL

\* A ready server talks to the container that is filed for it: neither a handshake
\* of an earlier start nor a stop leaves it another one, with the same exception.
THEOREM ReadyServers == Spec => []ReadyHasItsContainer
<1>1. ChainInv /\ ServerInv => ReadyHasItsContainer
  BY DEF ServerInv
<1>. QED
  BY <1>1, McpInvariant, PTL

\* The chain of health checks of a server never breaks before a shutdown, with
\* the same exception.
THEOREM RunningServersAreWatched == Spec => []RunningIsWatched
<1>1. ChainInv /\ ServerInv => RunningIsWatched
  BY DEF ChainInv, ServerInv, FiledIsWatched, FiledIsOwn, RunningIsWatched
<1>2. TypeOK /\ ChainInv /\ ServerInv => RunningIsWatched
  BY <1>1
<1>. QED
  BY <1>2, McpTypes, McpInvariant, PTL

\* The proxy serves a ready server by its own domains unless an address was given
\* twice, with the same exception.
THEOREM ReadyServersAreRegistered == Spec => []OnlyReuseUnregisters
<1>1. ChainInv /\ ServerInv => OnlyReuseUnregisters
  BY DEF ServerInv, ReadyHasItsContainer, RunningIsRegistered, OnlyReuseUnregisters
<1>. QED
  BY <1>1, McpInvariant, PTL

=============================================================================
