----------------------------- MODULE ToolCalls ------------------------------
(***************************************************************************)
(* One run of the tool loop (Orchestrator.runLoop) with what it calls: the *)
(* gate, the services, an MCP server, and the Dispatcher, which gives each *)
(* call of an executor tool a container of its own.  The programs in the   *)
(* containers and the MCP server run by themselves; the domains of the     *)
(* session and the state of the server change while the run awaits.        *)
(*                                                                         *)
(* A call is known by its key, the iteration and its place in the answer   *)
(* of the LLM.  What it does to the world (a file written, a mail sent, a  *)
(* command run) is one effect, in the set "effects" once it has happened.  *)
(* The gate itself is module HitlGate; here it lets a call through or not. *)
(***************************************************************************)
EXTENDS Naturals, Sequences, FiniteSets, SequencesExt

CONSTANTS
    Asked,          \* the tool names the LLM uses
    Target,         \* the pages it asks for: on the user's list or not
    MaxIterations,  \* MAX_ITERATIONS
    MaxCalls,       \* bound on the calls of all answers
    WithUser,       \* runLoop was given a user id
    DockerFails,    \* calls of the Docker API may fail
    MaxChanges      \* bound on changes of the session and the server

ASSUME ToolCallsAssumption ==
    /\ MaxIterations \in Nat \ {0}
    /\ MaxCalls \in Nat
    /\ WithUser \in BOOLEAN
    /\ DockerFails \in BOOLEAN
    /\ MaxChanges \in Nat
    /\ Target \subseteq {"listed", "unlisted"}

VARIABLES
    pc,             \* what the run awaits
    iteration,
    messages,       \* workingMessages from this run
    calls,          \* the tool calls of the last answer
    results,        \* toolResults
    route,          \* the branch of the call at hand
    pending,        \* what execute will return
    consent,        \* keys of calls the gate let through
    effects,
    sent,           \* keys of calls the MCP server was asked for
    box,            \* the container of a call
    said,           \* the result in its standard output
    reaches,        \* keys whose capability lists the page's domain
    trouble,        \* keys for which Docker failed to create or remove
    sessionDomain,  \* the unlisted domain was allowed for the session
    serverReady,    \* the MCP server has status ready
    changes         \* counter for MaxChanges

worldVars == <<effects, sent, box, said, reaches, trouble>>
aroundVars == <<sessionDomain, serverReady, changes>>
vars == <<pc, iteration, messages, calls, results, route, pending, consent,
          worldVars, aroundVars>>

-----------------------------------------------------------------------------
(* Tools.                                                                  *)

FileTools == {"read_file", "write_file", "list_directory", "search_files"}
ExecutorTools == {"run_shell_command"} \cup FileTools
MemoryTools == {"save_memory", "search_memory"}
WebTools == {"browse_web"}
GmailTools == {"search_email", "read_email", "send_email", "reply_email"}
CalendarTools == {"list_events", "create_event", "update_event"}
GithubTools == {"search_repos", "list_issues", "create_issue", "create_pr",
                "read_file_github"}
ServiceTools == GmailTools \cup CalendarTools \cup GithubTools
McpTools == {"mcp_server__tool"}

\* getMcpToolNames: the tools of the servers that are ready now.
McpToolNames == IF serverReady THEN McpTools ELSE {}

\* The tools dispatchToolCall has a container for.
Dispatchable == ExecutorTools \cup WebTools

\* A call of the LLM, which may use any name, offered or not.
Calls ==
    [name : Asked \ WebTools, target : {"none"}]
    \cup [name : Asked \cap WebTools, target : Target]

CallsMade == FoldSeq(LAMBDA m, n : IF m.role = "assistant"
                                   THEN n + Len(m.content) ELSE n, 0, messages)
Answers == {a \in SeqOf(Calls, MaxCalls) : CallsMade + Len(a) <= MaxCalls}

\* What the LLM is told.  A success is "assumed" where the dispatcher had only
\* the exit code 0 to go by; the LLM cannot tell it from an "ok".
Result == {"ok", "assumed", "error", "timeout", "rejected", "unavailable",
           "unknown"}
Key == (1..MaxIterations) \X (1..MaxCalls)
BoxState == {"none", "created", "running", "acted", "reported", "exited",
             "died", "gone"}
DockerLocation == {"create", "start", "wait", "kill", "logs", "remove"}
Location == {"llm", "call", "gate", "domain", "service", "mcp", "done", "failed"}
            \cup DockerLocation

Here == <<iteration, Len(results) + 1>>
AtHand == calls[Len(results) + 1]

Init ==
    /\ pc = "llm"
    /\ iteration = 1
    /\ messages = <<>>
    /\ calls = <<>>
    /\ results = <<>>
    /\ route = "none"
    /\ pending = "none"
    /\ consent = {} /\ effects = {} /\ sent = {}
    /\ box = [k \in Key |-> "none"]
    /\ said = [k \in Key |-> "nothing"]
    /\ reaches = {} /\ trouble = {}
    /\ sessionDomain \in BOOLEAN
    /\ serverReady \in BOOLEAN
    /\ changes = 0

-----------------------------------------------------------------------------
(* The LLM.                                                                *)

\* The answer has stop reason tool_use.
LlmCalls ==
    /\ pc = "llm"
    /\ calls' \in Answers
    /\ messages' = Append(messages, [role |-> "assistant", content |-> calls'])
    /\ results' = <<>>
    /\ pc' = "call"
    /\ UNCHANGED <<iteration, route, pending, consent, worldVars, aroundVars>>

\* Any other stop reason: the final text.
LlmEnds ==
    /\ pc = "llm"
    /\ messages' = Append(messages, [role |-> "assistant", content |-> <<>>])
    /\ pc' = "done"
    /\ UNCHANGED <<iteration, calls, results, route, pending, consent,
                   worldVars, aroundVars>>

\* Variant of EndRound: the iterations are not bounded.
EndRoundUnbounded ==
    /\ pc = "call"
    /\ Len(results) = Len(calls)
    /\ messages' = Append(messages, [role |-> "tool_results",
                                     content |-> results])
    /\ iteration' = iteration + 1
    /\ pc' = "llm"
    /\ calls' = <<>>
    /\ results' = <<>>
    /\ UNCHANGED <<route, pending, consent, worldVars, aroundVars>>

\* The results go into the history, and the LLM is asked again unless that
\* was the last iteration.
EndRound ==
    /\ pc = "call"
    /\ Len(results) = Len(calls)
    /\ messages' = Append(messages, [role |-> "tool_results",
                                     content |-> results])
    /\ IF iteration < MaxIterations
       THEN iteration' = iteration + 1 /\ pc' = "llm"
       ELSE iteration' = iteration /\ pc' = "done"
    /\ calls' = <<>>
    /\ results' = <<>>
    /\ UNCHANGED <<route, pending, consent, worldVars, aroundVars>>

\* The next call to process is one of these tools.
NextIsOneOf(names) ==
    /\ pc = "call"
    /\ Len(results) < Len(calls)
    /\ AtHand.name \in names

\* An exception leaves runLoop: of the provider, of the database behind the
\* memory or the gate, of the dispatcher before its try.
RunThrows ==
    /\ pc \in {"llm", "gate", "domain"} \/ NextIsOneOf(MemoryTools)
    /\ pc' = "failed"
    /\ UNCHANGED <<iteration, messages, calls, results, route, pending,
                   consent, worldVars, aroundVars>>

-----------------------------------------------------------------------------
(* A tool call up to its first await.                                      *)

\* The result of the call at hand; on to the next one.
Push(result) ==
    /\ results' = Append(results, result)
    /\ pc' = "call"

\* Memory tools are handled at once and without the gate.
CallMemory ==
    /\ NextIsOneOf(MemoryTools)
    /\ \E result \in {"ok", "error"} :
          /\ Push(result)
          /\ effects' = IF result = "ok" THEN effects \cup {Here} ELSE effects
    /\ UNCHANGED <<iteration, messages, calls, route, pending, consent, sent,
                   box, said, reaches, trouble, aroundVars>>

\* Variant of CallGate: a service is called without the gate.
CallServiceAtOnce ==
    /\ pc = "call"
    /\ Len(results) < Len(calls)
    /\ AtHand.name \notin MemoryTools
    /\ route' = IF AtHand.name \in ServiceTools THEN "service"
                ELSE IF AtHand.name \in McpToolNames THEN "mcp"
                ELSE "executor"
    /\ pc' = IF route' = "service" THEN "service" ELSE "gate"
    /\ UNCHANGED <<iteration, messages, calls, results, pending, consent,
                   worldVars, aroundVars>>

\* Every other call asks the gate, on a branch that is chosen now.
CallGate ==
    /\ pc = "call"
    /\ Len(results) < Len(calls)
    /\ AtHand.name \notin MemoryTools
    /\ route' = IF AtHand.name \in ServiceTools THEN "service"
                ELSE IF AtHand.name \in McpToolNames THEN "mcp"
                ELSE "executor"
    /\ pc' = "gate"
    /\ UNCHANGED <<iteration, messages, calls, results, pending, consent,
                   worldVars, aroundVars>>

-----------------------------------------------------------------------------
(* After the gate.                                                         *)

GateRefuses ==
    /\ pc = "gate"
    /\ Push("rejected")
    /\ UNCHANGED <<iteration, messages, calls, route, pending, consent,
                   worldVars, aroundVars>>

GateLetsService ==
    /\ pc = "gate"
    /\ route = "service"
    /\ consent' = consent \cup {Here}
    /\ pc' = "service"
    /\ UNCHANGED <<iteration, messages, calls, results, route, pending,
                   worldVars, aroundVars>>

\* McpManager.callTool: the server may be gone by now.
GateLetsMcp ==
    /\ pc = "gate"
    /\ route = "mcp"
    /\ consent' = consent \cup {Here}
    /\ IF serverReady
       THEN pc' = "mcp" /\ sent' = sent \cup {Here} /\ results' = results
       ELSE Push("unavailable") /\ sent' = sent
    /\ UNCHANGED <<iteration, messages, calls, route, pending, effects, box,
                   said, reaches, trouble, aroundVars>>

\* dispatchToolCall up to createContainer.  The capability of a web executor
\* lists what is allowed at this moment.
Dispatch ==
    IF AtHand.name \in Dispatchable
    THEN /\ pc' = "create"
         /\ reaches' = IF \/ AtHand.target = "listed"
                          \/ /\ AtHand.target = "unlisted"
                             /\ WithUser /\ sessionDomain'
                       THEN reaches \cup {Here} ELSE reaches
         /\ results' = results
    ELSE /\ Push("unknown")
         /\ reaches' = reaches

\* handleDomainPreFlight asks again for a domain that is not allowed yet.
MustAskForDomain ==
    /\ AtHand.name \in WebTools
    /\ WithUser
    /\ AtHand.target = "unlisted"
    /\ ~sessionDomain

GateLetsExecutor ==
    /\ pc = "gate"
    /\ route = "executor"
    /\ consent' = consent \cup {Here}
    /\ sessionDomain' = sessionDomain
    /\ IF MustAskForDomain
       THEN pc' = "domain" /\ UNCHANGED <<results, reaches>>
       ELSE Dispatch
    /\ UNCHANGED <<iteration, messages, calls, route, pending, effects, sent,
                   box, said, trouble, serverReady, changes>>

DomainApproved ==
    /\ pc = "domain"
    /\ sessionDomain' = TRUE
    /\ Dispatch
    /\ UNCHANGED <<iteration, messages, calls, route, pending, consent,
                   effects, sent, box, said, trouble, serverReady, changes>>

DomainRefused ==
    /\ pc = "domain"
    /\ Push("rejected")
    /\ UNCHANGED <<iteration, messages, calls, route, pending, consent,
                   worldVars, aroundVars>>

-----------------------------------------------------------------------------
(* Services and the MCP server.                                            *)

\* A service answers, or throws, also after the request was carried out.
ServiceReturns ==
    /\ pc = "service"
    /\ \E result \in {"ok", "error"}, acted \in BOOLEAN :
          /\ result = "ok" => acted
          /\ Push(result)
          /\ effects' = IF acted THEN effects \cup {Here} ELSE effects
    /\ UNCHANGED <<iteration, messages, calls, route, pending, consent, sent,
                   box, said, reaches, trouble, aroundVars>>

\* External: the server does what it was asked for, also after the timeout.
ServerActs(k) ==
    /\ k \in sent \ effects
    /\ effects' = effects \cup {k}
    /\ UNCHANGED <<pc, iteration, messages, calls, results, route, pending,
                   consent, sent, box, said, reaches, trouble, aroundVars>>

\* The result of the server, an error, or the timeout of McpClient.callTool.
McpReturns ==
    /\ pc = "mcp"
    /\ \E result \in {"ok", "error"} :
          /\ result = "ok" => Here \in effects
          /\ Push(result)
    /\ UNCHANGED <<iteration, messages, calls, route, pending, consent,
                   worldVars, aroundVars>>

-----------------------------------------------------------------------------
(* Dispatcher.execute.  Each call of the Docker API returns or fails.      *)

\* On to location loc with the container of the call in state b.
Docker(loc, b) ==
    /\ pc' = loc
    /\ box' = [box EXCEPT ![Here] = b]
    /\ UNCHANGED <<iteration, messages, calls, results, route, consent,
                   effects, sent, said, reaches, aroundVars>>

Created ==
    /\ pc = "create"
    /\ Docker("start", "created")
    /\ UNCHANGED <<pending, trouble>>

\* Without a container there is nothing to remove, although Docker may have
\* made one.
NotCreated ==
    /\ DockerFails
    /\ pc = "create"
    /\ Push("error")
    /\ \E b \in {"none", "created"} :
          /\ box' = [box EXCEPT ![Here] = b]
          /\ trouble' = IF b = "none" THEN trouble ELSE trouble \cup {Here}
    /\ UNCHANGED <<iteration, messages, calls, route, pending, consent,
                   effects, sent, said, reaches, aroundVars>>

Started ==
    /\ pc = "start"
    /\ Docker("wait", "running")
    /\ UNCHANGED <<pending, trouble>>

NotStarted ==
    /\ DockerFails
    /\ pc = "start"
    /\ \E b \in {"created", "running"} : Docker("remove", b)
    /\ pending' = "error"
    /\ UNCHANGED trouble

\* waitWithTimeout: the container exited ...
WaitReturns ==
    /\ pc = "wait"
    /\ box[Here] \in {"exited", "died"}
    /\ Docker("logs", box[Here])
    /\ UNCHANGED <<pending, trouble>>

\* Variant of TimerFires: there is no timer.
NoTimer ==
    /\ pc = "wait"
    /\ box[Here] \in {"exited", "died"}
    /\ Docker("logs", box[Here])
    /\ UNCHANGED <<pending, trouble>>

\* ... or the timer fires ...
TimerFires ==
    /\ pc = "wait"
    /\ Docker("kill", box[Here])
    /\ UNCHANGED <<pending, trouble>>

\* ... or wait() is rejected, which counts as a timeout.
WaitFails ==
    /\ DockerFails
    /\ TimerFires

\* Variant of Killed: a timeout is returned at once.
KilledOnly ==
    /\ pc = "kill"
    /\ Push("timeout")
    /\ box' = [box EXCEPT ![Here] = "died"]
    /\ UNCHANGED <<iteration, messages, calls, route, pending, consent,
                   effects, sent, said, reaches, trouble, aroundVars>>

\* kill() stops the program, if it still runs; its failure is ignored.
Killed ==
    /\ pc = "kill"
    /\ \/ Docker("remove", "died")
       \/ DockerFails /\ Docker("remove", box[Here])
    /\ pending' = "timeout"
    /\ UNCHANGED trouble

\* Variant of LogsRead: the exit code is all that counts, and programs that
\* refuse exit with code 0.
LogsIgnored ==
    /\ pc = "logs"
    /\ Docker("remove", box[Here])
    /\ pending' = IF box[Here] = "exited" THEN "ok" ELSE "error"
    /\ UNCHANGED trouble

\* parseExecutorResult: success is what the program said itself.  Without a
\* result of its own in the logs it is the exit code 0; demuxDockerLogs drops
\* a frame that is not whole.
LogsRead ==
    /\ pc = "logs"
    /\ Docker("remove", box[Here])
    /\ \E logged \in {said[Here]} \cup IF DockerFails THEN {"nothing"} ELSE {} :
          pending' = CASE logged = "success" -> "ok"
                       [] logged = "failure" -> "error"
                       [] logged = "nothing" ->
                             IF box[Here] = "exited" THEN "assumed" ELSE "error"
    /\ UNCHANGED trouble

LogsFail ==
    /\ DockerFails
    /\ pc = "logs"
    /\ Docker("remove", box[Here])
    /\ pending' = "error"
    /\ UNCHANGED trouble

\* The finally block: removed by force, with its logs, then the result is
\* returned.
Removed ==
    /\ pc = "remove"
    /\ Push(pending)
    /\ pending' = "none"
    /\ \/ /\ box' = [box EXCEPT ![Here] = "gone"]
          /\ said' = [said EXCEPT ![Here] = "nothing"]
          /\ UNCHANGED trouble
       \/ /\ DockerFails
          /\ UNCHANGED <<box, said>>
          /\ trouble' = trouble \cup {Here}
    /\ UNCHANGED <<iteration, messages, calls, route, consent, effects, sent,
                   reaches, aroundVars>>

-----------------------------------------------------------------------------
(* The program in a container; its call may have been given up.            *)

CallAt(k) == messages[2 * k[1] - 1].content[k[2]]

Program(k, from, to) ==
    /\ box[k] = from
    /\ box' = [box EXCEPT ![k] = to]
    /\ UNCHANGED <<pc, iteration, messages, calls, results, route, pending,
                   consent, sent, reaches, trouble, aroundVars>>

\* There is a container for call k, of one of these tools.
Runs(k, names) == box[k] \notin {"none", "gone"} /\ CallAt(k).name \in names

Acts(k) ==
    /\ Program(k, "running", "acted")
    /\ effects' = effects \cup {k}
    /\ UNCHANGED said

Refuses(k) ==
    /\ Program(k, "running", "reported")
    /\ said' = [said EXCEPT ![k] = "failure"]
    /\ UNCHANGED effects

Reports(k, what) ==
    /\ Program(k, "acted", "reported")
    /\ said' = [said EXCEPT ![k] = what]
    /\ UNCHANGED effects

\* executor-file: the path is in a mount, and the operation is carried out.
\* It is more than one call of the file system (mkdirSync, writeFileSync), and
\* a later one may throw.
FileActs(k) == Runs(k, FileTools) /\ Acts(k)
FileRefuses(k) == Runs(k, FileTools) /\ Refuses(k)
FileReports(k) ==
    /\ Runs(k, FileTools)
    /\ \E what \in {"success", "failure"} : Reports(k, what)

\* executor-shell: success is the exit code 0 of a command that may have
\* done anything before it failed, ran out of time or wrote too much.
ShellActs(k) == Runs(k, {"run_shell_command"}) /\ Acts(k)
ShellRefuses(k) == Runs(k, {"run_shell_command"}) /\ Refuses(k)
ShellReports(k) ==
    /\ Runs(k, {"run_shell_command"})
    /\ \E what \in {"success", "failure"} : Reports(k, what)

\* executor-web: no page is opened outside the domains of the capability.
\* Reading the page may fail after it was opened.
WebActs(k) ==
    /\ Runs(k, WebTools)
    /\ CallAt(k).target = "unlisted" => k \in reaches
    /\ Acts(k)
WebRefuses(k) == Runs(k, WebTools) /\ Refuses(k)
WebReports(k) ==
    /\ Runs(k, WebTools)
    /\ \E what \in {"success", "failure"} : Reports(k, what)

\* It ends by itself after it reported, with exit code 0 whatever it said.
ProgramEnds(k) ==
    /\ Program(k, "reported", "exited")
    /\ UNCHANGED <<effects, said>>

\* It crashes or the kernel ends it before it reported: another exit code.
\* After its report that would only be one more "error" if the logs are lost,
\* which LogsFail has.
ProgramDies(k) ==
    /\ \E from \in {"running", "acted"} : Program(k, from, "died")
    /\ UNCHANGED <<effects, said>>

-----------------------------------------------------------------------------
(* What changes while the run awaits.                                      *)

SessionExpires ==
    /\ changes < MaxChanges
    /\ changes' = changes + 1
    /\ sessionDomain
    /\ sessionDomain' = FALSE
    /\ UNCHANGED <<pc, iteration, messages, calls, results, route, pending,
                   consent, worldVars, serverReady>>

ServerChanges ==
    /\ changes < MaxChanges
    /\ changes' = changes + 1
    /\ serverReady' = ~serverReady
    /\ UNCHANGED <<pc, iteration, messages, calls, results, route, pending,
                   consent, worldVars, sessionDomain>>

-----------------------------------------------------------------------------
RunStep ==
    \/ LlmCalls \/ LlmEnds \/ EndRound \/ RunThrows
    \/ CallMemory \/ CallGate
    \/ GateRefuses \/ GateLetsService \/ GateLetsMcp \/ GateLetsExecutor
    \/ DomainApproved \/ DomainRefused
    \/ ServiceReturns \/ McpReturns
    \/ Created \/ NotCreated \/ Started \/ NotStarted
    \/ WaitReturns \/ TimerFires \/ WaitFails
    \/ Killed \/ LogsRead \/ LogsFail \/ Removed

Next ==
    \/ RunStep
    \/ \E k \in sent : ServerActs(k)
    \/ \E k \in Key : \/ FileActs(k) \/ FileRefuses(k) \/ FileReports(k)
                      \/ ShellActs(k) \/ ShellRefuses(k) \/ ShellReports(k)
                      \/ WebActs(k) \/ WebRefuses(k) \/ WebReports(k)
                      \/ ProgramEnds(k) \/ ProgramDies(k)
    \/ SessionExpires
    \/ ServerChanges

Spec == Init /\ [][Next]_vars

\* What the run awaits comes: the LLM and the services answer or fail, the
\* gate has its timer (module HitlGate), McpClient and waitWithTimeout have
\* theirs, Docker answers.  The programs and the MCP server owe nothing.
FairSpec == Spec /\ WF_vars(RunStep)

-----------------------------------------------------------------------------
(* Properties.                                                             *)

\* Type invariant: where the run is, its working lists, and the containers.
TypeOK ==
    /\ pc \in Location
    /\ iteration \in 1..MaxIterations
    /\ Len(results) <= Len(calls) /\ Len(calls) <= MaxCalls
    /\ \A i \in 1..Len(results) : results[i] \in Result
    /\ route \in {"none", "service", "mcp", "executor"}
    /\ pending \in Result \cup {"none"}
    /\ consent \cup effects \cup sent \cup reaches \cup trouble \subseteq Key
    /\ box \in [Key -> BoxState]
    /\ said \in [Key -> {"nothing", "success", "failure"}]
    /\ sessionDomain \in BOOLEAN /\ serverReady \in BOOLEAN
    /\ changes \in 0..MaxChanges

\* Nothing but memory is touched, then or later, by a call the gate did not
\* let through (Orchestrator.runLoop).  The exception is what the code does,
\* against the README: see EveryEffectHasConsent.
ConsentComesFirst ==
    \A k \in effects : CallAt(k).name \in MemoryTools \/ k \in consent

\* Every tool is "routed through the HITL gate", the memory tools among them
\* (README.md, Available Tools): nothing is touched by a call it did not let
\* through.  Orchestrator.runLoop handles save_memory and search_memory before
\* the gate.
EveryEffectHasConsent == effects \subseteq consent

\* The result the LLM reads for a call tells what the call did: each call of
\* an answer has its own result in the same place, a success stands for an
\* effect unless it was only assumed, and a call that was rejected, unknown or
\* unavailable has none, not even one that comes after the result.
TellsEffect(result, k) ==
    /\ result = "ok" => k \in effects
    /\ result \in {"rejected", "unavailable", "unknown"} => k \notin effects

ResultsTellEffects ==
    \A n \in 1..Len(messages) :
       messages[n].role = "tool_results" =>
          /\ Len(messages[n].content) = Len(messages[n - 1].content)
          /\ \A i \in 1..Len(messages[n].content) :
                TellsEffect(messages[n].content[i], <<n \div 2, i>>)

\* A container outlives its call only if Docker failed to create or remove
\* it: whatever else fails, times out or throws, it is removed first.
ContainersAreRemoved ==
    \A k \in Key :
       \/ box[k] \in {"none", "gone"}
       \/ k \in trouble
       \/ k = Here /\ pc \in DockerLocation

\* Every run returns or throws, however long its programs run.
EveryRunReturns == <>(pc \in {"done", "failed"})

=============================================================================
