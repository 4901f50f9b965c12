--------------------------- MODULE ToolCallsProofs ---------------------------
(***************************************************************************)
(* Proofs about the tool loop, for any tools, any number of calls and      *)
(* iterations, and any changes meanwhile.                                  *)
(***************************************************************************)
EXTENDS ToolCalls, SequenceTheorems, TLAPS

\* The run has an answer of the LLM in hand, or a call of it.
Working == {"call", "gate", "domain", "service", "mcp"} \cup DockerLocation

\* What awaits with the call at hand having been let through.
LetThrough == {"service", "mcp", "domain"} \cup DockerLocation

Message == [role : {"assistant"}, content : Seq(Calls)]
           \cup [role : {"tool_results"}, content : Seq(Result)]

RoleAt(n) == IF n % 2 = 1 THEN "assistant" ELSE "tool_results"

\* The history of the run: answers at odd places, their results at even
\* ones, the answer in hand at the end.
HistoryInv ==
    /\ calls \in Seq(Calls)
    /\ results \in Seq(Result)
    /\ messages \in Seq(Message)
    /\ \A n \in 1..Len(messages) : messages[n].role = RoleAt(n)
    /\ Len(messages) <= 2 * iteration
    /\ pc = "llm" => Len(messages) = 2 * iteration - 2 /\ Len(results) = 0
    /\ pc \in Working => /\ Len(messages) = 2 * iteration - 1
                         /\ calls = messages[2 * iteration - 1].content
    /\ pc \in Working \ {"call"} => Len(results) < Len(calls)
    /\ pc = "remove" => pending \in {"ok", "assumed", "error", "timeout"}

\* k is the key of a call the LLM has made.
Made(k) ==
    /\ 2 * k[1] - 1 <= Len(messages)
    /\ k[2] <= Len(messages[2 * k[1] - 1].content)

\* Who may act was let through, and who acted was asked for.
ConsentInv ==
    /\ pc \in LetThrough => Here \in consent
    /\ sent \subseteq consent
    /\ \A k \in Key : box[k] # "none" => k \in consent
    /\ \A k \in consent \cup effects : Made(k)
    /\ ConsentComesFirst

LEMMA AnswersType == Answers \subseteq {a \in Seq(Calls) : Len(a) <= MaxCalls}
<1>1. SeqOf(Calls, MaxCalls) \subseteq {a \in Seq(Calls) : Len(a) <= MaxCalls}
  BY ToolCallsAssumption DEF SeqOf
<1>. QED
  BY <1>1 DEF Answers

LEMMA HereInKey ==
    ASSUME TypeOK, HistoryInv, Len(results) < Len(calls)
    PROVE  Here \in Key
BY ToolCallsAssumption DEF TypeOK, HistoryInv, Here, Key

-----------------------------------------------------------------------------
LEMMA TypeInit == Init => TypeOK
BY ToolCallsAssumption DEF Init, TypeOK, Location, BoxState

LEMMA HistoryInit == Init => HistoryInv
BY DEF Init, HistoryInv, Working, DockerLocation

LEMMA ConsentInit == Init => ConsentInv
BY DEF Init, ConsentInv, ConsentComesFirst, LetThrough, DockerLocation

LEMMA TypeNext == TypeOK /\ HistoryInv /\ [Next]_vars => TypeOK'
<1>. SUFFICES ASSUME TypeOK, HistoryInv, [Next]_vars PROVE TypeOK'
  OBVIOUS
<1>. USE ToolCallsAssumption DEF BoxState
<1>t. /\ results \in Seq(Result) /\ calls \in Seq(Calls)
      /\ pc \in Working \ {"call"} => Len(results) < Len(calls)
      /\ pc = "remove" => pending \in {"ok", "assumed", "error", "timeout"}
  BY DEF HistoryInv
<1>h. Len(results) < Len(calls) => Here \in Key
  BY HereInKey
<1>1. CASE LlmCalls
  BY <1>t, <1>h, <1>1, AnswersType DEF TypeOK, worldVars, aroundVars, Location,
     Result, DockerLocation, Working, LlmCalls
<1>2. CASE LlmEnds
  BY <1>t, <1>h, <1>2 DEF TypeOK, worldVars, aroundVars, Location, Result,
     DockerLocation, Working, LlmEnds
<1>3. CASE EndRound
  BY <1>t, <1>h, <1>3 DEF TypeOK, worldVars, aroundVars, Location, Result,
     DockerLocation, Working, EndRound
<1>4. CASE RunThrows
  BY <1>t, <1>h, <1>4 DEF TypeOK, worldVars, aroundVars, Location, Result,
     DockerLocation, Working, RunThrows
<1>5. CASE CallMemory
  BY <1>t, <1>h, <1>5 DEF TypeOK, worldVars, aroundVars, Location, Result,
     DockerLocation, Working, CallMemory, NextIsOneOf, Push
<1>6. CASE CallGate
  BY <1>t, <1>h, <1>6 DEF TypeOK, worldVars, aroundVars, Location, Result,
     DockerLocation, Working, CallGate
<1>7. CASE GateRefuses
  BY <1>t, <1>h, <1>7 DEF TypeOK, worldVars, aroundVars, Location, Result,
     DockerLocation, Working, GateRefuses, Push
<1>8. CASE GateLetsService
  <2>1. Here \in Key
    BY <1>t, <1>h, <1>8 DEF GateLetsService, Working
  <2>2. /\ Len(results') <= Len(calls') /\ Len(calls') <= MaxCalls
        /\ \A i \in 1..Len(results') : results'[i] \in Result
    BY <1>t, <1>8 DEF TypeOK, GateLetsService, Working, Result
  <2>3. sessionDomain' \in BOOLEAN /\ serverReady' \in BOOLEAN
    BY <1>8 DEF TypeOK, GateLetsService, aroundVars
  <2>4. (consent \cup effects \cup sent \cup reaches \cup trouble)' \subseteq Key
    BY <2>1, <1>8 DEF TypeOK, GateLetsService, worldVars
  <2>5. pc' \in Location /\ changes' \in 0..MaxChanges
    BY <1>8 DEF TypeOK, GateLetsService, aroundVars, Location, DockerLocation
  <2>. QED
    BY <2>2, <2>3, <2>4, <2>5, <1>8 DEF TypeOK, GateLetsService, worldVars,
       aroundVars
<1>9. CASE GateLetsMcp
  <2>1. Here \in Key
    BY <1>t, <1>h, <1>9 DEF GateLetsMcp, Working
  <2>2. /\ Len(results') <= Len(calls') /\ Len(calls') <= MaxCalls
        /\ \A i \in 1..Len(results') : results'[i] \in Result
    BY <1>t, <1>9 DEF TypeOK, GateLetsMcp, Push, Working, Result
  <2>3. sessionDomain' \in BOOLEAN /\ serverReady' \in BOOLEAN
    BY <1>9 DEF TypeOK, GateLetsMcp, aroundVars
  <2>4. (consent \cup effects \cup sent \cup reaches \cup trouble)' \subseteq Key
    BY <2>1, <1>9 DEF TypeOK, GateLetsMcp, worldVars, Push
  <2>5. pc' \in Location /\ changes' \in 0..MaxChanges
    BY <1>9 DEF TypeOK, GateLetsMcp, aroundVars, Push, Location, DockerLocation
  <2>. QED
    BY <2>2, <2>3, <2>4, <2>5, <1>9 DEF TypeOK, GateLetsMcp, worldVars, aroundVars
<1>10. CASE GateLetsExecutor
  <2>1. Here \in Key
    BY <1>t, <1>h, <1>10 DEF GateLetsExecutor, Working
  <2>2. /\ Len(results') <= Len(calls') /\ Len(calls') <= MaxCalls
        /\ \A i \in 1..Len(results') : results'[i] \in Result
    BY <1>t, <1>10 DEF TypeOK, GateLetsExecutor, Dispatch, Push, Working, Result
  <2>3. sessionDomain' \in BOOLEAN /\ serverReady' \in BOOLEAN
    BY <1>10 DEF TypeOK, GateLetsExecutor, aroundVars
  <2>4. (consent \cup effects \cup sent \cup reaches \cup trouble)' \subseteq Key
    BY <2>1, <1>10 DEF TypeOK, GateLetsExecutor, worldVars, Dispatch, Push
  <2>5. pc' \in Location /\ changes' \in 0..MaxChanges
    BY <1>10 DEF TypeOK, GateLetsExecutor, aroundVars, Dispatch, Push, Location,
       DockerLocation
  <2>. QED
    BY <2>2, <2>3, <2>4, <2>5, <1>10 DEF TypeOK, GateLetsExecutor, worldVars,
       aroundVars
<1>11. CASE DomainApproved
  <2>1. Here \in Key
    BY <1>t, <1>h, <1>11 DEF DomainApproved, Working
  <2>2. /\ Len(results') <= Len(calls') /\ Len(calls') <= MaxCalls
        /\ \A i \in 1..Len(results') : results'[i] \in Result
    BY <1>t, <1>11 DEF TypeOK, DomainApproved, Dispatch, Push, Working, Result
  <2>3. sessionDomain' \in BOOLEAN /\ serverReady' \in BOOLEAN
    BY <1>11 DEF TypeOK, DomainApproved, aroundVars
  <2>4. (consent \cup effects \cup sent \cup reaches \cup trouble)' \subseteq Key
    BY <2>1, <1>11 DEF TypeOK, DomainApproved, worldVars, Dispatch, Push
  <2>5. pc' \in Location /\ changes' \in 0..MaxChanges
    BY <1>11 DEF TypeOK, DomainApproved, aroundVars, Dispatch, Push, Location,
       DockerLocation
  <2>. QED
    BY <2>2, <2>3, <2>4, <2>5, <1>11 DEF TypeOK, DomainApproved, worldVars,
       aroundVars
<1>12. CASE DomainRefused
  BY <1>t, <1>h, <1>12 DEF TypeOK, worldVars, aroundVars, Location, Result,
     DockerLocation, Working, DomainRefused, Push
<1>13. CASE ServiceReturns
  BY <1>t, <1>h, <1>13 DEF TypeOK, worldVars, aroundVars, Location, Result,
     DockerLocation, Working, ServiceReturns, Push
<1>14. CASE McpReturns
  BY <1>t, <1>h, <1>14 DEF TypeOK, worldVars, aroundVars, Location, Result,
     DockerLocation, Working, McpReturns, Push
<1>15. CASE Created
  BY <1>t, <1>h, <1>15 DEF TypeOK, worldVars, aroundVars, Location, Result,
     DockerLocation, Working, Created, Docker
<1>16. CASE NotCreated
  BY <1>t, <1>h, <1>16 DEF TypeOK, worldVars, aroundVars, Location, Result,
     DockerLocation, Working, NotCreated, Push
<1>17. CASE Started
  BY <1>t, <1>h, <1>17 DEF TypeOK, worldVars, aroundVars, Location, Result,
     DockerLocation, Working, Started, Docker
<1>18. CASE NotStarted
  BY <1>t, <1>h, <1>18 DEF TypeOK, worldVars, aroundVars, Location, Result,
     DockerLocation, Working, NotStarted, Docker
<1>19. CASE WaitReturns
  BY <1>t, <1>h, <1>19 DEF TypeOK, worldVars, aroundVars, Location, Result,
     DockerLocation, Working, WaitReturns, Docker
<1>20. CASE TimerFires
  BY <1>t, <1>h, <1>20 DEF TypeOK, worldVars, aroundVars, Location, Result,
     DockerLocation, Working, TimerFires, Docker
<1>21. CASE WaitFails
  BY <1>t, <1>h, <1>21 DEF TypeOK, worldVars, aroundVars, Location, Result,
     DockerLocation, Working, WaitFails, TimerFires, Docker
<1>22. CASE Killed
  BY <1>t, <1>h, <1>22 DEF TypeOK, worldVars, aroundVars, Location, Result,
     DockerLocation, Working, Killed, Docker
<1>23. CASE LogsRead
  BY <1>t, <1>h, <1>23 DEF TypeOK, worldVars, aroundVars, Location, Result,
     DockerLocation, Working, LogsRead, Docker
<1>24. CASE LogsFail
  BY <1>t, <1>h, <1>24 DEF TypeOK, worldVars, aroundVars, Location, Result,
     DockerLocation, Working, LogsFail, Docker
<1>25. CASE Removed
  BY <1>t, <1>h, <1>25 DEF TypeOK, worldVars, aroundVars, Location, Result,
     DockerLocation, Working, Removed, Push
<1>26. CASE \E k \in sent : ServerActs(k)
  BY <1>26 DEF TypeOK, ServerActs, aroundVars
<1>27. ASSUME NEW k \in Key,
              \/ FileActs(k) \/ FileRefuses(k) \/ FileReports(k)
              \/ ShellActs(k) \/ ShellRefuses(k) \/ ShellReports(k)
              \/ WebActs(k) \/ WebRefuses(k) \/ WebReports(k)
              \/ ProgramEnds(k) \/ ProgramDies(k)
       PROVE  TypeOK'
  BY <1>27 DEF TypeOK, FileActs, FileRefuses, FileReports, ShellActs, ShellRefuses,
     ShellReports, WebActs, WebRefuses, WebReports, ProgramEnds, ProgramDies,
     Acts, Refuses, Reports, Program, aroundVars
<1>28. CASE SessionExpires \/ ServerChanges
  <2>1. sessionDomain' \in BOOLEAN /\ serverReady' \in BOOLEAN
    BY <1>28, Zenon DEF TypeOK, SessionExpires, ServerChanges
  <2>. QED
    BY <2>1, <1>28 DEF TypeOK, SessionExpires, ServerChanges, worldVars
<1>29. CASE UNCHANGED vars
  BY <1>29 DEF TypeOK, vars, worldVars, aroundVars
<1>. QED
  BY <1>1, <1>2, <1>3, <1>4, <1>5, <1>6, <1>7, <1>8, <1>9, <1>10, <1>11, <1>12,
     <1>13,
     <1>14, <1>15, <1>16, <1>17, <1>18, <1>19, <1>20, <1>21, <1>22, <1>23, <1>24, <1>25,
     <1>26, <1>27, <1>28, <1>29 DEF Next, RunStep

-----------------------------------------------------------------------------
(* The three kinds of steps: those with the LLM, those of the call at hand,*)
(* and those of the world around the run.                                  *)

LlmStep == LlmCalls \/ LlmEnds \/ EndRound \/ RunThrows

CallStep ==
    \/ CallMemory \/ CallGate
    \/ GateRefuses \/ GateLetsService \/ GateLetsMcp \/ GateLetsExecutor
    \/ DomainApproved \/ DomainRefused
    \/ ServiceReturns \/ McpReturns
    \/ Created \/ NotCreated \/ Started \/ NotStarted
    \/ WaitReturns \/ TimerFires \/ WaitFails
    \/ Killed \/ LogsRead \/ LogsFail \/ Removed

ProgramStep(k) ==
    \/ FileActs(k) \/ FileRefuses(k) \/ FileReports(k)
    \/ ShellActs(k) \/ ShellRefuses(k) \/ ShellReports(k)
    \/ WebActs(k) \/ WebRefuses(k) \/ WebReports(k)
    \/ ProgramEnds(k) \/ ProgramDies(k)

AroundStep == SessionExpires \/ ServerChanges \/ UNCHANGED vars

LEMMA StepKinds ==
    [Next]_vars =>
       \/ LlmStep \/ CallStep \/ AroundStep
       \/ \E k \in sent : ServerActs(k)
       \/ \E k \in Key : ProgramStep(k)
BY DEF Next, RunStep, LlmStep, CallStep, ProgramStep, AroundStep

\* What a program in a container does.
LEMMA ProgramSteps ==
    ASSUME TypeOK, NEW k \in Key, ProgramStep(k)
    PROVE  /\ UNCHANGED <<pc, iteration, messages, calls, results, pending,
                         consent, sent, trouble>>
           /\ box[k] \in {"running", "acted", "reported"}
           /\ \E b \in {"acted", "reported", "exited", "died"} :
                 box' = [box EXCEPT ![k] = b]
           /\ \/ /\ effects' = effects \cup {k}
                 /\ box[k] = "running"
                 /\ box'[k] = "acted"
                 /\ said' = said
              \/ /\ effects' = effects
                 /\ box'[k] \in {"reported", "exited", "died"}
                 /\ \/ said' = said
                    \/ said' = [said EXCEPT ![k] = "failure"]
                    \/ box[k] = "acted" /\ said' = [said EXCEPT ![k] = "success"]
BY DEF TypeOK, ProgramStep, FileActs, FileRefuses, FileReports, ShellActs,
   ShellRefuses,
   ShellReports, WebActs, WebRefuses, WebReports, ProgramEnds, ProgramDies, Acts, Refuses, Reports,
   Program

LEMMA AroundSteps ==
    AroundStep => UNCHANGED <<pc, iteration, messages, calls, results, pending, consent,
                              worldVars>>
BY DEF AroundStep, SessionExpires, ServerChanges, vars

LEMMA ServerSteps ==
    ASSUME NEW k, ServerActs(k)
    PROVE  /\ k \in sent
           /\ effects' = effects \cup {k}
           /\ UNCHANGED <<pc, iteration, messages, calls, results, pending, consent, sent,
                         box, said, trouble>>
BY DEF ServerActs

\* What reading the logs can make of them.
LEMMA LogsSay ==
    ASSUME TypeOK, HistoryInv, LogsRead
    PROVE  /\ pending' \in {"ok", "assumed", "error"}
           /\ pending' = "ok" => said[Here] = "success"
<1>1. Here \in Key
  BY HereInKey DEF HistoryInv, LogsRead, Working, DockerLocation
<1>2. said[Here] \in {"nothing", "success", "failure"}
  BY <1>1 DEF TypeOK
<1>. QED
  BY <1>2 DEF LogsRead

\* A step of the call at hand stays with it or pushes its result.
OnCall ==
    /\ UNCHANGED <<iteration, messages, calls>>
    /\ pc \in Working
    /\ Len(results) < Len(calls)
    /\ \/ results' = results /\ pc' \in Working \ {"call"}
       \/ pc' = "call" /\ \E r \in Result : results' = Append(results, r)
    /\ pc' = "remove" => pending' \in {"ok", "assumed", "error", "timeout"}

LEMMA CallSteps == TypeOK /\ HistoryInv /\ CallStep => OnCall
<1>. SUFFICES ASSUME TypeOK, HistoryInv, CallStep PROVE OnCall
  OBVIOUS
<1>t. /\ pc \in Working \ {"call"} => Len(results) < Len(calls)
      /\ pc = "remove" => pending \in Result
  BY DEF HistoryInv, TypeOK
<1>1. CASE CallMemory
  BY <1>t, <1>1 DEF OnCall, Working, DockerLocation, Result, CallMemory,
     NextIsOneOf, Push
<1>2. CASE CallGate
  BY <1>t, <1>2 DEF OnCall, Working, DockerLocation, Result, CallGate
<1>3. CASE GateRefuses
  BY <1>t, <1>3 DEF OnCall, Working, DockerLocation, Result, GateRefuses, Push
<1>4. CASE GateLetsService
  BY <1>t, <1>4 DEF OnCall, Working, DockerLocation, Result, GateLetsService
<1>5. CASE GateLetsMcp
  BY <1>t, <1>5 DEF OnCall, Working, DockerLocation, Result, GateLetsMcp, Push
<1>6. CASE GateLetsExecutor
  BY <1>t, <1>6 DEF OnCall, Working, DockerLocation, Result, GateLetsExecutor,
     Dispatch, Push
<1>7. CASE DomainApproved
  BY <1>t, <1>7 DEF OnCall, Working, DockerLocation, Result, DomainApproved,
     Dispatch, Push
<1>8. CASE DomainRefused
  BY <1>t, <1>8 DEF OnCall, Working, DockerLocation, Result, DomainRefused, Push
<1>9. CASE ServiceReturns
  BY <1>t, <1>9 DEF OnCall, Working, DockerLocation, Result, ServiceReturns, Push
<1>10. CASE McpReturns
  BY <1>t, <1>10 DEF OnCall, Working, DockerLocation, Result, McpReturns, Push
<1>11. CASE Created
  BY <1>t, <1>11 DEF OnCall, Working, DockerLocation, Result, Created, Docker
<1>12. CASE NotCreated
  BY <1>t, <1>12 DEF OnCall, Working, DockerLocation, Result, NotCreated, Push
<1>13. CASE Started
  BY <1>t, <1>13 DEF OnCall, Working, DockerLocation, Result, Started, Docker
<1>14. CASE NotStarted
  BY <1>t, <1>14 DEF OnCall, Working, DockerLocation, Result, NotStarted, Docker
<1>15. CASE WaitReturns
  BY <1>t, <1>15 DEF OnCall, Working, DockerLocation, Result, WaitReturns, Docker
<1>16. CASE TimerFires
  BY <1>t, <1>16 DEF OnCall, Working, DockerLocation, Result, TimerFires, Docker
<1>17. CASE WaitFails
  BY <1>t, <1>17 DEF OnCall, Working, DockerLocation, Result, WaitFails,
     TimerFires, Docker
<1>18. CASE Killed
  BY <1>t, <1>18 DEF OnCall, Working, DockerLocation, Result, Killed, Docker
<1>19. CASE LogsRead
  BY <1>t, <1>19, LogsSay DEF OnCall, Working, DockerLocation, Result, LogsRead,
     Docker
<1>20. CASE LogsFail
  BY <1>t, <1>20 DEF OnCall, Working, DockerLocation, Result, LogsFail, Docker
<1>21. CASE Removed
  BY <1>t, <1>21 DEF OnCall, Working, DockerLocation, Result, Removed, Push
<1>. QED
  BY <1>1, <1>2, <1>3, <1>4, <1>5, <1>6, <1>7, <1>8, <1>9, <1>10, <1>11, <1>12,
     <1>13, <1>14, <1>15, <1>16, <1>17, <1>18, <1>19, <1>20, <1>21 DEF CallStep

Appended(m) ==
    /\ messages' \in Seq(Message)
    /\ Len(messages') = Len(messages) + 1
    /\ messages'[Len(messages) + 1] = m
    /\ \A n \in 1..Len(messages) : messages'[n] = messages[n]
    /\ \A n \in 1..Len(messages') : messages'[n].role = RoleAt(n)

LEMMA MessageAppended ==
    ASSUME HistoryInv, NEW m \in Message, m.role = RoleAt(Len(messages) + 1),
           messages' = Append(messages, m)
    PROVE  Appended(m)
BY DEF HistoryInv, Appended

LEMMA HistoryNext == TypeOK /\ HistoryInv /\ [Next]_vars => HistoryInv'
<1>. SUFFICES ASSUME TypeOK, HistoryInv, [Next]_vars PROVE HistoryInv'
  OBVIOUS
<1>1. CASE CallStep
  <2>1. OnCall
    BY <1>1, CallSteps
  <2>2. results' \in Seq(Result)
    <3>1. CASE results' = results
      BY <3>1 DEF HistoryInv
    <3>2. ASSUME NEW r \in Result, results' = Append(results, r) PROVE results' \in Seq(Result)
      BY <3>2, AppendProperties DEF HistoryInv
    <3>. QED
      BY <2>1, <3>1, <3>2 DEF OnCall
  <2>3. pc' \in Working /\ (pc' # "call" => results' = results)
    BY <2>1 DEF OnCall, Working
  <2>. QED
    BY <2>1, <2>2, <2>3 DEF OnCall, HistoryInv, Working, DockerLocation
<1>2. CASE AroundStep \/ (\E k \in sent : ServerActs(k)) \/ \E k \in Key : ProgramStep(k)
  <2>1. UNCHANGED <<pc, iteration, messages, calls, results, pending>>
    BY <1>2, AroundSteps, ServerSteps, ProgramSteps
  <2>. QED
    BY <2>1 DEF HistoryInv
<1>3. CASE LlmCalls
  <2>1. calls' \in Seq(Calls) /\ iteration \in Nat \ {0}
    BY <1>3, AnswersType, ToolCallsAssumption DEF LlmCalls, TypeOK
  <2>2. Len(messages) = 2 * iteration - 2
    BY <1>3 DEF LlmCalls, HistoryInv
  <2>3. [role |-> "assistant", content |-> calls'] \in Message
    BY <2>1 DEF Message
  <2>4. RoleAt(Len(messages) + 1) = "assistant"
    BY <2>1, <2>2 DEF RoleAt
  <2>5. Appended([role |-> "assistant", content |-> calls'])
    BY <1>3, <2>3, <2>4, MessageAppended DEF LlmCalls
  <2>. QED
    BY <1>3, <2>1, <2>2, <2>5 DEF LlmCalls, HistoryInv, Working, DockerLocation,
       Appended
<1>4. CASE LlmEnds
  <2>1. iteration \in Nat \ {0}
    BY ToolCallsAssumption DEF TypeOK
  <2>2. Len(messages) = 2 * iteration - 2
    BY <1>4 DEF LlmEnds, HistoryInv
  <2>3. [role |-> "assistant", content |-> <<>>] \in Message
    BY DEF Message
  <2>4. RoleAt(Len(messages) + 1) = "assistant"
    BY <2>1, <2>2 DEF RoleAt
  <2>5. Appended([role |-> "assistant", content |-> <<>>])
    BY <1>4, <2>3, <2>4, MessageAppended DEF LlmEnds
  <2>6. Len(messages') <= 2 * iteration'
    BY <1>4, <2>1, <2>2, <2>5 DEF LlmEnds, Appended
  <2>7. UNCHANGED <<calls, results>> /\ pc' = "done"
    BY <1>4 DEF LlmEnds
  <2>. QED
    BY <2>5, <2>6, <2>7 DEF HistoryInv, Working, DockerLocation, Appended
<1>5. CASE EndRound
  <2>1. iteration \in Nat \ {0} /\ results \in Seq(Result)
    BY ToolCallsAssumption DEF TypeOK, HistoryInv
  <2>2. Len(messages) = 2 * iteration - 1
    BY <1>5 DEF EndRound, HistoryInv, Working
  <2>3. [role |-> "tool_results", content |-> results] \in Message
    BY <2>1 DEF Message
  <2>4. RoleAt(Len(messages) + 1) = "tool_results"
    BY <2>1, <2>2 DEF RoleAt
  <2>5. Appended([role |-> "tool_results", content |-> results])
    BY <1>5, <2>3, <2>4, MessageAppended DEF EndRound
  <2>6. /\ calls' = <<>> /\ results' = <<>> /\ pc' \in {"llm", "done"}
        /\ pc' = "llm" => iteration' = iteration + 1
    BY <1>5 DEF EndRound
  <2>7. Len(messages') <= 2 * iteration'
    BY <1>5, <2>1, <2>2, <2>5 DEF EndRound, Appended
  <2>8. pc' = "llm" => Len(messages') = 2 * iteration' - 2
    BY <2>1, <2>2, <2>5, <2>6 DEF Appended
  <2>9. calls' \in Seq(Calls) /\ results' \in Seq(Result) /\ Len(results') = 0
    BY <2>6
  <2>10. messages' \in Seq(Message) /\ \A n \in 1..Len(messages') : messages'[n].role = RoleAt(n)
    BY <2>5 DEF Appended
  <2>11. pc' \notin Working /\ pc' # "remove"
    BY <2>6 DEF Working, DockerLocation
  <2>. QED
    BY <2>7, <2>8, <2>9, <2>10, <2>11 DEF HistoryInv
<1>6. CASE RunThrows
  BY <1>6 DEF RunThrows, HistoryInv, TypeOK, Working, DockerLocation
<1>. QED
  BY <1>1, <1>2, <1>3, <1>4, <1>5, <1>6, StepKinds DEF LlmStep

-----------------------------------------------------------------------------
(* Consent.                                                                *)

LEMMA MessagesGrow ==
    ASSUME TypeOK, HistoryInv, [Next]_vars
    PROVE  /\ Len(messages) <= Len(messages')
           /\ \A n \in 1..Len(messages) : messages'[n] = messages[n]
<1>1. messages' = messages \/ \E m : messages' = Append(messages, m)
  <2>1. CASE LlmStep
    BY <2>1 DEF LlmStep, LlmCalls, LlmEnds, EndRound, RunThrows
  <2>2. CASE CallStep
    BY <2>2, CallSteps DEF OnCall
  <2>. QED
    BY <2>1, <2>2, StepKinds, AroundSteps, ServerSteps, ProgramSteps
<1>2. messages \in Seq(Message)
  BY DEF HistoryInv
<1>. QED
  BY <1>1, <1>2

\* A call that was made stays what it was.
LEMMA MadeStays ==
    ASSUME TypeOK, HistoryInv, [Next]_vars, NEW k \in Key, Made(k)
    PROVE  Made(k)' /\ CallAt(k)' = CallAt(k)
<1>1. k[1] \in Nat \ {0} /\ k[2] \in Nat \ {0}
  BY ToolCallsAssumption DEF Key
<1>2. messages \in Seq(Message) /\ messages' \in Seq(Message)
  BY HistoryNext DEF HistoryInv
<1>3. 2 * k[1] - 1 \in 1..Len(messages)
  BY <1>1, <1>2 DEF Made
<1>4. messages'[2 * k[1] - 1] = messages[2 * k[1] - 1]
  BY <1>3, MessagesGrow
<1>5. 2 * k[1] - 1 <= Len(messages')
  BY <1>1, <1>2, <1>3, MessagesGrow
<1>. QED
  BY <1>4, <1>5 DEF Made, CallAt

LEMMA HereIsMade ==
    ASSUME TypeOK, HistoryInv, pc \in Working, Len(results) < Len(calls)
    PROVE  Made(Here) /\ CallAt(Here) = AtHand
BY ToolCallsAssumption DEF TypeOK, HistoryInv, Made, CallAt, Here, AtHand

\* What a step of the call at hand does to the world: it concerns that call
\* and, but for memory, waits until it was let through.
OnWorld ==
    /\ consent' = consent \/ consent' = consent \cup {Here}
    /\ effects' = effects \/ /\ effects' = effects \cup {Here}
                             /\ AtHand.name \in MemoryTools \/ Here \in consent
    /\ sent' = sent \/ sent' = sent \cup {Here}
    /\ \A k \in Key \ {Here} : box'[k] = box[k]
    /\ pc \in DockerLocation \/ UNCHANGED <<box, trouble>>
    /\ trouble \subseteq trouble'
    /\ pc \in DockerLocation /\ pc' \notin DockerLocation
          => box'[Here] \in {"none", "gone"} \/ Here \in trouble'
    /\ pc' \in LetThrough \/ sent' # sent => Here \in consent'

LEMMA CallConsent == TypeOK /\ HistoryInv /\ ConsentInv /\ CallStep => OnWorld
<1>. SUFFICES ASSUME TypeOK, HistoryInv, ConsentInv, CallStep PROVE OnWorld
  OBVIOUS
<1>h. pc \in Working \ {"call"} => Here \in Key
  BY HereInKey DEF HistoryInv
<1>t. (pc \in LetThrough => Here \in consent) /\ box \in [Key -> BoxState]
  BY DEF ConsentInv, TypeOK
<1>1. CASE CallMemory
  BY <1>t, <1>1 DEF OnWorld, LetThrough, DockerLocation, CallMemory, NextIsOneOf,
     Push, worldVars
<1>2. CASE CallGate
  BY <1>t, <1>2 DEF OnWorld, LetThrough, DockerLocation, CallGate, worldVars
<1>3. CASE GateRefuses
  BY <1>t, <1>3 DEF OnWorld, LetThrough, DockerLocation, GateRefuses, Push,
     worldVars
<1>4. CASE GateLetsService
  BY <1>t, <1>4 DEF OnWorld, LetThrough, DockerLocation, GateLetsService, worldVars
<1>5. CASE GateLetsMcp
  BY <1>t, <1>5 DEF OnWorld, LetThrough, DockerLocation, GateLetsMcp, Push,
     worldVars
<1>6. CASE GateLetsExecutor
  BY <1>t, <1>6 DEF OnWorld, LetThrough, DockerLocation, GateLetsExecutor,
     Dispatch, Push, worldVars
<1>7. CASE DomainApproved
  BY <1>t, <1>7 DEF OnWorld, LetThrough, DockerLocation, DomainApproved, Dispatch,
     Push, worldVars
<1>8. CASE DomainRefused
  BY <1>t, <1>8 DEF OnWorld, LetThrough, DockerLocation, DomainRefused, Push,
     worldVars
<1>9. CASE ServiceReturns
  BY <1>t, <1>9 DEF OnWorld, LetThrough, DockerLocation, ServiceReturns, Push,
     worldVars
<1>10. CASE McpReturns
  BY <1>t, <1>10 DEF OnWorld, LetThrough, DockerLocation, McpReturns, Push,
     worldVars
<1>11. CASE Created
  BY <1>t, <1>11 DEF OnWorld, LetThrough, DockerLocation, Created, Docker, worldVars
<1>12. CASE NotCreated
  BY <1>t, <1>h, <1>12 DEF OnWorld, Working, LetThrough, DockerLocation,
     NotCreated, Push, worldVars
<1>13. CASE Started
  BY <1>t, <1>13 DEF OnWorld, LetThrough, DockerLocation, Started, Docker, worldVars
<1>14. CASE NotStarted
  BY <1>t, <1>14 DEF OnWorld, LetThrough, DockerLocation, NotStarted, Docker,
     worldVars
<1>15. CASE WaitReturns
  BY <1>t, <1>15 DEF OnWorld, LetThrough, DockerLocation, WaitReturns, Docker,
     worldVars
<1>16. CASE TimerFires
  BY <1>t, <1>h, <1>16 DEF OnWorld, Working, LetThrough, DockerLocation,
     TimerFires, Docker, worldVars
<1>17. CASE WaitFails
  BY <1>t, <1>17 DEF OnWorld, LetThrough, DockerLocation, WaitFails, TimerFires,
     Docker, worldVars
<1>18. CASE Killed
  BY <1>t, <1>18 DEF OnWorld, LetThrough, DockerLocation, Killed, Docker, worldVars
<1>19. CASE LogsRead
  BY <1>t, <1>19 DEF OnWorld, LetThrough, DockerLocation, LogsRead, Docker,
     worldVars
<1>20. CASE LogsFail
  BY <1>t, <1>20 DEF OnWorld, LetThrough, DockerLocation, LogsFail, Docker,
     worldVars
<1>21. CASE Removed
  BY <1>t, <1>h, <1>21 DEF OnWorld, Working, LetThrough, DockerLocation, Removed,
     Push, worldVars
<1>. QED
  BY <1>1, <1>2, <1>3, <1>4, <1>5, <1>6, <1>7, <1>8, <1>9, <1>10, <1>11, <1>12,
     <1>13, <1>14, <1>15, <1>16, <1>17, <1>18, <1>19, <1>20, <1>21 DEF CallStep

LEMMA ConsentNext == TypeOK /\ HistoryInv /\ ConsentInv /\ [Next]_vars => ConsentInv'
<1>. SUFFICES ASSUME TypeOK, HistoryInv, ConsentInv, [Next]_vars PROVE ConsentInv'
  OBVIOUS
<1>t. /\ effects \subseteq Key /\ sent \subseteq Key
      /\ consent \subseteq Key
      /\ \A k \in consent \cup effects : Made(k)
      /\ sent \subseteq consent
      /\ \A k \in Key : box[k] # "none" => k \in consent
      /\ \A k \in effects : CallAt(k).name \in MemoryTools \/ k \in consent
  BY DEF TypeOK, ConsentInv, ConsentComesFirst
<1>k. \A k \in consent \cup effects : Made(k)' /\ CallAt(k)' = CallAt(k)
  BY <1>t, MadeStays
<1>1. CASE LlmStep
  <2>1. UNCHANGED <<consent, effects, sent, box>> /\ pc' \in {"llm", "call", "done", "failed"}
    BY <1>1 DEF LlmStep, LlmCalls, LlmEnds, EndRound, RunThrows, worldVars
  <2>. QED
    BY <1>t, <1>k, <2>1 DEF ConsentInv, ConsentComesFirst, LetThrough,
       DockerLocation
<1>2. CASE CallStep
  <2>1. OnCall /\ OnWorld
    BY <1>2, CallSteps, CallConsent
  <2>2. Here \in Key /\ Made(Here) /\ CallAt(Here) = AtHand
    BY <2>1, HereInKey, HereIsMade DEF OnCall
  <2>3. \A k \in Key : k = Here => Made(k)' /\ CallAt(k)' = CallAt(k)
    BY <2>2, MadeStays
  <2>4. pc' \in LetThrough => Here' \in consent'
    <3>1. pc' \in LetThrough => results' = results
      BY <2>1 DEF OnCall, LetThrough, DockerLocation
    <3>2. iteration' = iteration
      BY <2>1 DEF OnCall
    <3>. QED
      BY <2>1, <3>1, <3>2 DEF OnWorld, Here
  <2>5. sent' \subseteq consent'
    BY <1>t, <2>1 DEF OnWorld
  <2>6. \A k \in Key : box'[k] # "none" => k \in consent'
    <3>1. pc \in DockerLocation => Here \in consent
      BY DEF ConsentInv, LetThrough
    <3>. QED
      BY <1>t, <2>1, <3>1 DEF OnWorld
  <2>7. \A k \in (consent \cup effects)' : Made(k)'
    <3>1. (consent \cup effects)' \subseteq consent \cup effects \cup {Here}
      BY <2>1 DEF OnWorld
    <3>. QED
      BY <1>k, <2>2, <2>3, <3>1
  <2>8. \A k \in effects' : CallAt(k)'.name \in MemoryTools \/ k \in consent'
    <3>. SUFFICES ASSUME NEW k \in effects'
                  PROVE  CallAt(k)'.name \in MemoryTools \/ k \in consent'
      OBVIOUS
    <3>1. CASE k \in effects
      BY <1>t, <1>k, <2>1, <3>1 DEF OnWorld
    <3>2. CASE k \notin effects
      <4>1. k = Here /\ (AtHand.name \in MemoryTools \/ Here \in consent)
        BY <2>1, <3>2 DEF OnWorld
      <4>2. CallAt(k)' = CallAt(k) /\ CallAt(k) = AtHand
        BY <2>2, <2>3, <4>1
      <4>3. consent \subseteq consent'
        BY <2>1 DEF OnWorld
      <4>. QED
        BY <4>1, <4>2, <4>3
    <3>. QED
      BY <3>1, <3>2
  <2>. QED
    BY <2>4, <2>5, <2>6, <2>7, <2>8 DEF ConsentInv, ConsentComesFirst
<1>3. CASE \E k \in sent : ServerActs(k)
  <2>1. PICK k \in sent : ServerActs(k)
    BY <1>3
  <2>2. /\ effects' = effects \cup {k}
        /\ UNCHANGED <<pc, iteration, results, consent, sent, box>>
    BY <2>1, ServerSteps
  <2>. QED
    BY <1>t, <1>k, <2>1, <2>2 DEF ConsentInv, ConsentComesFirst, Here
<1>4. CASE \E k \in Key : ProgramStep(k)
  <2>1. PICK k \in Key : ProgramStep(k)
    BY <1>4
  <2>. QED
    <3>1. /\ UNCHANGED <<pc, iteration, results, consent, sent>>
          /\ effects' \subseteq effects \cup {k}
          /\ box[k] # "none"
          /\ \A h \in Key : box'[h] # "none" => box[h] # "none"
      BY <2>1, ProgramSteps DEF TypeOK
    <3>2. k \in consent
      BY <1>t, <3>1
    <3>. QED
      BY <1>t, <1>k, <3>1, <3>2 DEF ConsentInv, ConsentComesFirst, Here
<1>5. CASE AroundStep
  BY <1>5, <1>t, <1>k, AroundSteps DEF ConsentInv, ConsentComesFirst, Here,
     worldVars
<1>. QED
  BY <1>1, <1>2, <1>3, <1>4, <1>5, StepKinds

-----------------------------------------------------------------------------
(* Containers.                                                             *)

LEMMA ContainersNext ==
    TypeOK /\ HistoryInv /\ ConsentInv /\ ContainersAreRemoved /\ [Next]_vars
       => ContainersAreRemoved'
<1>. SUFFICES ASSUME TypeOK, HistoryInv, ConsentInv, ContainersAreRemoved, [Next]_vars,
                     NEW k \in Key, box'[k] \notin {"none", "gone"}, k \notin trouble'
              PROVE  k = Here' /\ pc' \in DockerLocation
  BY DEF ContainersAreRemoved
<1>t. box[k] \in {"none", "gone"} \/ k \in trouble \/ (k = Here /\ pc \in DockerLocation)
  BY DEF ContainersAreRemoved
<1>1. CASE LlmStep
  BY <1>1, <1>t DEF LlmStep, LlmCalls, LlmEnds, EndRound, RunThrows, NextIsOneOf,
     worldVars,
     DockerLocation
<1>2. CASE CallStep
  <2>1. OnCall /\ OnWorld
    BY <1>2, CallSteps, CallConsent
  <2>2. k = Here /\ pc \in DockerLocation
    BY <2>1, <1>t DEF OnWorld
  <2>3. pc' \in DockerLocation
    BY <2>1, <2>2 DEF OnWorld
  <2>. QED
    BY <2>1, <2>2, <2>3 DEF OnCall, Here, DockerLocation
<1>3. CASE \E h \in sent : ServerActs(h)
  BY <1>3, <1>t, ServerSteps DEF Here
<1>4. ASSUME NEW h \in Key, ProgramStep(h) PROVE k = Here' /\ pc' \in DockerLocation
  <2>1. /\ UNCHANGED <<pc, iteration, results, trouble>>
        /\ box[k] \notin {"none", "gone"}
    BY <1>4, ProgramSteps DEF TypeOK
  <2>. QED
    BY <2>1, <1>t DEF Here
<1>5. CASE AroundStep
  BY <1>5, <1>t, AroundSteps DEF Here, worldVars
<1>. QED
  BY <1>1, <1>2, <1>3, <1>4, <1>5, StepKinds

-----------------------------------------------------------------------------
(* Results.                                                                *)

\* A trace of the call is in the world, or may come.
Touched(k) == k \in effects \cup sent \/ (k \in Key /\ box[k] # "none")

WillTouch(k) == k \in effects' \cup sent' \/ (k \in Key /\ box'[k] # "none")

\* The call has its result.
Behind(k) == k[1] < iteration \/ (k[1] = iteration /\ k[2] <= Len(results))

Acting == LetThrough \ {"domain"}

\* While the run goes on, only calls that have their result are touched, and
\* the one at hand once it was let through.
TouchInv ==
    pc \notin {"done", "failed"} =>
       \A k \in Key : Touched(k) => Behind(k) \/ (k = Here /\ pc \in Acting)

\* What may still become a success is one.
ActedInv ==
    /\ \A k \in Key : box[k] = "acted" \/ said[k] = "success" => k \in effects
    /\ pending = "ok" => pc = "remove" /\ Here \in effects

NoTrace == {"rejected", "unavailable", "unknown"}

Tells(r, k) ==
    /\ r = "ok" => k \in effects
    /\ r \in NoTrace => ~Touched(k)

ToldInv ==
    /\ \A i \in 1..Len(results) : Tells(results[i], <<iteration, i>>)
    /\ \A m \in 1..iteration : 2 * m <= Len(messages) =>
          /\ Len(messages[2 * m].content) = Len(messages[2 * m - 1].content)
          /\ \A i \in 1..Len(messages[2 * m].content) :
                Tells(messages[2 * m].content[i], <<m, i>>)

ResultInv == TouchInv /\ ActedInv /\ ToldInv

\* What a result says is so when it is pushed, and who is touched is acting.
OnResult ==
    /\ \/ results' = results /\ pc' # "call"
       \/ \E r \in Result :
          /\ results' = Append(results, r) /\ pc' = "call"
          /\ r = "ok" => Here \in effects'
          /\ r \in NoTrace => pc \notin Acting /\ UNCHANGED <<effects, sent, box>>
    /\ pc' \in Acting \cup {"call"} \/ UNCHANGED <<effects, sent, box>>
    /\ pc \in Acting => pc' \in DockerLocation \cup {"call"}
    /\ \A k \in Key : box'[k] # "acted" \/ box[k] = "acted"
    /\ \A k \in Key : said'[k] = "success" => said[k] = "success"
    /\ pending' = "ok" => pc' = "remove" /\ Here \in effects /\ results' = results

LEMMA CallResults ==
    TypeOK /\ HistoryInv /\ ActedInv /\ CallStep => OnResult
<1>. SUFFICES ASSUME TypeOK, HistoryInv, ActedInv, CallStep PROVE OnResult
  OBVIOUS
<1>h. pc \in Working \ {"call"} => Here \in Key
  BY HereInKey DEF HistoryInv
<1>t. /\ box \in [Key -> BoxState]
      /\ said \in [Key -> {"nothing", "success", "failure"}]
      /\ results \in Seq(Result)
  BY DEF TypeOK, HistoryInv
<1>a. /\ \A k \in Key : said[k] = "success" => k \in effects
      /\ pending = "ok" => pc = "remove" /\ Here \in effects
      /\ pending \in Result \cup {"none"} /\ (pc = "remove" => pending \in {"ok", "assumed", "error", "timeout"})
  BY DEF ActedInv, TypeOK, HistoryInv
<1>1. CASE CallMemory
  BY <1>h, <1>t, <1>a, <1>1 DEF OnResult, NoTrace, Acting, Result, Working,
     LetThrough, DockerLocation, CallMemory, NextIsOneOf, Push, worldVars
<1>2. CASE CallGate
  BY <1>h, <1>t, <1>a, <1>2 DEF OnResult, NoTrace, Acting, Result, Working,
     LetThrough, DockerLocation, CallGate, worldVars
<1>3. CASE GateRefuses
  BY <1>h, <1>t, <1>a, <1>3 DEF OnResult, NoTrace, Acting, Result, Working,
     LetThrough, DockerLocation, GateRefuses, Push, worldVars
<1>4. CASE GateLetsService
  BY <1>h, <1>t, <1>a, <1>4 DEF OnResult, NoTrace, Acting, Result, Working,
     LetThrough, DockerLocation, GateLetsService, worldVars
<1>5. CASE GateLetsMcp
  BY <1>h, <1>t, <1>a, <1>5 DEF OnResult, NoTrace, Acting, Result, Working,
     LetThrough, DockerLocation, GateLetsMcp, Push, worldVars
<1>6. CASE GateLetsExecutor
  BY <1>h, <1>t, <1>a, <1>6 DEF OnResult, NoTrace, Acting, Result, Working,
     LetThrough, DockerLocation, GateLetsExecutor, Dispatch, Push, worldVars
<1>7. CASE DomainApproved
  BY <1>h, <1>t, <1>a, <1>7 DEF OnResult, NoTrace, Acting, Result, Working,
     LetThrough, DockerLocation, DomainApproved, Dispatch, Push, worldVars
<1>8. CASE DomainRefused
  BY <1>h, <1>t, <1>a, <1>8 DEF OnResult, NoTrace, Acting, Result, Working,
     LetThrough, DockerLocation, DomainRefused, Push, worldVars
<1>9. CASE ServiceReturns
  BY <1>h, <1>t, <1>a, <1>9 DEF OnResult, NoTrace, Acting, Result, Working,
     LetThrough, DockerLocation, ServiceReturns, Push, worldVars
<1>10. CASE McpReturns
  BY <1>h, <1>t, <1>a, <1>10 DEF OnResult, NoTrace, Acting, Result, Working,
     LetThrough, DockerLocation, McpReturns, Push, worldVars
<1>11. CASE Created
  BY <1>h, <1>t, <1>a, <1>11 DEF OnResult, NoTrace, Acting, Result, Working,
     LetThrough, DockerLocation, Created, Docker, worldVars
<1>12. CASE NotCreated
  BY <1>h, <1>t, <1>a, <1>12 DEF OnResult, NoTrace, Acting, Result, Working,
     LetThrough, DockerLocation, NotCreated, Push, worldVars
<1>13. CASE Started
  BY <1>h, <1>t, <1>a, <1>13 DEF OnResult, NoTrace, Acting, Result, Working,
     LetThrough, DockerLocation, Started, Docker, worldVars
<1>14. CASE NotStarted
  BY <1>h, <1>t, <1>a, <1>14 DEF OnResult, NoTrace, Acting, Result, Working,
     LetThrough, DockerLocation, NotStarted, Docker, worldVars
<1>15. CASE WaitReturns
  BY <1>h, <1>t, <1>a, <1>15 DEF OnResult, NoTrace, Acting, Result, Working,
     LetThrough, DockerLocation, WaitReturns, Docker, worldVars
<1>16. CASE TimerFires
  BY <1>h, <1>t, <1>a, <1>16 DEF OnResult, NoTrace, Acting, Result, Working,
     LetThrough, DockerLocation, TimerFires, Docker, worldVars
<1>17. CASE WaitFails
  BY <1>h, <1>t, <1>a, <1>17 DEF OnResult, NoTrace, Acting, Result, Working,
     LetThrough, DockerLocation, WaitFails, TimerFires, Docker, worldVars
<1>18. CASE Killed
  BY <1>h, <1>t, <1>a, <1>18 DEF OnResult, NoTrace, Acting, Result, Working,
     LetThrough, DockerLocation, Killed, Docker, worldVars
<1>19. CASE LogsRead
  BY <1>h, <1>t, <1>a, <1>19, LogsSay DEF OnResult, NoTrace, Acting, Working,
     LetThrough, DockerLocation, LogsRead, Docker, worldVars
<1>20. CASE LogsFail
  BY <1>h, <1>t, <1>a, <1>20 DEF OnResult, NoTrace, Acting, Result, Working,
     LetThrough, DockerLocation, LogsFail, Docker, worldVars
<1>21. CASE Removed
  BY <1>h, <1>t, <1>a, <1>21 DEF OnResult, NoTrace, Acting, Result, Working,
     LetThrough, DockerLocation, Removed, Push, worldVars
<1>. QED
  BY <1>1, <1>2, <1>3, <1>4, <1>5, <1>6, <1>7, <1>8, <1>9, <1>10, <1>11, <1>12,
     <1>13, <1>14, <1>15, <1>16, <1>17, <1>18, <1>19, <1>20, <1>21 DEF CallStep

\* What the world does by itself touches nothing that was not touched.
WorldStep == (\E k \in sent : ServerActs(k)) \/ (\E k \in Key : ProgramStep(k)) \/ AroundStep

LEMMA WorldSteps ==
    ASSUME TypeOK, WorldStep
    PROVE  /\ UNCHANGED <<pc, iteration, messages, calls, results, pending, sent>>
           /\ effects \subseteq effects'
           /\ \A k : WillTouch(k) => Touched(k)
<1>1. CASE \E k \in sent : ServerActs(k)
  <2>1. PICK k \in sent : ServerActs(k)
    BY <1>1
  <2>. QED
    BY <2>1, ServerSteps DEF Touched, WillTouch
<1>2. CASE \E k \in Key : ProgramStep(k)
  <2>1. PICK k \in Key : ProgramStep(k)
    BY <1>2
  <2>2. box[k] # "none" /\ \A h \in Key : box'[h] # "none" => box[h] # "none"
    BY <2>1, ProgramSteps DEF TypeOK
  <2>. QED
    BY <2>1, <2>2, ProgramSteps DEF Touched, WillTouch
<1>3. CASE AroundStep
  BY <1>3, AroundSteps DEF worldVars, Touched, WillTouch
<1>. QED
  BY <1>1, <1>2, <1>3 DEF WorldStep

LEMMA CallTouches ==
    ASSUME OnWorld, NEW k, WillTouch(k), k # Here
    PROVE  Touched(k)
BY DEF OnWorld, Touched, WillTouch

LEMMA ActedNext == TypeOK /\ HistoryInv /\ ConsentInv /\ ActedInv /\ [Next]_vars => ActedInv'
<1>. SUFFICES ASSUME TypeOK, HistoryInv, ConsentInv, ActedInv, [Next]_vars PROVE ActedInv'
  OBVIOUS
<1>1. CASE LlmStep
  BY <1>1 DEF LlmStep, LlmCalls, LlmEnds, EndRound, RunThrows, NextIsOneOf,
     ActedInv, worldVars
<1>2. CASE CallStep
  <2>1. OnCall /\ OnWorld /\ OnResult
    BY <1>2, CallSteps, CallConsent, CallResults
  <2>2. effects \subseteq effects' /\ iteration' = iteration
    BY <2>1 DEF OnWorld, OnCall
  <2>3. \A k \in Key : box'[k] = "acted" \/ said'[k] = "success" => k \in effects'
    BY <2>1, <2>2 DEF OnResult, ActedInv
  <2>4. pending' = "ok" => pc' = "remove" /\ Here' \in effects'
    BY <2>1, <2>2 DEF OnResult, Here
  <2>. QED
    BY <2>3, <2>4 DEF ActedInv
<1>3. CASE \E k \in sent : ServerActs(k)
  BY <1>3, ServerSteps DEF ActedInv, Here
<1>4. ASSUME NEW k \in Key, ProgramStep(k) PROVE ActedInv'
  <2>1. /\ UNCHANGED <<pc, iteration, results, pending>>
        /\ effects \subseteq effects'
    BY <1>4, ProgramSteps
  <2>2. \A h \in Key : box'[h] = "acted" => h \in effects'
    BY <1>4, ProgramSteps DEF TypeOK, ActedInv
  <2>3. \A h \in Key : said'[h] = "success" => h \in effects'
    BY <1>4, ProgramSteps DEF TypeOK, ActedInv
  <2>. QED
    BY <2>1, <2>2, <2>3 DEF ActedInv, Here
<1>5. CASE AroundStep
  BY <1>5, AroundSteps DEF ActedInv, Here, worldVars
<1>. QED
  BY <1>1, <1>2, <1>3, <1>4, <1>5, StepKinds

LEMMA TouchNext ==
    TypeOK /\ HistoryInv /\ ConsentInv /\ ResultInv /\ [Next]_vars => TouchInv'
<1>. SUFFICES ASSUME TypeOK, HistoryInv, ConsentInv, ResultInv, [Next]_vars,
                     pc' \notin {"done", "failed"}, NEW k \in Key, WillTouch(k)
              PROVE  Behind(k)' \/ (k = Here' /\ pc' \in Acting)
  BY DEF TouchInv, Touched, WillTouch
<1>k. k[1] \in Nat /\ k[2] \in Nat /\ iteration \in Nat /\ results \in Seq(Result)
  BY ToolCallsAssumption DEF Key, TypeOK, HistoryInv
<1>1. CASE LlmStep
  <2>1. /\ UNCHANGED <<effects, sent, box>>
        /\ pc \in {"llm", "call"}
        /\ \/ pc' = "call" /\ iteration' = iteration /\ results' = <<>> /\ Len(results) = 0
           \/ pc' = "llm" /\ iteration' = iteration + 1 /\ results' = <<>>
    BY <1>1 DEF LlmStep, LlmCalls, LlmEnds, EndRound, RunThrows, HistoryInv,
       worldVars
  <2>2. Behind(k)
    BY <2>1 DEF Touched, WillTouch, ResultInv, TouchInv, Acting, LetThrough,
       DockerLocation
  <2>. QED
    BY <1>k, <2>1, <2>2 DEF Behind
<1>2. CASE CallStep
  <2>1. OnCall /\ OnWorld /\ OnResult
    BY <1>2, CallSteps, CallConsent, CallResults DEF ResultInv
  <2>2. /\ iteration' = iteration
        /\ \/ results' = results /\ pc' # "call"
           \/ Len(results') = Len(results) + 1 /\ pc' = "call"
    BY <1>k, <2>1 DEF OnCall
  <2>3. Behind(k) => Behind(k)'
    BY <1>k, <2>2 DEF Behind
  <2>4. CASE k # Here
    <3>1. Touched(k)
      BY <2>1, <2>4, CallTouches
    <3>2. Behind(k)
      BY <2>1, <2>4, <3>1 DEF ResultInv, TouchInv, OnCall, Working, DockerLocation
    <3>. QED
      BY <2>3, <3>2
  <2>5. CASE k = Here
    <3>1. CASE Len(results') = Len(results) + 1
      BY <1>k, <2>2, <2>5, <3>1 DEF Behind, Here
    <3>2. CASE results' = results /\ pc' # "call"
      <4>1. k = Here'
        BY <2>2, <2>5, <3>2 DEF Here
      <4>2. ~Behind(k)
        BY <1>k, <2>5 DEF Behind, Here
      <4>3. pc' \in Acting
        <5>1. CASE UNCHANGED <<effects, sent, box>>
          <6>1. Touched(k)
            BY <5>1 DEF Touched, WillTouch
          <6>2. pc \in Acting
            BY <2>1, <4>2, <6>1 DEF ResultInv, TouchInv, OnCall, Working,
               DockerLocation
          <6>. QED
            BY <2>1, <3>2, <6>2 DEF OnResult, Acting, LetThrough, DockerLocation
        <5>2. CASE ~UNCHANGED <<effects, sent, box>>
          BY <2>1, <3>2, <5>2 DEF OnResult
        <5>. QED
          BY <5>1, <5>2
      <4>. QED
        BY <4>1, <4>3
    <3>. QED
      BY <2>2, <3>1, <3>2
  <2>. QED
    BY <2>4, <2>5
<1>3. CASE WorldStep
  <2>1. Touched(k) /\ UNCHANGED <<pc, iteration, results>>
    BY <1>3, WorldSteps
  <2>2. Behind(k) \/ (k = Here /\ pc \in Acting)
    BY <2>1 DEF ResultInv, TouchInv
  <2>. QED
    BY <2>1, <2>2 DEF Behind, Here
<1>. QED
  BY <1>1, <1>2, <1>3, StepKinds DEF WorldStep

\* What results told of a call remains so, as long as it is not at hand.
Kept(k) == /\ effects \subseteq effects'
           /\ WillTouch(k) => Touched(k)

WillTell(r, k) ==
    /\ r = "ok" => k \in effects'
    /\ r \in NoTrace => ~WillTouch(k)

LEMMA TellsStays == \A r, k : Kept(k) /\ Tells(r, k) => WillTell(r, k)
BY DEF Kept, Tells, WillTell

LEMMA ToldNow ==
    ASSUME \A i \in 1..Len(results') : WillTell(results'[i], <<iteration', i>>),
           \A m \in 1..iteration' : 2 * m <= Len(messages') =>
              /\ Len(messages'[2 * m].content) = Len(messages'[2 * m - 1].content)
              /\ \A i \in 1..Len(messages'[2 * m].content) :
                    WillTell(messages'[2 * m].content[i], <<m, i>>)
    PROVE  ToldInv'
BY DEF ToldInv, Tells, Touched, WillTell, WillTouch, NoTrace

LEMMA ToldNext ==
    TypeOK /\ HistoryInv /\ ConsentInv /\ ResultInv /\ [Next]_vars => ToldInv'
<1>. SUFFICES ASSUME TypeOK, HistoryInv, ConsentInv, ResultInv, [Next]_vars PROVE ToldInv'
  OBVIOUS
<1>k. iteration \in Nat \ {0} /\ results \in Seq(Result) /\ messages \in Seq(Message)
  BY ToolCallsAssumption DEF TypeOK, HistoryInv
<1>t. /\ \A i \in 1..Len(results) : Tells(results[i], <<iteration, i>>)
      /\ \A m \in 1..iteration : 2 * m <= Len(messages) =>
            /\ Len(messages[2 * m].content) = Len(messages[2 * m - 1].content)
            /\ \A i \in 1..Len(messages[2 * m].content) :
                  Tells(messages[2 * m].content[i], <<m, i>>)
  BY DEF ResultInv, ToldInv
<1>1. CASE LlmStep
  <2>1. \A k : Kept(k)
    BY <1>1 DEF Kept, Touched, WillTouch, LlmStep, LlmCalls, LlmEnds, EndRound,
       RunThrows, NextIsOneOf, worldVars
  <2>2. CASE LlmCalls \/ LlmEnds \/ RunThrows
    <3>1. /\ iteration' = iteration
          /\ results' = results \/ results' = <<>>
          /\ Len(messages') = Len(messages) \/ (Len(messages) = 2 * iteration - 2
                                                /\ Len(messages') = Len(messages) + 1)
      BY <2>2, <1>k DEF LlmCalls, LlmEnds, RunThrows, HistoryInv
    <3>2. \A i \in 1..Len(results') : WillTell(results'[i], <<iteration', i>>)
      BY <1>t, <2>1, <3>1, TellsStays
    <3>3. ASSUME NEW m \in 1..iteration', 2 * m <= Len(messages')
          PROVE  /\ Len(messages'[2 * m].content) = Len(messages'[2 * m - 1].content)
                 /\ \A i \in 1..Len(messages'[2 * m].content) :
                       WillTell(messages'[2 * m].content[i], <<m, i>>)
      <4>1. 2 * m <= Len(messages) /\ m \in 1..iteration
        BY <1>k, <3>1, <3>3
      <4>2. messages'[2 * m] = messages[2 * m] /\ messages'[2 * m - 1] = messages[2 * m - 1]
        BY <1>k, <4>1, MessagesGrow
      <4>. QED
        BY <1>t, <2>1, <4>1, <4>2, TellsStays
    <3>. QED
      BY <3>2, <3>3, ToldNow
  <2>3. CASE EndRound
    <3>1. /\ results' = <<>>
          /\ Len(messages) = 2 * iteration - 1 /\ Len(messages') = 2 * iteration
          /\ messages'[2 * iteration].content = results
          /\ messages'[2 * iteration - 1] = messages[2 * iteration - 1]
          /\ messages[2 * iteration - 1].content = calls
          /\ Len(results) = Len(calls)
          /\ iteration' \in {iteration, iteration + 1}
      BY <2>3, <1>k DEF EndRound, HistoryInv, Working
    <3>3. ASSUME NEW m \in 1..iteration', 2 * m <= Len(messages')
          PROVE  /\ Len(messages'[2 * m].content) = Len(messages'[2 * m - 1].content)
                 /\ \A i \in 1..Len(messages'[2 * m].content) :
                       WillTell(messages'[2 * m].content[i], <<m, i>>)
      <4>1. CASE m = iteration
        BY <1>t, <2>1, <3>1, <4>1, TellsStays
      <4>2. CASE m # iteration
        <5>1. 2 * m <= Len(messages) /\ m \in 1..iteration
          BY <1>k, <3>1, <3>3, <4>2
        <5>2. messages'[2 * m] = messages[2 * m] /\ messages'[2 * m - 1] = messages[2 * m - 1]
          BY <1>k, <5>1, MessagesGrow
        <5>. QED
          BY <1>t, <2>1, <5>1, <5>2, TellsStays
      <4>. QED
        BY <4>1, <4>2
    <3>. QED
      BY <3>1, <3>3, ToldNow
  <2>. QED
    BY <1>1, <2>2, <2>3 DEF LlmStep
<1>2. CASE CallStep
  <2>1. OnCall /\ OnWorld /\ OnResult
    BY <1>2, CallSteps, CallConsent, CallResults DEF ResultInv
  <2>2. iteration' = iteration /\ messages' = messages /\ Len(messages) = 2 * iteration - 1
    BY <2>1 DEF OnCall, HistoryInv
  <2>3. \A k : k # Here => Kept(k)
    BY <2>1, CallTouches DEF Kept, OnWorld
  <2>4. \A i \in 1..Len(results) : WillTell(results[i], <<iteration, i>>)
    <3>1. \A i \in 1..Len(results) : <<iteration, i>> # Here
      BY <1>k DEF Here
    <3>2. ASSUME NEW i \in 1..Len(results) PROVE WillTell(results[i], <<iteration, i>>)
      <4>1. Kept(<<iteration, i>>) /\ Tells(results[i], <<iteration, i>>)
        BY <1>t, <2>3, <3>1
      <4>. QED
        BY <4>1, TellsStays
    <3>. QED
      BY <3>2
  <2>5. \A i \in 1..Len(results') : WillTell(results'[i], <<iteration', i>>)
    <3>1. CASE results' = results
      BY <2>2, <2>4, <3>1
    <3>2. ASSUME NEW r \in Result, results' = Append(results, r),
                 r = "ok" => Here \in effects',
                 r \in NoTrace => pc \notin Acting /\ UNCHANGED <<effects, sent, box>>
          PROVE  \A i \in 1..Len(results') : WillTell(results'[i], <<iteration', i>>)
      <4>1. r \in NoTrace => ~Touched(Here)
        <5>1. ~Behind(Here)
          BY <1>k DEF Behind, Here
        <5>2. Here \in Key
          BY <2>1, HereInKey DEF OnCall
        <5>. QED
          BY <2>1, <3>2, <5>1, <5>2 DEF ResultInv, TouchInv, OnCall, Working,
             DockerLocation
      <4>2. r \in NoTrace => ~WillTouch(Here)
        BY <3>2, <4>1 DEF Touched, WillTouch
      <4>3. WillTell(r, <<iteration, Len(results) + 1>>)
        BY <3>2, <4>2 DEF WillTell, Here
      <4>. QED
        BY <1>k, <2>2, <2>4, <3>2, <4>3
    <3>. QED
      BY <2>1, <3>1, <3>2 DEF OnResult
  <2>6. ASSUME NEW m \in 1..iteration, 2 * m <= Len(messages)
        PROVE  \A i \in 1..Len(messages[2 * m].content) :
                  WillTell(messages[2 * m].content[i], <<m, i>>)
    <3>1. \A i : <<m, i>> # Here
      BY <1>k, <2>2, <2>6 DEF Here
    <3>. QED
      BY <1>t, <2>3, <2>6, <3>1, TellsStays
  <2>. QED
    BY <1>t, <2>2, <2>5, <2>6, ToldNow
<1>3. CASE WorldStep
  <2>1. UNCHANGED <<iteration, messages, results>> /\ \A k : Kept(k)
    BY <1>3, WorldSteps DEF Kept
  <2>. QED
    BY <1>t, <2>1, TellsStays, ToldNow
<1>. QED
  BY <1>1, <1>2, <1>3, StepKinds DEF WorldStep

-----------------------------------------------------------------------------
(* Theorems.                                                               *)

ToolCallsInv == HistoryInv /\ ConsentInv /\ ResultInv /\ ContainersAreRemoved

LEMMA InvInit == Init => ToolCallsInv
<1>. SUFFICES ASSUME Init PROVE ToolCallsInv
  OBVIOUS
<1>1. ResultInv
  BY ToolCallsAssumption DEF Init, ResultInv, TouchInv, ActedInv, ToldInv, Touched
<1>2. ContainersAreRemoved
  BY DEF Init, ContainersAreRemoved
<1>. QED
  BY <1>1, <1>2, HistoryInit, ConsentInit DEF ToolCallsInv

\* The loop keeps its types, its history and its accounts of who was let
\* through, what was touched and what was told (Orchestrator.runLoop,
\* Dispatcher.execute): the inductive invariant of the module.
THEOREM ToolCallsInvariant == Spec => [](TypeOK /\ ToolCallsInv)
<1>1. Init => TypeOK /\ ToolCallsInv
  BY TypeInit, InvInit
<1>2. TypeOK /\ ToolCallsInv /\ [Next]_vars => (TypeOK /\ ToolCallsInv)'
  <2>. SUFFICES ASSUME TypeOK, ToolCallsInv, [Next]_vars PROVE (TypeOK /\ ToolCallsInv)'
    OBVIOUS
  <2>1. TypeOK' /\ HistoryInv' /\ ConsentInv' /\ ContainersAreRemoved'
    BY TypeNext, HistoryNext, ConsentNext, ContainersNext DEF ToolCallsInv
  <2>2. TouchInv' /\ ActedInv' /\ ToldInv'
    BY TouchNext, ActedNext, ToldNext DEF ToolCallsInv, ResultInv
  <2>. QED
    BY <2>1, <2>2 DEF ToolCallsInv, ResultInv
<1>. QED
  BY <1>1, <1>2, PTL DEF Spec

\* Whatever the LLM calls, in any number of iterations: nothing but memory is
\* touched by a call that the gate did not let through.
THEOREM NothingWithoutConsent == Spec => []ConsentComesFirst
<1>1. TypeOK /\ ToolCallsInv => ConsentComesFirst
  BY DEF ToolCallsInv, ConsentInv
<1>. QED
  BY <1>1, ToolCallsInvariant, PTL

\* A container outlives its call only if Docker failed to create or remove it.
THEOREM NoContainerIsLeft == Spec => []ContainersAreRemoved
<1>1. TypeOK /\ ToolCallsInv => ContainersAreRemoved
  BY DEF ToolCallsInv
<1>. QED
  BY <1>1, ToolCallsInvariant, PTL

\* Results stand where their calls stand, successes are successes, and what
\* was rejected, unknown or unavailable leaves no trace, then or later.
THEOREM ResultsTell == Spec => []ResultsTellEffects
<1>1. TypeOK /\ ToolCallsInv => ResultsTellEffects
  <2>. SUFFICES ASSUME TypeOK, ToolCallsInv, NEW n \in 1..Len(messages),
                       messages[n].role = "tool_results"
                PROVE  /\ Len(messages[n].content) = Len(messages[n - 1].content)
                       /\ \A i \in 1..Len(messages[n].content) :
                             TellsEffect(messages[n].content[i], <<n \div 2, i>>)
    BY DEF ResultsTellEffects
  <2>1. n % 2 # 1
    BY DEF ToolCallsInv, HistoryInv, RoleAt
  <2>2. messages \in Seq(Message) /\ iteration \in Nat \ {0} /\ Len(messages) <= 2 * iteration
    BY ToolCallsAssumption DEF ToolCallsInv, HistoryInv, TypeOK, Location, Working
  <2>3. n = 2 * (n \div 2) /\ n \div 2 \in 1..iteration
    BY <2>1, <2>2
  <2>m. \A m \in 1..iteration : 2 * m <= Len(messages) =>
          /\ Len(messages[2 * m].content) = Len(messages[2 * m - 1].content)
          /\ \A i \in 1..Len(messages[2 * m].content) :
                Tells(messages[2 * m].content[i], <<m, i>>)
    BY DEF ToolCallsInv, ResultInv, ToldInv
  <2>4. PICK m \in 1..iteration : n = 2 * m /\ n \div 2 = m
    BY <2>3
  <2>5. /\ Len(messages[n].content) = Len(messages[n - 1].content)
        /\ \A i \in 1..Len(messages[n].content) :
              Tells(messages[n].content[i], <<m, i>>)
    BY <2>m, <2>4
  <2>. QED
    BY <2>4, <2>5 DEF Tells, TellsEffect, Touched, NoTrace
<1>. QED
  BY <1>1, ToolCallsInvariant, PTL
=============================================================================
