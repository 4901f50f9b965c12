---------------------------- MODULE Conversations ----------------------------
(***************************************************************************)
(* What the gateway does with a user's message, from its arrival to its    *)
(* answer: the message handler of the socket (index.ts), the web chat      *)
(* (dashboard.ts), the in-memory sessions with their history (session.ts), *)
(* the multi-step task loop (loop.ts) and the task rows on disk            *)
(* (memory.ts).                                                            *)
(*                                                                         *)
(* A request is one message.  Its handler is an async function of a single *)
(* event loop: an action is what it does between two awaits.  It awaits    *)
(* the orchestrator (which may call the model, wait for approvals and run  *)
(* tools), and in the task loop a pause of one second.  Nothing serializes *)
(* the requests of a Telegram user; the web chat refuses a second one.     *)
(*                                                                         *)
(* A task is named by the request whose handler runs it.  What the model   *)
(* answers, and whether a text counts as complex, are inputs.              *)
(***************************************************************************)
EXTENDS Naturals, Sequences

CONSTANTS
    Request,        \* messages of users
    User,           \* user ids
    WebUser,        \* WEB_USER_ID of the dashboard
    MaxIterations,  \* DEFAULT_MAX_ITERATIONS of the loop
    MaxMessages,    \* MAX_MESSAGES of a session
    Turn,           \* the shapes of turns the instance tells apart
    NoUser

\* The roles of the messages a chat adds: a plain answer, an answer
\* after tool calls, and the case where the orchestrator
\* runs out of tool rounds.
Turns == { <<"user", "assistant">>,
           <<"user", "assistant", "tool_results", "assistant">>,
           <<"user", "assistant", "tool_results">> }

ASSUME ConversationAssumption ==
    /\ MaxIterations \in Nat \ {0}
    /\ MaxMessages \in Nat \ {0}
    /\ Turn \subseteq Turns
    /\ NoUser \notin User

VARIABLES
    \* one request
    pc,         \* where its handler stands
    user,       \* its userId
    context,    \* the messages its chat started from
    said,       \* what has been sent back for it
    result,     \* how its handler ended
    \* tables in memory
    live,       \* users with a session
    stale,      \* those whose session was updated over an hour ago
    history,    \* session.messages
    busy,       \* chatBusy of the dashboard
    cancelled,  \* cancelledSessions
    \* task rows on disk
    row,        \* status
    iter,       \* iteration
    began,      \* tasks in the order of created_at
    \* history of the run, for the properties
    stopped,    \* tasks whose cancellation was confirmed to the user
    due         \* messages exchanged since the history was last emptied

requestVars == <<pc, user, context, said, result>>
sessionVars == <<live, stale, history, due>>
taskVars == <<row, iter, began, cancelled, stopped>>
vars == <<requestVars, sessionVars, busy, taskVars>>

Message == [by : Request, role : {"user", "assistant", "tool_results"}]

MessagesOf(r, turn) == [i \in DOMAIN turn |-> [by |-> r, role |-> turn[i]]]

\* Handlers at an await.
InFlight(r) == pc[r] \in {"chat", "step", "pause"}
InLoop(r) == pc[r] \in {"step", "pause"}

RequestTypeOK ==
    /\ pc \in [Request -> {"idle", "chat", "step", "pause", "done", "lost"}]
    /\ user \in [Request -> User \cup {NoUser}]
    /\ context \in [Request -> Seq(Message)]
    /\ said \in [Request -> SUBSET {"partial", "final", "error", "refused"}]
    /\ result \in [Request -> {"none", "chatted", "completed", "cancelled",
                               "exhausted", "error", "refused"}]

SessionTypeOK ==
    /\ live \in SUBSET User
    /\ stale \in SUBSET live
    /\ history \in [User -> Seq(Message)]
    /\ due \in [User -> Seq(Message)]

TaskTypeOK ==
    /\ row \in [Request -> {"absent", "active", "completed", "failed"}]
    /\ iter \in [Request -> 0..MaxIterations]
    /\ began \in Seq(Request)
    /\ cancelled \in SUBSET Request
    /\ stopped \in SUBSET Request

TypeOK ==
    /\ RequestTypeOK
    /\ SessionTypeOK
    /\ TaskTypeOK
    /\ busy \in BOOLEAN

Init ==
    /\ pc = [r \in Request |-> "idle"]
    /\ user = [r \in Request |-> NoUser]
    /\ context = [r \in Request |-> <<>>]
    /\ said = [r \in Request |-> {}]
    /\ result = [r \in Request |-> "none"]
    /\ live = {}
    /\ stale = {}
    /\ history = [u \in User |-> <<>>]
    /\ busy = FALSE
    /\ cancelled = {}
    /\ row = [r \in Request |-> "absent"]
    /\ iter = [r \in Request |-> 0]
    /\ began = <<>>
    /\ stopped = {}
    /\ due = [u \in User |-> <<>>]

-----------------------------------------------------------------------------
(* Sessions.                                                               *)

LastMessages(s) ==
    IF Len(s) > MaxMessages THEN SubSeq(s, Len(s) - MaxMessages + 1, Len(s)) ELSE s

\* getOrCreate leaves updatedAt of an existing session alone.
GetOrCreate(u) == live' = live \cup {u}

SetMessages(u, msgs) ==
    /\ GetOrCreate(u)
    /\ history' = [history EXCEPT ![u] = LastMessages(msgs)]
    /\ stale' = stale \ {u}

-----------------------------------------------------------------------------
(* The task rows.                                                          *)

ActiveTasks(u) == {r \in Request : row[r] = "active" /\ user[r] = u}

Position(r) == CHOOSE i \in DOMAIN began : began[i] = r

\* getActiveSession: the row created last.
IsNewestActive(r, u) ==
    /\ r \in ActiveTasks(u)
    /\ \A q \in ActiveTasks(u) : Position(q) <= Position(r)

-----------------------------------------------------------------------------
(* A handler, from its start to its end.                                   *)

\* A handler answers and ends; the web chat is free again (finally).
Finish(r, what, res) ==
    /\ pc' = [pc EXCEPT ![r] = "done"]
    /\ said' = [said EXCEPT ![r] = @ \cup {what}]
    /\ result' = [result EXCEPT ![r] = res]
    /\ busy' = IF user[r] = WebUser THEN FALSE ELSE busy
    /\ UNCHANGED <<user, context>>

\* execute up to its first await: the row is written and, as a new id is in no
\* set of cancelled ones, the first iteration starts.
BeginTask(r) ==
    /\ row' = [row EXCEPT ![r] = "active"]
    /\ began' = Append(began, r)
    /\ pc' = [pc EXCEPT ![r] = "step"]
    /\ UNCHANGED <<iter, cancelled, stopped>>

\* Variant of Accept: the flag is looked at before the body has been read, so a
\* second message may have set it meanwhile.
AcceptChecksEarly(r, u) ==
    /\ pc[r] = "idle"
    /\ busy' = (busy \/ u = WebUser)
    /\ user' = [user EXCEPT ![r] = u]
    /\ GetOrCreate(u)
    /\ UNCHANGED <<said, result, stale, history, due>>

\* A message is taken up.
Accept(r, u) ==
    /\ pc[r] = "idle"
    /\ u = WebUser => ~busy
    /\ busy' = (busy \/ u = WebUser)
    /\ user' = [user EXCEPT ![r] = u]
    /\ GetOrCreate(u)
    /\ UNCHANGED <<said, result, stale, history, due>>

\* A complex request without an active task starts the loop.
ReceiveComplex(r, u) ==
    /\ Accept(r, u)
    /\ ActiveTasks(u) = {}
    /\ BeginTask(r)
    /\ UNCHANGED context

\* Any other request is a chat on a copy of the history.
ReceiveChat(r, u, complex) ==
    /\ Accept(r, u)
    /\ complex => ActiveTasks(u) # {}
    /\ pc' = [pc EXCEPT ![r] = "chat"]
    /\ context' = [context EXCEPT ![r] = history[u]]
    /\ UNCHANGED taskVars

\* The web chat answers 409 while it works on another message.
Refuse(r) ==
    /\ pc[r] = "idle"
    /\ busy
    /\ pc' = [pc EXCEPT ![r] = "done"]
    /\ user' = [user EXCEPT ![r] = WebUser]
    /\ said' = [said EXCEPT ![r] = {"refused"}]
    /\ result' = [result EXCEPT ![r] = "refused"]
    /\ UNCHANGED <<context, sessionVars, busy, taskVars>>

\* What orchestrator.chat returned replaces the history.
StoreChat(r, turn) ==
    /\ SetMessages(user[r], context[r] \o MessagesOf(r, turn))
    /\ due' = [due EXCEPT ![user[r]] = @ \o MessagesOf(r, turn)]

ChatAnswers(r, turn) ==
    /\ pc[r] = "chat"
    /\ StoreChat(r, turn)
    /\ Finish(r, "final", "chatted")
    /\ UNCHANGED <<taskVars>>

\* The answer contains [CONTINUE]: it is sent as a partial answer, and a task
\* starts, whether or not the user has an active one by now.
ChatContinues(r, turn) ==
    /\ pc[r] = "chat"
    /\ turn # <<"user", "assistant", "tool_results">>
    /\ StoreChat(r, turn)
    /\ said' = [said EXCEPT ![r] = @ \cup {"partial"}]
    /\ BeginTask(r)
    /\ UNCHANGED <<user, context, result, busy>>

\* The orchestrator throws.
ChatFails(r) ==
    /\ pc[r] = "chat"
    /\ Finish(r, "error", "error")
    /\ UNCHANGED <<sessionVars, taskVars>>

-----------------------------------------------------------------------------
(* The task loop.                                                          *)

UpdateRow(r, status) ==
    /\ row' = [row EXCEPT ![r] = status]
    /\ iter' = [iter EXCEPT ![r] = @ + 1]

\* Variant of StepContinues: updateSession gets the old iteration count.
StepContinuesUncounted(r) ==
    /\ pc[r] = "step"
    /\ row' = [row EXCEPT ![r] = "active"]
    /\ pc' = [pc EXCEPT ![r] = "pause"]
    /\ UNCHANGED <<user, context, said, result, sessionVars, busy, iter, began,
                   cancelled, stopped>>

\* An iteration answers with [CONTINUE].
StepContinues(r) ==
    /\ pc[r] = "step"
    /\ UpdateRow(r, "active")
    /\ pc' = [pc EXCEPT ![r] = "pause"]
    /\ UNCHANGED <<user, context, said, result, sessionVars, busy, began,
                   cancelled, stopped>>

\* Variant of StepCompletes: completeSession is forgotten, updateSession keeps
\* the row active.
StepLeavesActive(r) ==
    /\ pc[r] = "step"
    /\ UpdateRow(r, "active")
    /\ Finish(r, "final", "completed")
    /\ UNCHANGED <<sessionVars, began, cancelled, stopped>>

\* An iteration answers without it.
StepCompletes(r) ==
    /\ pc[r] = "step"
    /\ UpdateRow(r, "completed")
    /\ Finish(r, "final", "completed")
    /\ UNCHANGED <<sessionVars, began, cancelled, stopped>>

\* The orchestrator throws: the row is left as it is.
StepFails(r) ==
    /\ pc[r] = "step"
    /\ Finish(r, "error", "error")
    /\ UNCHANGED <<sessionVars, taskVars>>

\* Variants of NextStep: the set of cancelled tasks is not consulted; one
\* iteration too many.
NextStepAnyway(r) ==
    /\ pc[r] = "pause"
    /\ iter[r] < MaxIterations
    /\ pc' = [pc EXCEPT ![r] = "step"]
    /\ UNCHANGED <<user, context, said, result, sessionVars, busy, taskVars>>

NextStepOffByOne(r) ==
    /\ pc[r] = "pause"
    /\ iter[r] <= MaxIterations
    /\ r \notin cancelled
    /\ pc' = [pc EXCEPT ![r] = "step"]
    /\ UNCHANGED <<user, context, said, result, sessionVars, busy, taskVars>>

\* The head of the loop after the pause: another iteration, ...
NextStep(r) ==
    /\ pc[r] = "pause"
    /\ iter[r] < MaxIterations
    /\ r \notin cancelled
    /\ pc' = [pc EXCEPT ![r] = "step"]
    /\ UNCHANGED <<user, context, said, result, sessionVars, busy, taskVars>>

\* ... the end of a cancelled task, ...
NoticeCancel(r) ==
    /\ pc[r] = "pause"
    /\ iter[r] < MaxIterations
    /\ r \in cancelled
    /\ cancelled' = cancelled \ {r}
    /\ row' = [row EXCEPT ![r] = "failed"]
    /\ Finish(r, "final", "cancelled")
    /\ UNCHANGED <<sessionVars, iter, began, stopped>>

\* ... or, without a look at that set, of one that used up its iterations.
Exhaust(r) ==
    /\ pc[r] = "pause"
    /\ iter[r] = MaxIterations
    /\ row' = [row EXCEPT ![r] = "failed"]
    /\ Finish(r, "final", "exhausted")
    /\ UNCHANGED <<sessionVars, iter, began, cancelled, stopped>>

\* /stop: cancelUserSession.
Stop(u) ==
    /\ u # WebUser
    /\ \E r \in Request :
          /\ IsNewestActive(r, u)
          /\ row' = [row EXCEPT ![r] = "failed"]
          /\ cancelled' = cancelled \cup {r}
          /\ stopped' = stopped \cup {r}
    /\ UNCHANGED <<requestVars, sessionVars, busy, iter, began>>

-----------------------------------------------------------------------------
(* The rest of the process.                                                *)

\* An hour has passed since the last setMessages.
Hour(u) ==
    /\ u \in live \ stale
    /\ stale' = stale \cup {u}
    /\ UNCHANGED <<requestVars, live, history, due, busy, taskVars>>

Emptied(h, us) == [u \in User |-> IF u \in us THEN <<>> ELSE h[u]]

\* The cleanup that runs every five minutes.
Cleanup ==
    /\ stale # {}
    /\ live' = live \ stale
    /\ stale' = {}
    /\ history' = Emptied(history, stale)
    /\ due' = Emptied(due, stale)
    /\ UNCHANGED <<requestVars, busy, taskVars>>

\* POST /api/chat/reset, the "New Chat" button.
Reset ==
    /\ WebUser \in live
    /\ SetMessages(WebUser, <<>>)
    /\ due' = [due EXCEPT ![WebUser] = <<>>]
    /\ UNCHANGED <<requestVars, busy, taskVars>>

\* The process dies and is started again.
Restart ==
    /\ pc' = [r \in Request |-> IF InFlight(r) THEN "lost" ELSE pc[r]]
    /\ live' = {}
    /\ stale' = {}
    /\ history' = Emptied(history, User)
    /\ due' = Emptied(due, User)
    /\ busy' = FALSE
    /\ cancelled' = {}
    /\ UNCHANGED <<user, context, said, result, row, iter, began, stopped>>

Next ==
    \/ \E r \in Request, u \in User :
          ReceiveComplex(r, u) \/ \E complex \in BOOLEAN : ReceiveChat(r, u, complex)
    \/ \E r \in Request, turn \in Turn : ChatAnswers(r, turn) \/ ChatContinues(r, turn)
    \/ \E r \in Request :
          \/ Refuse(r) \/ ChatFails(r)
          \/ StepContinues(r) \/ StepCompletes(r) \/ StepFails(r)
          \/ NextStep(r) \/ NoticeCancel(r) \/ Exhaust(r)
    \/ \E u \in User : Stop(u) \/ Hour(u)
    \/ Cleanup
    \/ Reset
    \/ Restart

Spec == Init /\ [][Next]_vars

\* The model answers or the call fails, approvals time out after five minutes,
\* and the pause is a timer: every await of a handler ends.
Fairness ==
    \A r \in Request :
        /\ WF_vars(ChatFails(r) \/ \E turn \in Turn : ChatAnswers(r, turn) \/ ChatContinues(r, turn))
        /\ WF_vars(StepContinues(r) \/ StepCompletes(r) \/ StepFails(r))
        /\ WF_vars(NextStep(r) \/ NoticeCancel(r) \/ Exhaust(r))

FairSpec == Spec /\ Fairness

-----------------------------------------------------------------------------
(* Properties.                                                             *)

\* Once a cancellation was confirmed, the loop of that task starts no further
\* iteration, although it learns of /stop only at its head and its own write
\* may have made the row active again in between.
NoStepAfterStop ==
    [][\A r \in stopped : pc'[r] = "step" => pc[r] = "step"]_vars

\* The row of a task is what sessions lists show and what decides whether a new
\* loop may start.  It is active only while a loop works on the task, except
\* for loops that died of an error or in a restart; and when a loop returns, the
\* row says what the user was told, whatever /stop wrote meanwhile.
RowsTellTasks ==
    \A r \in Request :
        /\ row[r] = "active" => InLoop(r) \/ result[r] = "error" \/ pc[r] = "lost"
        /\ result[r] = "completed" => row[r] = "completed"
        /\ result[r] \in {"cancelled", "exhausted"} => row[r] = "failed"
        /\ result[r] = "chatted" => row[r] = "absent"

\* The web chat works on one message at a time, and is never left busy with
\* nobody at work: its handler clears the flag on every way out.
WebChatIsSerial ==
    LET atWork == {r \in Request : InFlight(r) /\ user[r] = WebUser}
    IN  /\ \A r, q \in atWork : r = q
        /\ busy <=> atWork # {}

EndsWith(s, t) ==
    /\ Len(t) <= Len(s)
    /\ SubSeq(s, Len(s) - Len(t) + 1, Len(s)) = t

\* The history of the web chat is complete: the messages of every chat since the
\* history was last emptied are its end.  handleChat reads the history before a
\* long await and replaces it after, which is right only if nothing else did.
WebHistoryIsComplete ==
    WebUser \in User => EndsWith(history[WebUser], LastMessages(due[WebUser]))

\* Every message is answered, or its handler dies with the process: no handler
\* waits for ever and the loop stops by itself.
EveryRequestIsAnswered ==
    \A r \in Request : InFlight(r) ~> said[r] \cap {"final", "error"} # {} \/ pc[r] = "lost"

\* Why the properties of tasks hold.
IterationsCounted(r) ==
    /\ pc[r] = "step" => iter[r] < MaxIterations
    /\ pc[r] \in {"idle", "chat"} => row[r] = "absent" /\ iter[r] = 0

\* /stop reaches a running loop through cancelledSessions, never through the row.
StopIsKnown(r) ==
    InLoop(r) => /\ row[r] \in {"active", "failed"}
                 /\ r \in stopped <=> r \in cancelled
                 /\ row[r] = "failed" => r \in stopped

\* Only the web user sets the flag.
WebIsKnown == busy => WebUser \in User

TaskInv ==
    /\ \A r \in Request :
          /\ IterationsCounted(r)
          /\ StopIsKnown(r)
          /\ InFlight(r) => user[r] \in User
          /\ pc[r] # "done" => result[r] = "none"
          /\ r \in stopped \cup cancelled => row[r] # "absent"
    /\ RowsTellTasks
    /\ WebIsKnown

=============================================================================
