------------------------------- MODULE Bridge -------------------------------
(***************************************************************************)
(* The Telegram bridge (packages/bridge-telegram/src/index.ts) between the *)
(* gateway and a chat: commands and messages of the user on their way to   *)
(* the gateway and their answers on the way back, and the life of the      *)
(* message that asks for an approval.  The gateway's side is what its      *)
(* socket handler does at once (packages/gateway/src/index.ts) and, of the *)
(* gate, when an approval is asked for, decided and expired.               *)
(*                                                                         *)
(* Handlers of socket messages are async and overlap: each call of the     *)
(* Telegram API is a job that ends when it ends.  Updates of Telegram are  *)
(* handled one after the other (grammY's long polling) and are delivered   *)
(* again when the bridge dies before it has confirmed them.                *)
(***************************************************************************)
EXTENDS SocketLink, FiniteSets

CONSTANTS
    Approval,      \* approval ids
    Request,       \* what the user types, told apart
    NoRequest,     \* stands for it in what the gateway sends unasked
    Decision,      \* the answers behind the buttons
    TelegramFails, \* Telegram may turn down or lose a call
    MaxItems,      \* bound on approvals asked for and texts typed
    MaxPresses,    \* bound on the user's button presses
    MaxFaults      \* bound on deaths of the gateway and the bridge

ASSUME BridgeAssumption ==
    /\ TelegramFails \in BOOLEAN
    /\ Decision \subseteq {"approved", "rejected", "session-approved"}
    /\ MaxItems \in Nat
    /\ MaxPresses \in Nat
    /\ MaxFaults \in Nat
    /\ Approval \cap Request = {}
    /\ NoRequest \notin Approval \cup Request

VARIABLES
    chat,             \* the chat an approval was asked in
    verdict,          \* what became of it at the gateway
    by,               \* the channel of the answer that decided it
    work,             \* requests the gateway is busy with, by connection
    approvalMessages, \* the message tracked for an approval, 0 for none
    resolvedApprovals,
    pendingRequests,
    updates,          \* updates Telegram has not seen confirmed
    handled,          \* how many of them were handled
    busy,             \* the handler of the next one awaits Telegram
    jobs,             \* calls of the API by handlers of socket messages
    face,             \* what the messages of an approval show
    asked,            \* requests that were handed to the socket
    seen,             \* requests with an answer in the chat
    refused,          \* requests whose answer was blank or turned down
    disturbed,        \* approvals and requests hit by a death
    items, presses, faults  \* counters for the bounds

gatewayVars == <<chat, verdict, by, work>>
processVars == <<approvalMessages, resolvedApprovals, pendingRequests>>
updateVars == <<updates, handled, busy>>
requestVars == <<asked, seen, refused>>
boundVars == <<items, presses, faults>>
vars == <<linkVars, gatewayVars, processVars, updateVars, jobs, face,
          requestVars, disturbed, boundVars>>

Chat == {"telegram", "web"}
Try == 1..2  \* an approval is sent at most twice, formatted and plain

-----------------------------------------------------------------------------
(* Commands: the request a command sends, or Usage for what it answers     *)
(* itself.  arg is ctx.match, the text after the command, "" for none.     *)

Usage == "usage"

MemoriesCommand == "memory-list"
ForgetCommand(arg) == IF arg = "" THEN Usage ELSE "memory-delete"
SessionsCommand == "session-list"
StopCommand == "task-stop"
HeartbeatsCommand == "heartbeat-list"
ToggleCommand == "heartbeat-toggle"
ConnectCommand(arg) ==
    IF arg \in {"codex", "codex callback url"} THEN "auth-connect" ELSE Usage
AuthStatusCommand(arg) == IF arg = "codex" THEN "auth-status" ELSE Usage
DisconnectCommand(arg) == IF arg = "codex" THEN "auth-disconnect" ELSE Usage

\* What the user may type, as the request it leads to.
Typed ==
    {"message", MemoriesCommand, SessionsCommand, StopCommand,
     HeartbeatsCommand, ToggleCommand}
    \cup {ForgetCommand(arg) : arg \in {"", "topic"}}
    \cup {ConnectCommand(arg) :
             arg \in {"", "other", "codex", "codex callback",
                      "codex callback url"}}
    \cup {AuthStatusCommand(arg) : arg \in {"", "codex", "other"}}
    \cup {DisconnectCommand(arg) : arg \in {"", "codex"}}

-----------------------------------------------------------------------------
(* Answers of the gateway.  ok tells a list with entries from an empty one *)
(* and success from failure.                                               *)

Answers(type) == [type : {type}, ok : BOOLEAN]

MemoryListed == Answers("memory-list-response")
MemoryDeleted == Answers("memory-delete-response")
SessionsListed == Answers("session-list-response")
TaskStopped == Answers("task-stop-response")
HeartbeatsListed == Answers("heartbeat-list-response")
HeartbeatToggled == Answers("heartbeat-toggle-response")
AuthStatusTold == Answers("auth-response")
AuthDisconnected == Answers("auth-response")
AuthConnected == Answers("auth-response")
MessageAnswered == Answers("response") \cup
                   [type : {"blank response"}, ok : {TRUE}]

\* Sent to every bridge unasked: a notification, the progress of a task, a
\* heartbeat that begins.
Pushed == [type : {"notification", "task-progress", "heartbeat-triggered"},
           ok : {TRUE}]

\* The handler answers these before it returns, to every bridge.
AnswersAtOnce(type) ==
    CASE type = "memory-list" -> MemoryListed
      [] type = "memory-delete" -> MemoryDeleted
      [] type = "session-list" -> SessionsListed
      [] type = "task-stop" -> TaskStopped
      [] type = "heartbeat-list" -> HeartbeatsListed
      [] type = "heartbeat-toggle" -> HeartbeatToggled
      [] type = "auth-status" -> AuthStatusTold
      [] type = "auth-disconnect" -> AuthDisconnected
      [] OTHER -> {}

-----------------------------------------------------------------------------
(* What the bridge sends to Telegram for an answer: the texts it tries, one *)
(* after the other, by how Telegram reads them.  "escaped" is MarkdownV2    *)
(* with every reserved character escaped, "reserved" one with a character   *)
(* of escapeMarkdown's list left bare, which Telegram turns down; "html"    *)
(* may hold tags that do not nest.                                          *)

Text == {"plain", "escaped", "reserved", "html"}

MemoryListTexts(ok) == IF ok THEN <<"reserved", "plain">> ELSE <<"plain">>
MemoryDeleteTexts == <<"plain">>
SessionListTexts(ok) == IF ok THEN <<"reserved">> ELSE <<"plain">>
TaskStopTexts == <<"plain">>
HeartbeatListTexts(ok) == IF ok THEN <<"escaped", "plain">> ELSE <<"plain">>
HeartbeatToggleTexts == <<"plain">>
FormattedTexts == <<"html", "plain">>  \* sendFormattedMessage
AuthTexts == FormattedTexts
AnswerTexts == FormattedTexts
BlankTexts == <<>>  \* nothing is left of it without its <think> tags
NotificationTexts == FormattedTexts
ProgressTexts == <<"reserved">>
HeartbeatTexts == <<"reserved">>

TextsOf(answer) ==
    CASE answer.type = "memory-list-response" -> MemoryListTexts(answer.ok)
      [] answer.type = "memory-delete-response" -> MemoryDeleteTexts
      [] answer.type = "session-list-response" -> SessionListTexts(answer.ok)
      [] answer.type = "task-stop-response" -> TaskStopTexts
      [] answer.type = "heartbeat-list-response" -> HeartbeatListTexts(answer.ok)
      [] answer.type = "heartbeat-toggle-response" -> HeartbeatToggleTexts
      [] answer.type = "auth-response" -> AuthTexts
      [] answer.type = "response" -> AnswerTexts
      [] answer.type = "blank response" -> BlankTexts
      [] answer.type = "notification" -> NotificationTexts
      [] answer.type = "task-progress" -> ProgressTexts
      [] answer.type = "heartbeat-triggered" -> HeartbeatTexts

\* The text that replaces an expired approval: its full stops are bare.
ExpiryText == "reserved"

\* External: how Telegram may take a text, and a call that always parses.
Parses(text) ==
    CASE text = "reserved" -> {FALSE}
      [] text = "html" -> BOOLEAN
      [] OTHER -> {TRUE} \cup (IF TelegramFails THEN {FALSE} ELSE {})

-----------------------------------------------------------------------------
Init ==
    /\ LinkInit
    /\ chat = [a \in Approval |-> "none"]
    /\ verdict = [a \in Approval |-> "none"]
    /\ by = [a \in Approval |-> "nobody"]
    /\ work = {}
    /\ approvalMessages = [a \in Approval |-> 0]
    /\ resolvedApprovals = {}
    /\ pendingRequests = {}
    /\ updates = <<>>
    /\ handled = 0
    /\ busy = FALSE
    /\ jobs = {}
    /\ face = [a \in Approval |-> [i \in Try |-> "none"]]
    /\ asked = {} /\ seen = {} /\ refused = {}
    /\ disturbed = {}
    /\ items = 0 /\ presses = 0 /\ faults = 0

-----------------------------------------------------------------------------
(* The user.                                                               *)

UserTypes(r) ==
    /\ items < MaxItems
    /\ items' = items + 1
    /\ r \notin asked \cup seen \cup refused
    /\ \A i \in 1..Len(updates) : updates[i].of # r
    /\ \E what \in Typed :
          updates' = Append(updates, [kind |-> "text", of |-> r, what |-> what])
    /\ UNCHANGED <<linkVars, gatewayVars, processVars, handled, busy, jobs,
                   face, requestVars, disturbed, presses, faults>>

UserPresses(a) ==
    /\ presses < MaxPresses
    /\ \E i \in Try, d \in Decision :
          /\ face[a][i] = "buttons"
          /\ updates' = Append(updates, [kind |-> "press", of |-> a,
                                         message |-> i, decision |-> d])
    /\ presses' = presses + 1
    /\ UNCHANGED <<linkVars, gatewayVars, processVars, handled, busy, jobs,
                   face, requestVars, disturbed, items, faults>>

-----------------------------------------------------------------------------
(* Updates of Telegram at the bridge.                                      *)

NextUpdate(kind) ==
    /\ ~busy
    /\ handled < Len(updates)
    /\ updates[handled + 1].kind = kind

\* The history variables when r is handed to the socket, or lost there.
Forwarded(r) ==
    /\ asked' = asked \cup {r}
    /\ disturbed' = IF socket = "open" THEN disturbed ELSE disturbed \cup {r}

\* A command or message that the bridge answers itself: usage, or the
\* apology that there is no connection.  The handler awaits ctx.reply.
AnswerHere ==
    /\ NextUpdate("text")
    /\ updates[handled + 1].what = Usage \/ ~connected
    /\ busy' = TRUE
    /\ UNCHANGED <<linkVars, gatewayVars, processVars, updates, handled, jobs,
                   face, requestVars, disturbed, boundVars>>

\* ctx.reply returns.
HereAnswered ==
    /\ busy
    /\ updates[handled + 1].kind = "text"
    /\ seen' = seen \cup {updates[handled + 1].of}
    /\ busy' = FALSE
    /\ handled' = handled + 1
    /\ UNCHANGED <<linkVars, gatewayVars, processVars, updates, jobs, face,
                   asked, refused, disturbed, boundVars>>

\* A command goes to the gateway.
ForwardCommand ==
    /\ NextUpdate("text")
    /\ connected
    /\ LET u == updates[handled + 1] IN
          /\ u.what \notin {Usage, "message"}
          /\ Send([type |-> u.what, of |-> u.of])
          /\ Forwarded(u.of)
    /\ handled' = handled + 1
    /\ UNCHANGED <<listening, nextClientId, clients, socket, connected,
                   reconnectTimer, reconnectDelay, toClient, gatewayVars,
                   processVars, updates, busy, jobs, face, seen, refused,
                   boundVars>>

\* message:text, with its entry in pendingRequests.
ForwardMessage ==
    /\ NextUpdate("text")
    /\ connected
    /\ LET u == updates[handled + 1] IN
          /\ u.what = "message"
          /\ pendingRequests' = pendingRequests \cup {u.of}
          /\ Send([type |-> "message", of |-> u.of])
          /\ Forwarded(u.of)
    /\ handled' = handled + 1
    /\ UNCHANGED <<listening, nextClientId, clients, socket, connected,
                   reconnectTimer, reconnectDelay, toClient, gatewayVars,
                   approvalMessages, resolvedApprovals, updates, busy, jobs,
                   face, seen, refused, boundVars>>

\* callback_query: a press on a settled approval, or without a connection,
\* is answered and changes nothing.
IgnorePress ==
    /\ NextUpdate("press")
    /\ updates[handled + 1].of \in resolvedApprovals \/ ~connected
    /\ handled' = handled + 1
    /\ UNCHANGED <<linkVars, gatewayVars, processVars, updates, busy, jobs,
                   face, requestVars, disturbed, boundVars>>

\* Variant of AcceptPress: settled approvals are not told apart.
AcceptAnyPress ==
    /\ NextUpdate("press")
    /\ connected
    /\ LET u == updates[handled + 1] IN
          /\ Send([type |-> "approval-decision", of |-> u.of,
                   decision |-> u.decision])
          /\ resolvedApprovals' = resolvedApprovals \cup {u.of}
          /\ approvalMessages' = [approvalMessages EXCEPT ![u.of] = 0]
          /\ disturbed' = IF socket = "open" THEN disturbed
                          ELSE disturbed \cup {u.of}
    /\ busy' = TRUE
    /\ UNCHANGED <<listening, nextClientId, clients, socket, connected,
                   reconnectTimer, reconnectDelay, toClient, gatewayVars,
                   pendingRequests, updates, handled, jobs, face, requestVars,
                   boundVars>>

\* Variant of AcceptPress: the approval is not marked as settled.
AcceptUnmarked ==
    /\ NextUpdate("press")
    /\ connected
    /\ LET u == updates[handled + 1] IN
          /\ u.of \notin resolvedApprovals
          /\ Send([type |-> "approval-decision", of |-> u.of,
                   decision |-> u.decision])
          /\ approvalMessages' = [approvalMessages EXCEPT ![u.of] = 0]
          /\ disturbed' = IF socket = "open" THEN disturbed
                          ELSE disturbed \cup {u.of}
    /\ busy' = TRUE
    /\ UNCHANGED <<listening, nextClientId, clients, socket, connected,
                   reconnectTimer, reconnectDelay, toClient, gatewayVars,
                   resolvedApprovals, pendingRequests, updates, handled, jobs, face, requestVars,
                   boundVars>>

\* callback_query up to the await of editMessageText.
AcceptPress ==
    /\ NextUpdate("press")
    /\ connected
    /\ LET u == updates[handled + 1] IN
          /\ u.of \notin resolvedApprovals
          /\ Send([type |-> "approval-decision", of |-> u.of,
                   decision |-> u.decision])
          /\ resolvedApprovals' = resolvedApprovals \cup {u.of}
          /\ approvalMessages' = [approvalMessages EXCEPT ![u.of] = 0]
          /\ disturbed' = IF socket = "open" THEN disturbed
                          ELSE disturbed \cup {u.of}
    /\ busy' = TRUE
    /\ UNCHANGED <<listening, nextClientId, clients, socket, connected,
                   reconnectTimer, reconnectDelay, toClient, gatewayVars,
                   pendingRequests, updates, handled, jobs, face, requestVars,
                   boundVars>>

\* The edit that shows the decision; a failure is logged.
PressEdited ==
    /\ busy
    /\ LET u == updates[handled + 1] IN
          /\ u.kind = "press"
          /\ \E ok \in Parses("plain") :
                face' = IF ok THEN [face EXCEPT ![u.of][u.message] = u.decision]
                        ELSE face
    /\ busy' = FALSE
    /\ handled' = handled + 1
    /\ UNCHANGED <<linkVars, gatewayVars, processVars, updates, jobs,
                   requestVars, disturbed, boundVars>>

\* Variant of ConfirmUpdates: the offset is not moved.
ConfirmUpdatesOnly ==
    /\ ~busy
    /\ handled > 0
    /\ updates' = SubSeq(updates, handled + 1, Len(updates))
    /\ UNCHANGED <<linkVars, gatewayVars, processVars, handled, busy, jobs,
                   face, requestVars, disturbed, boundVars>>

\* The next getUpdates confirms what was handled.
ConfirmUpdates ==
    /\ ~busy
    /\ handled > 0
    /\ updates' = SubSeq(updates, handled + 1, Len(updates))
    /\ handled' = 0
    /\ UNCHANGED <<linkVars, gatewayVars, processVars, busy, jobs, face,
                   requestVars, disturbed, boundVars>>

-----------------------------------------------------------------------------
(* The gateway.                                                            *)

\* The gate asks; both chats get the broadcast.
GatewayAsks(a, c) ==
    /\ items < MaxItems
    /\ items' = items + 1
    /\ listening
    /\ verdict[a] = "none"
    /\ verdict' = [verdict EXCEPT ![a] = "pending"]
    /\ chat' = [chat EXCEPT ![a] = c]
    /\ Broadcast([type |-> "approval-request", of |-> a, chat |-> c])
    /\ UNCHANGED <<listening, nextClientId, clients, socket, connected,
                   reconnectTimer, reconnectDelay, toServer, by, work,
                   processVars, updateVars, jobs, face, requestVars,
                   disturbed, presses, faults>>

\* The timer of awaitDecision: the approval expires and everyone is told.
GatewayExpires(a) ==
    /\ verdict[a] = "pending"
    /\ verdict' = [verdict EXCEPT ![a] = "expired"]
    /\ Broadcast([type |-> "approval-expired", of |-> a, chat |-> chat[a]])
    /\ UNCHANGED <<listening, nextClientId, clients, socket, connected,
                   reconnectTimer, reconnectDelay, toServer, chat, by, work,
                   processVars, updateVars, jobs, face, requestVars,
                   disturbed, boundVars>>

\* The gate, the loop or the scheduler tells the user something.
GatewayPushes ==
    /\ items < MaxItems
    /\ items' = items + 1
    /\ listening
    /\ \E p \in Pushed :
          Broadcast([type |-> p.type, of |-> NoRequest, chat |-> "telegram",
                     answer |-> p])
    /\ UNCHANGED <<listening, nextClientId, clients, socket, connected,
                   reconnectTimer, reconnectDelay, toServer, gatewayVars,
                   processVars, updateVars, jobs, face, requestVars,
                   disturbed, presses, faults>>

\* An answer of the dashboard; no bridge is told.
DashboardDecides(a, d) ==
    /\ verdict[a] = "pending"
    /\ verdict' = [verdict EXCEPT ![a] = d]
    /\ by' = [by EXCEPT ![a] = "dashboard"]
    /\ UNCHANGED <<linkVars, chat, work, processVars, updateVars, jobs, face,
                   requestVars, disturbed, boundVars>>

Received(type) == toServer # <<>> /\ Head(toServer).body.type = type

\* An approval decision: resolveApproval ignores what is not pending.
GatewayHearsDecision ==
    /\ Received("approval-decision")
    /\ LET m == Head(toServer).body
           counts == verdict[m.of] = "pending" IN
          /\ verdict' = IF counts THEN [verdict EXCEPT ![m.of] = m.decision]
                        ELSE verdict
          /\ by' = IF counts THEN [by EXCEPT ![m.of] = "telegram"] ELSE by
    /\ toServer' = Tail(toServer)
    /\ UNCHANGED <<listening, nextClientId, clients, socket, connected,
                   reconnectTimer, reconnectDelay, toClient, chat, work,
                   processVars, updateVars, jobs, face, requestVars,
                   disturbed, boundVars>>

\* A command that is answered before the handler returns.
GatewayAnswersAtOnce ==
    /\ toServer # <<>>
    /\ LET m == Head(toServer).body IN
       \E answer \in AnswersAtOnce(m.type) :
          Broadcast([type |-> answer.type, of |-> m.of, chat |-> "telegram",
                     answer |-> answer])
    /\ toServer' = Tail(toServer)
    /\ UNCHANGED <<listening, nextClientId, clients, socket, connected,
                   reconnectTimer, reconnectDelay, gatewayVars, processVars,
                   updateVars, jobs, face, requestVars, disturbed, boundVars>>

\* A message or a login: the handler awaits, with the connection it must
\* answer to in the closure reply.
GatewayTakes ==
    /\ Received("message") \/ Received("auth-connect")
    /\ LET m == Head(toServer) IN
          work' = work \cup {[of |-> m.body.of, what |-> m.body.type,
                              from |-> m.from]}
    /\ toServer' = Tail(toServer)
    /\ UNCHANGED <<listening, nextClientId, clients, socket, connected,
                   reconnectTimer, reconnectDelay, toClient, chat, verdict,
                   by, processVars, updateVars, jobs, face, requestVars,
                   disturbed, boundVars>>

\* Variant of GatewayAnswers: errors are not answered.
GatewayForgetsFailures(w) ==
    /\ w \in work
    /\ work' = work \ {w}
    /\ \E answer \in IF w.what = "message" THEN MessageAnswered
                     ELSE AuthConnected :
          LET line == [type |-> answer.type, of |-> w.of, chat |-> "telegram",
                       answer |-> answer]
          IN  IF answer.ok THEN SendTo(w.from, line) ELSE toClient' = toClient
    /\ UNCHANGED <<listening, nextClientId, clients, socket, connected,
                   reconnectTimer, reconnectDelay, toServer, chat, verdict,
                   by, processVars, updateVars, jobs, face, requestVars,
                   disturbed, boundVars>>

\* The answer to a message goes to the connection it came by, that of a
\* login to every bridge.
GatewayAnswers(w) ==
    /\ w \in work
    /\ work' = work \ {w}
    /\ \E answer \in IF w.what = "message" THEN MessageAnswered
                     ELSE AuthConnected :
          LET line == [type |-> answer.type, of |-> w.of, chat |-> "telegram",
                       answer |-> answer]
          IN  IF w.what = "message" THEN SendTo(w.from, line)
              ELSE Broadcast(line)
    /\ UNCHANGED <<listening, nextClientId, clients, socket, connected,
                   reconnectTimer, reconnectDelay, toServer, chat, verdict,
                   by, processVars, updateVars, jobs, face, requestVars,
                   disturbed, boundVars>>

-----------------------------------------------------------------------------
(* Socket messages at the bridge: the handler up to its first await.       *)

Incoming == toClient # <<>> /\ socket \in {"open", "broken"}

\* The line is taken from the socket; with the frame of all handlers.
Takes ==
    /\ Incoming
    /\ toClient' = Tail(toClient)
    /\ UNCHANGED <<listening, nextClientId, clients, socket, connected,
                   reconnectTimer, reconnectDelay, toServer, gatewayVars,
                   updateVars, face, requestVars, disturbed, boundVars>>

\* Messages for the dashboard's chat are dropped.
DropForeign ==
    /\ Takes
    /\ Head(toClient).chat # "telegram"
    /\ UNCHANGED <<processVars, jobs>>

\* handleApprovalRequest up to the first sendMessage.
ApprovalRequested ==
    /\ Takes
    /\ LET m == Head(toClient) IN
          /\ m.type = "approval-request"
          /\ m.chat = "telegram"
          /\ jobs' = jobs \cup {[job |-> "ask", of |-> m.of, try |-> 1,
                                 shown |-> FALSE]}
    /\ UNCHANGED processVars

\* handleApprovalExpired: the approval is settled, its message edited or,
\* when none is known, a new one sent.
ApprovalExpired ==
    /\ Takes
    /\ LET m == Head(toClient)
           ref == approvalMessages[m.of] IN
          /\ m.type = "approval-expired"
          /\ m.chat = "telegram"
          /\ resolvedApprovals' = resolvedApprovals \cup {m.of}
          /\ approvalMessages' = [approvalMessages EXCEPT ![m.of] = 0]
          /\ jobs' = IF ref = 0 THEN jobs
                     ELSE jobs \cup {[job |-> "expire", of |-> m.of,
                                      message |-> ref]}
    /\ UNCHANGED pendingRequests

\* The handlers of answers; handleSocketResponse forgets the request.
AnswerReceived ==
    /\ Takes
    /\ LET m == Head(toClient) IN
          /\ m.type \notin {"approval-request", "approval-expired"}
          /\ pendingRequests' = IF m.type \in {"response", "blank response"}
                                THEN pendingRequests \ {m.of}
                                ELSE pendingRequests
          /\ jobs' = jobs \cup {[job |-> "answer", of |-> m.of,
                                 texts |-> TextsOf(m.answer)]}
    /\ UNCHANGED <<approvalMessages, resolvedApprovals>>

-----------------------------------------------------------------------------
(* Calls of the Telegram API by these handlers.                            *)

\* External: the message is in the chat and its buttons can be pressed,
\* before sendMessage has returned.
ApprovalShown(j) ==
    /\ j \in jobs
    /\ j.job = "ask"
    /\ ~j.shown
    /\ face' = [face EXCEPT ![j.of][j.try] = "buttons"]
    /\ jobs' = (jobs \ {j}) \cup {[j EXCEPT !.shown = TRUE]}
    /\ UNCHANGED <<linkVars, gatewayVars, processVars, updateVars,
                   requestVars, disturbed, boundVars>>

\* sendMessage returns and the message is tracked.
ApprovalSent(j) ==
    /\ j \in jobs
    /\ j.job = "ask"
    /\ j.shown
    /\ approvalMessages' = [approvalMessages EXCEPT ![j.of] = j.try]
    /\ jobs' = jobs \ {j}
    /\ UNCHANGED <<linkVars, gatewayVars, resolvedApprovals, pendingRequests,
                   updateVars, face, requestVars, disturbed, boundVars>>

\* sendMessage throws, refused or with its answer lost: the plain text is
\* tried, and after that nothing.
ApprovalNotSent(j) ==
    /\ TelegramFails
    /\ j \in jobs
    /\ j.job = "ask"
    /\ jobs' = (jobs \ {j}) \cup
               (IF j.try = 1
                THEN {[j EXCEPT !.try = 2, !.shown = FALSE]} ELSE {})
    /\ UNCHANGED <<linkVars, gatewayVars, processVars, updateVars, face,
                   requestVars, disturbed, boundVars>>

\* The edit that should show the expiry and remove the buttons.
ExpiryEdited(j) ==
    /\ j \in jobs
    /\ j.job = "expire"
    /\ \E ok \in Parses(ExpiryText) :
          face' = IF ok THEN [face EXCEPT ![j.of][j.message] = "expired"]
                  ELSE face
    /\ jobs' = jobs \ {j}
    /\ UNCHANGED <<linkVars, gatewayVars, processVars, updateVars,
                   requestVars, disturbed, boundVars>>

\* A text of an answer is accepted, or the next one is tried, if any.
AnswerTried(j) ==
    /\ j \in jobs
    /\ j.job = "answer"
    /\ \E ok \in IF j.texts = <<>> THEN {FALSE} ELSE Parses(Head(j.texts)) :
          LET over == ok \/ Len(j.texts) <= 1 IN
          /\ jobs' = (jobs \ {j}) \cup
                     (IF over THEN {} ELSE {[j EXCEPT !.texts = Tail(@)]})
          /\ seen' = IF ok THEN seen \cup {j.of} ELSE seen
          /\ refused' = IF over /\ ~ok THEN refused \cup {j.of} ELSE refused
    /\ UNCHANGED <<linkVars, gatewayVars, processVars, updateVars, face,
                   asked, disturbed, boundVars>>

-----------------------------------------------------------------------------
(* Deaths.                                                                 *)

\* What a death may have cost: approvals that were asked for, requests that
\* were handed over and not answered.
Hit == {a \in Approval : verdict[a] # "none"} \cup (asked \ (seen \cup refused))

GatewayDies ==
    /\ faults < MaxFaults
    /\ faults' = faults + 1
    /\ ServerDies
    /\ verdict' = [a \in Approval |->
                     IF verdict[a] = "pending" THEN "lost" ELSE verdict[a]]
    /\ work' = {}
    /\ disturbed' = disturbed \cup Hit
    /\ UNCHANGED <<chat, by, processVars, updateVars, jobs, face, requestVars,
                   items, presses>>

\* main of a new process.
NewBridge ==
    /\ ClientRestarts
    /\ approvalMessages' = [a \in Approval |-> 0]
    /\ resolvedApprovals' = {}
    /\ pendingRequests' = {}
    /\ handled' = 0
    /\ busy' = FALSE
    /\ jobs' = {}

\* Docker restarts the bridge; Telegram delivers again what was not
\* confirmed.  One way to die is a write to a broken socket: SocketClient
\* emits an 'error' that nobody listens to.
BridgeRestarts ==
    /\ faults < MaxFaults
    /\ faults' = faults + 1
    /\ NewBridge
    /\ disturbed' = disturbed \cup Hit
    /\ UNCHANGED <<gatewayVars, updates, face, requestVars, items, presses>>

\* External: an exception of a handler of updates, here of ctx.reply or of
\* answerCallbackQuery.  bot.catch is not set, so grammY stops the bot, which
\* confirms the update, and the process dies of the rejected bot.start().
HandlerThrows ==
    /\ TelegramFails
    /\ faults < MaxFaults
    /\ faults' = faults + 1
    /\ handled < Len(updates)
    /\ LET u == updates[handled + 1] IN
          /\ \/ busy
             \/ u.kind = "press" /\ (u.of \in resolvedApprovals \/ ~connected)
          /\ IF busy /\ u.kind = "press"
             THEN \E what \in {face[u.of][u.message], u.decision} :
                     face' = [face EXCEPT ![u.of][u.message] = what]
             ELSE face' = face
          /\ disturbed' = disturbed \cup Hit \cup {u.of}
    /\ \E confirmed \in {0, handled + 1} :
          updates' = SubSeq(updates, confirmed + 1, Len(updates))
    /\ NewBridge
    /\ UNCHANGED <<gatewayVars, requestVars, items, presses>>

-----------------------------------------------------------------------------
GatewayStarts ==
    /\ Listen
    /\ UNCHANGED <<gatewayVars, processVars, updateVars, jobs, face,
                   requestVars, disturbed, boundVars>>

ClientStep ==
    /\ Connect \/ Refused \/ Close \/ Reconnect
    /\ UNCHANGED <<gatewayVars, processVars, updateVars, jobs, face,
                   requestVars, disturbed, boundVars>>

GatewayStep ==
    \/ GatewayAnswersAtOnce
    \/ GatewayTakes
    \/ \E w \in work : GatewayAnswers(w)
    \/ GatewayHearsDecision

UpdateStep ==
    \/ AnswerHere
    \/ HereAnswered
    \/ ForwardCommand
    \/ ForwardMessage
    \/ IgnorePress
    \/ AcceptPress
    \/ PressEdited

MessageStep ==
    \/ DropForeign
    \/ ApprovalRequested
    \/ ApprovalExpired
    \/ AnswerReceived

JobStep ==
    \E j \in jobs :
       \/ ApprovalShown(j)
       \/ ApprovalSent(j)
       \/ ApprovalNotSent(j)
       \/ ExpiryEdited(j)
       \/ AnswerTried(j)

Next ==
    \/ \E r \in Request : UserTypes(r)
    \/ \E a \in Approval :
          \/ UserPresses(a)
          \/ \E c \in Chat : GatewayAsks(a, c)
          \/ GatewayExpires(a)
          \/ \E d \in Decision : DashboardDecides(a, d)
    \/ GatewayPushes
    \/ GatewayStarts
    \/ ClientStep
    \/ GatewayStep
    \/ UpdateStep
    \/ ConfirmUpdates
    \/ MessageStep
    \/ JobStep
    \/ GatewayDies
    \/ BridgeRestarts
    \/ HandlerThrows

Spec == Init /\ [][Next]_vars

\* What both programs do by themselves they do eventually: Docker restarts
\* the gateway, timers fire, the gateway answers (module Conversations), and
\* calls of the Telegram API return or fail.
FairSpec ==
    /\ Spec
    /\ WF_vars(GatewayStarts)
    /\ WF_vars(ClientStep)
    /\ WF_vars(GatewayStep)
    /\ WF_vars(UpdateStep)
    /\ WF_vars(MessageStep)
    /\ WF_vars(JobStep)

-----------------------------------------------------------------------------
(* Properties.                                                             *)

\* Type invariant: the shapes of the bridge's tables, of the updates, of the
\* calls in flight and of what the chat shows.
TypeOK ==
    /\ LinkTypeOK
    /\ chat \in [Approval -> Chat \cup {"none"}]
    /\ verdict \in [Approval -> Decision \cup
                       {"none", "pending", "expired", "lost"}]
    /\ by \in [Approval -> {"nobody", "telegram", "dashboard"}]
    /\ work \subseteq [of : Request, what : {"message", "auth-connect"},
                       from : Nat]
    /\ approvalMessages \in [Approval -> Try \cup {0}]
    /\ resolvedApprovals \subseteq Approval
    /\ pendingRequests \subseteq Request
    /\ handled \in 0..Len(updates)
    /\ busy \in BOOLEAN
    /\ busy => handled < Len(updates)
    /\ face \in [Approval ->
                   [Try -> Decision \cup {"none", "buttons", "expired"}]]
    /\ asked \subseteq Request
    /\ seen \cup refused \subseteq Request \cup {NoRequest}
    /\ disturbed \subseteq Approval \cup Request

\* The answer a message shows is the answer the gateway heard: unless a death
\* intervened, an approval whose message in Telegram shows a decision was
\* decided so, is about to be, or was settled by the dashboard or the timer
\* before the decision arrived.
OnItsWay(a, d) ==
    \E i \in 1..Len(toServer) :
       LET m == toServer[i].body IN
       m.type = "approval-decision" /\ m.of = a /\ m.decision = d

ShownDecisionCounts ==
    \A a \in Approval \ disturbed, i \in Try :
       face[a][i] \in Decision =>
          \/ verdict[a] = face[a][i] /\ by[a] = "telegram"
          \/ verdict[a] = "expired" \/ by[a] = "dashboard"
          \/ OnItsWay(a, face[a][i])

\* Once the bridge knows that an approval is settled, by its own decision or
\* because it expired, its later messages are never again about to be decided:
\* whatever is tracked or shown by then, no second decision leaves.
OneDecisionPerProcess ==
    \A a \in Approval \ disturbed :
       /\ \A i, k \in 1..Len(toServer) :
             /\ toServer[i].body.type = "approval-decision"
             /\ toServer[k].body.type = "approval-decision"
             /\ toServer[i].body.of = a /\ toServer[k].body.of = a
             => i = k
       /\ by[a] = "telegram" => \A d \in Decision : ~OnItsWay(a, d)

\* Requests that are typed are answered in the chat, or Telegram turned the
\* answer down, or a death intervened while they were on their way.
RequestsAreAnswered ==
    \A r \in Request :
       (\E i \in 1..Len(updates) : updates[i].of = r)
          ~> r \in seen \cup refused \cup disturbed

=============================================================================
