---------------------------- MODULE BridgeProofs -----------------------------
(***************************************************************************)
(* Proofs about the bridge and its socket, for any approvals, requests and *)
(* answers, and any number of deaths.  Most lemmas say how one variable    *)
(* changes, with one step per action: BY names only the parts of the frame *)
(* that hold the variable.                                                 *)
(***************************************************************************)
EXTENDS Bridge, SequenceTheorems, TLAPS

-----------------------------------------------------------------------------
(* The connection.                                                         *)

LinkInv ==
    /\ listening \in BOOLEAN
    /\ nextClientId \in Nat
    /\ clients \subseteq 1..nextClientId
    /\ ~listening => clients = {}
    /\ socket \in SocketState
    /\ NeverGivesUp

\* The steps of the link that concern the connection.
LinkStep == Listen \/ Connect \/ Refused \/ Close \/ Reconnect \/ ServerDies \/ ClientRestarts

connectionVars == <<listening, nextClientId, clients, socket, connected,
                    reconnectTimer, reconnectDelay>>

LEMMA LinkStart == LinkInit => LinkInv
BY DEF LinkInit, LinkInv, NeverGivesUp, SocketState

LEMMA LinkNext ==
    ASSUME LinkInv, LinkStep \/ UNCHANGED connectionVars
    PROVE  LinkInv'
<1>1. CASE Listen
  BY <1>1 DEF Listen, LinkInv, NeverGivesUp, SocketState
<1>2. CASE Connect
  BY <1>2 DEF Connect, LinkInv, NeverGivesUp, SocketState
<1>3. CASE Refused
  BY <1>3 DEF Refused, ScheduleReconnect, LinkInv, NeverGivesUp, SocketState
<1>4. CASE Close
  BY <1>4 DEF Close, ScheduleReconnect, LinkInv, NeverGivesUp, SocketState
<1>5. CASE Reconnect
  BY <1>5 DEF Reconnect, LinkInv, NeverGivesUp, SocketState
<1>6. CASE ServerDies
  BY <1>6 DEF ServerDies, LinkInv, NeverGivesUp, SocketState
<1>7. CASE ClientRestarts
  BY <1>7 DEF ClientRestarts, LinkInv, NeverGivesUp, SocketState
<1>8. CASE UNCHANGED connectionVars
  BY <1>8 DEF connectionVars, LinkInv, NeverGivesUp
<1>. QED
  BY <1>1, <1>2, <1>3, <1>4, <1>5, <1>6, <1>7, <1>8 DEF LinkStep

-----------------------------------------------------------------------------
(* Types.                                                                  *)

Update == [kind : {"text"}, of : Request, what : Typed]
          \cup [kind : {"press"}, of : Approval, message : Try, decision : Decision]

Command == [type : {"approval-decision"}, of : Approval, decision : Decision]
           \cup [type : Typed, of : Request]

Sent == [from : Nat, body : Command]

AnswerType ==
    {"memory-list-response", "memory-delete-response", "session-list-response",
     "task-stop-response", "heartbeat-list-response", "heartbeat-toggle-response",
     "auth-response", "response", "blank response", "notification",
     "task-progress", "heartbeat-triggered"}

Answer == [type : AnswerType, ok : BOOLEAN]

Line == [type : {"approval-request", "approval-expired"}, of : Approval,
         chat : Chat \cup {"none"}]
        \cup [type : AnswerType, of : Request \cup {NoRequest}, chat : {"telegram"},
              answer : Answer]

Job == [job : {"ask"}, of : Approval, try : Try, shown : BOOLEAN]
       \cup [job : {"expire"}, of : Approval, message : Try]
       \cup [job : {"answer"}, of : Request \cup {NoRequest}, texts : Seq(Text)]

\* The queues, and what the type invariant needs of the connection.
QueueInv ==
    /\ LinkInv
    /\ updates \in Seq(Update)
    /\ toServer \in Seq(Sent)
    /\ toClient \in Seq(Line)
    /\ jobs \subseteq Job
    /\ ~listening => toServer = <<>>

LEMMA TypedKinds == "approval-decision" \notin Typed
<1>1. \A arg : ForgetCommand(arg) \in {"memory-delete", "usage"}
  BY DEF ForgetCommand, Usage
<1>2. \A arg : ConnectCommand(arg) \in {"auth-connect", "usage"}
  BY DEF ConnectCommand, Usage
<1>3. \A arg : AuthStatusCommand(arg) \in {"auth-status", "usage"}
  BY DEF AuthStatusCommand, Usage
<1>4. \A arg : DisconnectCommand(arg) \in {"auth-disconnect", "usage"}
  BY DEF DisconnectCommand, Usage
<1>5. Typed \subseteq {"message", "memory-list", "session-list", "task-stop", "heartbeat-list",
                     "heartbeat-toggle", "memory-delete", "usage", "auth-connect",
                     "auth-status", "auth-disconnect"}
  BY <1>1, <1>2, <1>3, <1>4 DEF Typed, MemoriesCommand, SessionsCommand,
     StopCommand,
     HeartbeatsCommand, ToggleCommand
<1>. QED
  BY <1>5

LEMMA PushedType == Pushed \subseteq Answer
BY DEF Pushed, Answer, AnswerType

LEMMA AtOnceType == \A type : AnswersAtOnce(type) \subseteq Answer
BY DEF AnswersAtOnce, Answers, MemoryListed, MemoryDeleted, SessionsListed,
   TaskStopped,
   HeartbeatsListed, HeartbeatToggled, AuthStatusTold, AuthDisconnected, Answer, AnswerType

LEMMA LaterType == MessageAnswered \cup AuthConnected \subseteq Answer
BY DEF MessageAnswered, AuthConnected, Answers, Answer, AnswerType

LEMMA TextsType == \A answer \in Answer : TextsOf(answer) \in Seq(Text)
<1>1. /\ <<"plain">> \in Seq(Text) /\ <<"reserved">> \in Seq(Text)
      /\ <<"reserved", "plain">> \in Seq(Text) /\ <<"escaped", "plain">> \in Seq(Text)
      /\ <<"html", "plain">> \in Seq(Text) /\ <<>> \in Seq(Text)
  BY DEF Text
<1>2. ASSUME NEW answer \in Answer
      PROVE  TextsOf(answer) \in {<<"plain">>, <<"reserved">>, <<"reserved", "plain">>,
                                 <<"escaped", "plain">>, <<"html", "plain">>, <<>>}
  <2>. DEFINE t == answer.type
  <2>1. t \in AnswerType
    BY DEF Answer
  <2>. QED
    BY <2>1, Zenon DEF TextsOf, AnswerType, MemoryListTexts, MemoryDeleteTexts,
       SessionListTexts, TaskStopTexts, HeartbeatListTexts, HeartbeatToggleTexts,
       FormattedTexts, AuthTexts, AnswerTexts, BlankTexts, NotificationTexts,
       ProgressTexts, HeartbeatTexts
<1>. QED
  BY <1>1, <1>2

LEMMA TypeInit == Init => TypeOK /\ QueueInv
<1>. SUFFICES ASSUME Init PROVE TypeOK /\ QueueInv
  OBVIOUS
<1>1. LinkInv
  BY LinkStart DEF Init
<1>2. LinkTypeOK
  <2>1. connected \in BOOLEAN /\ reconnectTimer \in BOOLEAN
    BY DEF Init, LinkInit
  <2>2. reconnectDelay \in MinDelay..MaxDelay
    BY DelayAssumption DEF Init, LinkInit
  <2>3. \A i \in 1..Len(toServer) : toServer[i].from \in 1..nextClientId
    BY DEF Init, LinkInit
  <2>. QED
    BY <1>1, <2>1, <2>2, <2>3 DEF LinkInv, LinkTypeOK
<1>3. TypeOK
  <2>1. handled \in 0..Len(updates)
    BY DEF Init
  <2>3. busy \in BOOLEAN /\ ~busy
    BY DEF Init
  <2>2. face \in [Approval -> [Try -> Decision \cup {"none", "buttons", "expired"}]]
    BY DEF Init
  <2>. QED
    BY <1>2, <2>1, <2>2, <2>3 DEF Init, TypeOK
<1>4. QueueInv
  BY <1>1 DEF Init, LinkInit, QueueInv
<1>. QED
  BY <1>3, <1>4

-----------------------------------------------------------------------------
(* Steps.                                                                  *)

LEMMA LinkSteps == [Next]_vars => LinkStep \/ UNCHANGED connectionVars
<1>. SUFFICES ASSUME [Next]_vars PROVE LinkStep \/ UNCHANGED connectionVars
  OBVIOUS
<1>1. ASSUME NEW r \in Request, UserTypes(r) PROVE LinkStep \/ UNCHANGED connectionVars
  BY <1>1 DEF UserTypes, linkVars, connectionVars
<1>2. ASSUME NEW a \in Approval, UserPresses(a) PROVE LinkStep \/ UNCHANGED connectionVars
  BY <1>2 DEF UserPresses, linkVars, connectionVars
<1>3. ASSUME NEW a \in Approval, NEW c \in Chat, GatewayAsks(a, c) PROVE LinkStep \/ UNCHANGED connectionVars
  BY <1>3 DEF GatewayAsks, Broadcast, connectionVars
<1>4. ASSUME NEW a \in Approval, GatewayExpires(a) PROVE LinkStep \/ UNCHANGED connectionVars
  BY <1>4 DEF GatewayExpires, Broadcast, connectionVars
<1>5. ASSUME NEW a \in Approval, NEW d \in Decision, DashboardDecides(a, d) PROVE LinkStep \/ UNCHANGED connectionVars
  BY <1>5 DEF DashboardDecides, linkVars, connectionVars
<1>6. CASE GatewayPushes
  BY <1>6 DEF GatewayPushes, Broadcast, connectionVars
<1>7. CASE GatewayStarts
  BY <1>7 DEF GatewayStarts, LinkStep
<1>8. CASE ClientStep
  BY <1>8 DEF ClientStep, LinkStep
<1>9. CASE GatewayAnswersAtOnce
  BY <1>9 DEF GatewayAnswersAtOnce, Broadcast, connectionVars
<1>10. CASE GatewayTakes
  BY <1>10 DEF GatewayTakes, Received, connectionVars
<1>11. ASSUME NEW w \in work, GatewayAnswers(w) PROVE LinkStep \/ UNCHANGED connectionVars
  BY <1>11 DEF GatewayAnswers, Broadcast, SendTo, connectionVars
<1>12. CASE GatewayHearsDecision
  BY <1>12 DEF GatewayHearsDecision, Received, connectionVars
<1>13. CASE AnswerHere
  BY <1>13 DEF AnswerHere, NextUpdate, linkVars, connectionVars
<1>14. CASE HereAnswered
  BY <1>14 DEF HereAnswered, linkVars, connectionVars
<1>15. CASE ForwardCommand
  BY <1>15 DEF ForwardCommand, NextUpdate, Send, Forwarded, connectionVars
<1>16. CASE ForwardMessage
  BY <1>16 DEF ForwardMessage, NextUpdate, Send, Forwarded, connectionVars
<1>17. CASE IgnorePress
  BY <1>17 DEF IgnorePress, NextUpdate, linkVars, connectionVars
<1>18. CASE AcceptPress
  BY <1>18 DEF AcceptPress, NextUpdate, Send, connectionVars
<1>19. CASE PressEdited
  BY <1>19 DEF PressEdited, linkVars, connectionVars
<1>20. CASE ConfirmUpdates
  BY <1>20 DEF ConfirmUpdates, linkVars, connectionVars
<1>21. CASE DropForeign
  BY <1>21 DEF DropForeign, Takes, Incoming, connectionVars
<1>22. CASE ApprovalRequested
  BY <1>22 DEF ApprovalRequested, Takes, Incoming, connectionVars
<1>23. CASE ApprovalExpired
  BY <1>23 DEF ApprovalExpired, Takes, Incoming, connectionVars
<1>24. CASE AnswerReceived
  BY <1>24 DEF AnswerReceived, Takes, Incoming, connectionVars
<1>25. ASSUME NEW j \in jobs, ApprovalShown(j) PROVE LinkStep \/ UNCHANGED connectionVars
  BY <1>25 DEF ApprovalShown, linkVars, connectionVars
<1>26. ASSUME NEW j \in jobs, ApprovalSent(j) PROVE LinkStep \/ UNCHANGED connectionVars
  BY <1>26 DEF ApprovalSent, linkVars, connectionVars
<1>27. ASSUME NEW j \in jobs, ApprovalNotSent(j) PROVE LinkStep \/ UNCHANGED connectionVars
  BY <1>27 DEF ApprovalNotSent, linkVars, connectionVars
<1>28. ASSUME NEW j \in jobs, ExpiryEdited(j) PROVE LinkStep \/ UNCHANGED connectionVars
  BY <1>28 DEF ExpiryEdited, linkVars, connectionVars
<1>29. ASSUME NEW j \in jobs, AnswerTried(j) PROVE LinkStep \/ UNCHANGED connectionVars
  BY <1>29 DEF AnswerTried, linkVars, connectionVars
<1>30. CASE GatewayDies
  BY <1>30 DEF GatewayDies, LinkStep
<1>31. CASE BridgeRestarts
  BY <1>31 DEF BridgeRestarts, NewBridge, LinkStep
<1>32. CASE HandlerThrows
  BY <1>32 DEF HandlerThrows, NewBridge, LinkStep
<1>33. CASE UNCHANGED vars
  BY <1>33 DEF vars, linkVars, connectionVars
<1>. QED
  BY <1>1, <1>2, <1>3, <1>4, <1>5, <1>6, <1>7, <1>8, <1>9, <1>10, <1>11, <1>12,
     <1>13, <1>14, <1>15, <1>16, <1>17, <1>18, <1>19, <1>20, <1>21, <1>22, <1>23,
     <1>24, <1>25, <1>26, <1>27, <1>28, <1>29, <1>30, <1>31, <1>32, <1>33 DEF Next,
     GatewayStep, UpdateStep, MessageStep, JobStep

\* What is in a queue, and what its four kinds of steps do to it.
Elements(q) == {q[i] : i \in 1..Len(q)}

LEMMA Appending ==
    ASSUME NEW S, NEW q \in Seq(S), NEW e \in S
    PROVE  /\ Append(q, e) \in Seq(S)
           /\ Len(Append(q, e)) = Len(q) + 1
           /\ \A i \in 1..Len(q) : Append(q, e)[i] = q[i]
           /\ Append(q, e)[Len(q) + 1] = e
           /\ Elements(Append(q, e)) = Elements(q) \cup {e}
BY DEF Elements

LEMMA Taking ==
    ASSUME NEW S, NEW q \in Seq(S), q # <<>>
    PROVE  /\ Head(q) \in S /\ Head(q) = q[1] /\ Len(q) >= 1
           /\ Tail(q) \in Seq(S)
           /\ Len(Tail(q)) = Len(q) - 1
           /\ \A i \in 1..Len(q) - 1 : Tail(q)[i] = q[i + 1]
           /\ Elements(q) = Elements(Tail(q)) \cup {Head(q)}
<1>1. /\ Head(q) \in S /\ Head(q) = q[1] /\ Len(q) >= 1
      /\ Tail(q) \in Seq(S)
      /\ Len(Tail(q)) = Len(q) - 1
      /\ \A i \in 1..Len(q) - 1 : Tail(q)[i] = q[i + 1]
  OBVIOUS
<1>2. ASSUME NEW i \in 1..Len(q) PROVE q[i] \in Elements(Tail(q)) \cup {Head(q)}
  <2>1. CASE i = 1
    BY <1>1, <2>1
  <2>2. CASE i # 1
    <3>1. i - 1 \in 1..Len(Tail(q)) /\ q[i] = Tail(q)[i - 1]
      BY <1>1, <2>2
    <3>. QED
      BY <3>1 DEF Elements
  <2>. QED
    BY <2>1, <2>2
<1>3. Elements(Tail(q)) \cup {Head(q)} \subseteq Elements(q)
  BY <1>1 DEF Elements
<1>. QED
  BY <1>1, <1>2, <1>3 DEF Elements

LEMMA Cutting ==
    ASSUME NEW S, NEW q \in Seq(S), NEW m \in 1..Len(q) + 1, NEW n \in 0..Len(q)
    PROVE  /\ SubSeq(q, m, n) \in Seq(S)
           /\ Len(SubSeq(q, m, n)) = IF m <= n THEN n - m + 1 ELSE 0
           /\ \A i \in 1..n - m + 1 : SubSeq(q, m, n)[i] = q[m + i - 1]
           /\ Elements(SubSeq(q, m, n)) \subseteq Elements(q)
<1>1. /\ SubSeq(q, m, n) \in Seq(S)
      /\ Len(SubSeq(q, m, n)) = IF m <= n THEN n - m + 1 ELSE 0
      /\ \A i \in 1..n - m + 1 : SubSeq(q, m, n)[i] = q[m + i - 1]
  BY SubSeqProperties
<1>. QED
  BY <1>1 DEF Elements

\* The next update, and the next line.
LEMMA NextUpdateType ==
    ASSUME TypeOK, QueueInv, handled < Len(updates)
    PROVE  /\ handled + 1 \in 1..Len(updates)
           /\ updates[handled + 1] \in Update
           /\ updates[handled + 1] \in Elements(updates)
BY DEF TypeOK, QueueInv, Elements

\* How the lines to the gateway change.
ToServerStep ==
    \/ toServer' = toServer
    \/ /\ socket = "open"
       /\ \E m \in Command : m.type # "approval-decision" /\
             toServer' = Append(toServer, [from |-> nextClientId, body |-> m])
    \/ AcceptPress
    \/ GatewayHearsDecision
    \/ toServer # <<>> /\ Head(toServer).body.type # "approval-decision"
                      /\ toServer' = Tail(toServer)
    \/ toServer' = <<>> /\ GatewayDies
    \/ (\E n \in 0..Len(toServer) : toServer' = SubSeq(toServer, 1, n))
       /\ (BridgeRestarts \/ HandlerThrows)

LEMMA ToServerSteps == TypeOK /\ QueueInv /\ [Next]_vars => ToServerStep
<1>. SUFFICES ASSUME TypeOK, QueueInv, [Next]_vars PROVE ToServerStep
  OBVIOUS
<1>1. ASSUME NEW r \in Request, UserTypes(r) PROVE ToServerStep
  BY <1>1 DEF UserTypes, linkVars, ToServerStep
<1>2. ASSUME NEW a \in Approval, UserPresses(a) PROVE ToServerStep
  BY <1>2 DEF UserPresses, linkVars, ToServerStep
<1>3. ASSUME NEW a \in Approval, NEW c \in Chat, GatewayAsks(a, c) PROVE ToServerStep
  BY <1>3 DEF GatewayAsks, Broadcast, ToServerStep
<1>4. ASSUME NEW a \in Approval, GatewayExpires(a) PROVE ToServerStep
  BY <1>4 DEF GatewayExpires, Broadcast, ToServerStep
<1>5. ASSUME NEW a \in Approval, NEW d \in Decision, DashboardDecides(a, d) PROVE ToServerStep
  BY <1>5 DEF DashboardDecides, linkVars, ToServerStep
<1>6. CASE GatewayPushes
  BY <1>6 DEF GatewayPushes, Broadcast, ToServerStep
<1>7. CASE GatewayStarts
  BY <1>7 DEF GatewayStarts, Listen, ToServerStep
<1>8. CASE ClientStep
  BY <1>8 DEF ClientStep, Connect, Refused, Close, Reconnect, ScheduleReconnect,
     ToServerStep
<1>9. CASE GatewayAnswersAtOnce
  <2>1. Head(toServer).body.type # "approval-decision"
    BY <1>9 DEF GatewayAnswersAtOnce, AnswersAtOnce
  <2>. QED
    BY <1>9, <2>1 DEF GatewayAnswersAtOnce, ToServerStep
<1>10. CASE GatewayTakes
  BY <1>10 DEF GatewayTakes, Received, ToServerStep
<1>11. ASSUME NEW w \in work, GatewayAnswers(w) PROVE ToServerStep
  BY <1>11 DEF GatewayAnswers, Broadcast, SendTo, ToServerStep
<1>12. CASE GatewayHearsDecision
  BY <1>12 DEF ToServerStep
<1>13. CASE AnswerHere
  BY <1>13 DEF AnswerHere, NextUpdate, linkVars, ToServerStep
<1>14. CASE HereAnswered
  BY <1>14 DEF HereAnswered, linkVars, ToServerStep
<1>15. CASE ForwardCommand
  <2>. DEFINE u == updates[handled + 1]
              m == [type |-> u.what, of |-> u.of]
  <2>1. u \in Update /\ u.kind = "text"
    BY <1>15, NextUpdateType DEF ForwardCommand, NextUpdate
  <2>2. u.what \in Typed /\ u.of \in Request
    BY <2>1 DEF Update
  <2>3. m \in Command /\ m.type # "approval-decision"
    BY <2>2, TypedKinds DEF Command
  <2>4. Send(m)
    BY <1>15 DEF ForwardCommand
  <2>. HIDE DEF m
  <2>. QED
    BY <2>3, <2>4 DEF Send, ToServerStep
<1>16. CASE ForwardMessage
  <2>. DEFINE u == updates[handled + 1]
              m == [type |-> u.what, of |-> u.of]
  <2>1. u \in Update /\ u.kind = "text"
    BY <1>16, NextUpdateType DEF ForwardMessage, NextUpdate
  <2>2. u.what \in Typed /\ u.of \in Request
    BY <2>1 DEF Update
  <2>3. m \in Command /\ m.type # "approval-decision"
    BY <2>2, TypedKinds DEF Command
  <2>4. Send(m)
    BY <1>16, <2>1 DEF ForwardMessage
  <2>. HIDE DEF m
  <2>. QED
    BY <2>3, <2>4 DEF Send, ToServerStep
<1>17. CASE IgnorePress
  BY <1>17 DEF IgnorePress, NextUpdate, linkVars, ToServerStep
<1>18. CASE AcceptPress
  BY <1>18 DEF ToServerStep
<1>19. CASE PressEdited
  BY <1>19 DEF PressEdited, linkVars, ToServerStep
<1>20. CASE ConfirmUpdates
  BY <1>20 DEF ConfirmUpdates, linkVars, ToServerStep
<1>21. CASE DropForeign
  BY <1>21 DEF DropForeign, Takes, Incoming, ToServerStep
<1>22. CASE ApprovalRequested
  BY <1>22 DEF ApprovalRequested, Takes, Incoming, ToServerStep
<1>23. CASE ApprovalExpired
  BY <1>23 DEF ApprovalExpired, Takes, Incoming, ToServerStep
<1>24. CASE AnswerReceived
  BY <1>24 DEF AnswerReceived, Takes, Incoming, ToServerStep
<1>25. ASSUME NEW j \in jobs, ApprovalShown(j) PROVE ToServerStep
  BY <1>25 DEF ApprovalShown, linkVars, ToServerStep
<1>26. ASSUME NEW j \in jobs, ApprovalSent(j) PROVE ToServerStep
  BY <1>26 DEF ApprovalSent, linkVars, ToServerStep
<1>27. ASSUME NEW j \in jobs, ApprovalNotSent(j) PROVE ToServerStep
  BY <1>27 DEF ApprovalNotSent, linkVars, ToServerStep
<1>28. ASSUME NEW j \in jobs, ExpiryEdited(j) PROVE ToServerStep
  BY <1>28 DEF ExpiryEdited, linkVars, ToServerStep
<1>29. ASSUME NEW j \in jobs, AnswerTried(j) PROVE ToServerStep
  BY <1>29 DEF AnswerTried, linkVars, ToServerStep
<1>30. CASE GatewayDies
  BY <1>30 DEF GatewayDies, ServerDies, ToServerStep
<1>31. CASE BridgeRestarts
  BY <1>31 DEF BridgeRestarts, NewBridge, ClientRestarts, ToServerStep
<1>32. CASE HandlerThrows
  BY <1>32 DEF HandlerThrows, NewBridge, ClientRestarts, ToServerStep
<1>33. CASE UNCHANGED vars
  BY <1>33 DEF vars, linkVars, ToServerStep
<1>. QED
  BY <1>1, <1>2, <1>3, <1>4, <1>5, <1>6, <1>7, <1>8, <1>9, <1>10, <1>11, <1>12,
     <1>13, <1>14, <1>15, <1>16, <1>17, <1>18, <1>19, <1>20, <1>21, <1>22, <1>23,
     <1>24, <1>25, <1>26, <1>27, <1>28, <1>29, <1>30, <1>31, <1>32, <1>33 DEF Next,
     GatewayStep, UpdateStep, MessageStep, JobStep

\* How the lines to the bridge change; those about an approval come after it
\* was asked for.
ToClientStep ==
    \/ toClient' = toClient
    \/ \E m \in Line :
          /\ m.type \in {"approval-request", "approval-expired"} => verdict'[m.of] # "none"
          /\ toClient' = Append(toClient, m)
    \/ toClient # <<>> /\ toClient' = Tail(toClient)
    \/ \E n \in 0..Len(toClient) : toClient' = SubSeq(toClient, 1, n)
    \/ toClient' = <<>>

LEMMA ToClientSteps == TypeOK /\ QueueInv /\ [Next]_vars => ToClientStep
<1>. SUFFICES ASSUME TypeOK, QueueInv, [Next]_vars PROVE ToClientStep
  OBVIOUS
<1>a. ASSUME NEW type \in AnswerType, NEW r \in Request \cup {NoRequest}, NEW answer \in Answer
      PROVE  LET m == [type |-> type, of |-> r, chat |-> "telegram", answer |-> answer]
             IN  m \in Line /\ m.type \notin {"approval-request", "approval-expired"}
  BY DEF Line, AnswerType
<1>1. ASSUME NEW r \in Request, UserTypes(r) PROVE ToClientStep
  BY <1>1 DEF UserTypes, linkVars, ToClientStep
<1>2. ASSUME NEW a \in Approval, UserPresses(a) PROVE ToClientStep
  BY <1>2 DEF UserPresses, linkVars, ToClientStep
<1>3. ASSUME NEW a \in Approval, NEW c \in Chat, GatewayAsks(a, c) PROVE ToClientStep
  <2>1. [type |-> "approval-request", of |-> a, chat |-> c] \in Line
    BY DEF Line
  <2>2. verdict'[a] # "none"
    BY <1>3 DEF GatewayAsks, TypeOK
  <2>. QED
    BY <1>3, <2>1, <2>2 DEF GatewayAsks, Broadcast, ToClientStep
<1>4. ASSUME NEW a \in Approval, GatewayExpires(a) PROVE ToClientStep
  <2>1. [type |-> "approval-expired", of |-> a, chat |-> chat[a]] \in Line
    BY DEF Line, TypeOK
  <2>2. verdict'[a] # "none"
    BY <1>4 DEF GatewayExpires, TypeOK
  <2>. QED
    BY <1>4, <2>1, <2>2 DEF GatewayExpires, Broadcast, ToClientStep
<1>5. ASSUME NEW a \in Approval, NEW d \in Decision, DashboardDecides(a, d) PROVE ToClientStep
  BY <1>5 DEF DashboardDecides, linkVars, ToClientStep
<1>6. CASE GatewayPushes
  <2>1. PICK x \in Pushed : Broadcast([type |-> x.type, of |-> NoRequest,
                                       chat |-> "telegram", answer |-> x])
    BY <1>6 DEF GatewayPushes
  <2>2. x \in Answer /\ x.type \in AnswerType
    BY PushedType DEF Answer
  <2>. QED
    BY <1>a, <2>1, <2>2 DEF Broadcast, ToClientStep
<1>7. CASE GatewayStarts
  BY <1>7 DEF GatewayStarts, Listen, ToClientStep
<1>8. CASE ClientStep
  BY <1>8 DEF ClientStep, Connect, Refused, Close, Reconnect, ScheduleReconnect,
     ToClientStep
<1>9. CASE GatewayAnswersAtOnce
  <2>. DEFINE m == Head(toServer).body
  <2>1. PICK x \in AnswersAtOnce(m.type) :
           Broadcast([type |-> x.type, of |-> m.of, chat |-> "telegram", answer |-> x])
    BY <1>9 DEF GatewayAnswersAtOnce
  <2>2. x \in Answer /\ x.type \in AnswerType
    BY AtOnceType DEF Answer
  <2>5. m \in Command
    <3>1. toServer \in Seq(Sent) /\ toServer # <<>>
      BY <1>9 DEF GatewayAnswersAtOnce, QueueInv
    <3>2. Head(toServer) \in Sent
      BY <3>1, Taking
    <3>. QED
      BY <3>2 DEF Sent
  <2>6. m.type # "approval-decision"
    BY <2>1 DEF AnswersAtOnce
  <2>3. m \in Command /\ m.type # "approval-decision"
    BY <2>5, <2>6
  <2>4. m.of \in Request
    BY <2>3 DEF Command
  <2>. QED
    BY <1>a, <2>1, <2>2, <2>4 DEF Broadcast, ToClientStep
<1>10. CASE GatewayTakes
  BY <1>10 DEF GatewayTakes, Received, ToClientStep
<1>11. ASSUME NEW w \in work, GatewayAnswers(w) PROVE ToClientStep
  <2>. DEFINE line(x) == [type |-> x.type, of |-> w.of, chat |-> "telegram", answer |-> x]
  <2>1. PICK x \in MessageAnswered \cup AuthConnected :
           toClient' = toClient \/ toClient' = Append(toClient, line(x))
    BY <1>11 DEF GatewayAnswers, SendTo, Broadcast
  <2>2. x \in Answer /\ x.type \in AnswerType
    BY LaterType DEF Answer
  <2>3. w.of \in Request
    BY DEF TypeOK
  <2>. QED
    BY <1>a, <2>1, <2>2, <2>3 DEF ToClientStep
<1>12. CASE GatewayHearsDecision
  BY <1>12 DEF GatewayHearsDecision, Received, ToClientStep
<1>13. CASE AnswerHere
  BY <1>13 DEF AnswerHere, NextUpdate, linkVars, ToClientStep
<1>14. CASE HereAnswered
  BY <1>14 DEF HereAnswered, linkVars, ToClientStep
<1>15. CASE ForwardCommand
  BY <1>15 DEF ForwardCommand, NextUpdate, Send, Forwarded, ToClientStep
<1>16. CASE ForwardMessage
  BY <1>16 DEF ForwardMessage, NextUpdate, Send, Forwarded, ToClientStep
<1>17. CASE IgnorePress
  BY <1>17 DEF IgnorePress, NextUpdate, linkVars, ToClientStep
<1>18. CASE AcceptPress
  BY <1>18 DEF AcceptPress, NextUpdate, Send, ToClientStep
<1>19. CASE PressEdited
  BY <1>19 DEF PressEdited, linkVars, ToClientStep
<1>20. CASE ConfirmUpdates
  BY <1>20 DEF ConfirmUpdates, linkVars, ToClientStep
<1>21. CASE DropForeign
  BY <1>21 DEF DropForeign, Takes, Incoming, ToClientStep
<1>22. CASE ApprovalRequested
  BY <1>22 DEF ApprovalRequested, Takes, Incoming, ToClientStep
<1>23. CASE ApprovalExpired
  BY <1>23 DEF ApprovalExpired, Takes, Incoming, ToClientStep
<1>24. CASE AnswerReceived
  BY <1>24 DEF AnswerReceived, Takes, Incoming, ToClientStep
<1>25. ASSUME NEW j \in jobs, ApprovalShown(j) PROVE ToClientStep
  BY <1>25 DEF ApprovalShown, linkVars, ToClientStep
<1>26. ASSUME NEW j \in jobs, ApprovalSent(j) PROVE ToClientStep
  BY <1>26 DEF ApprovalSent, linkVars, ToClientStep
<1>27. ASSUME NEW j \in jobs, ApprovalNotSent(j) PROVE ToClientStep
  BY <1>27 DEF ApprovalNotSent, linkVars, ToClientStep
<1>28. ASSUME NEW j \in jobs, ExpiryEdited(j) PROVE ToClientStep
  BY <1>28 DEF ExpiryEdited, linkVars, ToClientStep
<1>29. ASSUME NEW j \in jobs, AnswerTried(j) PROVE ToClientStep
  BY <1>29 DEF AnswerTried, linkVars, ToClientStep
<1>30. CASE GatewayDies
  BY <1>30 DEF GatewayDies, ServerDies, ToClientStep
<1>31. CASE BridgeRestarts
  BY <1>31 DEF BridgeRestarts, NewBridge, ClientRestarts, ToClientStep
<1>32. CASE HandlerThrows
  BY <1>32 DEF HandlerThrows, NewBridge, ClientRestarts, ToClientStep
<1>33. CASE UNCHANGED vars
  BY <1>33 DEF vars, linkVars, ToClientStep
<1>. QED
  BY <1>1, <1>2, <1>3, <1>4, <1>5, <1>6, <1>7, <1>8, <1>9, <1>10, <1>11, <1>12,
     <1>13, <1>14, <1>15, <1>16, <1>17, <1>18, <1>19, <1>20, <1>21, <1>22, <1>23,
     <1>24, <1>25, <1>26, <1>27, <1>28, <1>29, <1>30, <1>31, <1>32, <1>33 DEF Next,
     GatewayStep, UpdateStep, MessageStep, JobStep

\* How the updates change; buttons are pressed where they are shown.
UpdatesStep ==
    \/ /\ updates' = updates
       /\ \/ handled' = handled
          \/ handled' = 0
          \/ handled < Len(updates) /\ handled' = handled + 1
    \/ /\ \E u \in Update : /\ u.kind = "press" => face[u.of][u.message] = "buttons"
                            /\ updates' = Append(updates, u)
       /\ handled' = handled
    \/ /\ \E n \in 0..Len(updates) : updates' = SubSeq(updates, n + 1, Len(updates))
       /\ handled' = 0

LEMMA UpdatesSteps == TypeOK /\ QueueInv /\ [Next]_vars => UpdatesStep
<1>. SUFFICES ASSUME TypeOK, QueueInv, [Next]_vars PROVE UpdatesStep
  OBVIOUS
<1>h. handled \in 0..Len(updates) /\ (busy => handled < Len(updates))
  BY DEF TypeOK
<1>1. ASSUME NEW r \in Request, UserTypes(r) PROVE UpdatesStep
  <2>1. \A what \in Typed : [kind |-> "text", of |-> r, what |-> what] \in Update
    BY DEF Update
  <2>. QED
    BY <1>1, <2>1 DEF UserTypes, UpdatesStep
<1>2. ASSUME NEW a \in Approval, UserPresses(a) PROVE UpdatesStep
  <2>1. \A i \in Try, d \in Decision :
           [kind |-> "press", of |-> a, message |-> i, decision |-> d] \in Update
    BY DEF Update
  <2>. QED
    BY <1>2, <2>1 DEF UserPresses, UpdatesStep
<1>3. ASSUME NEW a \in Approval, NEW c \in Chat, GatewayAsks(a, c) PROVE UpdatesStep
  BY <1>h, <1>3 DEF GatewayAsks, Broadcast, updateVars, UpdatesStep
<1>4. ASSUME NEW a \in Approval, GatewayExpires(a) PROVE UpdatesStep
  BY <1>h, <1>4 DEF GatewayExpires, Broadcast, updateVars, UpdatesStep
<1>5. ASSUME NEW a \in Approval, NEW d \in Decision, DashboardDecides(a, d) PROVE UpdatesStep
  BY <1>h, <1>5 DEF DashboardDecides, updateVars, UpdatesStep
<1>6. CASE GatewayPushes
  BY <1>h, <1>6 DEF GatewayPushes, Broadcast, updateVars, UpdatesStep
<1>7. CASE GatewayStarts
  BY <1>h, <1>7 DEF GatewayStarts, Listen, updateVars, UpdatesStep
<1>8. CASE ClientStep
  BY <1>h, <1>8 DEF ClientStep, Connect, Refused, Close, Reconnect,
     ScheduleReconnect, updateVars, UpdatesStep
<1>9. CASE GatewayAnswersAtOnce
  BY <1>h, <1>9 DEF GatewayAnswersAtOnce, Broadcast, updateVars, UpdatesStep
<1>10. CASE GatewayTakes
  BY <1>h, <1>10 DEF GatewayTakes, Received, updateVars, UpdatesStep
<1>11. ASSUME NEW w \in work, GatewayAnswers(w) PROVE UpdatesStep
  BY <1>h, <1>11 DEF GatewayAnswers, Broadcast, SendTo, updateVars, UpdatesStep
<1>12. CASE GatewayHearsDecision
  BY <1>h, <1>12 DEF GatewayHearsDecision, Received, updateVars, UpdatesStep
<1>13. CASE AnswerHere
  BY <1>h, <1>13 DEF AnswerHere, NextUpdate, UpdatesStep
<1>14. CASE HereAnswered
  BY <1>h, <1>14 DEF HereAnswered, UpdatesStep
<1>15. CASE ForwardCommand
  BY <1>h, <1>15 DEF ForwardCommand, NextUpdate, Send, Forwarded, UpdatesStep
<1>16. CASE ForwardMessage
  BY <1>h, <1>16 DEF ForwardMessage, NextUpdate, Send, Forwarded, UpdatesStep
<1>17. CASE IgnorePress
  BY <1>h, <1>17 DEF IgnorePress, NextUpdate, UpdatesStep
<1>18. CASE AcceptPress
  BY <1>h, <1>18 DEF AcceptPress, NextUpdate, Send, UpdatesStep
<1>19. CASE PressEdited
  BY <1>h, <1>19 DEF PressEdited, UpdatesStep
<1>20. CASE ConfirmUpdates
  BY <1>h, <1>20 DEF ConfirmUpdates, UpdatesStep
<1>21. CASE DropForeign
  BY <1>h, <1>21 DEF DropForeign, Takes, Incoming, updateVars, UpdatesStep
<1>22. CASE ApprovalRequested
  BY <1>h, <1>22 DEF ApprovalRequested, Takes, Incoming, updateVars, UpdatesStep
<1>23. CASE ApprovalExpired
  BY <1>h, <1>23 DEF ApprovalExpired, Takes, Incoming, updateVars, UpdatesStep
<1>24. CASE AnswerReceived
  BY <1>h, <1>24 DEF AnswerReceived, Takes, Incoming, updateVars, UpdatesStep
<1>25. ASSUME NEW j \in jobs, ApprovalShown(j) PROVE UpdatesStep
  BY <1>h, <1>25 DEF ApprovalShown, updateVars, UpdatesStep
<1>26. ASSUME NEW j \in jobs, ApprovalSent(j) PROVE UpdatesStep
  BY <1>h, <1>26 DEF ApprovalSent, updateVars, UpdatesStep
<1>27. ASSUME NEW j \in jobs, ApprovalNotSent(j) PROVE UpdatesStep
  BY <1>h, <1>27 DEF ApprovalNotSent, updateVars, UpdatesStep
<1>28. ASSUME NEW j \in jobs, ExpiryEdited(j) PROVE UpdatesStep
  BY <1>h, <1>28 DEF ExpiryEdited, updateVars, UpdatesStep
<1>29. ASSUME NEW j \in jobs, AnswerTried(j) PROVE UpdatesStep
  BY <1>h, <1>29 DEF AnswerTried, updateVars, UpdatesStep
<1>30. CASE GatewayDies
  BY <1>30 DEF GatewayDies, updateVars, UpdatesStep
<1>31. CASE BridgeRestarts
  BY <1>31 DEF BridgeRestarts, NewBridge, UpdatesStep
<1>32. CASE HandlerThrows
  <2>1. updates \in Seq(Update) /\ handled < Len(updates)
    BY <1>32 DEF HandlerThrows, QueueInv
  <2>2. \E n \in {0, handled + 1} : updates' = SubSeq(updates, n + 1, Len(updates))
    BY <1>32 DEF HandlerThrows
  <2>3. handled' = 0
    BY <1>32 DEF HandlerThrows, NewBridge
  <2>4. 0 \in 0..Len(updates) /\ handled + 1 \in 0..Len(updates)
    BY <1>h, <2>1
  <2>. QED
    BY <2>2, <2>3, <2>4 DEF UpdatesStep
<1>33. CASE UNCHANGED vars
  BY <1>h, <1>33 DEF vars, updateVars, UpdatesStep
<1>. QED
  BY <1>1, <1>2, <1>3, <1>4, <1>5, <1>6, <1>7, <1>8, <1>9, <1>10, <1>11, <1>12,
     <1>13, <1>14, <1>15, <1>16, <1>17, <1>18, <1>19, <1>20, <1>21, <1>22, <1>23,
     <1>24, <1>25, <1>26, <1>27, <1>28, <1>29, <1>30, <1>31, <1>32, <1>33 DEF Next,
     GatewayStep, UpdateStep, MessageStep, JobStep

LEMMA AcceptedPress ==
    ASSUME TypeOK, QueueInv, AcceptPress
    PROVE  \E u \in Update :
              /\ u = updates[handled + 1] /\ u.kind = "press" /\ u \in Elements(updates)
              /\ u.of \in Approval \ resolvedApprovals /\ u.message \in Try
              /\ u.decision \in Decision
              /\ \/ /\ socket = "open"
                    /\ toServer' = Append(toServer, [from |-> nextClientId,
                          body |-> [type |-> "approval-decision", of |-> u.of,
                                    decision |-> u.decision]])
                    /\ disturbed' = disturbed
                 \/ /\ toServer' = toServer
                    /\ disturbed' = disturbed \cup {u.of}
              /\ resolvedApprovals' = resolvedApprovals \cup {u.of}
              /\ approvalMessages' = [approvalMessages EXCEPT ![u.of] = 0]
<1>. DEFINE u == updates[handled + 1]
            m == [type |-> "approval-decision", of |-> u.of, decision |-> u.decision]
<1>1. u \in Update /\ u \in Elements(updates) /\ u.kind = "press"
  BY NextUpdateType DEF AcceptPress, NextUpdate
<1>2. u.of \in Approval /\ u.message \in Try /\ u.decision \in Decision
  BY <1>1 DEF Update
<1>3. Send(m) /\ connected /\ u.of \notin resolvedApprovals
  BY DEF AcceptPress
<1>4. /\ resolvedApprovals' = resolvedApprovals \cup {u.of}
      /\ approvalMessages' = [approvalMessages EXCEPT ![u.of] = 0]
      /\ disturbed' = IF socket = "open" THEN disturbed ELSE disturbed \cup {u.of}
  BY DEF AcceptPress
<1>. HIDE DEF m
<1>5. \/ /\ socket = "open"
         /\ toServer' = Append(toServer, [from |-> nextClientId, body |-> m])
         /\ disturbed' = disturbed
      \/ /\ toServer' = toServer
         /\ disturbed' = disturbed \cup {u.of}
  BY <1>3, <1>4 DEF Send
<1>. HIDE DEF u
<1>. QED
  BY <1>1, <1>2, <1>3, <1>4, <1>5 DEF m, u

\* The lines to the gateway: old ones, and one from the present connection.
LEMMA ToServerElements ==
    ASSUME TypeOK, QueueInv, [Next]_vars
    PROVE  /\ toServer' \in Seq(Sent)
           /\ \A x \in Elements(toServer') :
                 x \in Elements(toServer) \/ (socket = "open" /\ x.from = nextClientId)
           /\ toServer = <<>> /\ socket # "open" => toServer' = <<>>
<1>q. toServer \in Seq(Sent) /\ nextClientId \in Nat
  BY DEF QueueInv, LinkInv
<1>1. CASE toServer' = toServer
  BY <1>q, <1>1
<1>2. ASSUME NEW m \in Command, socket = "open",
             toServer' = Append(toServer, [from |-> nextClientId, body |-> m])
      PROVE  /\ toServer' \in Seq(Sent)
             /\ \A x \in Elements(toServer') :
                   x \in Elements(toServer) \/ (socket = "open" /\ x.from = nextClientId)
  <2>1. [from |-> nextClientId, body |-> m] \in Sent
    BY <1>q DEF Sent
  <2>2. /\ toServer' \in Seq(Sent)
        /\ Elements(toServer') = Elements(toServer) \cup {[from |-> nextClientId, body |-> m]}
    BY <1>q, <1>2, <2>1, Appending
  <2>. QED
    BY <1>2, <2>2
<1>3. CASE toServer # <<>> /\ toServer' = Tail(toServer)
  BY <1>q, <1>3, Taking
<1>4. ASSUME NEW n \in 0..Len(toServer), toServer' = SubSeq(toServer, 1, n)
      PROVE  /\ toServer' \in Seq(Sent) /\ Elements(toServer') \subseteq Elements(toServer)
             /\ toServer = <<>> => toServer' = <<>>
  <2>1. 1 \in 1..Len(toServer) + 1
    BY <1>q
  <2>2. /\ toServer' \in Seq(Sent) /\ Elements(toServer') \subseteq Elements(toServer)
        /\ Len(toServer') = IF 1 <= n THEN n - 1 + 1 ELSE 0
    BY <1>q, <1>4, <2>1, Cutting
  <2>. QED
    BY <2>2
<1>5. CASE toServer' = <<>>
  BY <1>5 DEF Elements
<1>6. CASE AcceptPress
  <2>1. PICK u \in Update :
           /\ u.of \in Approval /\ u.decision \in Decision
           /\ \/ /\ socket = "open"
                 /\ toServer' = Append(toServer, [from |-> nextClientId,
                       body |-> [type |-> "approval-decision", of |-> u.of,
                                 decision |-> u.decision]])
              \/ toServer' = toServer
    BY <1>6, AcceptedPress
  <2>2. [type |-> "approval-decision", of |-> u.of, decision |-> u.decision] \in Command
    BY <2>1 DEF Command
  <2>. QED
    BY <1>1, <1>2, <2>1, <2>2
<1>7. CASE GatewayHearsDecision
  BY <1>3, <1>7 DEF GatewayHearsDecision, Received
<1>. QED
  BY <1>1, <1>2, <1>3, <1>4, <1>5, <1>6, <1>7, ToServerSteps DEF ToServerStep

LEMMA LinkNextInv == TypeOK /\ QueueInv /\ [Next]_vars => LinkInv'
BY LinkNext, LinkSteps DEF QueueInv

LEMMA ListeningNext ==
    ASSUME TypeOK, QueueInv, [Next]_vars, ~listening'
    PROVE  toServer' = <<>>
<1>1. CASE ~listening
  <2>1. toServer = <<>> /\ socket # "open"
    BY <1>1 DEF QueueInv, LinkInv, NeverGivesUp
  <2>. QED
    BY <2>1, ToServerElements
<1>2. CASE listening
  <2>1. ~UNCHANGED connectionVars
    BY <1>2 DEF connectionVars
  <2>2. ServerDies
    BY <1>2, <2>1, LinkSteps DEF LinkStep, Listen, Connect, Refused, Close,
       Reconnect, ClientRestarts
  <2>. QED
    BY <2>2 DEF ServerDies
<1>. QED
  BY <1>1, <1>2

\* The lines to the bridge, and the updates: old ones and new ones.
LEMMA ToClientElements ==
    ASSUME TypeOK, QueueInv, [Next]_vars
    PROVE  /\ toClient' \in Seq(Line)
           /\ \A m \in Elements(toClient') :
                 \/ m \in Elements(toClient)
                 \/ m.type \in {"approval-request", "approval-expired"}
                       => verdict'[m.of] # "none"
<1>q. toClient \in Seq(Line)
  BY DEF QueueInv
<1>1. CASE toClient' = toClient
  BY <1>q, <1>1
<1>2. ASSUME NEW m \in Line, toClient' = Append(toClient, m),
             m.type \in {"approval-request", "approval-expired"} => verdict'[m.of] # "none"
      PROVE  /\ toClient' \in Seq(Line)
             /\ \A x \in Elements(toClient') :
                   \/ x \in Elements(toClient)
                   \/ x.type \in {"approval-request", "approval-expired"}
                         => verdict'[x.of] # "none"
  <2>1. toClient' \in Seq(Line) /\ Elements(toClient') = Elements(toClient) \cup {m}
    BY <1>q, <1>2, Appending
  <2>. QED
    BY <1>2, <2>1
<1>3. CASE toClient # <<>> /\ toClient' = Tail(toClient)
  BY <1>q, <1>3, Taking
<1>4. ASSUME NEW n \in 0..Len(toClient), toClient' = SubSeq(toClient, 1, n)
      PROVE  toClient' \in Seq(Line) /\ Elements(toClient') \subseteq Elements(toClient)
  <2>1. 1 \in 1..Len(toClient) + 1
    BY <1>q
  <2>. QED
    BY <1>q, <1>4, <2>1, Cutting
<1>5. CASE toClient' = <<>>
  BY <1>5 DEF Elements
<1>. QED
  BY <1>1, <1>2, <1>3, <1>4, <1>5, ToClientSteps DEF ToClientStep

LEMMA UpdatesElements ==
    ASSUME TypeOK, QueueInv, [Next]_vars
    PROVE  /\ updates' \in Seq(Update)
           /\ handled' \in 0..Len(updates')
           /\ \A u \in Elements(updates') :
                 \/ u \in Elements(updates)
                 \/ u.kind = "press" => face[u.of][u.message] = "buttons"
<1>q. updates \in Seq(Update) /\ handled \in 0..Len(updates)
  BY DEF QueueInv, TypeOK
<1>1. CASE /\ updates' = updates
           /\ \/ handled' = handled \/ handled' = 0
              \/ (handled < Len(updates) /\ handled' = handled + 1)
  BY <1>q, <1>1
<1>2. ASSUME NEW u \in Update, updates' = Append(updates, u), handled' = handled,
             u.kind = "press" => face[u.of][u.message] = "buttons"
      PROVE  /\ updates' \in Seq(Update)
             /\ handled' \in 0..Len(updates')
             /\ \A x \in Elements(updates') :
                   x \in Elements(updates) \/ (x.kind = "press" => face[x.of][x.message] = "buttons")
  <2>1. /\ updates' \in Seq(Update) /\ Elements(updates') = Elements(updates) \cup {u}
        /\ Len(updates') = Len(updates) + 1
    BY <1>q, <1>2, Appending
  <2>. QED
    BY <1>q, <1>2, <2>1
<1>3. ASSUME NEW n \in 0..Len(updates), updates' = SubSeq(updates, n + 1, Len(updates)),
             handled' = 0
      PROVE  /\ updates' \in Seq(Update) /\ Elements(updates') \subseteq Elements(updates)
             /\ handled' \in 0..Len(updates')
  <2>1. n + 1 \in 1..Len(updates) + 1 /\ Len(updates) \in 0..Len(updates)
    BY <1>q
  <2>2. updates' \in Seq(Update) /\ Elements(updates') \subseteq Elements(updates)
    BY <1>q, <1>3, <2>1, Cutting
  <2>. QED
    BY <1>3, <2>2
<1>. QED
  BY <1>1, <1>2, <1>3, UpdatesSteps DEF UpdatesStep

\* Calls in flight.
LEMMA JobsType == TypeOK /\ QueueInv /\ [Next]_vars => jobs' \subseteq Job
<1>. SUFFICES ASSUME TypeOK, QueueInv, [Next]_vars PROVE jobs' \subseteq Job
  OBVIOUS
<1>j. jobs \subseteq Job
  BY DEF QueueInv
<1>l. toClient # <<>> => Head(toClient) \in Line
  BY Taking DEF QueueInv
<1>1. ASSUME NEW r \in Request, UserTypes(r) PROVE jobs' \subseteq Job
  BY <1>j, <1>1 DEF UserTypes
<1>2. ASSUME NEW a \in Approval, UserPresses(a) PROVE jobs' \subseteq Job
  BY <1>j, <1>2 DEF UserPresses
<1>3. ASSUME NEW a \in Approval, NEW c \in Chat, GatewayAsks(a, c) PROVE jobs' \subseteq Job
  BY <1>j, <1>3 DEF GatewayAsks, Broadcast
<1>4. ASSUME NEW a \in Approval, GatewayExpires(a) PROVE jobs' \subseteq Job
  BY <1>j, <1>4 DEF GatewayExpires, Broadcast
<1>5. ASSUME NEW a \in Approval, NEW d \in Decision, DashboardDecides(a, d) PROVE jobs' \subseteq Job
  BY <1>j, <1>5 DEF DashboardDecides
<1>6. CASE GatewayPushes
  BY <1>j, <1>6 DEF GatewayPushes, Broadcast
<1>7. CASE GatewayStarts
  BY <1>j, <1>7 DEF GatewayStarts, Listen
<1>8. CASE ClientStep
  BY <1>j, <1>8 DEF ClientStep, Connect, Refused, Close, Reconnect,
     ScheduleReconnect
<1>9. CASE GatewayAnswersAtOnce
  BY <1>j, <1>9 DEF GatewayAnswersAtOnce, Broadcast
<1>10. CASE GatewayTakes
  BY <1>j, <1>10 DEF GatewayTakes, Received
<1>11. ASSUME NEW w \in work, GatewayAnswers(w) PROVE jobs' \subseteq Job
  BY <1>j, <1>11 DEF GatewayAnswers, Broadcast, SendTo
<1>12. CASE GatewayHearsDecision
  BY <1>j, <1>12 DEF GatewayHearsDecision, Received
<1>13. CASE AnswerHere
  BY <1>j, <1>13 DEF AnswerHere, NextUpdate
<1>14. CASE HereAnswered
  BY <1>j, <1>14 DEF HereAnswered
<1>15. CASE ForwardCommand
  BY <1>j, <1>15 DEF ForwardCommand, NextUpdate, Send, Forwarded
<1>16. CASE ForwardMessage
  BY <1>j, <1>16 DEF ForwardMessage, NextUpdate, Send, Forwarded
<1>17. CASE IgnorePress
  BY <1>j, <1>17 DEF IgnorePress, NextUpdate
<1>18. CASE AcceptPress
  BY <1>j, <1>18 DEF AcceptPress, NextUpdate, Send
<1>19. CASE PressEdited
  BY <1>j, <1>19 DEF PressEdited
<1>20. CASE ConfirmUpdates
  BY <1>j, <1>20 DEF ConfirmUpdates
<1>21. CASE DropForeign
  BY <1>j, <1>21 DEF DropForeign, Takes, Incoming
<1>22. CASE ApprovalRequested
  <2>1. Head(toClient) \in Line /\ Head(toClient).type = "approval-request"
    BY <1>22, <1>l DEF ApprovalRequested, Takes, Incoming
  <2>3. Head(toClient).of \in Approval
    BY <2>1 DEF Line, AnswerType
  <2>4. 1 \in Try
    BY DEF Try
  <2>5. \A a \in Approval : [job |-> "ask", of |-> a, try |-> 1, shown |-> FALSE] \in Job
    BY <2>4 DEF Job
  <2>2. [job |-> "ask", of |-> Head(toClient).of, try |-> 1, shown |-> FALSE] \in Job
    BY <2>3, <2>5
  <2>. QED
    BY <1>j, <1>22, <2>2 DEF ApprovalRequested
<1>23. CASE ApprovalExpired
  <2>1. Head(toClient) \in Line /\ Head(toClient).type = "approval-expired"
    BY <1>23, <1>l DEF ApprovalExpired, Takes, Incoming
  <2>2. Head(toClient).of \in Approval
    BY <2>1 DEF Line, AnswerType
  <2>3. \A ref : ref = approvalMessages[Head(toClient).of] /\ ref # 0
           => [job |-> "expire", of |-> Head(toClient).of, message |-> ref] \in Job
    BY <2>2 DEF TypeOK, Job
  <2>. QED
    BY <1>j, <1>23, <2>3 DEF ApprovalExpired
<1>24. CASE AnswerReceived
  <2>1. Head(toClient) \in Line /\ Head(toClient).type \notin {"approval-request", "approval-expired"}
    BY <1>24, <1>l DEF AnswerReceived, Takes, Incoming
  <2>2. Head(toClient).answer \in Answer /\ Head(toClient).of \in Request \cup {NoRequest}
    BY <2>1 DEF Line
  <2>3. [job |-> "answer", of |-> Head(toClient).of, texts |-> TextsOf(Head(toClient).answer)] \in Job
    BY <2>2, TextsType DEF Job
  <2>. QED
    BY <1>j, <1>24, <2>3 DEF AnswerReceived
<1>25. ASSUME NEW j \in jobs, ApprovalShown(j) PROVE jobs' \subseteq Job
  <2>1. j \in [job : {"ask"}, of : Approval, try : Try, shown : BOOLEAN]
    BY <1>j, <1>25 DEF ApprovalShown, Job
  <2>2. [j EXCEPT !.shown = TRUE] \in Job
    BY <2>1 DEF Job
  <2>. QED
    BY <1>j, <1>25, <2>2 DEF ApprovalShown
<1>26. ASSUME NEW j \in jobs, ApprovalSent(j) PROVE jobs' \subseteq Job
  BY <1>j, <1>26 DEF ApprovalSent
<1>27. ASSUME NEW j \in jobs, ApprovalNotSent(j) PROVE jobs' \subseteq Job
  <2>1. j \in [job : {"ask"}, of : Approval, try : Try, shown : BOOLEAN]
    BY <1>j, <1>27 DEF ApprovalNotSent, Job
  <2>3. 2 \in Try
    BY DEF Try
  <2>4. [j EXCEPT !.try = 2] \in [job : {"ask"}, of : Approval, try : Try, shown : BOOLEAN]
    BY <2>1, <2>3
  <2>5. [j EXCEPT !.try = 2, !.shown = FALSE] = [[j EXCEPT !.try = 2] EXCEPT !.shown = FALSE]
    BY <2>1
  <2>2. [j EXCEPT !.try = 2, !.shown = FALSE] \in Job
    BY <2>4, <2>5 DEF Job
  <2>. QED
    BY <1>j, <1>27, <2>2 DEF ApprovalNotSent
<1>28. ASSUME NEW j \in jobs, ExpiryEdited(j) PROVE jobs' \subseteq Job
  BY <1>j, <1>28 DEF ExpiryEdited
<1>29. ASSUME NEW j \in jobs, AnswerTried(j) PROVE jobs' \subseteq Job
  <2>1. j \in [job : {"answer"}, of : Request \cup {NoRequest}, texts : Seq(Text)]
    BY <1>j, <1>29 DEF AnswerTried, Job
  <2>2. j.texts # <<>> => [j EXCEPT !.texts = Tail(@)] \in Job
    BY <2>1 DEF Job
  <2>3. Len(j.texts) > 1 => j.texts # <<>>
    BY <2>1
  <2>. QED
    BY <1>j, <1>29, <2>2, <2>3 DEF AnswerTried
<1>30. CASE GatewayDies
  BY <1>j, <1>30 DEF GatewayDies, ServerDies, Hit
<1>31. CASE BridgeRestarts
  BY <1>31 DEF BridgeRestarts, NewBridge
<1>32. CASE HandlerThrows
  BY <1>32 DEF HandlerThrows, NewBridge
<1>33. CASE UNCHANGED vars
  BY <1>j, <1>33 DEF vars
<1>. QED
  BY <1>1, <1>2, <1>3, <1>4, <1>5, <1>6, <1>7, <1>8, <1>9, <1>10, <1>11, <1>12,
     <1>13, <1>14, <1>15, <1>16, <1>17, <1>18, <1>19, <1>20, <1>21, <1>22, <1>23,
     <1>24, <1>25, <1>26, <1>27, <1>28, <1>29, <1>30, <1>31, <1>32, <1>33 DEF Next,
     GatewayStep, UpdateStep, MessageStep, JobStep

LEMMA QueueNext == TypeOK /\ QueueInv /\ [Next]_vars => QueueInv'
BY LinkNextInv, UpdatesElements, ToServerElements, ToClientElements, JobsType,
   ListeningNext DEF QueueInv

-----------------------------------------------------------------------------
(* The type invariant, in five parts.                                      *)

LEMMA LinkTypeNext == TypeOK /\ QueueInv /\ [Next]_vars => LinkTypeOK'
<1>. SUFFICES ASSUME TypeOK, QueueInv, [Next]_vars PROVE LinkTypeOK'
  OBVIOUS
<1>s. LinkStep \/ UNCHANGED connectionVars
  BY LinkSteps
<1>1. /\ listening' \in BOOLEAN /\ nextClientId' \in Nat
      /\ clients' \subseteq 1..nextClientId' /\ socket' \in SocketState
  BY LinkNextInv DEF LinkInv
<1>2. connected' \in BOOLEAN
  <2>1. connected \in BOOLEAN
    BY DEF TypeOK, LinkTypeOK
  <2>. QED
    BY <1>s, <2>1, Zenon DEF LinkStep, Listen, Connect, Refused, Close, Reconnect,
       ServerDies, ClientRestarts, connectionVars
<1>3. reconnectTimer' \in BOOLEAN
  <2>1. reconnectTimer \in BOOLEAN
    BY DEF TypeOK, LinkTypeOK
  <2>. QED
    BY <1>s, <2>1, Zenon DEF LinkStep, Listen, Connect, Refused, Close, Reconnect,
       ScheduleReconnect, ServerDies, ClientRestarts, connectionVars
<1>4. reconnectDelay' \in MinDelay..MaxDelay
  <2>1. reconnectDelay \in MinDelay..MaxDelay
    BY DEF TypeOK, LinkTypeOK
  <2>. QED
    BY <1>s, <2>1, DelayAssumption DEF LinkStep, Listen, Connect, Refused, Close,
       Reconnect,
       ScheduleReconnect, ServerDies, ClientRestarts, connectionVars
<1>5. \A i \in 1..Len(toServer') : toServer'[i].from \in 1..nextClientId'
  <2>1. \A x \in Elements(toServer) : x.from \in 1..nextClientId
    BY DEF TypeOK, LinkTypeOK, Elements
  <2>2. socket = "open" => nextClientId \in 1..nextClientId
    BY DEF QueueInv, LinkInv, NeverGivesUp
  <2>3. \A x \in Elements(toServer') : x.from \in 1..nextClientId
    BY <2>1, <2>2, ToServerElements
  <2>4. CASE nextClientId' = nextClientId \/ nextClientId' = nextClientId + 1
    <3>1. nextClientId \in Nat
      BY DEF QueueInv, LinkInv
    <3>. QED
      BY <2>3, <2>4, <3>1 DEF Elements
  <2>5. CASE Listen
    <3>1. toServer = <<>> /\ socket # "open"
      BY <2>5 DEF Listen, QueueInv, LinkInv, NeverGivesUp
    <3>2. toServer' = <<>>
      BY <3>1, ToServerElements
    <3>. QED
      BY <3>2
  <2>6. Listen \/ nextClientId' = nextClientId \/ nextClientId' = nextClientId + 1
    BY <1>s DEF LinkStep, Connect, Refused, Close, Reconnect, ServerDies,
       ClientRestarts,
       connectionVars
  <2>. QED
    BY <2>4, <2>5, <2>6
<1>. QED
  BY <1>1, <1>2, <1>3, <1>4, <1>5 DEF LinkTypeOK

GatewayTypes ==
    /\ chat \in [Approval -> Chat \cup {"none"}]
    /\ verdict \in [Approval -> Decision \cup
                       {"none", "pending", "expired", "lost"}]
    /\ by \in [Approval -> {"nobody", "telegram", "dashboard"}]
    /\ work \subseteq [of : Request, what : {"message", "auth-connect"}, from : Nat]

ProcessTypes ==
    /\ approvalMessages \in [Approval -> Try \cup {0}]
    /\ resolvedApprovals \subseteq Approval
    /\ pendingRequests \subseteq Request

ChatTypes ==
    face \in [Approval -> [Try -> Decision \cup {"none", "buttons", "expired"}]]

RequestTypes ==
    /\ asked \subseteq Request
    /\ seen \cup refused \subseteq Request \cup {NoRequest}
    /\ disturbed \subseteq Approval \cup Request

LEMMA HeadOfToServer ==
    ASSUME QueueInv, toServer # <<>>
    PROVE  /\ Head(toServer) \in Sent /\ Head(toServer).body \in Command
           /\ Head(toServer) \in Elements(toServer)
           /\ Head(toServer).body.type = "approval-decision"
              => /\ Head(toServer).body.of \in Approval
                 /\ Head(toServer).body.decision \in Decision
           /\ Head(toServer).body.type # "approval-decision"
              => Head(toServer).body.of \in Request
           /\ Head(toServer).from \in Nat
<1>1. Head(toServer) \in Sent /\ Head(toServer) \in Elements(toServer)
  BY Taking DEF QueueInv
<1>2. Head(toServer).body \in Command /\ Head(toServer).from \in Nat
  BY <1>1 DEF Sent
<1>. QED
  BY <1>1, <1>2, TypedKinds DEF Command

LEMMA HeadOfToClient ==
    ASSUME QueueInv, toClient # <<>>
    PROVE  /\ Head(toClient) \in Line
           /\ Head(toClient) \in Elements(toClient)
           /\ Head(toClient).type \in {"approval-request", "approval-expired"}
              => Head(toClient).of \in Approval
           /\ Head(toClient).type \notin {"approval-request", "approval-expired"}
              => Head(toClient).of \in Request \cup {NoRequest}
<1>1. Head(toClient) \in Line /\ Head(toClient) \in Elements(toClient)
  BY Taking DEF QueueInv
<1>. QED
  BY <1>1 DEF Line, AnswerType

LEMMA JobTypes ==
    ASSUME QueueInv, NEW j \in jobs
    PROVE  /\ j.job = "ask" => j.of \in Approval /\ j.try \in Try
           /\ j.job = "expire" => j.of \in Approval /\ j.message \in Try
           /\ j.job = "answer" => j.of \in Request \cup {NoRequest}
<1>1. j \in Job
  BY DEF QueueInv
<1>. QED
  BY <1>1 DEF Job

LEMMA UpdateTypes ==
    ASSUME TypeOK, QueueInv, handled < Len(updates)
    PROVE  /\ updates[handled + 1].kind \in {"text", "press"}
           /\ updates[handled + 1].kind = "text" => updates[handled + 1].of \in Request
           /\ updates[handled + 1].kind = "press"
              => /\ updates[handled + 1].of \in Approval
                 /\ updates[handled + 1].message \in Try
                 /\ updates[handled + 1].decision \in Decision
<1>1. updates[handled + 1] \in Update
  BY NextUpdateType
<1>. QED
  BY <1>1 DEF Update

LEMMA GatewayTypesNext == TypeOK /\ QueueInv /\ [Next]_vars => GatewayTypes'
<1>. SUFFICES ASSUME TypeOK, QueueInv, [Next]_vars PROVE GatewayTypes'
  OBVIOUS
<1>t. GatewayTypes
  BY DEF TypeOK, GatewayTypes
<1>1. ASSUME NEW r \in Request, UserTypes(r) PROVE GatewayTypes'
  BY <1>t, <1>1 DEF UserTypes, gatewayVars, GatewayTypes
<1>2. ASSUME NEW a \in Approval, UserPresses(a) PROVE GatewayTypes'
  BY <1>t, <1>2 DEF UserPresses, gatewayVars, GatewayTypes
<1>3. ASSUME NEW a \in Approval, NEW c \in Chat, GatewayAsks(a, c) PROVE GatewayTypes'
  BY <1>t, <1>3 DEF GatewayAsks, Broadcast, GatewayTypes
<1>4. ASSUME NEW a \in Approval, GatewayExpires(a) PROVE GatewayTypes'
  BY <1>t, <1>4 DEF GatewayExpires, Broadcast, GatewayTypes
<1>5. ASSUME NEW a \in Approval, NEW d \in Decision, DashboardDecides(a, d) PROVE GatewayTypes'
  BY <1>t, <1>5 DEF DashboardDecides, GatewayTypes
<1>6. CASE GatewayPushes
  BY <1>t, <1>6 DEF GatewayPushes, Broadcast, gatewayVars, GatewayTypes
<1>7. CASE GatewayStarts
  BY <1>t, <1>7 DEF GatewayStarts, Listen, gatewayVars, GatewayTypes
<1>8. CASE ClientStep
  BY <1>t, <1>8 DEF ClientStep, Connect, Refused, Close, Reconnect,
     ScheduleReconnect, gatewayVars, GatewayTypes
<1>9. CASE GatewayAnswersAtOnce
  BY <1>t, <1>9 DEF GatewayAnswersAtOnce, Broadcast, gatewayVars, GatewayTypes
<1>10. CASE GatewayTakes
  <2>1. Head(toServer).body.of \in Request /\ Head(toServer).from \in Nat
    BY <1>10, HeadOfToServer DEF GatewayTakes, Received
  <2>2. Head(toServer).body.type \in {"message", "auth-connect"}
    BY <1>10 DEF GatewayTakes, Received
  <2>. QED
    BY <1>t, <1>10, <2>1, <2>2 DEF GatewayTakes, GatewayTypes
<1>11. ASSUME NEW w \in work, GatewayAnswers(w) PROVE GatewayTypes'
  BY <1>t, <1>11 DEF GatewayAnswers, Broadcast, SendTo, GatewayTypes
<1>12. CASE GatewayHearsDecision
  <2>1. /\ Head(toServer).body.of \in Approval
        /\ Head(toServer).body.decision \in Decision
    BY <1>12, HeadOfToServer DEF GatewayHearsDecision, Received
  <2>. QED
    BY <1>t, <1>12, <2>1 DEF GatewayHearsDecision, GatewayTypes
<1>13. CASE AnswerHere
  BY <1>t, <1>13 DEF AnswerHere, NextUpdate, gatewayVars, GatewayTypes
<1>14. CASE HereAnswered
  BY <1>t, <1>14 DEF HereAnswered, gatewayVars, GatewayTypes
<1>15. CASE ForwardCommand
  BY <1>t, <1>15 DEF ForwardCommand, NextUpdate, Send, Forwarded, gatewayVars,
     GatewayTypes
<1>16. CASE ForwardMessage
  BY <1>t, <1>16 DEF ForwardMessage, NextUpdate, Send, Forwarded, gatewayVars,
     GatewayTypes
<1>17. CASE IgnorePress
  BY <1>t, <1>17 DEF IgnorePress, NextUpdate, gatewayVars, GatewayTypes
<1>18. CASE AcceptPress
  BY <1>t, <1>18 DEF AcceptPress, NextUpdate, Send, gatewayVars, GatewayTypes
<1>19. CASE PressEdited
  BY <1>t, <1>19 DEF PressEdited, gatewayVars, GatewayTypes
<1>20. CASE ConfirmUpdates
  BY <1>t, <1>20 DEF ConfirmUpdates, gatewayVars, GatewayTypes
<1>21. CASE DropForeign
  BY <1>t, <1>21 DEF DropForeign, Takes, Incoming, gatewayVars, GatewayTypes
<1>22. CASE ApprovalRequested
  BY <1>t, <1>22 DEF ApprovalRequested, Takes, Incoming, gatewayVars, GatewayTypes
<1>23. CASE ApprovalExpired
  BY <1>t, <1>23 DEF ApprovalExpired, Takes, Incoming, gatewayVars, GatewayTypes
<1>24. CASE AnswerReceived
  BY <1>t, <1>24 DEF AnswerReceived, Takes, Incoming, gatewayVars, GatewayTypes
<1>25. ASSUME NEW j \in jobs, ApprovalShown(j) PROVE GatewayTypes'
  BY <1>t, <1>25 DEF ApprovalShown, gatewayVars, GatewayTypes
<1>26. ASSUME NEW j \in jobs, ApprovalSent(j) PROVE GatewayTypes'
  BY <1>t, <1>26 DEF ApprovalSent, gatewayVars, GatewayTypes
<1>27. ASSUME NEW j \in jobs, ApprovalNotSent(j) PROVE GatewayTypes'
  BY <1>t, <1>27 DEF ApprovalNotSent, gatewayVars, GatewayTypes
<1>28. ASSUME NEW j \in jobs, ExpiryEdited(j) PROVE GatewayTypes'
  BY <1>t, <1>28 DEF ExpiryEdited, gatewayVars, GatewayTypes
<1>29. ASSUME NEW j \in jobs, AnswerTried(j) PROVE GatewayTypes'
  BY <1>t, <1>29 DEF AnswerTried, gatewayVars, GatewayTypes
<1>30. CASE GatewayDies
  BY <1>t, <1>30 DEF GatewayDies, GatewayTypes
<1>31. CASE BridgeRestarts
  BY <1>t, <1>31 DEF BridgeRestarts, gatewayVars, GatewayTypes
<1>32. CASE HandlerThrows
  BY <1>t, <1>32 DEF HandlerThrows, gatewayVars, GatewayTypes
<1>33. CASE UNCHANGED vars
  BY <1>t, <1>33 DEF vars, gatewayVars, GatewayTypes
<1>. QED
  BY <1>1, <1>2, <1>3, <1>4, <1>5, <1>6, <1>7, <1>8, <1>9, <1>10, <1>11, <1>12,
     <1>13, <1>14, <1>15, <1>16, <1>17, <1>18, <1>19, <1>20, <1>21, <1>22, <1>23,
     <1>24, <1>25, <1>26, <1>27, <1>28, <1>29, <1>30, <1>31, <1>32, <1>33 DEF Next,
     GatewayStep, UpdateStep, MessageStep, JobStep

LEMMA ProcessTypesNext == TypeOK /\ QueueInv /\ [Next]_vars => ProcessTypes'
<1>. SUFFICES ASSUME TypeOK, QueueInv, [Next]_vars PROVE ProcessTypes'
  OBVIOUS
<1>t. ProcessTypes
  BY DEF TypeOK, ProcessTypes
<1>1. ASSUME NEW r \in Request, UserTypes(r) PROVE ProcessTypes'
  BY <1>t, <1>1 DEF UserTypes, processVars, ProcessTypes
<1>2. ASSUME NEW a \in Approval, UserPresses(a) PROVE ProcessTypes'
  BY <1>t, <1>2 DEF UserPresses, processVars, ProcessTypes
<1>3. ASSUME NEW a \in Approval, NEW c \in Chat, GatewayAsks(a, c) PROVE ProcessTypes'
  BY <1>t, <1>3 DEF GatewayAsks, Broadcast, processVars, ProcessTypes
<1>4. ASSUME NEW a \in Approval, GatewayExpires(a) PROVE ProcessTypes'
  BY <1>t, <1>4 DEF GatewayExpires, Broadcast, processVars, ProcessTypes
<1>5. ASSUME NEW a \in Approval, NEW d \in Decision, DashboardDecides(a, d) PROVE ProcessTypes'
  BY <1>t, <1>5 DEF DashboardDecides, processVars, ProcessTypes
<1>6. CASE GatewayPushes
  BY <1>t, <1>6 DEF GatewayPushes, Broadcast, processVars, ProcessTypes
<1>7. CASE GatewayStarts
  BY <1>t, <1>7 DEF GatewayStarts, Listen, processVars, ProcessTypes
<1>8. CASE ClientStep
  BY <1>t, <1>8 DEF ClientStep, Connect, Refused, Close, Reconnect,
     ScheduleReconnect, processVars, ProcessTypes
<1>9. CASE GatewayAnswersAtOnce
  BY <1>t, <1>9 DEF GatewayAnswersAtOnce, Broadcast, processVars, ProcessTypes
<1>10. CASE GatewayTakes
  BY <1>t, <1>10 DEF GatewayTakes, Received, processVars, ProcessTypes
<1>11. ASSUME NEW w \in work, GatewayAnswers(w) PROVE ProcessTypes'
  BY <1>t, <1>11 DEF GatewayAnswers, Broadcast, SendTo, processVars, ProcessTypes
<1>12. CASE GatewayHearsDecision
  BY <1>t, <1>12 DEF GatewayHearsDecision, Received, processVars, ProcessTypes
<1>13. CASE AnswerHere
  BY <1>t, <1>13 DEF AnswerHere, NextUpdate, processVars, ProcessTypes
<1>14. CASE HereAnswered
  BY <1>t, <1>14 DEF HereAnswered, processVars, ProcessTypes
<1>15. CASE ForwardCommand
  BY <1>t, <1>15 DEF ForwardCommand, NextUpdate, Send, Forwarded, processVars,
     ProcessTypes
<1>16. CASE ForwardMessage
  <2>1. updates[handled + 1].of \in Request
    BY <1>16, UpdateTypes DEF ForwardMessage, NextUpdate
  <2>. QED
    BY <1>t, <1>16, <2>1 DEF ForwardMessage, ProcessTypes
<1>17. CASE IgnorePress
  BY <1>t, <1>17 DEF IgnorePress, NextUpdate, processVars, ProcessTypes
<1>18. CASE AcceptPress
  <2>1. updates[handled + 1].of \in Approval
    BY <1>18, UpdateTypes DEF AcceptPress, NextUpdate
  <2>. QED
    BY <1>t, <1>18, <2>1 DEF AcceptPress, ProcessTypes
<1>19. CASE PressEdited
  BY <1>t, <1>19 DEF PressEdited, processVars, ProcessTypes
<1>20. CASE ConfirmUpdates
  BY <1>t, <1>20 DEF ConfirmUpdates, processVars, ProcessTypes
<1>21. CASE DropForeign
  BY <1>t, <1>21 DEF DropForeign, Takes, Incoming, processVars, ProcessTypes
<1>22. CASE ApprovalRequested
  BY <1>t, <1>22 DEF ApprovalRequested, Takes, Incoming, processVars, ProcessTypes
<1>23. CASE ApprovalExpired
  <2>1. Head(toClient).of \in Approval
    BY <1>23, HeadOfToClient DEF ApprovalExpired, Takes, Incoming
  <2>. QED
    BY <1>t, <1>23, <2>1 DEF ApprovalExpired, ProcessTypes
<1>24. CASE AnswerReceived
  BY <1>t, <1>24 DEF AnswerReceived, Takes, Incoming, ProcessTypes
<1>25. ASSUME NEW j \in jobs, ApprovalShown(j) PROVE ProcessTypes'
  BY <1>t, <1>25 DEF ApprovalShown, processVars, ProcessTypes
<1>26. ASSUME NEW j \in jobs, ApprovalSent(j) PROVE ProcessTypes'
  <2>1. j.of \in Approval /\ j.try \in Try
    BY <1>26, JobTypes DEF ApprovalSent
  <2>. QED
    BY <1>t, <1>26, <2>1 DEF ApprovalSent, ProcessTypes
<1>27. ASSUME NEW j \in jobs, ApprovalNotSent(j) PROVE ProcessTypes'
  BY <1>t, <1>27 DEF ApprovalNotSent, processVars, ProcessTypes
<1>28. ASSUME NEW j \in jobs, ExpiryEdited(j) PROVE ProcessTypes'
  BY <1>t, <1>28 DEF ExpiryEdited, processVars, ProcessTypes
<1>29. ASSUME NEW j \in jobs, AnswerTried(j) PROVE ProcessTypes'
  BY <1>t, <1>29 DEF AnswerTried, processVars, ProcessTypes
<1>30. CASE GatewayDies
  BY <1>t, <1>30 DEF GatewayDies, ServerDies, Hit, processVars, ProcessTypes
<1>31. CASE BridgeRestarts
  BY <1>t, <1>31 DEF BridgeRestarts, NewBridge, ProcessTypes
<1>32. CASE HandlerThrows
  BY <1>t, <1>32 DEF HandlerThrows, NewBridge, ProcessTypes
<1>33. CASE UNCHANGED vars
  BY <1>t, <1>33 DEF vars, processVars, ProcessTypes
<1>. QED
  BY <1>1, <1>2, <1>3, <1>4, <1>5, <1>6, <1>7, <1>8, <1>9, <1>10, <1>11, <1>12,
     <1>13, <1>14, <1>15, <1>16, <1>17, <1>18, <1>19, <1>20, <1>21, <1>22, <1>23,
     <1>24, <1>25, <1>26, <1>27, <1>28, <1>29, <1>30, <1>31, <1>32, <1>33 DEF Next,
     GatewayStep, UpdateStep, MessageStep, JobStep

LEMMA ChatTypesNext == TypeOK /\ QueueInv /\ [Next]_vars => ChatTypes'
<1>. SUFFICES ASSUME TypeOK, QueueInv, [Next]_vars PROVE ChatTypes'
  OBVIOUS
<1>t. ChatTypes
  BY DEF TypeOK, ChatTypes
<1>1. ASSUME NEW r \in Request, UserTypes(r) PROVE ChatTypes'
  BY <1>t, <1>1 DEF UserTypes, ChatTypes
<1>2. ASSUME NEW a \in Approval, UserPresses(a) PROVE ChatTypes'
  BY <1>t, <1>2 DEF UserPresses, ChatTypes
<1>3. ASSUME NEW a \in Approval, NEW c \in Chat, GatewayAsks(a, c) PROVE ChatTypes'
  BY <1>t, <1>3 DEF GatewayAsks, Broadcast, ChatTypes
<1>4. ASSUME NEW a \in Approval, GatewayExpires(a) PROVE ChatTypes'
  BY <1>t, <1>4 DEF GatewayExpires, Broadcast, ChatTypes
<1>5. ASSUME NEW a \in Approval, NEW d \in Decision, DashboardDecides(a, d) PROVE ChatTypes'
  BY <1>t, <1>5 DEF DashboardDecides, ChatTypes
<1>6. CASE GatewayPushes
  BY <1>t, <1>6 DEF GatewayPushes, Broadcast, ChatTypes
<1>7. CASE GatewayStarts
  BY <1>t, <1>7 DEF GatewayStarts, Listen, ChatTypes
<1>8. CASE ClientStep
  BY <1>t, <1>8 DEF ClientStep, Connect, Refused, Close, Reconnect,
     ScheduleReconnect, ChatTypes
<1>9. CASE GatewayAnswersAtOnce
  BY <1>t, <1>9 DEF GatewayAnswersAtOnce, Broadcast, ChatTypes
<1>10. CASE GatewayTakes
  BY <1>t, <1>10 DEF GatewayTakes, Received, ChatTypes
<1>11. ASSUME NEW w \in work, GatewayAnswers(w) PROVE ChatTypes'
  BY <1>t, <1>11 DEF GatewayAnswers, Broadcast, SendTo, ChatTypes
<1>12. CASE GatewayHearsDecision
  BY <1>t, <1>12 DEF GatewayHearsDecision, Received, ChatTypes
<1>13. CASE AnswerHere
  BY <1>t, <1>13 DEF AnswerHere, NextUpdate, ChatTypes
<1>14. CASE HereAnswered
  BY <1>t, <1>14 DEF HereAnswered, ChatTypes
<1>15. CASE ForwardCommand
  BY <1>t, <1>15 DEF ForwardCommand, NextUpdate, Send, Forwarded, ChatTypes
<1>16. CASE ForwardMessage
  BY <1>t, <1>16 DEF ForwardMessage, NextUpdate, Send, Forwarded, ChatTypes
<1>17. CASE IgnorePress
  BY <1>t, <1>17 DEF IgnorePress, NextUpdate, ChatTypes
<1>18. CASE AcceptPress
  BY <1>t, <1>18 DEF AcceptPress, NextUpdate, Send, ChatTypes
<1>19. CASE PressEdited
  <2>1. /\ updates[handled + 1].of \in Approval
        /\ updates[handled + 1].message \in Try /\ updates[handled + 1].decision \in Decision
    BY <1>19, UpdateTypes DEF PressEdited, TypeOK
  <2>. QED
    BY <1>t, <1>19, <2>1 DEF PressEdited, ChatTypes
<1>20. CASE ConfirmUpdates
  BY <1>t, <1>20 DEF ConfirmUpdates, ChatTypes
<1>21. CASE DropForeign
  BY <1>t, <1>21 DEF DropForeign, Takes, Incoming, ChatTypes
<1>22. CASE ApprovalRequested
  BY <1>t, <1>22 DEF ApprovalRequested, Takes, Incoming, ChatTypes
<1>23. CASE ApprovalExpired
  BY <1>t, <1>23 DEF ApprovalExpired, Takes, Incoming, ChatTypes
<1>24. CASE AnswerReceived
  BY <1>t, <1>24 DEF AnswerReceived, Takes, Incoming, ChatTypes
<1>25. ASSUME NEW j \in jobs, ApprovalShown(j) PROVE ChatTypes'
  <2>1. j.of \in Approval /\ j.try \in Try
    BY <1>25, JobTypes DEF ApprovalShown
  <2>. QED
    BY <1>t, <1>25, <2>1 DEF ApprovalShown, ChatTypes
<1>26. ASSUME NEW j \in jobs, ApprovalSent(j) PROVE ChatTypes'
  BY <1>t, <1>26 DEF ApprovalSent, ChatTypes
<1>27. ASSUME NEW j \in jobs, ApprovalNotSent(j) PROVE ChatTypes'
  BY <1>t, <1>27 DEF ApprovalNotSent, ChatTypes
<1>28. ASSUME NEW j \in jobs, ExpiryEdited(j) PROVE ChatTypes'
  <2>1. j.of \in Approval /\ j.message \in Try
    BY <1>28, JobTypes DEF ExpiryEdited
  <2>. QED
    BY <1>t, <1>28, <2>1 DEF ExpiryEdited, ChatTypes
<1>29. ASSUME NEW j \in jobs, AnswerTried(j) PROVE ChatTypes'
  BY <1>t, <1>29 DEF AnswerTried, ChatTypes
<1>30. CASE GatewayDies
  BY <1>t, <1>30 DEF GatewayDies, ChatTypes
<1>31. CASE BridgeRestarts
  BY <1>t, <1>31 DEF BridgeRestarts, ChatTypes
<1>32. CASE HandlerThrows
  <2>. DEFINE u == updates[handled + 1]
  <2>1. u.kind = "press" => u.of \in Approval /\ u.message \in Try /\ u.decision \in Decision
    BY <1>32, UpdateTypes DEF HandlerThrows
  <2>2. \/ face' = face
        \/ u.kind = "press" /\ \E what \in {face[u.of][u.message], u.decision} :
              face' = [face EXCEPT ![u.of][u.message] = what]
    BY <1>32 DEF HandlerThrows
  <2>. QED
    BY <1>t, <2>1, <2>2 DEF ChatTypes
<1>33. CASE UNCHANGED vars
  BY <1>t, <1>33 DEF vars, ChatTypes
<1>. QED
  BY <1>1, <1>2, <1>3, <1>4, <1>5, <1>6, <1>7, <1>8, <1>9, <1>10, <1>11, <1>12,
     <1>13, <1>14, <1>15, <1>16, <1>17, <1>18, <1>19, <1>20, <1>21, <1>22, <1>23,
     <1>24, <1>25, <1>26, <1>27, <1>28, <1>29, <1>30, <1>31, <1>32, <1>33 DEF Next,
     GatewayStep, UpdateStep, MessageStep, JobStep

LEMMA RequestTypesNext == TypeOK /\ QueueInv /\ [Next]_vars => RequestTypes'
<1>. SUFFICES ASSUME TypeOK, QueueInv, [Next]_vars PROVE RequestTypes'
  OBVIOUS
<1>t. RequestTypes
  BY DEF TypeOK, RequestTypes
<1>1. ASSUME NEW r \in Request, UserTypes(r) PROVE RequestTypes'
  BY <1>t, <1>1 DEF UserTypes, requestVars, RequestTypes
<1>2. ASSUME NEW a \in Approval, UserPresses(a) PROVE RequestTypes'
  BY <1>t, <1>2 DEF UserPresses, requestVars, RequestTypes
<1>3. ASSUME NEW a \in Approval, NEW c \in Chat, GatewayAsks(a, c) PROVE RequestTypes'
  BY <1>t, <1>3 DEF GatewayAsks, Broadcast, requestVars, RequestTypes
<1>4. ASSUME NEW a \in Approval, GatewayExpires(a) PROVE RequestTypes'
  BY <1>t, <1>4 DEF GatewayExpires, Broadcast, requestVars, RequestTypes
<1>5. ASSUME NEW a \in Approval, NEW d \in Decision, DashboardDecides(a, d) PROVE RequestTypes'
  BY <1>t, <1>5 DEF DashboardDecides, requestVars, RequestTypes
<1>6. CASE GatewayPushes
  BY <1>t, <1>6 DEF GatewayPushes, Broadcast, requestVars, RequestTypes
<1>7. CASE GatewayStarts
  BY <1>t, <1>7 DEF GatewayStarts, Listen, requestVars, RequestTypes
<1>8. CASE ClientStep
  BY <1>t, <1>8 DEF ClientStep, Connect, Refused, Close, Reconnect,
     ScheduleReconnect, requestVars, RequestTypes
<1>9. CASE GatewayAnswersAtOnce
  BY <1>t, <1>9 DEF GatewayAnswersAtOnce, Broadcast, requestVars, RequestTypes
<1>10. CASE GatewayTakes
  BY <1>t, <1>10 DEF GatewayTakes, Received, requestVars, RequestTypes
<1>11. ASSUME NEW w \in work, GatewayAnswers(w) PROVE RequestTypes'
  BY <1>t, <1>11 DEF GatewayAnswers, Broadcast, SendTo, requestVars, RequestTypes
<1>12. CASE GatewayHearsDecision
  BY <1>t, <1>12 DEF GatewayHearsDecision, Received, requestVars, RequestTypes
<1>13. CASE AnswerHere
  BY <1>t, <1>13 DEF AnswerHere, NextUpdate, requestVars, RequestTypes
<1>14. CASE HereAnswered
  <2>1. updates[handled + 1].of \in Request
    BY <1>14, UpdateTypes DEF HereAnswered, TypeOK
  <2>. QED
    BY <1>t, <1>14, <2>1 DEF HereAnswered, RequestTypes
<1>15. CASE ForwardCommand
  <2>1. updates[handled + 1].of \in Request
    BY <1>15, UpdateTypes DEF ForwardCommand, NextUpdate
  <2>. QED
    BY <1>t, <1>15, <2>1 DEF ForwardCommand, Forwarded, RequestTypes
<1>16. CASE ForwardMessage
  <2>1. updates[handled + 1].of \in Request
    BY <1>16, UpdateTypes DEF ForwardMessage, NextUpdate
  <2>. QED
    BY <1>t, <1>16, <2>1 DEF ForwardMessage, Forwarded, RequestTypes
<1>17. CASE IgnorePress
  BY <1>t, <1>17 DEF IgnorePress, NextUpdate, requestVars, RequestTypes
<1>18. CASE AcceptPress
  <2>1. updates[handled + 1].of \in Approval
    BY <1>18, UpdateTypes DEF AcceptPress, NextUpdate
  <2>. QED
    BY <1>t, <1>18, <2>1 DEF AcceptPress, requestVars, RequestTypes
<1>19. CASE PressEdited
  BY <1>t, <1>19 DEF PressEdited, requestVars, RequestTypes
<1>20. CASE ConfirmUpdates
  BY <1>t, <1>20 DEF ConfirmUpdates, requestVars, RequestTypes
<1>21. CASE DropForeign
  BY <1>t, <1>21 DEF DropForeign, Takes, Incoming, requestVars, RequestTypes
<1>22. CASE ApprovalRequested
  BY <1>t, <1>22 DEF ApprovalRequested, Takes, Incoming, requestVars, RequestTypes
<1>23. CASE ApprovalExpired
  BY <1>t, <1>23 DEF ApprovalExpired, Takes, Incoming, requestVars, RequestTypes
<1>24. CASE AnswerReceived
  BY <1>t, <1>24 DEF AnswerReceived, Takes, Incoming, requestVars, RequestTypes
<1>25. ASSUME NEW j \in jobs, ApprovalShown(j) PROVE RequestTypes'
  BY <1>t, <1>25 DEF ApprovalShown, requestVars, RequestTypes
<1>26. ASSUME NEW j \in jobs, ApprovalSent(j) PROVE RequestTypes'
  BY <1>t, <1>26 DEF ApprovalSent, requestVars, RequestTypes
<1>27. ASSUME NEW j \in jobs, ApprovalNotSent(j) PROVE RequestTypes'
  BY <1>t, <1>27 DEF ApprovalNotSent, requestVars, RequestTypes
<1>28. ASSUME NEW j \in jobs, ExpiryEdited(j) PROVE RequestTypes'
  BY <1>t, <1>28 DEF ExpiryEdited, requestVars, RequestTypes
<1>29. ASSUME NEW j \in jobs, AnswerTried(j) PROVE RequestTypes'
  <2>1. j.of \in Request \cup {NoRequest}
    BY <1>29, JobTypes DEF AnswerTried
  <2>2. seen' \in {seen, seen \cup {j.of}} /\ refused' \in {refused, refused \cup {j.of}}
    BY <1>29 DEF AnswerTried
  <2>. QED
    BY <1>t, <1>29, <2>1, <2>2 DEF AnswerTried, RequestTypes
<1>30. CASE GatewayDies
  BY <1>t, <1>30 DEF GatewayDies, Hit, requestVars, RequestTypes
<1>31. CASE BridgeRestarts
  BY <1>t, <1>31 DEF BridgeRestarts, Hit, requestVars, RequestTypes
<1>32. CASE HandlerThrows
  <2>1. updates[handled + 1].of \in Approval \cup Request
    BY <1>32, UpdateTypes DEF HandlerThrows
  <2>. QED
    BY <1>t, <1>32, <2>1 DEF HandlerThrows, Hit, requestVars, RequestTypes
<1>33. CASE UNCHANGED vars
  BY <1>t, <1>33 DEF vars, requestVars, RequestTypes
<1>. QED
  BY <1>1, <1>2, <1>3, <1>4, <1>5, <1>6, <1>7, <1>8, <1>9, <1>10, <1>11, <1>12,
     <1>13, <1>14, <1>15, <1>16, <1>17, <1>18, <1>19, <1>20, <1>21, <1>22, <1>23,
     <1>24, <1>25, <1>26, <1>27, <1>28, <1>29, <1>30, <1>31, <1>32, <1>33 DEF Next,
     GatewayStep, UpdateStep, MessageStep, JobStep

\* A handler of updates awaits only while there is an update.
LEMMA BusyNext ==
    TypeOK /\ QueueInv /\ [Next]_vars =>
       busy' \in BOOLEAN /\ (busy' => handled' < Len(updates'))
<1>. DEFINE Goal == busy' \in BOOLEAN /\ (busy' => handled' < Len(updates'))
<1>. SUFFICES ASSUME TypeOK, QueueInv, [Next]_vars PROVE Goal
  OBVIOUS
<1>t. busy \in BOOLEAN /\ (busy => handled < Len(updates)) /\ handled \in Nat
  BY DEF TypeOK
<1>u. UNCHANGED updateVars => busy' \in BOOLEAN /\ (busy' => handled' < Len(updates'))
  <2>1. UNCHANGED updateVars => busy' = busy /\ handled' = handled /\ updates' = updates
    BY DEF updateVars
  <2>. QED
    BY <1>t, <2>1, Zenon
<1>1. ASSUME NEW r \in Request, UserTypes(r) PROVE Goal
  <2>1. busy' = busy /\ handled' = handled
    BY <1>1 DEF UserTypes
  <2>2. Len(updates') = Len(updates) + 1
    BY <1>1 DEF UserTypes, QueueInv
  <2>3. updates \in Seq(Update)
    BY DEF QueueInv
  <2>4. busy' => handled' < Len(updates')
    BY <1>t, <2>1, <2>2, <2>3
  <2>. QED
    BY <1>t, <2>1, <2>4, Zenon
<1>2. ASSUME NEW a \in Approval, UserPresses(a) PROVE Goal
  <2>1. busy' = busy /\ handled' = handled
    BY <1>2 DEF UserPresses
  <2>2. Len(updates') = Len(updates) + 1
    BY <1>2 DEF UserPresses, QueueInv
  <2>3. updates \in Seq(Update)
    BY DEF QueueInv
  <2>4. busy' => handled' < Len(updates')
    BY <1>t, <2>1, <2>2, <2>3
  <2>. QED
    BY <1>t, <2>1, <2>4, Zenon
<1>3. ASSUME NEW a \in Approval, NEW c \in Chat, GatewayAsks(a, c) PROVE Goal
  BY <1>u, <1>3, Zenon DEF GatewayAsks
<1>4. ASSUME NEW a \in Approval, GatewayExpires(a) PROVE Goal
  BY <1>u, <1>4, Zenon DEF GatewayExpires
<1>5. ASSUME NEW a \in Approval, NEW d \in Decision, DashboardDecides(a, d) PROVE Goal
  BY <1>u, <1>5, Zenon DEF DashboardDecides
<1>6. CASE GatewayPushes
  BY <1>u, <1>6, Zenon DEF GatewayPushes
<1>7. CASE GatewayStarts
  BY <1>u, <1>7, Zenon DEF GatewayStarts
<1>8. CASE ClientStep
  BY <1>u, <1>8, Zenon DEF ClientStep
<1>9. CASE GatewayAnswersAtOnce
  BY <1>u, <1>9, Zenon DEF GatewayAnswersAtOnce
<1>10. CASE GatewayTakes
  BY <1>u, <1>10, Zenon DEF GatewayTakes
<1>11. ASSUME NEW w \in work, GatewayAnswers(w) PROVE Goal
  BY <1>u, <1>11, Zenon DEF GatewayAnswers
<1>12. CASE GatewayHearsDecision
  BY <1>u, <1>12, Zenon DEF GatewayHearsDecision
<1>13. CASE AnswerHere
  <2>1. busy' = TRUE /\ handled' = handled /\ updates' = updates /\ handled < Len(updates)
    BY <1>13 DEF AnswerHere, NextUpdate, updateVars
  <2>. QED
    BY <2>1
<1>14. CASE HereAnswered
  BY <1>14 DEF HereAnswered
<1>15. CASE ForwardCommand
  <2>1. busy' = busy /\ ~busy
    BY <1>15, Zenon DEF ForwardCommand, NextUpdate
  <2>. QED
    BY <1>t, <2>1, Zenon
<1>16. CASE ForwardMessage
  <2>1. busy' = busy /\ ~busy
    BY <1>16, Zenon DEF ForwardMessage, NextUpdate
  <2>. QED
    BY <1>t, <2>1, Zenon
<1>17. CASE IgnorePress
  <2>1. busy' = busy /\ ~busy
    BY <1>17, Zenon DEF IgnorePress, NextUpdate
  <2>. QED
    BY <1>t, <2>1, Zenon
<1>18. CASE AcceptPress
  <2>1. busy' = TRUE /\ handled' = handled /\ updates' = updates /\ handled < Len(updates)
    BY <1>18 DEF AcceptPress, NextUpdate, updateVars
  <2>. QED
    BY <2>1
<1>19. CASE PressEdited
  BY <1>19 DEF PressEdited
<1>20. CASE ConfirmUpdates
  <2>1. busy' = busy /\ ~busy
    BY <1>20, Zenon DEF ConfirmUpdates, NextUpdate
  <2>. QED
    BY <1>t, <2>1, Zenon
<1>21. CASE DropForeign
  BY <1>u, <1>21, Zenon DEF DropForeign, Takes
<1>22. CASE ApprovalRequested
  BY <1>u, <1>22, Zenon DEF ApprovalRequested, Takes
<1>23. CASE ApprovalExpired
  BY <1>u, <1>23, Zenon DEF ApprovalExpired, Takes
<1>24. CASE AnswerReceived
  BY <1>u, <1>24, Zenon DEF AnswerReceived, Takes
<1>25. ASSUME NEW j \in jobs, ApprovalShown(j) PROVE Goal
  BY <1>u, <1>25, Zenon DEF ApprovalShown
<1>26. ASSUME NEW j \in jobs, ApprovalSent(j) PROVE Goal
  BY <1>u, <1>26, Zenon DEF ApprovalSent
<1>27. ASSUME NEW j \in jobs, ApprovalNotSent(j) PROVE Goal
  BY <1>u, <1>27, Zenon DEF ApprovalNotSent
<1>28. ASSUME NEW j \in jobs, ExpiryEdited(j) PROVE Goal
  BY <1>u, <1>28, Zenon DEF ExpiryEdited
<1>29. ASSUME NEW j \in jobs, AnswerTried(j) PROVE Goal
  BY <1>u, <1>29, Zenon DEF AnswerTried
<1>30. CASE GatewayDies
  BY <1>u, <1>30, Zenon DEF GatewayDies
<1>31. CASE BridgeRestarts
  BY <1>31 DEF BridgeRestarts, NewBridge
<1>32. CASE HandlerThrows
  BY <1>32 DEF HandlerThrows, NewBridge
<1>33. CASE UNCHANGED vars
  BY <1>u, <1>33, Zenon DEF vars
<1>. QED
  BY <1>1, <1>2, <1>3, <1>4, <1>5, <1>6, <1>7, <1>8, <1>9, <1>10, <1>11, <1>12,
     <1>13, <1>14, <1>15, <1>16, <1>17, <1>18, <1>19, <1>20, <1>21, <1>22, <1>23,
     <1>24, <1>25, <1>26, <1>27, <1>28, <1>29, <1>30, <1>31, <1>32, <1>33 DEF Next,
     GatewayStep, UpdateStep, MessageStep, JobStep

LEMMA TypeNext == TypeOK /\ QueueInv /\ [Next]_vars => TypeOK' /\ QueueInv'
<1>. SUFFICES ASSUME TypeOK, QueueInv, [Next]_vars PROVE TypeOK' /\ QueueInv'
  OBVIOUS
<1>1. QueueInv'
  BY QueueNext
<1>2. handled' \in 0..Len(updates')
  BY UpdatesElements
<1>3. LinkTypeOK' /\ GatewayTypes' /\ ProcessTypes' /\ ChatTypes' /\ RequestTypes'
  BY LinkTypeNext, GatewayTypesNext, ProcessTypesNext, ChatTypesNext,
     RequestTypesNext
<1>4. busy' \in BOOLEAN /\ (busy' => handled' < Len(updates'))
  BY BusyNext
<1>6. TypeOK'
  BY <1>2, <1>3, <1>4, Zenon DEF TypeOK, GatewayTypes, ProcessTypes, ChatTypes,
     RequestTypes
<1>. QED
  BY <1>1, <1>6

LEMMA TypeHolds == Spec => [](TypeOK /\ QueueInv)
BY TypeInit, TypeNext, PTL DEF Spec

\* A bridge that lost its connection is always about to try again, and two
\* attempts never run at once (_connect and scheduleReconnect of SocketClient).
THEOREM ReconnectsForEver == Spec => []NeverGivesUp
<1>1. QueueInv => NeverGivesUp
  BY DEF QueueInv, LinkInv
<1>. QED
  BY TypeHolds, <1>1, PTL

\* The shapes of the bridge's tables, of its queues and of the chat.
THEOREM BridgeTypes == Spec => []TypeOK
BY TypeHolds, PTL

-----------------------------------------------------------------------------
(* Approvals.  What is left of an approval anywhere was asked for.         *)

Decides(x, a) == x.body.type = "approval-decision" /\ x.body.of = a

Pressed(u, a) == u.kind = "press" /\ u.of = a

KnownInv ==
    /\ \A u \in Elements(updates) : u.kind = "press" => verdict[u.of] # "none"
    /\ \A m \in Elements(toClient) :
          m.type \in {"approval-request", "approval-expired"} => verdict[m.of] # "none"
    /\ \A x \in Elements(toServer) :
          x.body.type = "approval-decision" => verdict[x.body.of] # "none"
    /\ \A j \in jobs : j.job \in {"ask", "expire"} => verdict[j.of] # "none"
    /\ \A a \in Approval, i \in Try : face[a][i] # "none" => verdict[a] # "none"
    /\ \A a \in Approval : by[a] # "nobody" => verdict[a] # "none"

\* The decision of an approval is one line at most, and the bridge knows of it.
InFlight(a) == \E i \in 1..Len(toServer) : Decides(toServer[i], a)

AtMostOne(a) ==
    \A i, k \in 1..Len(toServer) :
       Decides(toServer[i], a) /\ Decides(toServer[k], a) => i = k

Settled(a) ==
    /\ verdict[a] # "lost"
    /\ verdict[a] \in Decision <=> by[a] # "nobody"
    /\ InFlight(a) \/ by[a] = "telegram" => a \in resolvedApprovals
    /\ AtMostOne(a)
    /\ by[a] = "telegram" => ~InFlight(a)

SettledInv == \A a \in Approval \ disturbed : Settled(a)

\* What is shown, or is about to be, counts.
Counts(a, d) ==
    \/ verdict[a] = d /\ by[a] = "telegram"
    \/ verdict[a] = "expired"
    \/ by[a] = "dashboard"
    \/ OnItsWay(a, d)

AboutToShow(a, d) ==
    busy /\ Pressed(updates[handled + 1], a) /\ updates[handled + 1].decision = d

ShownInv ==
    \A a \in Approval \ disturbed, d \in Decision :
       /\ AboutToShow(a, d) => Counts(a, d)
       /\ \A i \in Try : face[a][i] = d => Counts(a, d)

ApprovalInv == KnownInv /\ SettledInv /\ ShownInv

\* Nothing is ever not asked for again.
VerdictStep == \A a \in Approval : verdict[a] # "none" => verdict'[a] # "none"

LEMMA VerdictSteps == TypeOK /\ QueueInv /\ [Next]_vars => VerdictStep
<1>. SUFFICES ASSUME TypeOK, QueueInv, [Next]_vars PROVE VerdictStep
  OBVIOUS
<1>t. GatewayTypes
  BY DEF TypeOK, GatewayTypes
<1>1. ASSUME NEW r \in Request, UserTypes(r) PROVE VerdictStep
  BY <1>t, <1>1 DEF UserTypes, gatewayVars, GatewayTypes, VerdictStep
<1>2. ASSUME NEW a \in Approval, UserPresses(a) PROVE VerdictStep
  BY <1>t, <1>2 DEF UserPresses, gatewayVars, GatewayTypes, VerdictStep
<1>3. ASSUME NEW a \in Approval, NEW c \in Chat, GatewayAsks(a, c) PROVE VerdictStep
  BY <1>t, <1>3 DEF GatewayAsks, Broadcast, GatewayTypes, VerdictStep
<1>4. ASSUME NEW a \in Approval, GatewayExpires(a) PROVE VerdictStep
  BY <1>t, <1>4 DEF GatewayExpires, Broadcast, GatewayTypes, VerdictStep
<1>5. ASSUME NEW a \in Approval, NEW d \in Decision, DashboardDecides(a, d) PROVE VerdictStep
  BY <1>t, <1>5, BridgeAssumption DEF DashboardDecides, GatewayTypes, VerdictStep
<1>6. CASE GatewayPushes
  BY <1>t, <1>6 DEF GatewayPushes, Broadcast, gatewayVars, GatewayTypes, VerdictStep
<1>7. CASE GatewayStarts
  BY <1>t, <1>7 DEF GatewayStarts, Listen, gatewayVars, GatewayTypes, VerdictStep
<1>8. CASE ClientStep
  BY <1>t, <1>8 DEF ClientStep, Connect, Refused, Close, Reconnect,
     ScheduleReconnect, gatewayVars, GatewayTypes, VerdictStep
<1>9. CASE GatewayAnswersAtOnce
  BY <1>t, <1>9 DEF GatewayAnswersAtOnce, Broadcast, gatewayVars, GatewayTypes,
     VerdictStep
<1>10. CASE GatewayTakes
  BY <1>t, <1>10 DEF GatewayTakes, Received, GatewayTypes, VerdictStep
<1>11. ASSUME NEW w \in work, GatewayAnswers(w) PROVE VerdictStep
  BY <1>t, <1>11 DEF GatewayAnswers, Broadcast, SendTo, GatewayTypes, VerdictStep
<1>12. CASE GatewayHearsDecision
  <2>1. /\ Head(toServer).body.of \in Approval
        /\ Head(toServer).body.decision \in Decision
    BY <1>12, HeadOfToServer DEF GatewayHearsDecision, Received
  <2>. QED
    BY <1>t, <1>12, <2>1, BridgeAssumption DEF GatewayHearsDecision, GatewayTypes,
       VerdictStep
<1>13. CASE AnswerHere
  BY <1>t, <1>13 DEF AnswerHere, NextUpdate, gatewayVars, GatewayTypes, VerdictStep
<1>14. CASE HereAnswered
  BY <1>t, <1>14 DEF HereAnswered, gatewayVars, GatewayTypes, VerdictStep
<1>15. CASE ForwardCommand
  BY <1>t, <1>15 DEF ForwardCommand, NextUpdate, Send, Forwarded, gatewayVars,
     GatewayTypes, VerdictStep
<1>16. CASE ForwardMessage
  BY <1>t, <1>16 DEF ForwardMessage, NextUpdate, Send, Forwarded, gatewayVars,
     GatewayTypes, VerdictStep
<1>17. CASE IgnorePress
  BY <1>t, <1>17 DEF IgnorePress, NextUpdate, gatewayVars, GatewayTypes, VerdictStep
<1>18. CASE AcceptPress
  BY <1>t, <1>18 DEF AcceptPress, NextUpdate, Send, gatewayVars, GatewayTypes,
     VerdictStep
<1>19. CASE PressEdited
  BY <1>t, <1>19 DEF PressEdited, gatewayVars, GatewayTypes, VerdictStep
<1>20. CASE ConfirmUpdates
  BY <1>t, <1>20 DEF ConfirmUpdates, gatewayVars, GatewayTypes, VerdictStep
<1>21. CASE DropForeign
  BY <1>t, <1>21 DEF DropForeign, Takes, Incoming, gatewayVars, GatewayTypes,
     VerdictStep
<1>22. CASE ApprovalRequested
  BY <1>t, <1>22 DEF ApprovalRequested, Takes, Incoming, gatewayVars, GatewayTypes,
     VerdictStep
<1>23. CASE ApprovalExpired
  BY <1>t, <1>23 DEF ApprovalExpired, Takes, Incoming, gatewayVars, GatewayTypes,
     VerdictStep
<1>24. CASE AnswerReceived
  BY <1>t, <1>24 DEF AnswerReceived, Takes, Incoming, gatewayVars, GatewayTypes,
     VerdictStep
<1>25. ASSUME NEW j \in jobs, ApprovalShown(j) PROVE VerdictStep
  BY <1>t, <1>25 DEF ApprovalShown, gatewayVars, GatewayTypes, VerdictStep
<1>26. ASSUME NEW j \in jobs, ApprovalSent(j) PROVE VerdictStep
  BY <1>t, <1>26 DEF ApprovalSent, gatewayVars, GatewayTypes, VerdictStep
<1>27. ASSUME NEW j \in jobs, ApprovalNotSent(j) PROVE VerdictStep
  BY <1>t, <1>27 DEF ApprovalNotSent, gatewayVars, GatewayTypes, VerdictStep
<1>28. ASSUME NEW j \in jobs, ExpiryEdited(j) PROVE VerdictStep
  BY <1>t, <1>28 DEF ExpiryEdited, gatewayVars, GatewayTypes, VerdictStep
<1>29. ASSUME NEW j \in jobs, AnswerTried(j) PROVE VerdictStep
  BY <1>t, <1>29 DEF AnswerTried, gatewayVars, GatewayTypes, VerdictStep
<1>30. CASE GatewayDies
  BY <1>t, <1>30 DEF GatewayDies, GatewayTypes, VerdictStep
<1>31. CASE BridgeRestarts
  BY <1>t, <1>31 DEF BridgeRestarts, gatewayVars, VerdictStep
<1>32. CASE HandlerThrows
  BY <1>t, <1>32 DEF HandlerThrows, gatewayVars, VerdictStep
<1>33. CASE UNCHANGED vars
  BY <1>t, <1>33 DEF vars, gatewayVars, GatewayTypes, VerdictStep
<1>. QED
  BY <1>1, <1>2, <1>3, <1>4, <1>5, <1>6, <1>7, <1>8, <1>9, <1>10, <1>11, <1>12,
     <1>13, <1>14, <1>15, <1>16, <1>17, <1>18, <1>19, <1>20, <1>21, <1>22, <1>23,
     <1>24, <1>25, <1>26, <1>27, <1>28, <1>29, <1>30, <1>31, <1>32, <1>33 DEF Next,
     GatewayStep, UpdateStep, MessageStep, JobStep

\* How a message in the chat changes.
FaceStep(a, i) ==
    \/ face'[a][i] = face[a][i]
    \/ /\ face'[a][i] \in {"buttons", "expired"}
       /\ \E j \in jobs : j.job \in {"ask", "expire"} /\ j.of = a
    \/ /\ busy
       /\ handled < Len(updates)
       /\ Pressed(updates[handled + 1], a)
       /\ face'[a][i] = updates[handled + 1].decision
       /\ PressEdited \/ HandlerThrows

LEMMA FaceSteps ==
    TypeOK /\ QueueInv /\ [Next]_vars => \A a \in Approval, i \in Try : FaceStep(a, i)
<1>. DEFINE Goal == \A a \in Approval, i \in Try : FaceStep(a, i)
<1>. SUFFICES ASSUME TypeOK, QueueInv, [Next]_vars PROVE Goal
  OBVIOUS
<1>t. ChatTypes
  BY DEF TypeOK, ChatTypes
<1>1. ASSUME NEW r \in Request, UserTypes(r) PROVE Goal
  BY <1>t, <1>1 DEF UserTypes, FaceStep
<1>2. ASSUME NEW a \in Approval, UserPresses(a) PROVE Goal
  BY <1>t, <1>2 DEF UserPresses, FaceStep
<1>3. ASSUME NEW a \in Approval, NEW c \in Chat, GatewayAsks(a, c) PROVE Goal
  BY <1>t, <1>3 DEF GatewayAsks, Broadcast, FaceStep
<1>4. ASSUME NEW a \in Approval, GatewayExpires(a) PROVE Goal
  BY <1>t, <1>4 DEF GatewayExpires, Broadcast, FaceStep
<1>5. ASSUME NEW a \in Approval, NEW d \in Decision, DashboardDecides(a, d) PROVE Goal
  BY <1>t, <1>5 DEF DashboardDecides, FaceStep
<1>6. CASE GatewayPushes
  BY <1>t, <1>6 DEF GatewayPushes, Broadcast, FaceStep
<1>7. CASE GatewayStarts
  BY <1>t, <1>7 DEF GatewayStarts, Listen, FaceStep
<1>8. CASE ClientStep
  BY <1>t, <1>8 DEF ClientStep, Connect, Refused, Close, Reconnect,
     ScheduleReconnect, FaceStep
<1>9. CASE GatewayAnswersAtOnce
  BY <1>t, <1>9 DEF GatewayAnswersAtOnce, Broadcast, FaceStep
<1>10. CASE GatewayTakes
  BY <1>t, <1>10 DEF GatewayTakes, Received, FaceStep
<1>11. ASSUME NEW w \in work, GatewayAnswers(w) PROVE Goal
  BY <1>t, <1>11 DEF GatewayAnswers, Broadcast, SendTo, FaceStep
<1>12. CASE GatewayHearsDecision
  BY <1>t, <1>12 DEF GatewayHearsDecision, Received, FaceStep
<1>13. CASE AnswerHere
  BY <1>t, <1>13 DEF AnswerHere, NextUpdate, FaceStep
<1>14. CASE HereAnswered
  BY <1>t, <1>14 DEF HereAnswered, FaceStep
<1>15. CASE ForwardCommand
  BY <1>t, <1>15 DEF ForwardCommand, NextUpdate, Send, Forwarded, FaceStep
<1>16. CASE ForwardMessage
  BY <1>t, <1>16 DEF ForwardMessage, NextUpdate, Send, Forwarded, FaceStep
<1>17. CASE IgnorePress
  BY <1>t, <1>17 DEF IgnorePress, NextUpdate, FaceStep
<1>18. CASE AcceptPress
  BY <1>t, <1>18 DEF AcceptPress, NextUpdate, Send, FaceStep
<1>19. CASE PressEdited
  <2>1. /\ updates[handled + 1].of \in Approval /\ handled < Len(updates) /\ busy
        /\ updates[handled + 1].message \in Try /\ updates[handled + 1].decision \in Decision
        /\ updates[handled + 1].kind = "press"
    BY <1>19, UpdateTypes DEF PressEdited, TypeOK
  <2>. QED
    BY <1>t, <1>19, <2>1 DEF PressEdited, ChatTypes, FaceStep, Pressed
<1>20. CASE ConfirmUpdates
  BY <1>t, <1>20 DEF ConfirmUpdates, FaceStep
<1>21. CASE DropForeign
  BY <1>t, <1>21 DEF DropForeign, Takes, Incoming, FaceStep
<1>22. CASE ApprovalRequested
  BY <1>t, <1>22 DEF ApprovalRequested, Takes, Incoming, FaceStep
<1>23. CASE ApprovalExpired
  BY <1>t, <1>23 DEF ApprovalExpired, Takes, Incoming, FaceStep
<1>24. CASE AnswerReceived
  BY <1>t, <1>24 DEF AnswerReceived, Takes, Incoming, FaceStep
<1>25. ASSUME NEW j \in jobs, ApprovalShown(j) PROVE Goal
  <2>1. j.of \in Approval /\ j.try \in Try /\ j.job = "ask"
    BY <1>25, JobTypes DEF ApprovalShown
  <2>. QED
    BY <1>t, <1>25, <2>1 DEF ApprovalShown, ChatTypes, FaceStep
<1>26. ASSUME NEW j \in jobs, ApprovalSent(j) PROVE Goal
  BY <1>t, <1>26 DEF ApprovalSent, FaceStep
<1>27. ASSUME NEW j \in jobs, ApprovalNotSent(j) PROVE Goal
  BY <1>t, <1>27 DEF ApprovalNotSent, FaceStep
<1>28. ASSUME NEW j \in jobs, ExpiryEdited(j) PROVE Goal
  <2>1. j.of \in Approval /\ j.message \in Try /\ j.job = "expire"
    BY <1>28, JobTypes DEF ExpiryEdited
  <2>. QED
    BY <1>t, <1>28, <2>1 DEF ExpiryEdited, ChatTypes, FaceStep
<1>29. ASSUME NEW j \in jobs, AnswerTried(j) PROVE Goal
  BY <1>t, <1>29 DEF AnswerTried, FaceStep
<1>30. CASE GatewayDies
  BY <1>t, <1>30 DEF GatewayDies, FaceStep
<1>31. CASE BridgeRestarts
  BY <1>t, <1>31 DEF BridgeRestarts, FaceStep
<1>32. CASE HandlerThrows
  <2>. DEFINE u == updates[handled + 1]
  <2>1. u.kind = "press" => u.of \in Approval /\ u.message \in Try /\ u.decision \in Decision
    BY <1>32, UpdateTypes DEF HandlerThrows
  <2>2. /\ handled < Len(updates)
        /\ \/ face' = face
           \/ busy /\ u.kind = "press" /\ \E what \in {face[u.of][u.message], u.decision} :
              face' = [face EXCEPT ![u.of][u.message] = what]
    BY <1>32 DEF HandlerThrows
  <2>. QED
    BY <1>t, <1>32, <2>1, <2>2 DEF ChatTypes, FaceStep, Pressed
<1>33. CASE UNCHANGED vars
  BY <1>t, <1>33 DEF vars, FaceStep
<1>. QED
  BY <1>1, <1>2, <1>3, <1>4, <1>5, <1>6, <1>7, <1>8, <1>9, <1>10, <1>11, <1>12,
     <1>13, <1>14, <1>15, <1>16, <1>17, <1>18, <1>19, <1>20, <1>21, <1>22, <1>23,
     <1>24, <1>25, <1>26, <1>27, <1>28, <1>29, <1>30, <1>31, <1>32, <1>33 DEF Next,
     GatewayStep, UpdateStep, MessageStep, JobStep

\* How the calls in flight change.
JobsStep ==
    \A j \in jobs' : j.job \in {"ask", "expire"} =>
       \/ \E k \in jobs : k.job \in {"ask", "expire"} /\ k.of = j.of
       \/ /\ toClient # <<>>
          /\ Head(toClient).type \in {"approval-request", "approval-expired"}
          /\ j.of = Head(toClient).of

LEMMA JobsSteps == TypeOK /\ QueueInv /\ [Next]_vars => JobsStep
<1>. SUFFICES ASSUME TypeOK, QueueInv, [Next]_vars PROVE JobsStep
  OBVIOUS
<1>j. jobs \subseteq Job
  BY DEF QueueInv
<1>1. ASSUME NEW r \in Request, UserTypes(r) PROVE JobsStep
  BY <1>1 DEF UserTypes, JobsStep
<1>2. ASSUME NEW a \in Approval, UserPresses(a) PROVE JobsStep
  BY <1>2 DEF UserPresses, JobsStep
<1>3. ASSUME NEW a \in Approval, NEW c \in Chat, GatewayAsks(a, c) PROVE JobsStep
  BY <1>3 DEF GatewayAsks, Broadcast, JobsStep
<1>4. ASSUME NEW a \in Approval, GatewayExpires(a) PROVE JobsStep
  BY <1>4 DEF GatewayExpires, Broadcast, JobsStep
<1>5. ASSUME NEW a \in Approval, NEW d \in Decision, DashboardDecides(a, d) PROVE JobsStep
  BY <1>5 DEF DashboardDecides, JobsStep
<1>6. CASE GatewayPushes
  BY <1>6 DEF GatewayPushes, Broadcast, JobsStep
<1>7. CASE GatewayStarts
  BY <1>7 DEF GatewayStarts, Listen, JobsStep
<1>8. CASE ClientStep
  BY <1>8 DEF ClientStep, Connect, Refused, Close, Reconnect, ScheduleReconnect,
     JobsStep
<1>9. CASE GatewayAnswersAtOnce
  BY <1>9 DEF GatewayAnswersAtOnce, Broadcast, JobsStep
<1>10. CASE GatewayTakes
  BY <1>10 DEF GatewayTakes, Received, JobsStep
<1>11. ASSUME NEW w \in work, GatewayAnswers(w) PROVE JobsStep
  BY <1>11 DEF GatewayAnswers, Broadcast, SendTo, JobsStep
<1>12. CASE GatewayHearsDecision
  BY <1>12 DEF GatewayHearsDecision, Received, JobsStep
<1>13. CASE AnswerHere
  BY <1>13 DEF AnswerHere, NextUpdate, JobsStep
<1>14. CASE HereAnswered
  BY <1>14 DEF HereAnswered, JobsStep
<1>15. CASE ForwardCommand
  BY <1>15 DEF ForwardCommand, NextUpdate, Send, Forwarded, JobsStep
<1>16. CASE ForwardMessage
  BY <1>16 DEF ForwardMessage, NextUpdate, Send, Forwarded, JobsStep
<1>17. CASE IgnorePress
  BY <1>17 DEF IgnorePress, NextUpdate, JobsStep
<1>18. CASE AcceptPress
  BY <1>18 DEF AcceptPress, NextUpdate, Send, JobsStep
<1>19. CASE PressEdited
  BY <1>19 DEF PressEdited, JobsStep
<1>20. CASE ConfirmUpdates
  BY <1>20 DEF ConfirmUpdates, JobsStep
<1>21. CASE DropForeign
  BY <1>21 DEF DropForeign, Takes, Incoming, JobsStep
<1>22. CASE ApprovalRequested
  BY <1>22 DEF ApprovalRequested, Takes, Incoming, JobsStep
<1>23. CASE ApprovalExpired
  BY <1>23 DEF ApprovalExpired, Takes, Incoming, JobsStep
<1>24. CASE AnswerReceived
  <2>1. PICK t : jobs' = jobs \cup {[job |-> "answer", of |-> Head(toClient).of, texts |-> t]}
    BY <1>24 DEF AnswerReceived
  <2>2. [job |-> "answer", of |-> Head(toClient).of, texts |-> t].job = "answer"
    OBVIOUS
  <2>. QED
    BY <2>1, <2>2 DEF JobsStep
<1>25. ASSUME NEW j \in jobs, ApprovalShown(j) PROVE JobsStep
  <2>1. [j EXCEPT !.shown = TRUE].of = j.of
    BY <1>25, <1>j DEF ApprovalShown, Job
  <2>. QED
    BY <1>25, <2>1 DEF ApprovalShown, JobsStep
<1>26. ASSUME NEW j \in jobs, ApprovalSent(j) PROVE JobsStep
  BY <1>26 DEF ApprovalSent, JobsStep
<1>27. ASSUME NEW j \in jobs, ApprovalNotSent(j) PROVE JobsStep
  <2>1. [j EXCEPT !.try = 2, !.shown = FALSE].of = j.of
    BY <1>27, <1>j DEF ApprovalNotSent, Job
  <2>. QED
    BY <1>27, <2>1 DEF ApprovalNotSent, JobsStep
<1>28. ASSUME NEW j \in jobs, ExpiryEdited(j) PROVE JobsStep
  BY <1>28 DEF ExpiryEdited, JobsStep
<1>29. ASSUME NEW j \in jobs, AnswerTried(j) PROVE JobsStep
  <2>1. [j EXCEPT !.texts = Tail(@)].job = "answer"
    BY <1>29, <1>j DEF AnswerTried, Job
  <2>. QED
    BY <1>29, <2>1 DEF AnswerTried, JobsStep
<1>30. CASE GatewayDies
  BY <1>30 DEF GatewayDies, JobsStep
<1>31. CASE BridgeRestarts
  BY <1>31 DEF BridgeRestarts, NewBridge, JobsStep
<1>32. CASE HandlerThrows
  BY <1>32 DEF HandlerThrows, NewBridge, JobsStep
<1>33. CASE UNCHANGED vars
  BY <1>33 DEF vars, JobsStep
<1>. QED
  BY <1>1, <1>2, <1>3, <1>4, <1>5, <1>6, <1>7, <1>8, <1>9, <1>10, <1>11, <1>12,
     <1>13, <1>14, <1>15, <1>16, <1>17, <1>18, <1>19, <1>20, <1>21, <1>22, <1>23,
     <1>24, <1>25, <1>26, <1>27, <1>28, <1>29, <1>30, <1>31, <1>32, <1>33 DEF Next,
     GatewayStep, UpdateStep, MessageStep, JobStep

\* Who decides, and what a death leaves alone.
ByStep ==
    \A a \in Approval : by'[a] # "nobody" =>
       by[a] # "nobody" \/ (verdict[a] = "pending" /\ verdict'[a] # "none")

LEMMA BySteps == TypeOK /\ QueueInv /\ [Next]_vars => ByStep
<1>. SUFFICES ASSUME TypeOK, QueueInv, [Next]_vars PROVE ByStep
  OBVIOUS
<1>t. GatewayTypes
  BY DEF TypeOK, GatewayTypes
<1>1. ASSUME NEW r \in Request, UserTypes(r) PROVE ByStep
  BY <1>t, <1>1 DEF UserTypes, gatewayVars, ByStep
<1>2. ASSUME NEW a \in Approval, UserPresses(a) PROVE ByStep
  BY <1>t, <1>2 DEF UserPresses, gatewayVars, ByStep
<1>3. ASSUME NEW a \in Approval, NEW c \in Chat, GatewayAsks(a, c) PROVE ByStep
  BY <1>t, <1>3 DEF GatewayAsks, Broadcast, ByStep
<1>4. ASSUME NEW a \in Approval, GatewayExpires(a) PROVE ByStep
  BY <1>t, <1>4 DEF GatewayExpires, Broadcast, ByStep
<1>5. ASSUME NEW a \in Approval, NEW d \in Decision, DashboardDecides(a, d) PROVE ByStep
  BY <1>t, <1>5, BridgeAssumption DEF DashboardDecides, GatewayTypes, ByStep
<1>6. CASE GatewayPushes
  BY <1>t, <1>6 DEF GatewayPushes, Broadcast, gatewayVars, ByStep
<1>7. CASE GatewayStarts
  BY <1>t, <1>7 DEF GatewayStarts, Listen, gatewayVars, ByStep
<1>8. CASE ClientStep
  BY <1>t, <1>8 DEF ClientStep, Connect, Refused, Close, Reconnect,
     ScheduleReconnect, gatewayVars, ByStep
<1>9. CASE GatewayAnswersAtOnce
  BY <1>t, <1>9 DEF GatewayAnswersAtOnce, Broadcast, gatewayVars, ByStep
<1>10. CASE GatewayTakes
  BY <1>t, <1>10 DEF GatewayTakes, Received, ByStep
<1>11. ASSUME NEW w \in work, GatewayAnswers(w) PROVE ByStep
  BY <1>t, <1>11 DEF GatewayAnswers, Broadcast, SendTo, ByStep
<1>12. CASE GatewayHearsDecision
  <2>1. /\ Head(toServer).body.of \in Approval
        /\ Head(toServer).body.decision \in Decision
    BY <1>12, HeadOfToServer DEF GatewayHearsDecision, Received
  <2>. QED
    BY <1>t, <1>12, <2>1, BridgeAssumption DEF GatewayHearsDecision, GatewayTypes,
       ByStep
<1>13. CASE AnswerHere
  BY <1>t, <1>13 DEF AnswerHere, NextUpdate, gatewayVars, ByStep
<1>14. CASE HereAnswered
  BY <1>t, <1>14 DEF HereAnswered, gatewayVars, ByStep
<1>15. CASE ForwardCommand
  BY <1>t, <1>15 DEF ForwardCommand, NextUpdate, Send, Forwarded, gatewayVars,
     ByStep
<1>16. CASE ForwardMessage
  BY <1>t, <1>16 DEF ForwardMessage, NextUpdate, Send, Forwarded, gatewayVars,
     ByStep
<1>17. CASE IgnorePress
  BY <1>t, <1>17 DEF IgnorePress, NextUpdate, gatewayVars, ByStep
<1>18. CASE AcceptPress
  BY <1>t, <1>18 DEF AcceptPress, NextUpdate, Send, gatewayVars, ByStep
<1>19. CASE PressEdited
  BY <1>t, <1>19 DEF PressEdited, gatewayVars, ByStep
<1>20. CASE ConfirmUpdates
  BY <1>t, <1>20 DEF ConfirmUpdates, gatewayVars, ByStep
<1>21. CASE DropForeign
  BY <1>t, <1>21 DEF DropForeign, Takes, Incoming, gatewayVars, ByStep
<1>22. CASE ApprovalRequested
  BY <1>t, <1>22 DEF ApprovalRequested, Takes, Incoming, gatewayVars, ByStep
<1>23. CASE ApprovalExpired
  BY <1>t, <1>23 DEF ApprovalExpired, Takes, Incoming, gatewayVars, ByStep
<1>24. CASE AnswerReceived
  BY <1>t, <1>24 DEF AnswerReceived, Takes, Incoming, gatewayVars, ByStep
<1>25. ASSUME NEW j \in jobs, ApprovalShown(j) PROVE ByStep
  BY <1>t, <1>25 DEF ApprovalShown, gatewayVars, ByStep
<1>26. ASSUME NEW j \in jobs, ApprovalSent(j) PROVE ByStep
  BY <1>t, <1>26 DEF ApprovalSent, gatewayVars, ByStep
<1>27. ASSUME NEW j \in jobs, ApprovalNotSent(j) PROVE ByStep
  BY <1>t, <1>27 DEF ApprovalNotSent, gatewayVars, ByStep
<1>28. ASSUME NEW j \in jobs, ExpiryEdited(j) PROVE ByStep
  BY <1>t, <1>28 DEF ExpiryEdited, gatewayVars, ByStep
<1>29. ASSUME NEW j \in jobs, AnswerTried(j) PROVE ByStep
  BY <1>t, <1>29 DEF AnswerTried, gatewayVars, ByStep
<1>30. CASE GatewayDies
  BY <1>t, <1>30 DEF GatewayDies, ByStep
<1>31. CASE BridgeRestarts
  BY <1>t, <1>31 DEF BridgeRestarts, gatewayVars, ByStep
<1>32. CASE HandlerThrows
  BY <1>t, <1>32 DEF HandlerThrows, gatewayVars, ByStep
<1>33. CASE UNCHANGED vars
  BY <1>t, <1>33 DEF vars, gatewayVars, ByStep
<1>. QED
  BY <1>1, <1>2, <1>3, <1>4, <1>5, <1>6, <1>7, <1>8, <1>9, <1>10, <1>11, <1>12,
     <1>13, <1>14, <1>15, <1>16, <1>17, <1>18, <1>19, <1>20, <1>21, <1>22, <1>23,
     <1>24, <1>25, <1>26, <1>27, <1>28, <1>29, <1>30, <1>31, <1>32, <1>33 DEF Next,
     GatewayStep, UpdateStep, MessageStep, JobStep

\* Old lines to the gateway, and the decision of an update.
LEMMA ToServerDecisions ==
    ASSUME TypeOK, QueueInv, [Next]_vars
    PROVE  \A x \in Elements(toServer') : x.body.type = "approval-decision" =>
              x \in Elements(toServer) \/ \E u \in Elements(updates) : Pressed(u, x.body.of)
<1>q. toServer \in Seq(Sent) /\ nextClientId \in Nat
  BY DEF QueueInv, LinkInv
<1>. DEFINE Goal == \A x \in Elements(toServer') : x.body.type = "approval-decision" =>
                       x \in Elements(toServer) \/ \E u \in Elements(updates) : Pressed(u, x.body.of)
<1>g. SUFFICES Goal
  OBVIOUS
<1>1. CASE toServer' = toServer
  BY <1>1
<1>0. ASSUME NEW m \in Command, toServer' = Append(toServer, [from |-> nextClientId, body |-> m])
      PROVE  Elements(toServer') = Elements(toServer) \cup {[from |-> nextClientId, body |-> m]}
  <2>1. [from |-> nextClientId, body |-> m] \in Sent
    BY <1>q DEF Sent
  <2>. QED
    BY <1>q, <1>0, <2>1, Appending
<1>2. ASSUME NEW m \in Command, toServer' = Append(toServer, [from |-> nextClientId, body |-> m]),
             m.type # "approval-decision"
      PROVE  Goal
  <2>1. [from |-> nextClientId, body |-> m].body = m
    OBVIOUS
  <2>. QED
    BY <1>0, <1>2, <2>1
<1>3. CASE toServer # <<>> /\ toServer' = Tail(toServer)
  BY <1>q, <1>3, Taking
<1>4. ASSUME NEW n \in 0..Len(toServer), toServer' = SubSeq(toServer, 1, n)
      PROVE  Elements(toServer') \subseteq Elements(toServer)
  <2>1. 1 \in 1..Len(toServer) + 1
    BY <1>q
  <2>. QED
    BY <1>q, <1>4, <2>1, Cutting
<1>5. CASE toServer' = <<>>
  BY <1>5 DEF Elements
<1>6. CASE AcceptPress
  <2>1. PICK u \in Update :
           /\ u.kind = "press" /\ u \in Elements(updates)
           /\ u.of \in Approval /\ u.decision \in Decision
           /\ \/ toServer' = Append(toServer, [from |-> nextClientId,
                       body |-> [type |-> "approval-decision", of |-> u.of,
                                 decision |-> u.decision]])
              \/ toServer' = toServer
    BY <1>6, AcceptedPress
  <2>. DEFINE m == [type |-> "approval-decision", of |-> u.of, decision |-> u.decision]
              x == [from |-> nextClientId, body |-> m]
  <2>2. m \in Command
    BY <2>1 DEF Command
  <2>3. x.body.of = u.of
    OBVIOUS
  <2>4. Pressed(u, x.body.of)
    BY <2>1, <2>3 DEF Pressed
  <2>5. toServer' = Append(toServer, x) \/ toServer' = toServer
    BY <2>1
  <2>. HIDE DEF m
  <2>6. Elements(toServer') = Elements(toServer) \cup {x} \/ toServer' = toServer
    BY <1>0, <2>2, <2>5
  <2>. QED
    BY <2>1, <2>4, <2>6
<1>7. CASE GatewayHearsDecision
  BY <1>3, <1>7 DEF GatewayHearsDecision, Received
<1>8. ASSUME NEW n \in 0..Len(toServer), toServer' = SubSeq(toServer, 1, n) PROVE Goal
  BY <1>4, <1>8
<1>. HIDE DEF Goal
<1>. QED
  BY <1>1, <1>2, <1>3, <1>5, <1>6, <1>7, <1>8, ToServerSteps DEF ToServerStep

LEMMA KnownNext == TypeOK /\ QueueInv /\ KnownInv /\ [Next]_vars => KnownInv'
<1>. SUFFICES ASSUME TypeOK, QueueInv, KnownInv, [Next]_vars PROVE KnownInv'
  OBVIOUS
<1>v. \A a \in Approval : verdict[a] # "none" => verdict'[a] # "none"
  BY VerdictSteps DEF VerdictStep
<1>1. \A u \in Elements(updates') : u.kind = "press" => verdict'[u.of] # "none"
  <2>1. \A u \in Elements(updates') : u \in Update
    BY UpdatesElements DEF Elements
  <2>2. \A u \in Elements(updates') : u.kind = "press" => u.of \in Approval /\ u.message \in Try
    BY <2>1 DEF Update
  <2>. QED
    BY <1>v, <2>2, UpdatesElements DEF KnownInv
<1>2. \A m \in Elements(toClient') :
         m.type \in {"approval-request", "approval-expired"} => verdict'[m.of] # "none"
  <2>1. \A m \in Elements(toClient') : m \in Line
    BY ToClientElements DEF Elements
  <2>2. \A m \in Elements(toClient') :
           m.type \in {"approval-request", "approval-expired"} => m.of \in Approval
    BY <2>1 DEF Line, AnswerType
  <2>. QED
    BY <1>v, <2>2, ToClientElements DEF KnownInv
<1>3. \A x \in Elements(toServer') :
         x.body.type = "approval-decision" => verdict'[x.body.of] # "none"
  <2>1. \A x \in Elements(toServer') : x \in Sent
    BY ToServerElements DEF Elements
  <2>2. \A x \in Elements(toServer') : x.body.type = "approval-decision" => x.body.of \in Approval
    BY <2>1, TypedKinds DEF Sent, Command
  <2>. QED
    BY <1>v, <2>2, ToServerDecisions DEF KnownInv, Pressed
<1>4. \A j \in jobs' : j.job \in {"ask", "expire"} => verdict'[j.of] # "none"
  <2>1. \A j \in jobs : j.job \in {"ask", "expire"} => j.of \in Approval
    BY JobTypes
  <2>2. toClient # <<>> /\ Head(toClient).type \in {"approval-request", "approval-expired"}
        => Head(toClient).of \in Approval /\ verdict[Head(toClient).of] # "none"
    BY HeadOfToClient DEF KnownInv
  <2>. QED
    BY <1>v, <2>1, <2>2, JobsSteps DEF KnownInv, JobsStep
<1>5. \A a \in Approval, i \in Try : face'[a][i] # "none" => verdict'[a] # "none"
  <2>1. ASSUME NEW a \in Approval, NEW i \in Try, face'[a][i] # "none"
        PROVE  verdict[a] # "none"
    <3>1. handled < Len(updates) => updates[handled + 1] \in Elements(updates)
      BY NextUpdateType
    <3>. QED
      BY <2>1, <3>1, FaceSteps DEF FaceStep, KnownInv, Pressed
  <2>. QED
    BY <1>v, <2>1
<1>6. \A a \in Approval : by'[a] # "nobody" => verdict'[a] # "none"
  BY <1>v, BySteps DEF ByStep, KnownInv
<1>. QED
  BY <1>1, <1>2, <1>3, <1>4, <1>5, <1>6 DEF KnownInv

-----------------------------------------------------------------------------
(* Steps that decisions do not notice, and those that they do.             *)

Death == GatewayDies \/ BridgeRestarts \/ HandlerThrows

KeepsDecisions ==
    \/ toServer' = toServer
    \/ \E m \in Command : m.type # "approval-decision" /\
          toServer' = Append(toServer, [from |-> nextClientId, body |-> m])
    \/ /\ toServer # <<>> /\ Head(toServer).body.type # "approval-decision"
       /\ toServer' = Tail(toServer)

VerdictChange ==
    \/ verdict' = verdict /\ by' = by
    \/ \E a \in Approval :
          \/ /\ verdict[a] = "none" /\ by' = by
             /\ verdict' = [verdict EXCEPT ![a] = "pending"]
          \/ /\ verdict[a] = "pending" /\ by' = by
             /\ verdict' = [verdict EXCEPT ![a] = "expired"]
          \/ /\ verdict[a] = "pending"
             /\ by' = [by EXCEPT ![a] = "dashboard"]
             /\ \E d \in Decision : verdict' = [verdict EXCEPT ![a] = d]

OtherStep ==
    /\ VerdictChange
    /\ disturbed \subseteq disturbed'
    /\ resolvedApprovals \subseteq resolvedApprovals'

LEMMA OtherSteps ==
    TypeOK /\ QueueInv /\ [Next]_vars
       => OtherStep \/ AcceptPress \/ GatewayHearsDecision \/ Death
<1>. DEFINE Goal == OtherStep \/ AcceptPress \/ GatewayHearsDecision \/ Death
<1>. SUFFICES ASSUME TypeOK, QueueInv, [Next]_vars PROVE Goal
  OBVIOUS
<1>1. ASSUME NEW r \in Request, UserTypes(r) PROVE Goal
  BY <1>1 DEF UserTypes, gatewayVars, processVars, OtherStep, VerdictChange
<1>2. ASSUME NEW a \in Approval, UserPresses(a) PROVE Goal
  BY <1>2 DEF UserPresses, gatewayVars, processVars, OtherStep, VerdictChange
<1>3. ASSUME NEW a \in Approval, NEW c \in Chat, GatewayAsks(a, c) PROVE Goal
  BY <1>3 DEF GatewayAsks, Broadcast, processVars, OtherStep, VerdictChange
<1>4. ASSUME NEW a \in Approval, GatewayExpires(a) PROVE Goal
  BY <1>4 DEF GatewayExpires, Broadcast, processVars, OtherStep, VerdictChange
<1>5. ASSUME NEW a \in Approval, NEW d \in Decision, DashboardDecides(a, d) PROVE Goal
  BY <1>5 DEF DashboardDecides, processVars, OtherStep, VerdictChange
<1>6. CASE GatewayPushes
  BY <1>6 DEF GatewayPushes, Broadcast, gatewayVars, processVars, OtherStep,
     VerdictChange
<1>7. CASE GatewayStarts
  BY <1>7 DEF GatewayStarts, Listen, gatewayVars, processVars, OtherStep,
     VerdictChange
<1>8. CASE ClientStep
  BY <1>8 DEF ClientStep, Connect, Refused, Close, Reconnect, ScheduleReconnect,
     gatewayVars, processVars, OtherStep, VerdictChange
<1>9. CASE GatewayAnswersAtOnce
  BY <1>9 DEF GatewayAnswersAtOnce, Broadcast, gatewayVars, processVars, OtherStep,
     VerdictChange
<1>10. CASE GatewayTakes
  BY <1>10 DEF GatewayTakes, Received, processVars, OtherStep, VerdictChange
<1>11. ASSUME NEW w \in work, GatewayAnswers(w) PROVE Goal
  BY <1>11 DEF GatewayAnswers, Broadcast, SendTo, processVars, OtherStep,
     VerdictChange
<1>12. CASE GatewayHearsDecision
  BY <1>12
<1>13. CASE AnswerHere
  BY <1>13 DEF AnswerHere, NextUpdate, gatewayVars, processVars, OtherStep,
     VerdictChange
<1>14. CASE HereAnswered
  BY <1>14 DEF HereAnswered, gatewayVars, processVars, OtherStep, VerdictChange
<1>15. CASE ForwardCommand
  BY <1>15 DEF ForwardCommand, NextUpdate, Send, Forwarded, gatewayVars,
     processVars, OtherStep, VerdictChange
<1>16. CASE ForwardMessage
  BY <1>16 DEF ForwardMessage, NextUpdate, Send, Forwarded, gatewayVars, OtherStep,
     VerdictChange
<1>17. CASE IgnorePress
  BY <1>17 DEF IgnorePress, NextUpdate, gatewayVars, processVars, OtherStep,
     VerdictChange
<1>18. CASE AcceptPress
  BY <1>18
<1>19. CASE PressEdited
  BY <1>19 DEF PressEdited, gatewayVars, processVars, OtherStep, VerdictChange
<1>20. CASE ConfirmUpdates
  BY <1>20 DEF ConfirmUpdates, gatewayVars, processVars, OtherStep, VerdictChange
<1>21. CASE DropForeign
  BY <1>21 DEF DropForeign, Takes, Incoming, gatewayVars, processVars, OtherStep,
     VerdictChange
<1>22. CASE ApprovalRequested
  BY <1>22 DEF ApprovalRequested, Takes, Incoming, gatewayVars, processVars,
     OtherStep, VerdictChange
<1>23. CASE ApprovalExpired
  BY <1>23 DEF ApprovalExpired, Takes, Incoming, gatewayVars, OtherStep,
     VerdictChange
<1>24. CASE AnswerReceived
  BY <1>24 DEF AnswerReceived, Takes, Incoming, gatewayVars, OtherStep,
     VerdictChange
<1>25. ASSUME NEW j \in jobs, ApprovalShown(j) PROVE Goal
  BY <1>25 DEF ApprovalShown, gatewayVars, processVars, OtherStep, VerdictChange
<1>26. ASSUME NEW j \in jobs, ApprovalSent(j) PROVE Goal
  BY <1>26 DEF ApprovalSent, gatewayVars, OtherStep, VerdictChange
<1>27. ASSUME NEW j \in jobs, ApprovalNotSent(j) PROVE Goal
  BY <1>27 DEF ApprovalNotSent, gatewayVars, processVars, OtherStep, VerdictChange
<1>28. ASSUME NEW j \in jobs, ExpiryEdited(j) PROVE Goal
  BY <1>28 DEF ExpiryEdited, gatewayVars, processVars, OtherStep, VerdictChange
<1>29. ASSUME NEW j \in jobs, AnswerTried(j) PROVE Goal
  BY <1>29 DEF AnswerTried, gatewayVars, processVars, OtherStep, VerdictChange
<1>30. CASE GatewayDies
  BY <1>30 DEF Death
<1>31. CASE BridgeRestarts
  BY <1>31 DEF Death
<1>32. CASE HandlerThrows
  BY <1>32 DEF Death
<1>33. CASE UNCHANGED vars
  BY <1>33 DEF vars, gatewayVars, processVars, OtherStep, VerdictChange
<1>. QED
  BY <1>1, <1>2, <1>3, <1>4, <1>5, <1>6, <1>7, <1>8, <1>9, <1>10, <1>11, <1>12,
     <1>13, <1>14, <1>15, <1>16, <1>17, <1>18, <1>19, <1>20, <1>21, <1>22, <1>23,
     <1>24, <1>25, <1>26, <1>27, <1>28, <1>29, <1>30, <1>31, <1>32, <1>33 DEF Next,
     GatewayStep, UpdateStep, MessageStep, JobStep

LEMMA QuietSteps ==
    ASSUME TypeOK, QueueInv, [Next]_vars, ~AcceptPress, ~GatewayHearsDecision, ~Death
    PROVE  OtherStep /\ KeepsDecisions
<1>1. OtherStep
  BY OtherSteps
<1>2. KeepsDecisions
  BY ToServerSteps DEF ToServerStep, KeepsDecisions, Death
<1>. QED
  BY <1>1, <1>2

LEMMA DecisionsKept ==
    ASSUME QueueInv, KeepsDecisions
    PROVE  \A a : /\ AtMostOne(a) => AtMostOne(a)'
                  /\ InFlight(a)' <=> InFlight(a)
                  /\ \A d : OnItsWay(a, d)' <=> OnItsWay(a, d)
<1>q. toServer \in Seq(Sent) /\ nextClientId \in Nat
  BY DEF QueueInv, LinkInv
<1>. SUFFICES ASSUME NEW a, NEW d
              PROVE  /\ AtMostOne(a) => AtMostOne(a)'
                     /\ InFlight(a)' <=> InFlight(a)
                     /\ OnItsWay(a, d)' <=> OnItsWay(a, d)
  OBVIOUS
<1>1. CASE toServer' = toServer
  BY <1>1 DEF AtMostOne, InFlight, OnItsWay
<1>2. ASSUME NEW m \in Command, m.type # "approval-decision",
             toServer' = Append(toServer, [from |-> nextClientId, body |-> m])
      PROVE  /\ AtMostOne(a) => AtMostOne(a)'
             /\ InFlight(a)' <=> InFlight(a)
             /\ OnItsWay(a, d)' <=> OnItsWay(a, d)
  <2>1. [from |-> nextClientId, body |-> m] \in Sent
    BY <1>q DEF Sent
  <2>2. /\ Len(toServer') = Len(toServer) + 1 /\ Len(toServer) \in Nat
        /\ \A i \in 1..Len(toServer) : toServer'[i] = toServer[i]
        /\ toServer'[Len(toServer) + 1].body = m
    BY <1>q, <1>2, <2>1, Appending
  <2>3. ~Decides(toServer'[Len(toServer) + 1], a)
    BY <1>2, <2>2 DEF Decides
  <2>4. \A i : i \in 1..Len(toServer') <=> i \in 1..Len(toServer) \/ i = Len(toServer) + 1
    BY <2>2
  <2>5. AtMostOne(a) => AtMostOne(a)'
    BY <2>2, <2>3, <2>4 DEF AtMostOne, Decides
  <2>6. InFlight(a)' <=> InFlight(a)
    BY <2>2, <2>3, <2>4 DEF InFlight, Decides
  <2>7. OnItsWay(a, d)' <=> OnItsWay(a, d)
    BY <2>2, <2>3, <2>4 DEF OnItsWay, Decides
  <2>. QED
    BY <2>5, <2>6, <2>7
<1>3. CASE /\ toServer # <<>> /\ Head(toServer).body.type # "approval-decision"
           /\ toServer' = Tail(toServer)
  <2>1. /\ Head(toServer) = toServer[1] /\ Len(toServer) \in Nat /\ Len(toServer) >= 1
        /\ Len(toServer') = Len(toServer) - 1
        /\ \A i \in 1..Len(toServer) - 1 : toServer'[i] = toServer[i + 1]
    BY <1>q, <1>3, Taking
  <2>2. ~Decides(toServer[1], a)
    BY <1>3, <2>1 DEF Decides
  <2>3. \A i \in 1..Len(toServer') : i + 1 \in 1..Len(toServer) /\ toServer'[i] = toServer[i + 1]
    BY <2>1
  <2>4. \A i \in 1..Len(toServer) : i # 1 =>
           i - 1 \in 1..Len(toServer') /\ toServer'[i - 1] = toServer[i]
    BY <2>1
  <2>5. AtMostOne(a) => AtMostOne(a)'
    BY <2>3 DEF AtMostOne, Decides
  <2>8. InFlight(a)' => InFlight(a)
    BY <2>3 DEF InFlight, Decides
  <2>9. ASSUME NEW i \in 1..Len(toServer), Decides(toServer[i], a) PROVE InFlight(a)'
    <3>1. i - 1 \in 1..Len(toServer') /\ toServer'[i - 1] = toServer[i]
      BY <2>2, <2>4, <2>9
    <3>. QED
      BY <2>9, <3>1 DEF InFlight, Decides
  <2>6. InFlight(a)' <=> InFlight(a)
    BY <2>8, <2>9 DEF InFlight
  <2>10. OnItsWay(a, d)' => OnItsWay(a, d)
    BY <2>3 DEF OnItsWay
  <2>11. ASSUME NEW i \in 1..Len(toServer), toServer[i].body.type = "approval-decision",
                toServer[i].body.of = a, toServer[i].body.decision = d
         PROVE  OnItsWay(a, d)'
    <3>1. i - 1 \in 1..Len(toServer') /\ toServer'[i - 1] = toServer[i]
      BY <2>2, <2>4, <2>11 DEF Decides
    <3>. QED
      BY <2>11, <3>1 DEF OnItsWay
  <2>7. OnItsWay(a, d)' <=> OnItsWay(a, d)
    BY <2>10, <2>11 DEF OnItsWay
  <2>. QED
    BY <2>5, <2>6, <2>7
<1>. QED
  BY <1>1, <1>2, <1>3 DEF KeepsDecisions

LEMMA DecisionSent ==
    ASSUME QueueInv, NEW a \in Approval, NEW d \in Decision,
           toServer' = Append(toServer, [from |-> nextClientId,
              body |-> [type |-> "approval-decision", of |-> a, decision |-> d]])
    PROVE  /\ \A b : b # a => /\ AtMostOne(b) => AtMostOne(b)'
                              /\ InFlight(b)' => InFlight(b)
           /\ ~InFlight(a) => AtMostOne(a)'
           /\ \A b, e : OnItsWay(b, e) => OnItsWay(b, e)'
           /\ OnItsWay(a, d)'
<1>. DEFINE m == [type |-> "approval-decision", of |-> a, decision |-> d]
<1>q. toServer \in Seq(Sent) /\ nextClientId \in Nat
  BY DEF QueueInv, LinkInv
<1>1. m \in Command /\ m.type = "approval-decision" /\ m.of = a /\ m.decision = d
  BY DEF Command
<1>. HIDE DEF m
<1>2. [from |-> nextClientId, body |-> m] \in Sent
  BY <1>q, <1>1 DEF Sent
<1>3. toServer' = Append(toServer, [from |-> nextClientId, body |-> m])
  BY DEF m
<1>4. /\ Len(toServer') = Len(toServer) + 1 /\ Len(toServer) \in Nat
      /\ \A i \in 1..Len(toServer) : toServer'[i] = toServer[i]
      /\ toServer'[Len(toServer) + 1].body = m
  BY <1>q, <1>2, <1>3, Appending
<1>5. \A i : i \in 1..Len(toServer') <=> i \in 1..Len(toServer) \/ i = Len(toServer) + 1
  BY <1>4
<1>6. ASSUME NEW b, b # a PROVE /\ AtMostOne(b) => AtMostOne(b)'
                                /\ InFlight(b)' => InFlight(b)
  <2>1. ~Decides(toServer'[Len(toServer) + 1], b)
    BY <1>1, <1>4, <1>6 DEF Decides
  <2>2. AtMostOne(b) => AtMostOne(b)'
    BY <1>4, <1>5, <2>1 DEF AtMostOne, Decides
  <2>3. InFlight(b)' => InFlight(b)
    BY <1>4, <1>5, <2>1 DEF InFlight, Decides
  <2>. QED
    BY <2>2, <2>3
<1>7. ~InFlight(a) => AtMostOne(a)'
  BY <1>4, <1>5 DEF InFlight, AtMostOne, Decides
<1>8. \A b, e : OnItsWay(b, e) => OnItsWay(b, e)'
  BY <1>4, <1>5 DEF OnItsWay
<1>9. OnItsWay(a, d)'
  BY <1>1, <1>4, <1>5 DEF OnItsWay
<1>. QED
  BY <1>6, <1>7, <1>8, <1>9

LEMMA DecisionHeard ==
    ASSUME QueueInv, GatewayHearsDecision
    PROVE  \A a : /\ AtMostOne(a) => AtMostOne(a)'
                  /\ InFlight(a)' => InFlight(a)
                  /\ a = Head(toServer).body.of
                        => InFlight(a) /\ (AtMostOne(a) => ~InFlight(a)')
                  /\ \A d : OnItsWay(a, d) =>
                        \/ OnItsWay(a, d)'
                        \/ a = Head(toServer).body.of /\ d = Head(toServer).body.decision
<1>q. /\ toServer \in Seq(Sent) /\ toServer # <<>> /\ toServer' = Tail(toServer)
      /\ Head(toServer).body.type = "approval-decision"
  BY DEF QueueInv, GatewayHearsDecision, Received
<1>1. /\ Head(toServer) = toServer[1] /\ Len(toServer) \in Nat /\ Len(toServer) >= 1
      /\ Len(toServer') = Len(toServer) - 1
      /\ \A i \in 1..Len(toServer) - 1 : toServer'[i] = toServer[i + 1]
  BY <1>q, Taking
<1>3. \A i \in 1..Len(toServer') :
         i + 1 \in 1..Len(toServer) /\ i + 1 # 1 /\ toServer'[i] = toServer[i + 1]
  BY <1>1
<1>4. \A i \in 1..Len(toServer) : i # 1 =>
         i - 1 \in 1..Len(toServer') /\ toServer'[i - 1] = toServer[i]
  BY <1>1
<1>5. 1 \in 1..Len(toServer)
  BY <1>1
<1>. SUFFICES ASSUME NEW a, NEW d
              PROVE  /\ AtMostOne(a) => AtMostOne(a)'
                     /\ InFlight(a)' => InFlight(a)
                     /\ a = Head(toServer).body.of
                           => InFlight(a) /\ (AtMostOne(a) => ~InFlight(a)')
                     /\ OnItsWay(a, d) =>
                           \/ OnItsWay(a, d)'
                           \/ a = Head(toServer).body.of /\ d = Head(toServer).body.decision
  OBVIOUS
<1>6. AtMostOne(a) => AtMostOne(a)'
  BY <1>3 DEF AtMostOne, Decides
<1>7. InFlight(a)' => InFlight(a)
  BY <1>3 DEF InFlight, Decides
<1>8. a = Head(toServer).body.of => InFlight(a) /\ (AtMostOne(a) => ~InFlight(a)')
  <2>1. a = Head(toServer).body.of => Decides(toServer[1], a)
    BY <1>q, <1>1 DEF Decides
  <2>2. a = Head(toServer).body.of => InFlight(a)
    BY <1>5, <2>1 DEF InFlight
  <2>3. ASSUME a = Head(toServer).body.of, AtMostOne(a), NEW i \in 1..Len(toServer'),
               Decides(toServer'[i], a)
        PROVE  FALSE
    <3>1. i + 1 \in 1..Len(toServer) /\ i + 1 # 1 /\ Decides(toServer[i + 1], a)
      BY <1>3, <2>3
    <3>2. Decides(toServer[1], a)
      BY <2>1, <2>3
    <3>. QED
      BY <1>5, <2>3, <3>1, <3>2 DEF AtMostOne
  <2>4. a = Head(toServer).body.of /\ AtMostOne(a) => ~InFlight(a)'
    BY <2>3 DEF InFlight, Decides
  <2>. QED
    BY <2>2, <2>4
<1>9. OnItsWay(a, d) => \/ OnItsWay(a, d)'
                        \/ a = Head(toServer).body.of /\ d = Head(toServer).body.decision
  BY <1>1, <1>4 DEF OnItsWay
<1>. QED
  BY <1>6, <1>7, <1>8, <1>9

\* Deaths leave alone only what was never asked for.
LEMMA DeathSpares ==
    ASSUME TypeOK, Death, NEW a \in Approval, a \notin disturbed'
    PROVE  verdict[a] = "none" /\ verdict'[a] = "none"
<1>1. verdict[a] = "none"
  BY DEF Death, GatewayDies, BridgeRestarts, HandlerThrows, Hit
<1>. QED
  BY <1>1 DEF Death, GatewayDies, BridgeRestarts, HandlerThrows, gatewayVars

LEMMA UnknownSettled ==
    ASSUME TypeOK', KnownInv', NEW a \in Approval, verdict'[a] = "none"
    PROVE  Settled(a)'
<1>1. by'[a] = "nobody"
  BY DEF KnownInv, TypeOK
<1>2. \A i \in 1..Len(toServer') : ~Decides(toServer'[i], a)
  BY DEF KnownInv, Elements, Decides
<1>3. verdict'[a] \notin Decision
  BY BridgeAssumption
<1>. QED
  BY <1>1, <1>2, <1>3 DEF Settled, InFlight, AtMostOne, Decides

LEMMA DisturbedStays == TypeOK /\ QueueInv /\ [Next]_vars => disturbed \subseteq disturbed'
<1>. SUFFICES ASSUME TypeOK, QueueInv, [Next]_vars PROVE disturbed \subseteq disturbed'
  OBVIOUS
<1>1. CASE OtherStep
  BY <1>1 DEF OtherStep
<1>2. CASE AcceptPress
  BY <1>2, AcceptedPress
<1>3. CASE GatewayHearsDecision
  BY <1>3 DEF GatewayHearsDecision
<1>4. CASE Death
  BY <1>4 DEF Death, GatewayDies, BridgeRestarts, HandlerThrows
<1>. QED
  BY <1>1, <1>2, <1>3, <1>4, OtherSteps

LEMMA SettledNext ==
    ASSUME TypeOK, QueueInv, KnownInv, SettledInv, [Next]_vars
    PROVE  SettledInv'
<1>. SUFFICES ASSUME NEW a \in Approval, a \notin disturbed' PROVE Settled(a)'
  BY DEF SettledInv
<1>t. GatewayTypes /\ TypeOK' /\ KnownInv'
  BY TypeNext, KnownNext DEF TypeOK, GatewayTypes
<1>n. /\ "none" \notin Decision /\ "pending" \notin Decision
      /\ "expired" \notin Decision /\ "lost" \notin Decision
  BY BridgeAssumption
<1>s. Settled(a)
  BY DisturbedStays DEF SettledInv
<1>1. CASE Death
  BY <1>1, <1>t, DeathSpares, UnknownSettled
<1>2. CASE ~AcceptPress /\ ~GatewayHearsDecision /\ ~Death
  <2>1. OtherStep /\ KeepsDecisions
    BY <1>2, QuietSteps
  <2>2. /\ AtMostOne(a) => AtMostOne(a)'
        /\ InFlight(a)' <=> InFlight(a)
    BY <2>1, DecisionsKept
  <2>3. /\ verdict'[a] # "lost"
        /\ verdict'[a] \in Decision <=> by'[a] # "nobody"
        /\ by'[a] = "telegram" => by[a] = "telegram"
    BY <1>s, <1>t, <1>n, <2>1 DEF OtherStep, VerdictChange, Settled, GatewayTypes
  <2>4. a \in resolvedApprovals => a \in resolvedApprovals'
    BY <2>1 DEF OtherStep
  <2>. QED
    BY <1>s, <2>2, <2>3, <2>4 DEF Settled
<1>3. CASE AcceptPress
  <2>1. PICK u \in Update :
           /\ u.of \in Approval \ resolvedApprovals /\ u.decision \in Decision
           /\ \/ toServer' = Append(toServer, [from |-> nextClientId,
                    body |-> [type |-> "approval-decision", of |-> u.of,
                              decision |-> u.decision]])
              \/ toServer' = toServer /\ disturbed' = disturbed \cup {u.of}
           /\ resolvedApprovals' = resolvedApprovals \cup {u.of}
    BY <1>3, AcceptedPress
  <2>2. verdict' = verdict /\ by' = by
    BY <1>3 DEF AcceptPress, gatewayVars
  <2>3. CASE toServer' = toServer
    <3>1. (AtMostOne(a)' <=> AtMostOne(a)) /\ (InFlight(a)' <=> InFlight(a))
      BY <2>3 DEF AtMostOne, InFlight
    <3>. QED
      BY <1>s, <2>1, <2>2, <3>1 DEF Settled
  <2>4. CASE toServer' # toServer /\ a # u.of
    <3>1. (AtMostOne(a) => AtMostOne(a)') /\ (InFlight(a)' => InFlight(a))
      BY <2>1, <2>4, DecisionSent
    <3>. QED
      BY <1>s, <2>1, <2>2, <3>1 DEF Settled
  <2>5. CASE toServer' # toServer /\ a = u.of
    <3>1. ~InFlight(a) /\ by[a] # "telegram"
      BY <1>s, <2>1, <2>5 DEF Settled
    <3>2. AtMostOne(a)'
      BY <2>1, <2>5, <3>1, DecisionSent
    <3>. QED
      BY <1>s, <2>1, <2>2, <2>5, <3>1, <3>2 DEF Settled
  <2>. QED
    BY <2>3, <2>4, <2>5
<1>4. CASE GatewayHearsDecision
  <2>. DEFINE b == Head(toServer).body.of
              d == Head(toServer).body.decision
  <2>1. b \in Approval /\ d \in Decision
    BY <1>4, HeadOfToServer DEF GatewayHearsDecision, Received
  <2>2. /\ verdict' = IF verdict[b] = "pending" THEN [verdict EXCEPT ![b] = d] ELSE verdict
        /\ by' = IF verdict[b] = "pending" THEN [by EXCEPT ![b] = "telegram"] ELSE by
        /\ resolvedApprovals' = resolvedApprovals
    BY <1>4 DEF GatewayHearsDecision, processVars
  <2>3. /\ AtMostOne(a) => AtMostOne(a)'
        /\ InFlight(a)' => InFlight(a)
        /\ a = b => InFlight(a) /\ (AtMostOne(a) => ~InFlight(a)')
    BY <1>4, DecisionHeard
  <2>. HIDE DEF b, d
  <2>4. /\ verdict'[a] # "lost"
        /\ verdict'[a] \in Decision <=> by'[a] # "nobody"
        /\ by'[a] = "telegram" => by[a] = "telegram" \/ a = b
    BY <1>s, <1>t, <1>n, <2>1, <2>2 DEF Settled, GatewayTypes
  <2>. QED
    BY <1>s, <2>2, <2>3, <2>4 DEF Settled
<1>. QED
  BY <1>1, <1>2, <1>3, <1>4

\* What counts goes on counting.
LEMMA CountsNext ==
    ASSUME TypeOK, QueueInv, KnownInv, SettledInv, [Next]_vars,
           NEW a \in Approval, a \notin disturbed', NEW e \in Decision, Counts(a, e)
    PROVE  Counts(a, e)'
<1>t. GatewayTypes
  BY DEF TypeOK, GatewayTypes
<1>n. /\ "none" \notin Decision /\ "pending" \notin Decision
      /\ "expired" \notin Decision /\ "lost" \notin Decision
  BY BridgeAssumption
<1>s. Settled(a)
  BY DisturbedStays DEF SettledInv
<1>w. OnItsWay(a, e) => InFlight(a)
  BY DEF OnItsWay, InFlight, Decides
<1>1. CASE Death
  <2>1. verdict[a] = "none"
    BY <1>1, DeathSpares
  <2>2. by[a] = "nobody" /\ ~InFlight(a)
    BY <1>t, <2>1 DEF KnownInv, InFlight, Elements, Decides, GatewayTypes
  <2>. QED
    BY <1>n, <1>w, <2>1, <2>2 DEF Counts
<1>2. CASE ~AcceptPress /\ ~GatewayHearsDecision /\ ~Death
  <2>1. OtherStep /\ KeepsDecisions
    BY <1>2, QuietSteps
  <2>2. OnItsWay(a, e) => OnItsWay(a, e)'
    BY <2>1, DecisionsKept
  <2>3. /\ verdict[a] = e => verdict'[a] = e
        /\ verdict[a] = "expired" => verdict'[a] = "expired"
        /\ by[a] = "telegram" => by'[a] = "telegram"
        /\ by[a] = "dashboard" => by'[a] = "dashboard"
    BY <1>s, <1>t, <1>n, <2>1 DEF OtherStep, VerdictChange, Settled, GatewayTypes
  <2>. QED
    BY <2>2, <2>3 DEF Counts
<1>3. CASE AcceptPress
  <2>1. verdict' = verdict /\ by' = by
    BY <1>3 DEF AcceptPress, gatewayVars
  <2>2. OnItsWay(a, e) => OnItsWay(a, e)'
    <3>1. PICK u \in Update :
             /\ u.of \in Approval /\ u.decision \in Decision
             /\ \/ toServer' = Append(toServer, [from |-> nextClientId,
                      body |-> [type |-> "approval-decision", of |-> u.of,
                                decision |-> u.decision]])
                \/ toServer' = toServer
      BY <1>3, AcceptedPress
    <3>2. CASE toServer' = toServer
      BY <3>2 DEF OnItsWay
    <3>3. CASE toServer' # toServer
      BY <3>1, <3>3, DecisionSent
    <3>. QED
      BY <3>2, <3>3
  <2>. QED
    BY <2>1, <2>2 DEF Counts
<1>4. CASE GatewayHearsDecision
  <2>. DEFINE b == Head(toServer).body.of
              d == Head(toServer).body.decision
  <2>1. b \in Approval /\ d \in Decision
    BY <1>4, HeadOfToServer DEF GatewayHearsDecision, Received
  <2>2. /\ verdict' = IF verdict[b] = "pending" THEN [verdict EXCEPT ![b] = d] ELSE verdict
        /\ by' = IF verdict[b] = "pending" THEN [by EXCEPT ![b] = "telegram"] ELSE by
    BY <1>4 DEF GatewayHearsDecision
  <2>3. /\ a = b => InFlight(a)
        /\ OnItsWay(a, e) => OnItsWay(a, e)' \/ (a = b /\ e = d)
    BY <1>4, DecisionHeard
  <2>. HIDE DEF b, d
  <2>4. InFlight(a) => verdict[a] # "none"
    BY DEF KnownInv, InFlight, Elements, Decides
  <2>5. CASE OnItsWay(a, e) /\ ~OnItsWay(a, e)'
    <3>1. a = b /\ e = d /\ verdict[a] # "none" /\ by[a] # "telegram" /\ InFlight(a)
      BY <1>s, <1>w, <2>3, <2>4, <2>5 DEF Settled
    <3>2. CASE verdict[a] = "pending"
      BY <1>t, <2>2, <3>1, <3>2 DEF Counts, GatewayTypes
    <3>3. CASE verdict[a] # "pending"
      <4>1. verdict[a] = "expired" \/ verdict[a] \in Decision
        BY <1>s, <1>t, <3>1, <3>3 DEF Settled, GatewayTypes
      <4>2. verdict[a] = "expired" \/ by[a] = "dashboard"
        BY <1>s, <1>t, <3>1, <4>1 DEF Settled, GatewayTypes
      <4>. QED
        BY <2>2, <3>1, <3>3, <4>2 DEF Counts
    <3>. QED
      BY <3>2, <3>3
  <2>6. CASE OnItsWay(a, e)'
    BY <2>6 DEF Counts
  <2>7. CASE ~OnItsWay(a, e)
    <3>1. /\ verdict[a] = e => verdict'[a] = e
          /\ verdict[a] = "expired" => verdict'[a] = "expired"
          /\ by[a] = "telegram" => by'[a] = "telegram"
          /\ by[a] = "dashboard" => by'[a] = "dashboard"
      BY <1>s, <1>t, <1>n, <2>1, <2>2 DEF Settled, GatewayTypes
    <3>. QED
      BY <2>7, <3>1 DEF Counts
  <2>. QED
    BY <2>5, <2>6, <2>7
<1>. QED
  BY <1>1, <1>2, <1>3, <1>4

\* The handler of a press goes on with the same update.
BusyStep ==
    busy' => \/ AcceptPress
             \/ updates'[handled' + 1].kind = "text"
             \/ busy /\ updates'[handled' + 1] = updates[handled + 1]

LEMMA BusySteps == TypeOK /\ QueueInv /\ [Next]_vars => BusyStep
<1>. SUFFICES ASSUME TypeOK, QueueInv, [Next]_vars PROVE BusyStep
  OBVIOUS
<1>u. updates' = updates /\ handled' = handled /\ busy' = busy => BusyStep
  BY Zenon DEF BusyStep
<1>f. busy' = FALSE => BusyStep
  BY Zenon DEF BusyStep
<1>g. ~busy /\ busy' = busy => BusyStep
  BY Zenon DEF BusyStep
<1>1. ASSUME NEW r \in Request, UserTypes(r) PROVE BusyStep
  <2>1. busy' = busy /\ handled' = handled
    BY <1>1 DEF UserTypes
  <2>2. PICK x \in Update : updates' = Append(updates, x)
    <3>1. \A what \in Typed : [kind |-> "text", of |-> r, what |-> what] \in Update
      BY DEF Update
    <3>. QED
      BY <1>1, <3>1 DEF UserTypes
  <2>3. busy => updates'[handled + 1] = updates[handled + 1]
    <3>1. updates \in Seq(Update) /\ (busy => handled + 1 \in 1..Len(updates))
      BY DEF QueueInv, TypeOK
    <3>. QED
      BY <2>2, <3>1, Appending
  <2>. QED
    BY <2>1, <2>3, Zenon DEF BusyStep
<1>2. ASSUME NEW a \in Approval, UserPresses(a) PROVE BusyStep
  <2>1. busy' = busy /\ handled' = handled
    BY <1>2 DEF UserPresses
  <2>2. PICK x \in Update : updates' = Append(updates, x)
    <3>1. \A i \in Try, d \in Decision :
             [kind |-> "press", of |-> a, message |-> i, decision |-> d] \in Update
      BY DEF Update
    <3>. QED
      BY <1>2, <3>1 DEF UserPresses
  <2>3. busy => updates'[handled + 1] = updates[handled + 1]
    <3>1. updates \in Seq(Update) /\ (busy => handled + 1 \in 1..Len(updates))
      BY DEF QueueInv, TypeOK
    <3>. QED
      BY <2>2, <3>1, Appending
  <2>. QED
    BY <2>1, <2>3, Zenon DEF BusyStep
<1>3. ASSUME NEW a \in Approval, NEW c \in Chat, GatewayAsks(a, c) PROVE BusyStep
  BY <1>u, <1>3 DEF GatewayAsks, updateVars, linkVars
<1>4. ASSUME NEW a \in Approval, GatewayExpires(a) PROVE BusyStep
  BY <1>u, <1>4 DEF GatewayExpires, updateVars, linkVars
<1>5. ASSUME NEW a \in Approval, NEW d \in Decision, DashboardDecides(a, d) PROVE BusyStep
  BY <1>u, <1>5 DEF DashboardDecides, updateVars, linkVars
<1>6. CASE GatewayPushes
  BY <1>u, <1>6 DEF GatewayPushes, updateVars, linkVars
<1>7. CASE GatewayStarts
  BY <1>u, <1>7 DEF GatewayStarts, updateVars, linkVars
<1>8. CASE ClientStep
  BY <1>u, <1>8 DEF ClientStep, updateVars, linkVars
<1>9. CASE GatewayAnswersAtOnce
  BY <1>u, <1>9 DEF GatewayAnswersAtOnce, updateVars, linkVars
<1>10. CASE GatewayTakes
  BY <1>u, <1>10 DEF GatewayTakes, updateVars, linkVars
<1>11. ASSUME NEW w \in work, GatewayAnswers(w) PROVE BusyStep
  BY <1>u, <1>11 DEF GatewayAnswers, updateVars, linkVars
<1>12. CASE GatewayHearsDecision
  BY <1>u, <1>12 DEF GatewayHearsDecision, updateVars, linkVars
<1>13. CASE AnswerHere
  BY <1>13 DEF AnswerHere, NextUpdate, BusyStep
<1>14. CASE HereAnswered
  BY <1>f, <1>14 DEF HereAnswered
<1>15. CASE ForwardCommand
  <2>1. busy' = busy /\ ~busy
    BY <1>15, Zenon DEF ForwardCommand, NextUpdate
  <2>. QED
    BY <1>g, <2>1
<1>16. CASE ForwardMessage
  <2>1. busy' = busy /\ ~busy
    BY <1>16, Zenon DEF ForwardMessage, NextUpdate
  <2>. QED
    BY <1>g, <2>1
<1>17. CASE IgnorePress
  <2>1. busy' = busy /\ ~busy
    BY <1>17, Zenon DEF IgnorePress, NextUpdate
  <2>. QED
    BY <1>g, <2>1
<1>18. CASE AcceptPress
  BY <1>18 DEF BusyStep
<1>19. CASE PressEdited
  BY <1>f, <1>19 DEF PressEdited
<1>20. CASE ConfirmUpdates
  <2>1. busy' = busy /\ ~busy
    BY <1>20, Zenon DEF ConfirmUpdates, NextUpdate
  <2>. QED
    BY <1>g, <2>1
<1>21. CASE DropForeign
  BY <1>u, <1>21 DEF DropForeign, Takes, updateVars
<1>22. CASE ApprovalRequested
  BY <1>u, <1>22 DEF ApprovalRequested, Takes, updateVars
<1>23. CASE ApprovalExpired
  BY <1>u, <1>23 DEF ApprovalExpired, Takes, updateVars
<1>24. CASE AnswerReceived
  BY <1>u, <1>24 DEF AnswerReceived, Takes, updateVars
<1>25. ASSUME NEW j \in jobs, ApprovalShown(j) PROVE BusyStep
  BY <1>u, <1>25 DEF ApprovalShown, updateVars, linkVars
<1>26. ASSUME NEW j \in jobs, ApprovalSent(j) PROVE BusyStep
  BY <1>u, <1>26 DEF ApprovalSent, updateVars, linkVars
<1>27. ASSUME NEW j \in jobs, ApprovalNotSent(j) PROVE BusyStep
  BY <1>u, <1>27 DEF ApprovalNotSent, updateVars, linkVars
<1>28. ASSUME NEW j \in jobs, ExpiryEdited(j) PROVE BusyStep
  BY <1>u, <1>28 DEF ExpiryEdited, updateVars, linkVars
<1>29. ASSUME NEW j \in jobs, AnswerTried(j) PROVE BusyStep
  BY <1>u, <1>29 DEF AnswerTried, updateVars, linkVars
<1>30. CASE GatewayDies
  BY <1>u, <1>30 DEF GatewayDies, updateVars, linkVars
<1>31. CASE BridgeRestarts
  BY <1>f, <1>31 DEF BridgeRestarts, NewBridge
<1>32. CASE HandlerThrows
  BY <1>f, <1>32 DEF HandlerThrows, NewBridge
<1>33. CASE UNCHANGED vars
  BY <1>u, <1>33 DEF vars, updateVars
<1>. QED
  BY <1>1, <1>2, <1>3, <1>4, <1>5, <1>6, <1>7, <1>8, <1>9, <1>10, <1>11, <1>12,
     <1>13, <1>14, <1>15, <1>16, <1>17, <1>18, <1>19, <1>20, <1>21, <1>22, <1>23,
     <1>24, <1>25, <1>26, <1>27, <1>28, <1>29, <1>30, <1>31, <1>32, <1>33 DEF Next,
     GatewayStep, UpdateStep, MessageStep, JobStep

LEMMA ShownNext ==
    ASSUME TypeOK, QueueInv, KnownInv, SettledInv, ShownInv, [Next]_vars
    PROVE  ShownInv'
<1>. SUFFICES ASSUME NEW a \in Approval, a \notin disturbed', NEW d \in Decision
              PROVE  /\ AboutToShow(a, d)' => Counts(a, d)'
                     /\ \A i \in Try : face'[a][i] = d => Counts(a, d)'
  BY DEF ShownInv
<1>a. a \in Approval \ disturbed
  BY DisturbedStays
<1>1. AboutToShow(a, d) => Counts(a, d)'
  BY <1>a, CountsNext DEF ShownInv
<1>2. ASSUME AboutToShow(a, d)' PROVE Counts(a, d)'
  <2>1. /\ busy' /\ updates'[handled' + 1].kind = "press" /\ updates'[handled' + 1].of = a
        /\ updates'[handled' + 1].decision = d
    BY <1>2, Zenon DEF AboutToShow, Pressed
  <2>2. AcceptPress \/ (busy /\ updates'[handled' + 1] = updates[handled + 1])
    BY <2>1, BusySteps DEF BusyStep
  <2>3. CASE AcceptPress
    <3>1. PICK u \in Update :
             /\ u = updates[handled + 1] /\ u.of \in Approval /\ u.decision \in Decision
             /\ \/ toServer' = Append(toServer, [from |-> nextClientId,
                      body |-> [type |-> "approval-decision", of |-> u.of,
                                decision |-> u.decision]])
                \/ disturbed' = disturbed \cup {u.of}
      BY <2>3, AcceptedPress
    <3>2. updates' = updates /\ handled' = handled
      BY <2>3 DEF AcceptPress
    <3>3. u.of = a /\ u.decision = d
      BY <2>1, <3>1, <3>2
    <3>4. OnItsWay(a, d)'
      BY <3>1, <3>3, DecisionSent
    <3>. QED
      BY <3>4 DEF Counts
  <2>4. CASE busy /\ updates'[handled' + 1] = updates[handled + 1]
    <3>1. AboutToShow(a, d)
      BY <2>1, <2>4, Zenon DEF AboutToShow, Pressed
    <3>. QED
      BY <1>1, <3>1
  <2>. QED
    BY <2>2, <2>3, <2>4
<1>3. ASSUME NEW i \in Try, face'[a][i] = d PROVE Counts(a, d)'
  <2>1. FaceStep(a, i)
    BY FaceSteps
  <2>2. d \notin {"buttons", "expired"}
    BY BridgeAssumption
  <2>3. CASE face[a][i] = d
    BY <1>a, <2>3, CountsNext DEF ShownInv
  <2>4. CASE busy /\ Pressed(updates[handled + 1], a) /\ updates[handled + 1].decision = d
    <3>1. AboutToShow(a, d)
      BY <2>4, Zenon DEF AboutToShow
    <3>. QED
      BY <1>1, <3>1
  <2>5. \/ face[a][i] = d
        \/ /\ busy /\ Pressed(updates[handled + 1], a)
           /\ updates[handled + 1].decision = d
    BY <1>3, <2>1, <2>2 DEF FaceStep
  <2>. QED
    BY <2>3, <2>4, <2>5
<1>. QED
  BY <1>2, <1>3

LEMMA ApprovalInit == Init => ApprovalInv
<1>. SUFFICES ASSUME Init PROVE ApprovalInv
  OBVIOUS
<1>n. "none" \notin Decision
  BY BridgeAssumption
<1>1. KnownInv
  BY DEF Init, LinkInit, KnownInv, Elements
<1>2. SettledInv
  BY <1>n DEF Init, LinkInit, SettledInv, Settled, InFlight, AtMostOne
<1>3. ShownInv
  <2>1. \A a, d : ~AboutToShow(a, d)
    BY DEF Init, AboutToShow
  <2>. QED
    BY <1>n, <2>1 DEF Init, ShownInv
<1>. QED
  BY <1>1, <1>2, <1>3 DEF ApprovalInv

LEMMA ApprovalNext == TypeOK /\ QueueInv /\ ApprovalInv /\ [Next]_vars => ApprovalInv'
BY KnownNext, SettledNext, ShownNext DEF ApprovalInv

LEMMA ApprovalHolds == Spec => []ApprovalInv
BY TypeHolds, ApprovalInit, ApprovalNext, PTL DEF Spec

\* Of the presses on the messages of an approval one decision at most is on its
\* way to the gateway, and none once one of them has decided it, as long as the
\* bridge that handles them lives (the callback_query handler and
\* resolvedApprovals).
THEOREM OneDecision == Spec => []OneDecisionPerProcess
<1>1. ApprovalInv => OneDecisionPerProcess
  <2>. SUFFICES ASSUME ApprovalInv, NEW a \in Approval \ disturbed
                PROVE  /\ \A i, k \in 1..Len(toServer) :
                             /\ toServer[i].body.type = "approval-decision"
                             /\ toServer[k].body.type = "approval-decision"
                             /\ toServer[i].body.of = a /\ toServer[k].body.of = a
                             => i = k
                       /\ by[a] = "telegram" => \A d \in Decision : ~OnItsWay(a, d)
    BY DEF OneDecisionPerProcess
  <2>1. Settled(a)
    BY DEF ApprovalInv, SettledInv
  <2>2. AtMostOne(a) /\ (by[a] = "telegram" => ~InFlight(a))
    BY <2>1 DEF Settled
  <2>3. \A d \in Decision : OnItsWay(a, d) => InFlight(a)
    BY DEF OnItsWay, InFlight, Decides
  <2>. QED
    BY <2>2, <2>3 DEF AtMostOne, Decides
<1>. QED
  BY ApprovalHolds, <1>1, PTL

\* Unless a death intervened, the decision that a message of the chat shows is
\* the one the gateway acted on, is on its way to it, or came too late.
THEOREM ShownIsHeard == Spec => []ShownDecisionCounts
<1>1. ApprovalInv => ShownDecisionCounts
  BY DEF ApprovalInv, ShownInv, Counts, ShownDecisionCounts
<1>. QED
  BY ApprovalHolds, <1>1, PTL

=============================================================================
