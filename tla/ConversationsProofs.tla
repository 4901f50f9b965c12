------------------------- MODULE ConversationsProofs -------------------------
(***************************************************************************)
(* Proofs about messages and tasks, for any number of requests, users and  *)
(* iterations.                                                             *)
(***************************************************************************)
EXTENDS Conversations, SequenceTheorems, TLAPS

-----------------------------------------------------------------------------
(* Types.                                                                  *)

LEMMA MessagesOfType ==
    ASSUME NEW r \in Request, NEW turn \in Turn
    PROVE  MessagesOf(r, turn) \in Seq(Message)
<1>1. turn \in Turns
  BY ConversationAssumption
<1>2. turn \in Seq({"user", "assistant", "tool_results"})
  <2>1. CASE turn = <<"user", "assistant">>
    BY <2>1
  <2>2. CASE turn = <<"user", "assistant", "tool_results", "assistant">>
    BY <2>2
  <2>3. CASE turn = <<"user", "assistant", "tool_results">>
    BY <2>3
  <2>. QED
    BY <1>1, <2>1, <2>2, <2>3 DEF Turns
<1>3. /\ DOMAIN turn = 1..Len(turn) /\ Len(turn) \in Nat
      /\ \A i \in 1..Len(turn) : turn[i] \in {"user", "assistant", "tool_results"}
  BY <1>2
<1>4. \A i \in 1..Len(turn) : [by |-> r, role |-> turn[i]] \in Message
  BY <1>3 DEF Message
<1>. QED
  BY <1>3, <1>4, IsASeq DEF MessagesOf

LEMMA LastMessagesType ==
    ASSUME NEW s \in Seq(Message)
    PROVE  LastMessages(s) \in Seq(Message)
<1>1. CASE Len(s) > MaxMessages
  <2>1. Len(s) - MaxMessages + 1 \in 1..Len(s) + 1 /\ Len(s) \in 0..Len(s)
    BY <1>1, ConversationAssumption
  <2>. QED
    BY <1>1, <2>1, ConversationAssumption, SubSeqProperties DEF LastMessages
<1>2. CASE ~(Len(s) > MaxMessages)
  BY <1>2 DEF LastMessages
<1>. QED
  BY <1>1, <1>2

LEMMA TypeInit == Init => TypeOK
<1>. SUFFICES ASSUME Init PROVE TypeOK
  OBVIOUS
<1>. USE DEF Init
<1>1. RequestTypeOK
  <2>1. /\ pc \in [Request -> {"idle", "chat", "step", "pause", "done", "lost"}]
        /\ user \in [Request -> User \cup {NoUser}]
        /\ said \in [Request -> SUBSET {"partial", "final", "error", "refused"}]
        /\ result \in [Request -> {"none", "chatted", "completed", "cancelled",
                                   "exhausted", "error", "refused"}]
    OBVIOUS
  <2>2. context \in [Request -> Seq(Message)]
    OBVIOUS
  <2>. QED
    BY <2>1, <2>2 DEF RequestTypeOK
<1>2. SessionTypeOK
  BY DEF SessionTypeOK
<1>3. TaskTypeOK
  <2>1. iter \in [Request -> 0..MaxIterations]
    BY ConversationAssumption
  <2>2. row \in [Request -> {"absent", "active", "completed", "failed"}] /\ began \in Seq(Request)
    OBVIOUS
  <2>. QED
    BY <2>1, <2>2 DEF TaskTypeOK
<1>. QED
  BY <1>1, <1>2, <1>3 DEF TypeOK

LEMMA AcceptType ==
    ASSUME TypeOK, NEW r \in Request, NEW u \in User, Accept(r, u)
    PROVE  /\ SessionTypeOK' /\ (busy \in BOOLEAN)'
           /\ user' \in [Request -> User \cup {NoUser}]
           /\ said' = said /\ result' = result
BY DEF TypeOK, RequestTypeOK, SessionTypeOK, Accept, GetOrCreate

LEMMA BeginTaskType ==
    ASSUME TypeOK, NEW r \in Request, BeginTask(r)
    PROVE  /\ TaskTypeOK'
           /\ pc' \in [Request -> {"idle", "chat", "step", "pause", "done", "lost"}]
<1>1. Append(began, r) \in Seq(Request)
  BY DEF TypeOK, TaskTypeOK
<1>. QED
  BY <1>1 DEF TypeOK, RequestTypeOK, TaskTypeOK, BeginTask

LEMMA FinishType ==
    ASSUME TypeOK, NEW r \in Request, NEW what \in {"final", "error"},
           NEW res \in {"chatted", "completed", "cancelled", "exhausted", "error"},
           Finish(r, what, res)
    PROVE  RequestTypeOK' /\ (busy \in BOOLEAN)'
BY DEF TypeOK, RequestTypeOK, Finish

LEMMA SetMessagesType ==
    ASSUME TypeOK, NEW u \in User, NEW s \in Seq(Message), SetMessages(u, s),
           due' \in [User -> Seq(Message)]
    PROVE  SessionTypeOK'
<1>1. LastMessages(s) \in Seq(Message)
  BY LastMessagesType
<1>. QED
  BY <1>1 DEF TypeOK, SessionTypeOK, SetMessages, GetOrCreate

LEMMA StoreChatType ==
    ASSUME TypeOK, TaskInv, NEW r \in Request, NEW turn \in Turn,
           pc[r] = "chat", StoreChat(r, turn)
    PROVE  SessionTypeOK'
<1>1. user[r] \in User
  BY DEF TaskInv, InFlight
<1>2. MessagesOf(r, turn) \in Seq(Message)
  BY MessagesOfType
<1>3. context[r] \o MessagesOf(r, turn) \in Seq(Message)
  BY <1>2, ConcatProperties DEF TypeOK, RequestTypeOK
<1>4. due[user[r]] \o MessagesOf(r, turn) \in Seq(Message)
  BY <1>1, <1>2, ConcatProperties DEF TypeOK, SessionTypeOK
<1>5. due' \in [User -> Seq(Message)]
  BY <1>4 DEF StoreChat, TypeOK, SessionTypeOK
<1>. QED
  BY <1>1, <1>3, <1>5, SetMessagesType DEF StoreChat

LEMMA EmptiedType ==
    ASSUME NEW h \in [User -> Seq(Message)], NEW us
    PROVE  Emptied(h, us) \in [User -> Seq(Message)]
<1>1. <<>> \in Seq(Message)
  OBVIOUS
<1>. QED
  BY <1>1 DEF Emptied

LEMMA TypeNext == TypeOK /\ TaskInv /\ [Next]_vars => TypeOK'
<1>. SUFFICES ASSUME TypeOK, TaskInv, [Next]_vars PROVE TypeOK'
  OBVIOUS
<1>1. ASSUME NEW r \in Request, NEW u \in User, ReceiveComplex(r, u) PROVE TypeOK'
  BY <1>1, AcceptType, BeginTaskType DEF ReceiveComplex, TypeOK, RequestTypeOK
<1>2. ASSUME NEW r \in Request, NEW u \in User, NEW complex \in BOOLEAN,
             ReceiveChat(r, u, complex)
      PROVE  TypeOK'
  <2>1. RequestTypeOK'
    BY <1>2, AcceptType DEF ReceiveChat, TypeOK, RequestTypeOK, SessionTypeOK
  <2>. QED
    BY <1>2, <2>1, AcceptType DEF ReceiveChat, TypeOK, TaskTypeOK, taskVars
<1>3. ASSUME NEW r \in Request, NEW turn \in Turn, ChatAnswers(r, turn) PROVE TypeOK'
  BY <1>3, FinishType, StoreChatType DEF ChatAnswers, TypeOK, TaskTypeOK, taskVars
<1>4. ASSUME NEW r \in Request, NEW turn \in Turn, ChatContinues(r, turn) PROVE TypeOK'
  <2>1. RequestTypeOK'
    BY <1>4, BeginTaskType DEF ChatContinues, TypeOK, RequestTypeOK
  <2>. QED
    BY <1>4, <2>1, BeginTaskType, StoreChatType DEF ChatContinues, TypeOK
<1>5. ASSUME NEW r \in Request, ChatFails(r) \/ StepFails(r) PROVE TypeOK'
  BY <1>5, FinishType
     DEF ChatFails, StepFails, TypeOK, SessionTypeOK, TaskTypeOK, sessionVars, taskVars
<1>6. ASSUME NEW r \in Request, Refuse(r) PROVE TypeOK'
  <2>1. busy => WebUser \in User
    BY DEF TaskInv, WebIsKnown
  <2>2. RequestTypeOK'
    BY <1>6, <2>1 DEF Refuse, TypeOK, RequestTypeOK
  <2>. QED
    BY <1>6, <2>2 DEF Refuse, TypeOK, SessionTypeOK, TaskTypeOK, sessionVars, taskVars
<1>7. ASSUME NEW r \in Request, StepContinues(r) PROVE TypeOK'
  <2>1. iter[r] + 1 \in 0..MaxIterations
    BY <1>7, ConversationAssumption
       DEF StepContinues, TaskInv, IterationsCounted, TypeOK, TaskTypeOK
  <2>2. TaskTypeOK'
    BY <1>7, <2>1 DEF StepContinues, UpdateRow, TypeOK, TaskTypeOK
  <2>3. RequestTypeOK'
    BY <1>7 DEF StepContinues, TypeOK, RequestTypeOK
  <2>. QED
    BY <1>7, <2>2, <2>3 DEF StepContinues, TypeOK, SessionTypeOK, sessionVars
<1>8. ASSUME NEW r \in Request, StepCompletes(r) PROVE TypeOK'
  <2>1. iter[r] + 1 \in 0..MaxIterations
    BY <1>8, ConversationAssumption
       DEF StepCompletes, TaskInv, IterationsCounted, TypeOK, TaskTypeOK
  <2>2. TaskTypeOK'
    BY <1>8, <2>1 DEF StepCompletes, UpdateRow, TypeOK, TaskTypeOK
  <2>. QED
    BY <1>8, <2>2, FinishType DEF StepCompletes, TypeOK, SessionTypeOK, sessionVars
<1>9. ASSUME NEW r \in Request, NextStep(r) PROVE TypeOK'
  BY <1>9 DEF NextStep, TypeOK, RequestTypeOK, SessionTypeOK, TaskTypeOK, sessionVars, taskVars
<1>10. ASSUME NEW r \in Request, NoticeCancel(r) \/ Exhaust(r) PROVE TypeOK'
  <2>1. TaskTypeOK'
    BY <1>10 DEF NoticeCancel, Exhaust, TypeOK, TaskTypeOK
  <2>. QED
    BY <1>10, <2>1, FinishType DEF NoticeCancel, Exhaust, TypeOK, SessionTypeOK, sessionVars
<1>11. ASSUME NEW u \in User, Stop(u) PROVE TypeOK'
  BY <1>11 DEF Stop, TypeOK, RequestTypeOK, SessionTypeOK, TaskTypeOK, sessionVars, requestVars
<1>12. ASSUME NEW u \in User, Hour(u) PROVE TypeOK'
  BY <1>12 DEF Hour, TypeOK, RequestTypeOK, SessionTypeOK, TaskTypeOK, taskVars, requestVars
<1>13. ASSUME Cleanup PROVE TypeOK'
  <2>1. SessionTypeOK'
    BY <1>13, EmptiedType DEF Cleanup, TypeOK, SessionTypeOK
  <2>. QED
    BY <1>13, <2>1 DEF Cleanup, TypeOK, RequestTypeOK, TaskTypeOK, taskVars, requestVars
<1>14. ASSUME Reset PROVE TypeOK'
  <2>1. due' \in [User -> Seq(Message)]
    BY <1>14 DEF Reset, TypeOK, SessionTypeOK
  <2>2. WebUser \in User /\ <<>> \in Seq(Message)
    BY <1>14 DEF Reset, TypeOK, SessionTypeOK
  <2>3. SessionTypeOK'
    BY <1>14, <2>1, <2>2, SetMessagesType DEF Reset
  <2>. QED
    BY <1>14, <2>3 DEF Reset, TypeOK, RequestTypeOK, TaskTypeOK, taskVars, requestVars
<1>15. ASSUME Restart PROVE TypeOK'
  <2>1. SessionTypeOK'
    BY <1>15, EmptiedType DEF Restart, TypeOK, SessionTypeOK
  <2>2. RequestTypeOK'
    BY <1>15 DEF Restart, TypeOK, RequestTypeOK
  <2>3. TaskTypeOK'
    BY <1>15 DEF Restart, TypeOK, TaskTypeOK
  <2>. QED
    BY <1>15, <2>1, <2>2, <2>3 DEF Restart, TypeOK
<1>16. ASSUME UNCHANGED vars PROVE TypeOK'
  BY <1>16 DEF vars, requestVars, sessionVars, taskVars, TypeOK, RequestTypeOK,
               SessionTypeOK, TaskTypeOK
<1>. QED
  BY <1>1, <1>2, <1>3, <1>4, <1>5, <1>6, <1>7, <1>8, <1>9, <1>10, <1>11, <1>12, <1>13,
     <1>14, <1>15, <1>16 DEF Next

-----------------------------------------------------------------------------
(* Tasks.                                                                  *)

TaskOf(r) ==
    /\ IterationsCounted(r)
    /\ StopIsKnown(r)
    /\ InFlight(r) => user[r] \in User
    /\ pc[r] # "done" => result[r] = "none"
    /\ r \in stopped \cup cancelled => row[r] # "absent"
    /\ row[r] = "active" => InLoop(r) \/ result[r] = "error" \/ pc[r] = "lost"
    /\ result[r] = "completed" => row[r] = "completed"
    /\ result[r] \in {"cancelled", "exhausted"} => row[r] = "failed"
    /\ result[r] = "chatted" => row[r] = "absent"

LEMMA TaskInvByTask ==
    /\ TaskInv <=> (\A r \in Request : TaskOf(r)) /\ WebIsKnown
    /\ TaskInv' <=> (\A r \in Request : TaskOf(r)') /\ WebIsKnown'
BY DEF TaskInv, TaskOf, RowsTellTasks

\* What a step leaves of a task when it changes nothing of it.
LEMMA TaskFrame ==
    ASSUME NEW r \in Request, TaskOf(r),
           pc'[r] = pc[r], user'[r] = user[r], result'[r] = result[r],
           row'[r] = row[r], iter'[r] = iter[r],
           r \in stopped' <=> r \in stopped, r \in cancelled' <=> r \in cancelled
    PROVE  TaskOf(r)'
BY DEF TaskOf, IterationsCounted, StopIsKnown, InFlight, InLoop

LEMMA TaskInvInit == Init => TaskInv
BY ConversationAssumption
   DEF Init, TaskInv, IterationsCounted, StopIsKnown, InFlight, InLoop, RowsTellTasks, WebIsKnown

LEMMA TaskInvNext == TypeOK /\ TaskInv /\ [Next]_vars => TaskInv'
<1>. SUFFICES ASSUME TypeOK, TaskInv, [Next]_vars PROVE TaskInv'
  OBVIOUS
<1>. DEFINE Frame(r) ==
        \A q \in Request : q # r =>
           /\ pc'[q] = pc[q] /\ user'[q] = user[q] /\ result'[q] = result[q]
           /\ row'[q] = row[q] /\ iter'[q] = iter[q]
           /\ q \in stopped' <=> q \in stopped
           /\ q \in cancelled' <=> q \in cancelled
<1>18. ASSUME NEW r \in Request, Frame(r), TaskOf(r)', WebIsKnown' PROVE TaskInv'
  BY <1>18, TaskInvByTask, TaskFrame
<1>. HIDE DEF Frame
<1>. USE DEF TypeOK, RequestTypeOK, TaskTypeOK
<1>17. \A r \in Request : TaskOf(r)
  BY TaskInvByTask
<1>1. ASSUME NEW r \in Request, NEW u \in User, ReceiveComplex(r, u) PROVE TaskInv'
  <2>1. Frame(r) /\ WebIsKnown'
    BY <1>1 DEF Frame, ReceiveComplex, Accept, BeginTask, TaskInv, WebIsKnown
  <2>2. /\ row[r] = "absent" /\ iter[r] = 0 /\ result[r] = "none"
        /\ r \notin stopped /\ r \notin cancelled
    BY <1>1, <1>17 DEF ReceiveComplex, Accept, TaskOf, IterationsCounted
  <2>3. TaskOf(r)'
    BY <1>1, <2>2, ConversationAssumption
       DEF ReceiveComplex, Accept, BeginTask, TaskOf, IterationsCounted, StopIsKnown, InFlight,
           InLoop
  <2>. QED
    BY <1>18, <2>1, <2>3
<1>2. ASSUME NEW r \in Request, NEW u \in User, NEW complex \in BOOLEAN,
             ReceiveChat(r, u, complex)
      PROVE  TaskInv'
  <2>. USE <1>2 DEF ReceiveChat, Accept, taskVars
  <2>1. Frame(r) /\ WebIsKnown'
    BY DEF Frame, TaskInv, WebIsKnown
  <2>2. TaskOf(r)'
    BY <1>17 DEF TaskOf, IterationsCounted, StopIsKnown, InFlight, InLoop
  <2>. QED
    BY <1>18, <2>1, <2>2
<1>3. ASSUME NEW r \in Request, NEW turn \in Turn, ChatAnswers(r, turn) PROVE TaskInv'
  <2>. USE <1>3 DEF ChatAnswers, Finish, taskVars
  <2>1. Frame(r) /\ WebIsKnown'
    BY DEF Frame, TaskInv, WebIsKnown
  <2>2. TaskOf(r)'
    BY <1>17 DEF TaskOf, IterationsCounted, StopIsKnown, InFlight, InLoop
  <2>. QED
    BY <1>18, <2>1, <2>2
<1>4. ASSUME NEW r \in Request, NEW turn \in Turn, ChatContinues(r, turn) PROVE TaskInv'
  <2>. USE <1>4 DEF ChatContinues, BeginTask
  <2>1. Frame(r) /\ WebIsKnown'
    BY DEF Frame, TaskInv, WebIsKnown
  <2>2. TaskOf(r)'
    BY <1>17, ConversationAssumption
       DEF TaskOf, IterationsCounted, StopIsKnown, InFlight, InLoop
  <2>. QED
    BY <1>18, <2>1, <2>2
<1>5. ASSUME NEW r \in Request, ChatFails(r) \/ StepFails(r) PROVE TaskInv'
  <2>. USE DEF Finish, taskVars
  <2>1. Frame(r) /\ WebIsKnown'
    BY <1>5 DEF ChatFails, StepFails, Frame, TaskInv, WebIsKnown
  <2>2. pc'[r] = "done" /\ result'[r] = "error" /\ row'[r] = row[r] /\ user'[r] = user[r]
    BY <1>5 DEF ChatFails, StepFails
  <2>3. r \in stopped' \cup cancelled' => row'[r] # "absent"
    BY <1>5, <1>17 DEF ChatFails, StepFails, TaskOf
  <2>4. TaskOf(r)'
    BY <2>2, <2>3 DEF TaskOf, IterationsCounted, StopIsKnown, InFlight, InLoop
  <2>. QED
    BY <1>18, <2>1, <2>4
<1>6. ASSUME NEW r \in Request, Refuse(r) PROVE TaskInv'
  <2>. USE <1>6 DEF Refuse, taskVars
  <2>1. Frame(r) /\ WebIsKnown'
    BY DEF Frame, TaskInv, WebIsKnown
  <2>2. TaskOf(r)'
    BY <1>17 DEF TaskOf, IterationsCounted, StopIsKnown, InFlight, InLoop
  <2>. QED
    BY <1>18, <2>1, <2>2
<1>7. ASSUME NEW r \in Request, StepContinues(r) PROVE TaskInv'
  <2>. USE <1>7 DEF StepContinues, UpdateRow
  <2>1. Frame(r) /\ WebIsKnown'
    BY DEF Frame, TaskInv, WebIsKnown
  <2>2. TaskOf(r)'
    BY <1>17 DEF TaskOf, IterationsCounted, StopIsKnown, InFlight, InLoop
  <2>. QED
    BY <1>18, <2>1, <2>2
<1>8. ASSUME NEW r \in Request, StepCompletes(r) PROVE TaskInv'
  <2>. USE <1>8 DEF StepCompletes, UpdateRow, Finish
  <2>1. Frame(r) /\ WebIsKnown'
    BY DEF Frame, TaskInv, WebIsKnown
  <2>2. TaskOf(r)'
    BY <1>17 DEF TaskOf, IterationsCounted, StopIsKnown, InFlight, InLoop
  <2>. QED
    BY <1>18, <2>1, <2>2
<1>9. ASSUME NEW r \in Request, NextStep(r) PROVE TaskInv'
  <2>. USE <1>9 DEF NextStep, taskVars
  <2>1. Frame(r) /\ WebIsKnown'
    BY DEF Frame, TaskInv, WebIsKnown
  <2>2. TaskOf(r)'
    BY <1>17 DEF TaskOf, IterationsCounted, StopIsKnown, InFlight, InLoop
  <2>. QED
    BY <1>18, <2>1, <2>2
<1>10. ASSUME NEW r \in Request, NoticeCancel(r) \/ Exhaust(r) PROVE TaskInv'
  <2>. USE DEF Finish
  <2>1. Frame(r)
    BY <1>10 DEF NoticeCancel, Exhaust, Frame
  <2>2. WebIsKnown'
    BY <1>10 DEF NoticeCancel, Exhaust, TaskInv, WebIsKnown
  <2>3. /\ pc'[r] = "done" /\ row'[r] = "failed" /\ user'[r] = user[r]
        /\ result'[r] \in {"cancelled", "exhausted"}
    BY <1>10 DEF NoticeCancel, Exhaust
  <2>4. TaskOf(r)'
    BY <2>3 DEF TaskOf, IterationsCounted, StopIsKnown, InFlight, InLoop
  <2>. QED
    BY <1>18, <2>1, <2>2, <2>4
<1>11. ASSUME NEW u \in User, Stop(u) PROVE TaskInv'
  <2>. USE <1>11 DEF Stop, requestVars
  <2>1. PICK r \in Request : /\ IsNewestActive(r, u)
                             /\ row' = [row EXCEPT ![r] = "failed"]
                             /\ cancelled' = cancelled \cup {r}
                             /\ stopped' = stopped \cup {r}
    OBVIOUS
  <2>2. Frame(r) /\ WebIsKnown'
    BY <2>1 DEF Frame, TaskInv, WebIsKnown
  <2>3. row[r] = "active"
    BY <2>1 DEF IsNewestActive, ActiveTasks
  <2>4. TaskOf(r)'
    BY <1>17, <2>1, <2>3 DEF TaskOf, IterationsCounted, StopIsKnown, InFlight, InLoop
  <2>. QED
    BY <1>18, <2>2, <2>4
<1>12. ASSUME \/ \E u \in User : Hour(u)
              \/ Cleanup \/ Reset
              \/ UNCHANGED vars
       PROVE  TaskInv'
  <2>1. UNCHANGED <<requestVars, taskVars, busy>>
    BY <1>12 DEF Hour, Cleanup, Reset, vars
  <2>. QED
    BY <2>1 DEF requestVars, taskVars, TaskInv, IterationsCounted, StopIsKnown, InFlight,
                InLoop, RowsTellTasks, WebIsKnown
<1>13. ASSUME Restart PROVE TaskInv'
  <2>. USE <1>13 DEF Restart
  <2>1. ASSUME NEW r \in Request PROVE TaskOf(r)'
    BY <1>17 DEF TaskOf, IterationsCounted, StopIsKnown, InFlight, InLoop
  <2>2. WebIsKnown'
    BY DEF WebIsKnown
  <2>. QED
    BY <2>1, <2>2, TaskInvByTask
<1>. QED
  BY <1>1, <1>2, <1>3, <1>4, <1>5, <1>6, <1>7, <1>8, <1>9, <1>10, <1>11, <1>12, <1>13 DEF Next

\* Requests, sessions and task rows are well typed, and the invariant of tasks
\* holds, for any number of requests, users and iterations.
THEOREM TaskInvariant == Spec => [](TypeOK /\ TaskInv)
<1>1. Init => TypeOK /\ TaskInv
  BY TypeInit, TaskInvInit
<1>2. TypeOK /\ TaskInv /\ [Next]_vars => (TypeOK /\ TaskInv)'
  BY TypeNext, TaskInvNext
<1>. QED
  BY <1>1, <1>2, PTL DEF Spec

\* Task rows agree with the loops that work on them (loop.ts, memory.ts).
THEOREM RowsOfTasks == Spec => []RowsTellTasks
<1>1. TaskInv => RowsTellTasks
  BY DEF TaskInv
<1>. QED
  BY <1>1, TaskInvariant, PTL

\* A confirmed /stop ends the task at the head of its loop, whatever its running
\* iteration writes to the row.
THEOREM StopsAtTheHead == Spec => NoStepAfterStop
<1>1. TypeOK /\ TaskInv /\ [Next]_vars =>
         [\A r \in stopped : pc'[r] = "step" => pc[r] = "step"]_vars
  <2>. SUFFICES ASSUME TypeOK, TaskInv, Next, NEW r \in stopped,
                       pc'[r] = "step", pc[r] # "step"
                PROVE  FALSE
    OBVIOUS
  <2>. USE DEF TypeOK, RequestTypeOK, TaskTypeOK
  <2>1. TaskOf(r)
    BY TaskInvByTask
  <2>2. row[r] # "absent"
    BY <2>1 DEF TaskOf
  <2>3. ASSUME NEW q \in Request, NEW u \in User, ReceiveComplex(q, u) PROVE FALSE
    BY <2>1, <2>2, <2>3 DEF ReceiveComplex, Accept, BeginTask, TaskOf, IterationsCounted
  <2>4. ASSUME NEW q \in Request, NEW turn \in Turn, ChatContinues(q, turn) PROVE FALSE
    BY <2>1, <2>2, <2>4 DEF ChatContinues, BeginTask, TaskOf, IterationsCounted
  <2>5. ASSUME NEW q \in Request, NextStep(q) PROVE FALSE
    BY <2>1, <2>5 DEF NextStep, TaskOf, StopIsKnown, InLoop
  <2>6. ASSUME NEW q \in Request,
               \/ \E u \in User, complex \in BOOLEAN : ReceiveChat(q, u, complex)
               \/ \E turn \in Turn : ChatAnswers(q, turn)
               \/ Refuse(q) \/ ChatFails(q) \/ StepContinues(q) \/ StepCompletes(q)
               \/ StepFails(q) \/ NoticeCancel(q) \/ Exhaust(q)
        PROVE  FALSE
    BY <2>6 DEF ReceiveChat, ChatAnswers, Refuse, ChatFails, StepContinues, StepCompletes,
                StepFails, NoticeCancel, Exhaust, Finish
  <2>7. ASSUME \/ \E u \in User : Stop(u) \/ Hour(u)
               \/ Cleanup \/ Reset \/ Restart
        PROVE  FALSE
    BY <2>7 DEF Stop, Hour, Cleanup, Reset, Restart, requestVars
  <2>. QED
    BY <2>3, <2>4, <2>5, <2>6, <2>7 DEF Next
<1>. QED
  BY <1>1, TaskInvariant, PTL DEF NoStepAfterStop, Spec

-----------------------------------------------------------------------------
(* The web chat.                                                           *)

AtWork(r) == InFlight(r) /\ user[r] = WebUser

LEMMA WebSerialByRequest ==
    /\ WebChatIsSerial <=> /\ \A r, q \in Request : AtWork(r) /\ AtWork(q) => r = q
                           /\ busy <=> \E r \in Request : AtWork(r)
    /\ WebChatIsSerial' <=> /\ \A r, q \in Request : AtWork(r)' /\ AtWork(q)' => r = q
                            /\ busy' <=> \E r \in Request : AtWork(r)'
BY DEF WebChatIsSerial, AtWork

\* A step that leaves the other requests alone and either keeps who is at work
\* and the flag, or ends the work of one request and clears the flag for it, or
\* starts the work of one request while the flag is clear and sets it.
LEMMA WebSerialStep ==
    ASSUME TypeOK, WebChatIsSerial, NEW r \in Request,
           \A q \in Request : q # r => (AtWork(q)' <=> AtWork(q)),
           \/ (AtWork(r)' <=> AtWork(r)) /\ busy' = busy
           \/ AtWork(r) /\ ~AtWork(r)' /\ busy' = FALSE
           \/ ~AtWork(r) /\ AtWork(r)' /\ ~busy /\ busy' = TRUE
    PROVE  WebChatIsSerial'
BY WebSerialByRequest DEF TypeOK

LEMMA WebSerialNext == TypeOK /\ TaskInv /\ WebChatIsSerial /\ [Next]_vars => WebChatIsSerial'
<1>. SUFFICES ASSUME TypeOK, TaskInv, WebChatIsSerial, [Next]_vars PROVE WebChatIsSerial'
  OBVIOUS
<1>. USE DEF TypeOK, RequestTypeOK
<1>1. ASSUME NEW r \in Request, NEW u \in User,
             ReceiveComplex(r, u) \/ \E complex \in BOOLEAN : ReceiveChat(r, u, complex)
      PROVE  WebChatIsSerial'
  <2>1. Accept(r, u) /\ pc'[r] \in {"step", "chat"} /\ \A q \in Request : q # r => pc'[q] = pc[q]
    BY <1>1 DEF ReceiveComplex, ReceiveChat, BeginTask, Accept
  <2>2. ~AtWork(r) /\ (AtWork(r)' <=> u = WebUser)
    BY <2>1 DEF Accept, AtWork, InFlight
  <2>3. \A q \in Request : q # r => (AtWork(q)' <=> AtWork(q))
    BY <2>1 DEF Accept, AtWork, InFlight
  <2>4. IF u = WebUser THEN ~busy /\ busy' = TRUE ELSE busy' = busy
    BY <2>1 DEF Accept
  <2>5. CASE u = WebUser
    BY <2>2, <2>3, <2>4, <2>5, WebSerialStep
  <2>6. CASE u # WebUser
    BY <2>2, <2>3, <2>4, <2>6, WebSerialStep
  <2>. QED
    BY <2>5, <2>6
<1>2. ASSUME NEW r \in Request,
             \/ \E turn \in Turn : ChatAnswers(r, turn)
             \/ ChatFails(r) \/ StepCompletes(r) \/ StepFails(r)
             \/ NoticeCancel(r) \/ Exhaust(r)
      PROVE  WebChatIsSerial'
  <2>1. /\ InFlight(r) /\ pc'[r] = "done" /\ user' = user
        /\ \A q \in Request : q # r => pc'[q] = pc[q]
        /\ busy' = IF user[r] = WebUser THEN FALSE ELSE busy
    BY <1>2 DEF ChatAnswers, ChatFails, StepCompletes, StepFails, NoticeCancel, Exhaust,
                Finish, InFlight
  <2>2. ~AtWork(r)' /\ (AtWork(r) <=> user[r] = WebUser)
    BY <2>1 DEF AtWork, InFlight
  <2>3. \A q \in Request : q # r => (AtWork(q)' <=> AtWork(q))
    BY <2>1 DEF AtWork, InFlight
  <2>4. CASE user[r] = WebUser
    BY <2>1, <2>2, <2>3, <2>4, WebSerialStep
  <2>5. CASE user[r] # WebUser
    BY <2>1, <2>2, <2>3, <2>5, WebSerialStep
  <2>. QED
    BY <2>4, <2>5
<1>3. ASSUME NEW r \in Request,
             \/ \E turn \in Turn : ChatContinues(r, turn)
             \/ StepContinues(r) \/ NextStep(r)
      PROVE  WebChatIsSerial'
  <2>1. /\ InFlight(r) /\ pc'[r] \in {"step", "pause"} /\ user' = user /\ busy' = busy
        /\ \A q \in Request : q # r => pc'[q] = pc[q]
    BY <1>3 DEF ChatContinues, BeginTask, StepContinues, NextStep, InFlight
  <2>2. \A q \in Request : (AtWork(q)' <=> AtWork(q))
    BY <2>1 DEF AtWork, InFlight
  <2>. QED
    BY <2>1, <2>2, WebSerialStep
<1>4. ASSUME NEW r \in Request, Refuse(r) PROVE WebChatIsSerial'
  <2>1. \A q \in Request : (AtWork(q)' <=> AtWork(q))
    BY <1>4 DEF Refuse, AtWork, InFlight
  <2>. QED
    BY <1>4, <2>1, WebSerialStep DEF Refuse
<1>5. ASSUME \/ \E u \in User : Stop(u) \/ Hour(u)
             \/ Cleanup \/ Reset \/ UNCHANGED vars
      PROVE  WebChatIsSerial'
  <2>1. UNCHANGED <<pc, user, busy>>
    BY <1>5 DEF Stop, Hour, Cleanup, Reset, vars, requestVars
  <2>. QED
    BY <2>1 DEF WebChatIsSerial, InFlight
<1>6. ASSUME Restart PROVE WebChatIsSerial'
  <2>1. \A q \in Request : ~AtWork(q)'
    BY <1>6 DEF Restart, AtWork, InFlight
  <2>. QED
    BY <1>6, <2>1, WebSerialByRequest DEF Restart
<1>. QED
  BY <1>1, <1>2, <1>3, <1>4, <1>5, <1>6 DEF Next

\* The web chat never works on two messages, and chatBusy is set exactly while
\* it works on one (dashboard.ts, handleChat).
THEOREM WebChatOneAtATime == Spec => []WebChatIsSerial
<1>1. Init => WebChatIsSerial
  BY DEF Init, WebChatIsSerial, InFlight
<1>. QED
  BY <1>1, WebSerialNext, TaskInvariant, PTL DEF Spec

-----------------------------------------------------------------------------
(* The history of the web chat.                                            *)

\* The end of a sequence that setMessages keeps, element by element.
LEMMA LastMessagesKeeps ==
    ASSUME NEW s \in Seq(Message)
    PROVE  /\ LastMessages(s) \in Seq(Message)
           /\ Len(LastMessages(s)) = IF Len(s) > MaxMessages THEN MaxMessages ELSE Len(s)
           /\ \A i \in 1..Len(LastMessages(s)) :
                 LastMessages(s)[i] = s[Len(s) - Len(LastMessages(s)) + i]
<1>1. CASE Len(s) > MaxMessages
  <2>. DEFINE m == Len(s) - MaxMessages + 1
  <2>1. m \in 1..Len(s) + 1 /\ Len(s) \in m - 1 .. Len(s) /\ Len(s) - m + 1 = MaxMessages
    BY <1>1, ConversationAssumption
  <2>2. LastMessages(s) = SubSeq(s, m, Len(s))
    BY <1>1 DEF LastMessages
  <2>3. /\ SubSeq(s, m, Len(s)) \in Seq(Message)
        /\ Len(SubSeq(s, m, Len(s))) = Len(s) - m + 1
        /\ \A i \in 1..Len(s) - m + 1 : SubSeq(s, m, Len(s))[i] = s[m + i - 1]
    BY <2>1, SubSeqProperties
  <2>. QED
    BY <1>1, <2>1, <2>2, <2>3, ConversationAssumption
<1>2. CASE ~(Len(s) > MaxMessages)
  BY <1>2 DEF LastMessages
<1>. QED
  BY <1>1, <1>2

\* What it means to end with a sequence, element by element.
LEMMA EndsWithByElement ==
    ASSUME NEW s \in Seq(Message), NEW t \in Seq(Message)
    PROVE  EndsWith(s, t) <=>
              /\ Len(t) <= Len(s)
              /\ \A i \in 1..Len(t) : s[Len(s) - Len(t) + i] = t[i]
<1>. DEFINE m == Len(s) - Len(t) + 1
            sub == SubSeq(s, m, Len(s))
<1>. SUFFICES ASSUME Len(t) <= Len(s)
              PROVE  sub = t <=> \A i \in 1..Len(t) : s[Len(s) - Len(t) + i] = t[i]
  BY DEF EndsWith
<1>1. m \in 1..Len(s) + 1 /\ Len(s) \in m - 1 .. Len(s) /\ Len(s) - m + 1 = Len(t)
  OBVIOUS
<1>2. /\ sub \in Seq(Message)
      /\ Len(sub) = Len(s) - m + 1
      /\ \A i \in 1..Len(s) - m + 1 : sub[i] = s[m + i - 1]
  BY <1>1, SubSeqProperties
<1>3. \A i \in 1..Len(t) : sub[i] = s[Len(s) - Len(t) + i]
  BY <1>1, <1>2
<1>. HIDE DEF sub
<1>4. ASSUME \A i \in 1..Len(t) : sub[i] = t[i] PROVE sub = t
  BY <1>1, <1>2, <1>4, SeqEqual
<1>. QED
  BY <1>3, <1>4

\* A history that ends with the messages due goes on to do so when the same
\* messages are added to both, although only the end of each is kept.
LEMMA AddingKeepsTheEnd ==
    ASSUME NEW a \in Seq(Message), NEW b \in Seq(Message), NEW m \in Seq(Message),
           EndsWith(a, LastMessages(b))
    PROVE  EndsWith(LastMessages(a \o m), LastMessages(b \o m))
<1>. DEFINE am == a \o m
            bm == b \o m
            la == LastMessages(am)
            lb == LastMessages(bm)
            l == LastMessages(b)
<1>1. /\ am \in Seq(Message) /\ Len(am) = Len(a) + Len(m)
      /\ \A i \in 1..Len(am) : am[i] = IF i <= Len(a) THEN a[i] ELSE m[i - Len(a)]
  BY ConcatProperties
<1>2. /\ bm \in Seq(Message) /\ Len(bm) = Len(b) + Len(m)
      /\ \A i \in 1..Len(bm) : bm[i] = IF i <= Len(b) THEN b[i] ELSE m[i - Len(b)]
  BY ConcatProperties
<1>. HIDE DEF am, bm
<1>3. /\ la \in Seq(Message)
      /\ Len(la) = IF Len(am) > MaxMessages THEN MaxMessages ELSE Len(am)
      /\ \A i \in 1..Len(la) : la[i] = am[Len(am) - Len(la) + i]
  BY <1>1, LastMessagesKeeps
<1>4. /\ lb \in Seq(Message)
      /\ Len(lb) = IF Len(bm) > MaxMessages THEN MaxMessages ELSE Len(bm)
      /\ \A i \in 1..Len(lb) : lb[i] = bm[Len(bm) - Len(lb) + i]
  BY <1>2, LastMessagesKeeps
<1>5. /\ l \in Seq(Message)
      /\ Len(l) = IF Len(b) > MaxMessages THEN MaxMessages ELSE Len(b)
      /\ \A i \in 1..Len(l) : l[i] = b[Len(b) - Len(l) + i]
  BY LastMessagesKeeps
<1>6. /\ Len(l) <= Len(a)
      /\ \A i \in 1..Len(l) : a[Len(a) - Len(l) + i] = l[i]
  BY <1>5, EndsWithByElement
<1>. HIDE DEF la, lb, l
<1>7. PICK na \in Nat, nb \in Nat, nm \in Nat, ka \in Nat, kb \in Nat, k \in Nat :
         /\ na = Len(a) /\ nb = Len(b) /\ nm = Len(m)
         /\ ka = Len(la) /\ kb = Len(lb) /\ k = Len(l)
  <2>1. /\ Len(a) \in Nat /\ Len(b) \in Nat /\ Len(m) \in Nat
        /\ Len(la) \in Nat /\ Len(lb) \in Nat /\ Len(l) \in Nat
    BY <1>3, <1>4, <1>5
  <2>. QED
    BY <2>1
<1>8. /\ \A i \in 1..na + nm : am[i] = IF i <= na THEN a[i] ELSE m[i - na]
      /\ \A i \in 1..nb + nm : bm[i] = IF i <= nb THEN b[i] ELSE m[i - nb]
      /\ \A i \in 1..ka : la[i] = am[na + nm - ka + i]
      /\ \A i \in 1..kb : lb[i] = bm[nb + nm - kb + i]
      /\ \A i \in 1..k : a[na - k + i] = b[nb - k + i]
  <2>1. \A i \in 1..na + nm : am[i] = IF i <= na THEN a[i] ELSE m[i - na]
    BY <1>1, <1>7
  <2>2. \A i \in 1..nb + nm : bm[i] = IF i <= nb THEN b[i] ELSE m[i - nb]
    BY <1>2, <1>7
  <2>3. Len(am) = na + nm /\ Len(bm) = nb + nm
    BY <1>1, <1>2, <1>7
  <2>4. \A i \in 1..ka : la[i] = am[na + nm - ka + i]
    <3>. TAKE i \in 1..ka
    <3>1. la[i] = am[Len(am) - Len(la) + i]
      BY <1>3, <1>7
    <3>2. Len(am) - Len(la) = na + nm - ka
      BY <1>7, <2>3
    <3>. QED
      BY <3>1, <3>2
  <2>5. \A i \in 1..kb : lb[i] = bm[nb + nm - kb + i]
    <3>. TAKE i \in 1..kb
    <3>1. lb[i] = bm[Len(bm) - Len(lb) + i]
      BY <1>4, <1>7
    <3>2. Len(bm) - Len(lb) = nb + nm - kb
      BY <1>7, <2>3
    <3>. QED
      BY <3>1, <3>2
  <2>6. \A i \in 1..k : a[na - k + i] = l[i] /\ l[i] = b[nb - k + i]
    BY <1>5, <1>6, <1>7
  <2>. QED
    BY <2>1, <2>2, <2>4, <2>5, <2>6
<1>9. /\ MaxMessages \in Nat
      /\ ka = IF na + nm > MaxMessages THEN MaxMessages ELSE na + nm
      /\ kb = IF nb + nm > MaxMessages THEN MaxMessages ELSE nb + nm
      /\ k = IF nb > MaxMessages THEN MaxMessages ELSE nb
      /\ k <= na
  BY <1>1, <1>2, <1>3, <1>4, <1>5, <1>6, <1>7, ConversationAssumption
<1>10. kb <= ka
  BY <1>9
<1>11. ASSUME NEW i \in 1..kb PROVE la[ka - kb + i] = lb[i]
  <2>1. PICK p \in Nat, x \in Nat, y \in Nat :
           p = ka - kb + i /\ x = na + nm - kb + i /\ y = nb + nm - kb + i
    <3>1. /\ ka - kb + i \in Nat
          /\ na + nm - kb + i \in Nat /\ nb + nm - kb + i \in Nat
      BY <1>9, <1>10
    <3>. QED
      BY <3>1
  <2>2. /\ p \in 1..ka /\ na + nm - ka + p = x
        /\ x \in 1..na + nm /\ y \in 1..nb + nm
        /\ x - na = y - nb
    BY <1>9, <1>10, <2>1
  <2>3. la[p] = am[x] /\ lb[i] = bm[y]
    BY <1>8, <2>1, <2>2
  <2>4. CASE x <= na
    <3>1. PICK j \in 1..k : na - k + j = x /\ nb - k + j = y
      <4>1. x - na + k \in 1..k
        BY <1>9, <2>1, <2>2, <2>4
      <4>. QED
        BY <4>1, <2>2
    <3>2. y <= nb
      BY <2>2, <2>4
    <3>3. a[x] = b[y]
      BY <1>8, <3>1
    <3>4. am[x] = a[x] /\ bm[y] = b[y]
      BY <1>8, <2>2, <2>4, <3>2
    <3>. QED
      BY <2>1, <2>3, <3>3, <3>4
  <2>5. CASE ~(x <= na)
    <3>1. ~(y <= nb)
      BY <2>2, <2>5
    <3>. QED
      BY <1>8, <2>1, <2>2, <2>3, <2>5, <3>1
  <2>. QED
    BY <2>4, <2>5
<1>12. EndsWith(la, lb)
  BY <1>3, <1>4, <1>7, <1>10, <1>11, EndsWithByElement
<1>. QED
  BY <1>12 DEF la, lb, am, bm

\* Every sequence ends with what is due of nothing.
LEMMA NothingIsDue ==
    ASSUME NEW s \in Seq(Message)
    PROVE  EndsWith(s, LastMessages(<<>>))
<1>. DEFINE e == <<>>
<1>1. e \in Seq(Message) /\ Len(e) = 0
  OBVIOUS
<1>2. LastMessages(e) = e
  BY <1>1, ConversationAssumption DEF LastMessages
<1>. HIDE DEF e
<1>3. Len(e) <= Len(s) /\ 1..Len(e) = {}
  BY <1>1
<1>4. EndsWith(s, e)
  BY <1>1, <1>3, EndsWithByElement
<1>. QED
  BY <1>2, <1>4 DEF e

\* Why the history is complete: so is the copy that a web chat at work started
\* from.
WebContextIsComplete ==
    WebUser \in User =>
        \A r \in Request : pc[r] = "chat" /\ user[r] = WebUser =>
            EndsWith(context[r], LastMessages(due[WebUser]))

\* A web chat that ends adds the same messages to the history and to what is due,
\* and there is no other one that started from an older copy.
LEMMA StoredIsComplete ==
    ASSUME TypeOK, TaskInv, WebChatIsSerial, WebHistoryIsComplete, WebContextIsComplete,
           WebUser \in User, NEW r \in Request, NEW turn \in Turn,
           pc[r] = "chat", StoreChat(r, turn), user' = user,
           pc'[r] # "chat", \A q \in Request : q # r => pc'[q] = pc[q], context' = context
    PROVE  WebHistoryIsComplete' /\ WebContextIsComplete'
<1>. DEFINE m == MessagesOf(r, turn)
            u == user[r]
<1>1. m \in Seq(Message) /\ u \in User /\ context[r] \in Seq(Message) /\ due[u] \in Seq(Message)
  BY MessagesOfType DEF TaskInv, InFlight, TypeOK, RequestTypeOK, SessionTypeOK
<1>2. /\ history' = [history EXCEPT ![u] = LastMessages(context[r] \o m)]
      /\ due' = [due EXCEPT ![u] = due[u] \o m]
  BY DEF StoreChat, SetMessages
<1>. HIDE DEF m
<1>3. CASE u = WebUser
  <2>1. EndsWith(context[r], LastMessages(due[u]))
    BY <1>3 DEF WebContextIsComplete
  <2>2. EndsWith(LastMessages(context[r] \o m), LastMessages(due[u] \o m))
    BY <1>1, <2>1, AddingKeepsTheEnd
  <2>3. history'[u] = LastMessages(context[r] \o m) /\ due'[u] = due[u] \o m
    BY <1>1, <1>2 DEF TypeOK, SessionTypeOK
  <2>4. WebHistoryIsComplete'
    BY <1>3, <2>2, <2>3 DEF WebHistoryIsComplete
  <2>5. \A q \in Request : pc'[q] = "chat" => user[q] # WebUser
    BY <1>3, WebSerialByRequest DEF AtWork, InFlight
  <2>. QED
    BY <2>4, <2>5 DEF WebContextIsComplete
<1>4. CASE u # WebUser
  <2>1. history'[WebUser] = history[WebUser] /\ due'[WebUser] = due[WebUser]
    BY <1>2, <1>4 DEF TypeOK, SessionTypeOK
  <2>. QED
    BY <2>1 DEF WebHistoryIsComplete, WebContextIsComplete
<1>. QED
  BY <1>3, <1>4

\* A step that starts no web chat and leaves the history and what is due of the web
\* user alone.
LEMMA UntouchedIsComplete ==
    ASSUME WebHistoryIsComplete, WebContextIsComplete,
           WebUser \in User => /\ history'[WebUser] = history[WebUser]
                               /\ due'[WebUser] = due[WebUser],
           \A q \in Request : pc'[q] = "chat" /\ user'[q] = WebUser =>
               pc[q] = "chat" /\ user[q] = WebUser /\ context'[q] = context[q]
    PROVE  WebHistoryIsComplete' /\ WebContextIsComplete'
BY DEF WebHistoryIsComplete, WebContextIsComplete

\* Nothing is due of a history that was emptied, whatever is at work.
LEMMA EmptiedIsComplete ==
    ASSUME TypeOK, TypeOK', due'[WebUser] = <<>>
    PROVE  WebHistoryIsComplete' /\ WebContextIsComplete'
<1>1. WebUser \in User => history'[WebUser] \in Seq(Message)
  BY DEF TypeOK, SessionTypeOK
<1>2. \A r \in Request : context'[r] \in Seq(Message)
  BY DEF TypeOK, RequestTypeOK
<1>3. \A s \in Seq(Message) : EndsWith(s, LastMessages(due'[WebUser]))
  BY NothingIsDue
<1>4. WebHistoryIsComplete'
  BY <1>1, <1>3 DEF WebHistoryIsComplete
<1>5. WebContextIsComplete'
  BY <1>2, <1>3 DEF WebContextIsComplete
<1>. QED
  BY <1>4, <1>5

\* Every step keeps the history of the web chat complete.
LEMMA WebCompleteNext ==
    TypeOK /\ TypeOK' /\ TaskInv /\ WebChatIsSerial
        /\ WebHistoryIsComplete /\ WebContextIsComplete /\ [Next]_vars
    => (WebHistoryIsComplete /\ WebContextIsComplete)'
<1>. DEFINE Goal == (WebHistoryIsComplete /\ WebContextIsComplete)'
<1>. SUFFICES ASSUME TypeOK, TypeOK', TaskInv, WebChatIsSerial, WebHistoryIsComplete,
                     WebContextIsComplete, [Next]_vars
              PROVE  Goal
  OBVIOUS
<1>1. CASE WebUser \notin User
  BY <1>1 DEF WebHistoryIsComplete, WebContextIsComplete
<1>. SUFFICES ASSUME WebUser \in User PROVE Goal
  BY <1>1
<1>2. ASSUME NEW r \in Request, NEW u \in User, NEW complex \in BOOLEAN,
             ReceiveChat(r, u, complex)
      PROVE  Goal
  <2>1. /\ UNCHANGED <<history, due>>
        /\ pc' = [pc EXCEPT ![r] = "chat"]
        /\ user' = [user EXCEPT ![r] = u]
        /\ context' = [context EXCEPT ![r] = history[u]]
    BY <1>2 DEF ReceiveChat, Accept
  <2>2. WebHistoryIsComplete'
    BY <2>1 DEF WebHistoryIsComplete
  <2>3. ASSUME NEW q \in Request, pc'[q] = "chat", user'[q] = WebUser
        PROVE  EndsWith(context'[q], LastMessages(due[WebUser]))
    <3>1. CASE q = r
      <4>1. u = WebUser /\ context'[q] = history[WebUser]
        BY <2>1, <2>3, <3>1 DEF TypeOK, RequestTypeOK
      <4>. QED
        BY <4>1 DEF WebHistoryIsComplete
    <3>2. CASE q # r
      <4>1. pc[q] = "chat" /\ user[q] = WebUser /\ context'[q] = context[q]
        BY <2>1, <2>3, <3>2 DEF TypeOK, RequestTypeOK
      <4>. QED
        BY <4>1 DEF WebContextIsComplete
    <3>. QED
      BY <3>1, <3>2
  <2>. QED
    BY <2>1, <2>2, <2>3 DEF WebContextIsComplete
<1>3. ASSUME NEW r \in Request, NEW turn \in Turn,
             ChatAnswers(r, turn) \/ ChatContinues(r, turn)
      PROVE  Goal
  <2>1. /\ pc[r] = "chat" /\ StoreChat(r, turn)
        /\ user' = user /\ context' = context
        /\ pc' = [pc EXCEPT ![r] = "done"] \/ pc' = [pc EXCEPT ![r] = "step"]
    BY <1>3 DEF ChatAnswers, ChatContinues, Finish, BeginTask
  <2>2. pc'[r] # "chat" /\ \A q \in Request : q # r => pc'[q] = pc[q]
    BY <2>1 DEF TypeOK, RequestTypeOK
  <2>. QED
    BY <2>1, <2>2, StoredIsComplete
<1>4. ASSUME NEW r \in Request,
             \/ \E u \in User : ReceiveComplex(r, u)
             \/ Refuse(r) \/ ChatFails(r)
             \/ StepContinues(r) \/ StepCompletes(r) \/ StepFails(r)
             \/ NextStep(r) \/ NoticeCancel(r) \/ Exhaust(r)
      PROVE  Goal
  <2>1. UNCHANGED <<history, due, context>>
    BY <1>4 DEF ReceiveComplex, Accept, Refuse, ChatFails, StepContinues, StepCompletes,
                StepFails, NextStep, NoticeCancel, Exhaust, Finish, sessionVars
  <2>2. pc'[r] # "chat" /\ \A q \in Request : q # r => pc'[q] = pc[q] /\ user'[q] = user[q]
    BY <1>4 DEF ReceiveComplex, Accept, BeginTask, Refuse, ChatFails, StepContinues,
                StepCompletes, StepFails, NextStep, NoticeCancel, Exhaust, Finish,
                TypeOK, RequestTypeOK
  <2>. QED
    BY <2>1, <2>2, UntouchedIsComplete
<1>5. ASSUME (\E u \in User : Stop(u) \/ Hour(u)) \/ UNCHANGED vars PROVE Goal
  <2>1. UNCHANGED <<history, due, context, pc, user>>
    BY <1>5 DEF Stop, Hour, vars, requestVars, sessionVars
  <2>. QED
    BY <2>1, UntouchedIsComplete
<1>6. ASSUME Cleanup PROVE Goal
  <2>1. CASE WebUser \in stale
    <3>1. due'[WebUser] = <<>>
      BY <1>6, <2>1 DEF Cleanup, Emptied
    <3>. QED
      BY <3>1, EmptiedIsComplete
  <2>2. CASE WebUser \notin stale
    <3>1. history'[WebUser] = history[WebUser] /\ due'[WebUser] = due[WebUser]
      BY <1>6, <2>2 DEF Cleanup, Emptied
    <3>2. UNCHANGED <<context, pc, user>>
      BY <1>6 DEF Cleanup, requestVars
    <3>. QED
      BY <3>1, <3>2, UntouchedIsComplete
  <2>. QED
    BY <2>1, <2>2
<1>7. ASSUME Reset \/ Restart PROVE Goal
  <2>1. due'[WebUser] = <<>>
    BY <1>7 DEF Reset, Restart, Emptied, TypeOK, SessionTypeOK
  <2>. QED
    BY <2>1, EmptiedIsComplete
<1>. HIDE DEF Goal
<1>. QED
  BY <1>2, <1>3, <1>4, <1>5, <1>6, <1>7 DEF Next

\* The history of the web chat ends with every message exchanged since it was last
\* emptied, as many as are kept, whatever else is received, reset, cleaned up or
\* restarted while handleChat waits for the model (dashboard.ts, session.ts).
THEOREM WebHistory == Spec => []WebHistoryIsComplete
<1>1. Init => WebHistoryIsComplete /\ WebContextIsComplete
  <2>. SUFFICES ASSUME Init, WebUser \in User
                PROVE  WebHistoryIsComplete /\ WebContextIsComplete
    BY DEF WebHistoryIsComplete, WebContextIsComplete
  <2>1. history[WebUser] = <<>> /\ due[WebUser] = <<>> /\ \A r \in Request : pc[r] # "chat"
    BY DEF Init
  <2>2. <<>> \in Seq(Message)
    OBVIOUS
  <2>3. EndsWith(<<>>, LastMessages(<<>>))
    BY <2>2, NothingIsDue
  <2>. QED
    BY <2>1, <2>3 DEF WebHistoryIsComplete, WebContextIsComplete
<1>. QED
  BY <1>1, WebCompleteNext, WebChatOneAtATime, TaskInvariant, PTL DEF Spec

=============================================================================
