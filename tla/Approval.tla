------------------------------ MODULE Approval ------------------------------
(***************************************************************************)
(* What the human-in-the-loop gate promises for each tool call, without    *)
(* timers, tables or messages: a call is waived by policy or is asked for, *)
(* the user's first answer (or the lack of one) is the answer, and the     *)
(* call concludes once, as that answer says.  A restart of the gateway may *)
(* lose calls that were asked for; a lost call never concludes.            *)
(***************************************************************************)
CONSTANT Call

VARIABLES
    request,   \* where each call stands
    answer     \* the first answer to each call

vars == <<request, answer>>

Yes == {"approved", "session-approved"}
No == {"rejected", "timeout"}

TypeOK ==
    /\ request \in [Call -> {"idle", "waived", "asked", "granted", "denied", "lost"}]
    /\ answer \in [Call -> {"none"} \cup Yes \cup No]

Init ==
    /\ request = [c \in Call |-> "idle"]
    /\ answer = [c \in Call |-> "none"]

Become(c, from, to) ==
    /\ request[c] = from
    /\ request' = [request EXCEPT ![c] = to]
    /\ UNCHANGED answer

Waive(c) == Become(c, "idle", "waived")
Ask(c) == Become(c, "idle", "asked")

\* The first answer counts; a lost or denied call may still be answered.
Answer(c, w) ==
    /\ request[c] \notin {"idle", "waived"}
    /\ answer[c] = "none"
    /\ answer' = [answer EXCEPT ![c] = w]
    /\ UNCHANGED request

Conclude(c) ==
    \/ answer[c] \in Yes /\ Become(c, "asked", "granted")
    \/ answer[c] \in No /\ Become(c, "asked", "denied")

Lose ==
    /\ request' = [c \in Call |-> IF request[c] = "asked" THEN "lost" ELSE request[c]]
    /\ UNCHANGED answer

Next ==
    \/ \E c \in Call : Waive(c) \/ Ask(c) \/ Conclude(c)
    \/ \E c \in Call, w \in Yes \cup No : Answer(c, w)
    \/ Lose

Spec == Init /\ [][Next]_vars

\* An open request is answered or times out, and an answered one concludes.
Fairness ==
    \A c \in Call : WF_vars(request[c] = "asked" /\ \E w \in Yes \cup No : Answer(c, w))
                    /\ WF_vars(Conclude(c))

FairSpec == Spec /\ Fairness
=============================================================================
