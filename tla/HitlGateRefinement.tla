------------------------- MODULE HitlGateRefinement -------------------------
(* The gate implements the promise of module Approval.                     *)
EXTENDS HitlGate

\* What a caller and a user see of a call: the promise, the microtask, the
\* timer and the tables are hidden.
RequestOf(c) ==
    CASE phase[c] = "idle" -> "idle"
      [] phase[c] = "lost" -> "lost"
      [] phase[c] \in {"waiting", "settled"} -> "asked"
      [] phase[c] = "returned" /\ tier[c] # "require-approval" -> "waived"
      [] phase[c] = "returned" /\ tier[c] = "require-approval" ->
            IF outcome[c] = "proceed" THEN "granted" ELSE "denied"

Promise == INSTANCE Approval WITH request <- [c \in Call |-> RequestOf(c)],
                                  answer <- word

\* Every step of the gate is a step of the promise or invisible in it.  (gate,
\* awaitDecision and resolveApproval together.)
ImplementsApproval == Promise!Spec

\* With timers that fire and microtasks that run, the gate also keeps the
\* promise that every open request is concluded unless a restart loses it.
ImplementsFairApproval == Promise!FairSpec
=============================================================================
