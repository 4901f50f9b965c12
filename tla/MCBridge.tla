------------------------------ MODULE MCBridge ------------------------------
(* Instances of Bridge: an approval, a request or something the gateway     *)
(* sends unasked, under deaths of both programs.  The bound of one item     *)
(* keeps them apart; within one approval there are still two messages, two *)
(* presses, the timer, the dashboard and a bridge that forgets.             *)
EXTENDS Bridge
CONSTANTS a1, r1, none

OneApproval == {a1}
OneRequest == {r1}
=============================================================================
