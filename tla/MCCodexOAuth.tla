---------------------------- MODULE MCCodexOAuth ----------------------------
(* Instances of CodexOAuth for TLC.                                        *)
EXTENDS CodexOAuth, TLC

CONSTANTS u1, u2, l1, l2, l3, d1, d2, c1, c2     \* model values

\* No action and no property looks at the data of a login that has ended or at the
\* port of a server that is closed, so states that differ in these alone have the
\* same futures.
OpenLogin(l) == phase[l] \in {"binding", "open"}
OAuthView ==
    <<phase, [l \in {x \in Login : OpenLogin(x)} |->
                 <<user[l], redirect[l], l \in expired>>],
      inProgress, stateByUser, listening, [s \in listening |-> bound[s]], callbackServer,
      exchangeVars, tokenVars>>

OAuthSymmetry == Permutations(User) \cup Permutations(Login)
                 \cup Permutations(Delivery) \cup Permutations(Caller)
=============================================================================
