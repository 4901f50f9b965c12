--------------------------- MODULE MCConversations ---------------------------
(* Instances of Conversations for TLC.                                     *)
EXTENDS Conversations, TLC

CONSTANTS r1, r2, telegram, web     \* model values

PlainTurn == {<<"user", "assistant">>}
EveryTurn == Turns
=============================================================================
