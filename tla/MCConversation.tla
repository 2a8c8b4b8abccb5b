--------------------------- MODULE MCConversation ---------------------------
(* Model-checking instance of Conversation: chat a has two messages, chat b  *)
(* none.                                                                   *)
EXTENDS Conversation, TLC

CONSTANT a

MCMsgs == 1..2
MCChatOf == <<a, a>>
MCSymmetry == Permutations(Calls)
MCTime == <<1, 2>>
=============================================================================
