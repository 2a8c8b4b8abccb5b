----------------------------- MODULE MCComposer -----------------------------
(* Model-checking instance of Composer: two chats to switch between.       *)
EXTENDS Composer
=============================================================================
