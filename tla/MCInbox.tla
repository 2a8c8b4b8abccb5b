------------------------------ MODULE MCInbox -------------------------------
(* Model-checking instance of Inbox.                                       *)
EXTENDS Inbox
=============================================================================
