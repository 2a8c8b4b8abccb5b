------------------------------ MODULE Presence ------------------------------
(***************************************************************************)
(* What the two halves of apps/desktop/presence.go share: the chats, the   *)
(* chat that is open, and sets that a presence update switches a member    *)
(* of.  Composer has the user's own state, Typists that of the others.     *)
(***************************************************************************)
CONSTANTS
    Directs,  \* direct chats, each with one partner
    Groups,   \* group chats
    NoChat    \* no chat is open

Chats == Directs \cup Groups

ASSUME ChatsAssumption == Directs \cap Groups = {} /\ NoChat \notin Chats

VARIABLE active  \* window.activeChat

With(set, x, in) == IF in THEN set \cup {x} ELSE set \ {x}
=============================================================================
