------------------------------ MODULE Contact -------------------------------
(***************************************************************************)
(* What the chat list promises about one contact, whatever addresses       *)
(* WhatsApp uses for it: a set of stored messages, one unread counter and  *)
(* one set of flags, which change only on behalf of a handler that is at   *)
(* work on the contact.  Folding its rows together is one of their jobs,   *)
(* and changes none of them.  Inbox, where the contact may own two chat    *)
(* rows, implements it.                                                    *)
(***************************************************************************)
EXTENDS Integers

CONSTANTS Msgs, Actors

VARIABLES
    stored,    \* the messages kept for the contact
    listed,    \* the contact appears in the chat list
    unread,    \* its unread badge
    flags,     \* its flags (pinned, archived)
    doing      \* what each goroutine is about to do to the contact

vars == <<stored, listed, unread, flags, doing>>

Jobs == {"nothing", "store", "bump", "remove", "snapshot", "open", "start", "merge"}

Init ==
    /\ stored = {}
    /\ listed = FALSE
    /\ unread = 0
    /\ flags = {}
    /\ doing = [p \in Actors |-> "nothing"]

\* A goroutine takes up another job, or none, and no other one moves.
Turn(p) ==
    /\ doing'[p] \in Jobs
    /\ doing' = [doing EXCEPT ![p] = doing'[p]]

\* A message is stored, once.
Store(p, m) ==
    /\ doing[p] = "store"
    /\ stored' = stored \cup {m}
    /\ UNCHANGED <<listed, unread, flags>>

\* The chat is bumped by a message, which counts if it is incoming.
Bump(p, n) ==
    /\ doing[p] = "bump"
    /\ listed' = TRUE
    /\ unread' = unread + n
    /\ UNCHANGED <<stored, flags>>

Remove(p, m) ==
    /\ doing[p] = "remove"
    /\ stored' = stored \ {m}
    /\ UNCHANGED <<listed, unread, flags>>

\* The phone's snapshot of the conversation: it adds messages, never removes
\* one, and brings its own counter and flags.
Snapshot(p) ==
    /\ doing[p] = "snapshot"
    /\ stored \subseteq stored'
    /\ listed' = TRUE
    /\ unread' >= 0

\* The user opens the chat: the badge only goes down.
Open(p) ==
    /\ doing[p] = "open"
    /\ unread' \in 0..unread
    /\ UNCHANGED <<stored, listed, flags>>

\* The user starts the chat: no message is touched, no badge or flag is raised.
Start(p) ==
    /\ doing[p] = "start"
    /\ listed' = TRUE
    /\ unread' \in 0..unread
    /\ flags' \subseteq flags
    /\ UNCHANGED stored

\* Pin, archive and mute, here or on another device.
Flag ==
    /\ listed
    /\ UNCHANGED <<stored, listed, unread, doing>>

\* The daemon dies, and with it every job.
Halt ==
    /\ doing' = [p \in Actors |-> "nothing"]
    /\ UNCHANGED <<stored, listed, unread, flags>>

\* Taking a job, leaving one undone, and merging rows: nothing is seen to change.
Move == UNCHANGED <<stored, listed, unread, flags>>

Act(p) ==
    \/ Move
    \/ \E m \in Msgs : Store(p, m) \/ Remove(p, m)
    \/ \E n \in {0, 1} : Bump(p, n)
    \/ Snapshot(p) \/ Open(p) \/ Start(p)

Next == Flag \/ Halt \/ \E p \in Actors : Turn(p) /\ Act(p)

Spec == Init /\ [][Next]_vars
=============================================================================
