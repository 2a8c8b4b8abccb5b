------------------------------ MODULE Composer ------------------------------
(***************************************************************************)
(* The user's own typing state, from the composer to WhatsApp: the         *)
(* desktop's typing notifier (apps/desktop/presence.go, openChat in        *)
(* window.go), the goroutine of each SetPresence call (client.go), and the *)
(* daemon's SetPresence with its presenceTracker (apps/daemon/wa/          *)
(* presence.go), which a lost connection resets (session.go:229).          *)
(*                                                                         *)
(* A call is one goroutine on each side and nothing orders two of them.    *)
(* The tracker is checked and set under its lock, but the node is sent     *)
(* after the unlock, so each is a step of its own.                         *)
(***************************************************************************)
EXTENDS Presence, Integers, Sequences, SequencesExt

CONSTANT MaxCalls  \* SetPresence calls in flight before the user waits (bound)

ASSUME MaxCallsAssumption == MaxCalls \in Nat \ {0}

VARIABLES
    idleTimer,   \* the composer's idle timer is armed
    calls,       \* SetPresence calls in flight, in the order they were made
    typing,      \* tracker: chats last set to composing
    subscribed,  \* tracker: contacts subscribed to
    available,   \* tracker: the user was marked online
    up,          \* the connection to WhatsApp
    lost,        \* a Disconnected event is not handled yet
    sees,        \* WhatsApp: chats whose members are shown the user typing
    subs,        \* WhatsApp: contacts this connection is subscribed to
    harmed,      \* history: chats with a call that was lost, failed, overtook
                 \* an opposite one or was sent across a reset
    stale        \* history: the session restarted and the tracker was not reset

composer == <<active, idleTimer>>
tracker == <<typing, subscribed, available>>
whatsapp == <<up, lost, sees, subs>>
history == <<harmed, stale>>
composerVars == <<composer, calls, tracker, whatsapp, history>>

\* A call is on its way, is sending the user's availability, is about to check
\* the subscriptions, subscribes, is about to check the typing state, sends it.
Steps == {"call", "online", "subscribe", "subscribing", "typing", "send"}
Call == [chat : Chats, typing : BOOLEAN, at : Steps]

ComposerTypeOK ==
    /\ active \in Chats \cup {NoChat}
    /\ idleTimer \in BOOLEAN
    /\ calls \in Seq(Call) /\ Len(calls) <= MaxCalls + 1
    /\ typing \subseteq Chats /\ subscribed \subseteq Directs
    /\ available \in BOOLEAN
    /\ up \in BOOLEAN /\ lost \in BOOLEAN
    /\ sees \subseteq Chats /\ subs \subseteq Directs
    /\ harmed \subseteq Chats /\ stale \in BOOLEAN

-----------------------------------------------------------------------------
(* The desktop: every call is a goroutine that nobody waits for.           *)

CanCall == Len(calls) < MaxCalls

SetPresence(c, isTyping) ==
    calls' = Append(calls, [chat |-> c, typing |-> isTyping, at |-> "call"])

\* The composer's text changed to something, or to nothing but blanks.
Type ==
    /\ active # NoChat /\ CanCall
    /\ SetPresence(active, TRUE)
    /\ idleTimer' = TRUE
    /\ UNCHANGED <<active, tracker, whatsapp, history>>

\* stopTyping.
StopTyping ==
    /\ idleTimer' = FALSE
    /\ IF active = NoChat THEN UNCHANGED calls ELSE SetPresence(active, FALSE)

Blank ==
    /\ active # NoChat /\ CanCall
    /\ StopTyping
    /\ UNCHANGED <<active, tracker, whatsapp, history>>

MutantIdleTimeoutSilent ==
    /\ idleTimer
    /\ idleTimer' = FALSE
    /\ UNCHANGED <<active, calls, tracker, whatsapp, history>>

IdleTimeout ==
    /\ idleTimer
    /\ StopTyping
    /\ UNCHANGED <<active, tracker, whatsapp, history>>

MutantOpenStopsNewChat(c) ==
    /\ CanCall
    /\ active' = c
    /\ idleTimer' = FALSE
    /\ SetPresence(c, FALSE)
    /\ UNCHANGED <<tracker, whatsapp, history>>

\* openChat withdraws the typing state of the chat it leaves.
SwitchChat(c) ==
    /\ CanCall
    /\ StopTyping
    /\ active' = c
    /\ UNCHANGED <<tracker, whatsapp, history>>

-----------------------------------------------------------------------------
(* The daemon's SetPresence, for the i-th call in flight.                  *)

At(i, step) == i \in DOMAIN calls /\ calls[i].at = step
Goto(i, step) == calls' = [calls EXCEPT ![i].at = step]
Return(i) == calls' = RemoveAt(calls, i)
Harm(i) == harmed' = harmed \cup {calls[i].chat}

\* Groups are not subscribed to.
AfterOnline(c) == IF c \in Directs THEN "subscribe" ELSE "typing"

\* The RPC fails, or finds the client logged out.
Lose(i) ==
    /\ At(i, "call")
    /\ Return(i) /\ Harm(i)
    /\ UNCHANGED <<composer, tracker, whatsapp, stale>>

\* The desktop always asks for "available", the tracker sends it once.
Accept(i) ==
    /\ At(i, "call")
    /\ available' = TRUE
    /\ Goto(i, IF available THEN AfterOnline(calls[i].chat) ELSE "online")
    /\ UNCHANGED <<composer, typing, subscribed, whatsapp, history>>

\* SendPresence; an error ends the call, whose typing state is not sent either.
SendPresence(i) ==
    /\ At(i, "online")
    /\ \/ /\ up
          /\ Goto(i, AfterOnline(calls[i].chat))
          /\ UNCHANGED harmed
       \/ Return(i) /\ Harm(i)
    /\ UNCHANGED <<composer, tracker, whatsapp, stale>>

\* subscribePresence marks the contact, then subscribes ...
CheckSubscribed(i) ==
    /\ At(i, "subscribe")
    /\ subscribed' = subscribed \cup {calls[i].chat}
    /\ Goto(i, IF calls[i].chat \in subscribed THEN "typing" ELSE "subscribing")
    /\ UNCHANGED <<composer, typing, available, whatsapp, history>>

MutantSubscribeKeepsMark(i) ==
    /\ At(i, "subscribing")
    /\ (up /\ subs' = subs \cup {calls[i].chat}) \/ UNCHANGED subs
    /\ Goto(i, "typing")
    /\ UNCHANGED <<composer, tracker, up, lost, sees, history>>

\* ... and takes the mark back if that fails.
Subscribe(i) ==
    /\ At(i, "subscribing")
    /\ \/ /\ up
          /\ subs' = subs \cup {calls[i].chat}
          /\ UNCHANGED subscribed
       \/ /\ subscribed' = subscribed \ {calls[i].chat}
          /\ UNCHANGED subs
    /\ Goto(i, "typing")
    /\ UNCHANGED <<composer, typing, available, up, lost, sees, history>>

Overtakes(i) ==
    \E j \in 1..(i - 1) : calls[j].chat = calls[i].chat
                          /\ calls[j].typing # calls[i].typing

\* The typing state is sent when it differs from what the tracker remembers.
CheckTyping(i) ==
    LET c == calls[i].chat
    IN  /\ At(i, "typing")
        /\ typing' = With(typing, c, calls[i].typing)
        /\ IF calls[i].typing = (c \in typing) THEN Return(i) ELSE Goto(i, "send")
        /\ harmed' = IF Overtakes(i) THEN harmed \cup {c} ELSE harmed
        /\ UNCHANGED <<composer, subscribed, available, whatsapp, stale>>

SendChatPresence(i) ==
    /\ At(i, "send")
    /\ \/ /\ up
          /\ sees' = With(sees, calls[i].chat, calls[i].typing)
          /\ UNCHANGED harmed
       \/ Harm(i) /\ UNCHANGED sees
    /\ Return(i)
    /\ UNCHANGED <<composer, tracker, up, lost, subs, stale>>

-----------------------------------------------------------------------------
(* The connection.  WhatsApp forgets a connection's states with it.        *)

Forgotten == sees' = {} /\ subs' = {}

\* External: whatsmeow loses the connection; it reports that from a goroutine,
\* while it reconnects.
Disconnect ==
    /\ up
    /\ up' = FALSE /\ lost' = TRUE
    /\ Forgotten
    /\ UNCHANGED <<composer, calls, tracker, history>>

\* External.
Reconnect ==
    /\ ~up
    /\ up' = TRUE
    /\ UNCHANGED <<composer, calls, tracker, lost, sees, subs, history>>

InFlight(c) == \E i \in DOMAIN calls : calls[i].chat = c
Sending(c) == \E i \in DOMAIN calls : calls[i].chat = c /\ calls[i].at = "send"

MutantResetKeepsTyping ==
    /\ lost
    /\ lost' = FALSE
    /\ subscribed' = {} /\ available' = FALSE
    /\ stale' = FALSE
    /\ harmed' = {c \in Chats : Sending(c) \/ (c \in harmed /\ InFlight(c)) \/ c \in sees}
    /\ UNCHANGED <<composer, calls, typing, up, sees, subs>>

\* The Disconnected event resets the tracker, which heals what was harmed
\* before, unless a call is still out or sent over the next connection already.
Reset ==
    /\ lost
    /\ lost' = FALSE
    /\ typing' = {} /\ subscribed' = {} /\ available' = FALSE
    /\ stale' = FALSE
    /\ harmed' = {c \in Chats : Sending(c) \/ (c \in harmed /\ InFlight(c)) \/ c \in sees}
    /\ UNCHANGED <<composer, calls, up, sees, subs>>

\* A logout and the restart that follows replace the client, without the event
\* that would reset the tracker.
Restart ==
    /\ up' = FALSE
    /\ stale' = TRUE
    /\ Forgotten
    /\ UNCHANGED <<composer, calls, tracker, lost, harmed>>

-----------------------------------------------------------------------------
ComposerInit ==
    /\ active = NoChat /\ idleTimer = FALSE
    /\ calls = <<>>
    /\ typing = {} /\ subscribed = {} /\ available = FALSE
    /\ up = TRUE /\ lost = FALSE
    /\ sees = {} /\ subs = {}
    /\ harmed = {} /\ stale = FALSE

User == Type \/ Blank \/ \E c \in Chats : SwitchChat(c)

Serve(i) ==
    \/ Lose(i) \/ Accept(i) \/ SendPresence(i)
    \/ CheckSubscribed(i) \/ Subscribe(i)
    \/ CheckTyping(i) \/ SendChatPresence(i)

Connection == Disconnect \/ Reconnect \/ Reset \/ Restart

ComposerNext == User \/ IdleTimeout \/ (\E i \in DOMAIN calls : Serve(i)) \/ Connection

\* Every call returns, by its timeout at the latest; so does the idle timer of
\* a user who pauses.
Fairness == WF_composerVars(Serve(1)) /\ WF_composerVars(IdleTimeout)
ComposerSpec == ComposerInit /\ [][ComposerNext]_composerVars
ComposerFairSpec == ComposerSpec /\ Fairness

-----------------------------------------------------------------------------
(* Properties.                                                             *)

Quiet(c) == up /\ ~lost /\ ~InFlight(c) /\ c \notin harmed

\* "The previous chat must not be left with a dangling typing indicator"
\* (window.go:859): once its calls are through, a chat's members are shown the
\* user typing only while the chat is open and its idle timer is armed, however
\* chats are switched, unless a call failed or overtook the opposite one.
NoDanglingTyping ==
    \A c \in sees : Quiet(c) => active = c /\ idleTimer

\* The tracker, which drops what it believes was already sent, believes what
\* WhatsApp has, across disconnects ("Subscriptions and chat states do not
\* survive a reconnect", session.go:228) but for a restarted session.
TrackerMatchesServer ==
    \A c \in Chats : Quiet(c) /\ ~stale => (c \in typing <=> c \in sees)

\* A contact the tracker will not subscribe to again is subscribed to, or a
\* call is just doing it.
SubscriptionIsReal ==
    up /\ ~lost /\ ~stale =>
        \A c \in subscribed \ subs :
            \E i \in DOMAIN calls : calls[i].chat = c /\ calls[i].at = "subscribing"

\* A chat shown as being typed in is not for ever: the composer's idle timer, a
\* switch or the lost connection withdraws it.
TypingIsWithdrawn ==
    \A c \in Chats : c \in sees ~> c \notin sees \/ c \in harmed
=============================================================================
