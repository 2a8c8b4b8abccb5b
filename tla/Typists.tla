------------------------------ MODULE Typists -------------------------------
(***************************************************************************)
(* What the header says of the others: presence nodes from WhatsApp,       *)
(* published by the daemon's onChatPresence and onPresence (apps/daemon/   *)
(* wa/presence.go), folded by the desktop's onPresence with its expiry     *)
(* timers and shown as the open chat's subtitle (apps/desktop/presence.go, *)
(* openChat in window.go).                                                 *)
(*                                                                         *)
(* In a direct chat the partner has the chat's own JID.  The feed is the   *)
(* event stream, which may drop an update (module EventStream).            *)
(***************************************************************************)
EXTENDS Presence, Integers, Sequences

CONSTANTS
    Members,  \* users in every group
    Buffer    \* updates between daemon and desktop (bound)

ASSUME JidsAssumption == Members \cap Chats = {}
ASSUME BufferAssumption == Buffer \in Nat

\* Who can be typing, and where.
Typers == {<<d, d>> : d \in Directs} \cup (Groups \X Members)

VARIABLES
    composing,  \* WhatsApp: who last said to be composing
    present,    \* WhatsApp: partners last said to be online
    feed,       \* updates on their way to the desktop
    missed,     \* history: the last update about these was dropped
    typists,    \* window.presence: who is shown typing
    online,     \* window.presence: partners shown online
    seen,       \* window.presence: partners with a last-seen time
    timers,     \* window.typingTimers
    subtitle    \* the header's text

outside == <<composing, present>>
desktop == <<active, typists, online, seen, timers, subtitle>>
vars == <<outside, feed, missed, desktop>>

\* PresenceUpdate: about a user in a chat.
Update == [who : Typers, typing : BOOLEAN, online : BOOLEAN, lastSeen : BOOLEAN]
Subtitles == {"", "typing", "online", "last seen"} \X SUBSET Typers

TypeOK ==
    /\ composing \subseteq Typers /\ present \subseteq Directs
    /\ feed \in Seq(Update) /\ Len(feed) <= Buffer
    /\ missed \subseteq Typers
    /\ active \in Chats \cup {NoChat}
    /\ typists \subseteq Typers /\ timers \subseteq Typers
    /\ online \subseteq Directs /\ seen \subseteq Directs
    /\ subtitle \in Subtitles

-----------------------------------------------------------------------------
(* The daemon.                                                             *)

Publish(update) ==
    \/ /\ Len(feed) < Buffer
       /\ feed' = Append(feed, update)
       /\ missed' = missed \ {update.who}
    \/ /\ missed' = missed \cup {update.who}
       /\ UNCHANGED feed

\* onChatPresence: composing (text or voice) or paused; Online stays unset.
OnChatPresence(who, isTyping) ==
    /\ composing' = With(composing, who, isTyping)
    /\ Publish([who |-> who, typing |-> isTyping, online |-> FALSE, lastSeen |-> FALSE])
    /\ UNCHANGED <<present, desktop>>

\* onPresence: a partner comes online or leaves, with or without a last-seen time.
OnPresence(d, isOnline, lastSeen) ==
    /\ isOnline => ~lastSeen
    /\ present' = With(present, d, isOnline)
    /\ Publish([who |-> <<d, d>>, typing |-> FALSE, online |-> isOnline,
                lastSeen |-> lastSeen])
    /\ UNCHANGED <<composing, desktop>>

-----------------------------------------------------------------------------
(* The desktop.                                                            *)

In(set, c) == {who \in set : who[1] = c}

\* subtitleFor; in a group it names its typist or says how many there are.
SubtitleFor(c, shown, on, last) ==
    IF In(shown, c) # {} THEN <<"typing", IF c \in Groups THEN In(shown, c) ELSE {}>>
    ELSE IF c \in on THEN <<"online", {}>>
    ELSE IF c \in last THEN <<"last seen", {}>>
    ELSE <<"", {}>>

Refresh == subtitle' = SubtitleFor(active', typists', online', seen')
RefreshIf(c) == IF c = active THEN Refresh ELSE UNCHANGED subtitle

ChatOf(update) == update.who[1]
IsPartner(update) == update.who[2] = ChatOf(update)

MutantOnlineForGood(update) ==
    IF IsPartner(update) /\ update.online THEN online \cup {ChatOf(update)} ELSE online

\* Whatever an update is about, one whose user is the chat sets the partner's
\* online state ...
OnlineAfter(update) ==
    IF IsPartner(update) THEN With(online, ChatOf(update), update.online) ELSE online

MutantOfflineClearsAll(update) ==
    IF IsPartner(update) /\ ~update.online THEN {} ELSE With(typists, update.who, update.typing)

\* ... and a partner who is not online has no typist.
TypistsAfter(update) ==
    LET folded == With(typists, update.who, update.typing)
    IN  IF IsPartner(update) /\ ~update.online THEN folded \ In(Typers, ChatOf(update))
                                               ELSE folded

\* onPresence.
OnUpdate ==
    LET update == Head(feed)
        c == ChatOf(update)
    IN  /\ feed # <<>>
        /\ feed' = Tail(feed)
        /\ timers' = IF update.typing THEN timers \cup {update.who} ELSE timers
        /\ online' = OnlineAfter(update)
        /\ seen' = IF IsPartner(update) /\ update.lastSeen THEN seen \cup {c} ELSE seen
        /\ typists' = TypistsAfter(update)
        /\ UNCHANGED <<outside, missed, active>>
        /\ RefreshIf(c)

MutantExpiryKeepsSubtitle(who) ==
    /\ who \in timers
    /\ timers' = timers \ {who}
    /\ typists' = typists \ {who}
    /\ UNCHANGED <<outside, feed, missed, active, online, seen, subtitle>>

MutantExpiryOfOpenChat(who) ==
    /\ who \in timers
    /\ timers' = timers \ {who}
    /\ typists' = IF who[1] = active THEN typists \ {who} ELSE typists
    /\ UNCHANGED <<outside, feed, missed, active, online, seen>>
    /\ RefreshIf(who[1])

\* The timer of scheduleTypingExpiry, which another update re-arms.
Expire(who) ==
    /\ who \in timers
    /\ timers' = timers \ {who}
    /\ typists' = typists \ {who}
    /\ UNCHANGED <<outside, feed, missed, active, online, seen>>
    /\ RefreshIf(who[1])

OpenChat(c) ==
    /\ active' = c
    /\ UNCHANGED <<outside, feed, missed, typists, online, seen, timers>>
    /\ Refresh

-----------------------------------------------------------------------------
Init ==
    /\ composing = {} /\ present = {}
    /\ feed = <<>> /\ missed = {}
    /\ active = NoChat
    /\ typists = {} /\ online = {} /\ seen = {}
    /\ timers = {} /\ subtitle = <<"", {}>>

Outside ==
    \/ \E who \in Typers, isTyping \in BOOLEAN : OnChatPresence(who, isTyping)
    \/ \E d \in Directs, isOnline, lastSeen \in BOOLEAN : OnPresence(d, isOnline, lastSeen)

Next ==
    \/ Outside
    \/ OnUpdate
    \/ \E who \in Typers : Expire(who)
    \/ \E c \in Chats : OpenChat(c)

\* Another composing update, which arms the timer anew.
Rearms(who) ==
    /\ feed # <<>> /\ Head(feed).who = who /\ Head(feed).typing
    /\ OnUpdate

\* A timer of the main loop fires unless it is armed anew for ever; nothing else
\* has to happen.
Spec == Init /\ [][Next]_vars
FairSpec == Spec /\ \A who \in Typers : WF_vars(Expire(who) \/ Rearms(who))

-----------------------------------------------------------------------------
(* Properties.                                                             *)

Settled(who) ==
    /\ who \notin missed
    /\ \A i \in DOMAIN feed : feed[i].who # who

\* The header is what the presence state of the open chat says, whichever chat
\* an update or an expired timer was about and however chats are switched.
SubtitleIsCurrent == subtitle = SubtitleFor(active, typists, online, seen)

\* Once its updates are handled, a group shows as typing exactly those who last
\* said so, until the timer gives them up.
GroupTypistsAreRight ==
    \A who \in Groups \X Members :
        Settled(who) => /\ who \in composing /\ who \in timers => who \in typists
                        /\ who \in typists => who \in composing

\* A partner shown online is online, once the updates are handled.
OnlineIsTrue == \A d \in online : Settled(<<d, d>>) => d \in present

\* Only one who says so again and again is shown typing for ever: one who vanished
\* while typing, or whose last update was dropped, fades, whatever comes of others
\* in the chat and whichever chats are opened.
IndicatorFades ==
    \A who \in Typers : []<>(who \notin typists) \/ []<><<Rearms(who)>>_vars
=============================================================================
