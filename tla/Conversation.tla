---------------------------- MODULE Conversation ----------------------------
(***************************************************************************)
(* The conversation open in the desktop window: the message list of        *)
(* apps/desktop/window.go and the find bar of apps/desktop/find.go,        *)
(* against GetMessages (apps/daemon/service/service.go, store/store.go)    *)
(* and the message events of the stream.                                   *)
(*                                                                         *)
(* Handlers of the window run one at a time on the GTK main loop.  A call  *)
(* of client.go runs on a goroutine: the daemon reads the table at some    *)
(* point, the callback is queued at some later one, in no order with other *)
(* calls or with the stream, whose events stay in order.  A message is its *)
(* id; what message_updated changes of a shown row is module Delivery's.   *)
(***************************************************************************)
EXTENDS Integers, FiniteSets, Sequences, Functions

CONSTANTS
    Msgs,        \* message ids, a set of naturals
    Chats,
    NoChat,      \* no conversation is open
    ChatOf,      \* the chat of each message
    Time,        \* its timestamp, in seconds: two messages may share one
    PageSize,    \* messages of a page (maxPageSize, 200)
    FindLimit,   \* findPageLimit (10 in the code)
    Calls,       \* calls that may be in flight at once (bound)
    MaxEvents    \* message events on their way at once (bound)

ASSUME MsgsAssumption == Msgs \subseteq Nat /\ IsFiniteSet(Msgs)
ASSUME ChatsAssumption == NoChat \notin Chats
ASSUME ChatOfAssumption == ChatOf \in [Msgs -> Chats]
ASSUME TimeAssumption == Time \in [Msgs -> Nat \ {0}]
ASSUME PageSizeAssumption == PageSize \in Nat \ {0}
ASSUME FindLimitAssumption == FindLimit \in Nat
ASSUME MaxEventsAssumption == MaxEvents \in Nat

VARIABLES
    row,           \* messages: "none" yet, "stored" or "deleted" (for good:
                   \* that it may be delivered again is left out)
    publishing,    \* events of a change already stored, not yet published
    feed,          \* published events the window has not handled
    active,        \* w.activeChat
    shown,         \* w.messages
    hasOlder,      \* w.hasOlder
    loadingOlder,  \* w.loadingOlder
    matches,       \* w.findMatches
    call,          \* the calls in flight
    disturbed      \* history: something named below has come between the
                   \* view and the table since the chat was opened

tableVars == <<row, publishing>>
viewVars == <<active, shown, hasOlder, loadingOlder, matches>>
vars == <<tableVars, feed, viewVars, call, disturbed>>

Events == [type : {"new", "deleted"}, msg : Msgs]
Phases == {"free", "sent", "served", "failed"}

\* A call in flight: "open" from openChat, "older" from loadOlderMessages,
\* "search" from runFind, "find" from scrollToMessage and "retry" while that
\* waits for the next frame.  "overtaken": history, the page no longer fits.
CallRecord == [kind : {"open", "older", "search", "find", "retry"}, phase : Phases,
               chat : Chats \cup {NoChat}, before : Nat, page : Seq(Msgs),
               target : Nat, budget : 0..FindLimit, overtaken : BOOLEAN]

Call(kind, phase, chat, before, target, budget) ==
    [kind |-> kind, phase |-> phase, chat |-> chat, before |-> before, page |-> <<>>,
     target |-> target, budget |-> budget, overtaken |-> FALSE]
Free == Call("open", "free", NoChat, 0, 0, 0)

TypeOK ==
    /\ row \in [Msgs -> {"none", "stored", "deleted"}]
    /\ publishing \subseteq Events
    /\ feed \in Seq(Events)
    /\ active \in Chats \cup {NoChat}
    /\ shown \in Seq(Msgs)
    /\ hasOlder \in BOOLEAN /\ loadingOlder \in BOOLEAN
    /\ matches \subseteq Msgs
    /\ call \in [Calls -> CallRecord]
    /\ disturbed \in BOOLEAN

stored == {m \in Msgs : row[m] = "stored"}
InFlight(c, kind) == call[c].phase # "free" /\ call[c].kind = kind
Release(c) == call' = [call EXCEPT ![c] = Free]
Shows(m) == m \in Range(shown)

Older(chat, before) == {m \in stored : ChatOf[m] = chat /\ (before = 0 \/ Time[m] < before)}

Chronological(seq) ==
    \A i, j \in DOMAIN seq : i < j => seq[i] # seq[j] /\ Time[seq[i]] <= Time[seq[j]]

\* ListMessages: the newest PageSize rows before a timestamp (0: of all), in
\* chronological order.  SQL leaves open how rows of one second are ordered.
Pages(chat, before) ==
    LET rows == Older(chat, before)
        size == IF Cardinality(rows) < PageSize THEN Cardinality(rows) ELSE PageSize
    IN  {page \in [1..size -> rows] :
            /\ Chronological(page)
            /\ \A m \in rows \ Range(page), k \in Range(page) : Time[m] <= Time[k]}

-----------------------------------------------------------------------------
(* The daemon: the table changes, then the event is published.             *)

EventsUnderWay == Cardinality(publishing) + Len(feed)

\* persistMessage and the RPCs that send; a redelivery publishes again.
Arrive(m) ==
    /\ EventsUnderWay < MaxEvents
    /\ row[m] # "deleted"
    /\ row' = [row EXCEPT ![m] = "stored"]
    /\ publishing' = publishing \cup {[type |-> "new", msg |-> m]}
    /\ UNCHANGED <<feed, viewVars, call, disturbed>>

\* A history chunk stores messages and publishes the chat only.
SyncHistory(m) ==
    /\ row[m] = "none"
    /\ row' = [row EXCEPT ![m] = "stored"]
    /\ call' = [c \in Calls |-> [call[c] EXCEPT !.overtaken = @ \/ call[c].phase = "served"]]
    /\ disturbed' = TRUE
    /\ UNCHANGED <<publishing, feed, viewVars>>

\* DeleteMessage, onRevoke, onDeleteForMe.
Delete(m) ==
    /\ EventsUnderWay < MaxEvents
    /\ row[m] = "stored"
    /\ row' = [row EXCEPT ![m] = "deleted"]
    /\ publishing' = publishing \cup {[type |-> "deleted", msg |-> m]}
    /\ UNCHANGED <<feed, viewVars, call, disturbed>>

\* The goroutines publish in any order.
Publish(e) ==
    /\ e \in publishing
    /\ publishing' = publishing \ {e}
    /\ feed' = Append(feed, e)
    /\ UNCHANGED <<row, viewVars, call, disturbed>>

\* The stream is cut, or the broker's channel is full: nothing reloads the
\* conversation.
LoseEvents ==
    /\ feed # <<>>
    /\ feed' = <<>>
    /\ call' = [c \in Calls |-> [call[c] EXCEPT !.overtaken = @ \/ call[c].phase = "served"]]
    /\ disturbed' = TRUE
    /\ UNCHANGED <<tableVars, viewVars>>

\* GetMessages and SearchMessages read the table, or fail.  A query matches one
\* message or none (bound).
Serve(c) ==
    /\ call[c].phase = "sent"
    /\ call[c].kind # "retry"
    /\ \E page \in IF call[c].kind = "search"
                    THEN {<<>>} \cup {<<m>> : m \in Older(call[c].chat, 0)}
                    ELSE Pages(call[c].chat, call[c].before) :
           call' = [call EXCEPT ![c] = [@ EXCEPT !.phase = "served", !.page = page]]
    /\ UNCHANGED <<tableVars, feed, viewVars, disturbed>>

Fail(c) ==
    /\ call[c].phase = "sent"
    /\ call[c].kind # "retry"
    /\ call' = [call EXCEPT ![c].phase = "failed"]
    /\ UNCHANGED <<tableVars, feed, viewVars, disturbed>>

-----------------------------------------------------------------------------
(* Events reach the window.                                                *)

\* The window handles the event of a change that a page read does not contain,
\* or shows a message that belongs in front of the page boundary.
Overtakes(e, c) ==
    /\ call[c].phase # "free" /\ call[c].chat = ChatOf[e.msg]
    /\ \/ e.type = "new" /\ Time[e.msg] < call[c].before
       \/ /\ call[c].phase = "served"
          /\ \/ e.type = "new" /\ call[c].kind = "open" /\ e.msg \notin Range(call[c].page)
             \/ e.type = "deleted" /\ e.msg \in Range(call[c].page)

UnderWay(type, m) == [type |-> type, msg |-> m] \in publishing \cup Range(feed)

\* The event of an arrival is handled after its deletion, or after a newer
\* message of the chat.
Late(m) ==
    \/ row[m] = "deleted" /\ ~UnderWay("deleted", m)
    \/ \E k \in Msgs : /\ ChatOf[k] = ChatOf[m] /\ Time[k] > Time[m]
                       /\ Shows(k) \/ (row[k] = "stored" /\ ~UnderWay("new", k))

MutantMessageTwice(m) ==
    IF ChatOf[m] # active
    THEN UNCHANGED <<shown, disturbed>>
    ELSE /\ shown' = Append(shown, m)
         /\ disturbed' = (disturbed \/ Late(m))

\* onMessage: a message of the open chat is appended unless it is shown.
OnMessage(m) ==
    IF ChatOf[m] # active \/ Shows(m)
    THEN UNCHANGED <<shown, disturbed>>
    ELSE /\ shown' = Append(shown, m)
         /\ disturbed' = (disturbed \/ Late(m))

\* onMessageDeleted: findMessage walks from the newest row, and one row goes.
OnMessageDeleted(m) ==
    /\ IF ChatOf[m] # active \/ ~Shows(m)
       THEN UNCHANGED shown
       ELSE \E i \in DOMAIN shown :
               /\ shown[i] = m /\ \A j \in DOMAIN shown : j > i => shown[j] # m
               /\ shown' = SubSeq(shown, 1, i - 1) \o SubSeq(shown, i + 1, Len(shown))
    /\ UNCHANGED disturbed

OnEvent ==
    /\ feed # <<>>
    /\ feed' = Tail(feed)
    /\ LET e == Head(feed)
       IN  /\ IF e.type = "new" THEN OnMessage(e.msg) ELSE OnMessageDeleted(e.msg)
           /\ call' = [c \in Calls |-> [call[c] EXCEPT !.overtaken = @ \/ Overtakes(e, c)]]
    /\ UNCHANGED <<tableVars, active, hasOlder, loadingOlder, matches>>

-----------------------------------------------------------------------------
(* Opening a chat and paging back.                                         *)

\* The pages of these kinds in flight no longer join the view that c changes.
Overtake(c, kinds) ==
    [d \in Calls |-> IF d # c /\ \E kind \in kinds : InFlight(d, kind)
                    THEN [call[d] EXCEPT !.overtaken = TRUE] ELSE call[d]]

MutantOpenKeepsHasOlder(c, chat) ==
    /\ call[c].phase = "free"
    /\ active' = chat /\ shown' = <<>> /\ matches' = {} /\ loadingOlder' = FALSE
    /\ call' = [Overtake(c, {"older", "find"}) EXCEPT ![c] = Call("open", "sent", chat, 0, 0, 0)]
    /\ disturbed' = TRUE
    /\ UNCHANGED <<tableVars, feed, hasOlder>>

\* openChat, also of the chat that is open: the list is emptied, the find bar
\* closed, and whatever is in flight goes on.
OpenChat(c, chat) ==
    /\ call[c].phase = "free"
    /\ active' = chat
    /\ shown' = <<>>
    /\ matches' = {}
    /\ hasOlder' = TRUE
    /\ loadingOlder' = FALSE
    /\ call' = [Overtake(c, {"older", "find"}) EXCEPT ![c] = Call("open", "sent", chat, 0, 0, 0)]
    /\ disturbed' = TRUE
    /\ UNCHANGED <<tableVars, feed>>

\* The reply replaces the list if its chat is still open.
OnOpenReply(c) ==
    /\ InFlight(c, "open") /\ call[c].phase \in {"served", "failed"}
    /\ IF call[c].phase = "failed" \/ call[c].chat # active
       THEN UNCHANGED <<shown, disturbed>>
       ELSE /\ shown' = call[c].page
            /\ disturbed' = call[c].overtaken
    /\ call' = [Overtake(c, {"older", "find"}) EXCEPT ![c] = Free]
    /\ UNCHANGED <<tableVars, feed, active, hasOlder, loadingOlder, matches>>

Ask(c, kind, target, budget) ==
    call' = [call EXCEPT ![c] = Call(kind, "sent", active, Time[Head(shown)], target, budget)]

\* loadOlderMessages, when the view is scrolled to its top.
LoadOlder(c) ==
    /\ call[c].phase = "free"
    /\ active # NoChat /\ shown # <<>> /\ ~loadingOlder /\ hasOlder
    /\ loadingOlder' = TRUE
    /\ Ask(c, "older", 0, 0)
    /\ UNCHANGED <<tableVars, feed, active, shown, hasOlder, matches, disturbed>>

\* A page of older messages is put in front; an empty one, which a failed call
\* and another chat's bring too, ends the paging.
Prepend(c) ==
    LET fits == call[c].chat = active /\ call[c].page # <<>>
    IN  /\ shown' = IF fits THEN call[c].page \o shown ELSE shown
        /\ hasOlder' = (hasOlder /\ call[c].page # <<>>)
        /\ disturbed' = \/ disturbed
                        \/ fits /\ call[c].overtaken
                        \/ call[c].page = <<>> /\ (call[c].chat # active \/ call[c].phase = "failed"
                                                     \/ call[c].overtaken)

MutantOlderKeepsLoading(c) ==
    /\ InFlight(c, "older") /\ call[c].phase \in {"served", "failed"}
    /\ Prepend(c)
    /\ UNCHANGED loadingOlder
    /\ call' = [Overtake(c, {"open", "older", "find"}) EXCEPT ![c] = Free]
    /\ UNCHANGED <<tableVars, feed, active, matches>>

OnOlderReply(c) ==
    /\ InFlight(c, "older") /\ call[c].phase \in {"served", "failed"}
    /\ Prepend(c)
    /\ loadingOlder' = FALSE
    /\ call' = [Overtake(c, {"open", "older", "find"}) EXCEPT ![c] = Free]
    /\ UNCHANGED <<tableVars, feed, active, matches>>

-----------------------------------------------------------------------------
(* Find.                                                                   *)

\* scrollToMessage: done if the row is there, else a page further back.
ScrollTo(c, target, budget) ==
    IF Shows(target) \/ budget = 0 \/ shown = <<>> THEN Release(c)
    ELSE Ask(c, "find", target, budget)

\* runFind with a query.
RunFind(c) ==
    /\ call[c].phase = "free"
    /\ active # NoChat
    /\ call' = [call EXCEPT ![c] = Call("search", "sent", active, 0, 0, 0)]
    /\ UNCHANGED <<tableVars, feed, viewVars, disturbed>>

\* runFind without one, and clearFind.
ClearFind ==
    /\ matches # {}
    /\ matches' = {}
    /\ UNCHANGED <<tableVars, feed, active, shown, hasOlder, loadingOlder, call, disturbed>>

\* Its reply counts only while its chat is open and its query in the entry.
OnSearchReply(c) ==
    /\ InFlight(c, "search") /\ call[c].phase = "served"
    /\ call[c].chat = active
    /\ matches' = Range(call[c].page)
    /\ IF call[c].page = <<>> THEN Release(c) ELSE ScrollTo(c, call[c].page[Len(call[c].page)], FindLimit)
    /\ UNCHANGED <<tableVars, feed, active, shown, hasOlder, loadingOlder, disturbed>>

DropSearchReply(c) ==
    /\ InFlight(c, "search") /\ call[c].phase \in {"served", "failed"}
    /\ Release(c)
    /\ UNCHANGED <<tableVars, feed, viewVars, disturbed>>

\* stepMatch.
StepMatch(c, m) ==
    /\ call[c].phase = "free"
    /\ m \in matches
    /\ ScrollTo(c, m, FindLimit)
    /\ UNCHANGED <<tableVars, feed, viewVars, disturbed>>

MutantFindReplyAnyChat(c) ==
    /\ InFlight(c, "find") /\ call[c].phase \in {"served", "failed"}
    /\ shown' = call[c].page \o shown
    /\ Release(c)
    /\ UNCHANGED <<tableVars, feed, active, hasOlder, loadingOlder, matches, disturbed>>

\* The walk goes on once the page has been laid out.
OnFindReply(c) ==
    /\ InFlight(c, "find") /\ call[c].phase \in {"served", "failed"}
    /\ Prepend(c)
    /\ call' = [Overtake(c, {"open", "older", "find"}) EXCEPT ![c] =
                  IF call[c].chat = active /\ call[c].page # <<>>
                  THEN Call("retry", "sent", NoChat, 0, call[c].target, call[c].budget - 1)
                  ELSE Free]
    /\ UNCHANGED <<tableVars, feed, active, loadingOlder, matches>>

\* ... in whatever chat is open by then.
Retry(c) ==
    /\ InFlight(c, "retry")
    /\ ScrollTo(c, call[c].target, call[c].budget)
    /\ UNCHANGED <<tableVars, feed, viewVars, disturbed>>

-----------------------------------------------------------------------------
Init ==
    /\ row = [m \in Msgs |-> "none"] /\ publishing = {} /\ feed = <<>>
    /\ active = NoChat /\ shown = <<>>
    /\ hasOlder = FALSE /\ loadingOlder = FALSE
    /\ matches = {}
    /\ call = [c \in Calls |-> Free]
    /\ disturbed = FALSE

DaemonNext ==
    \/ \E m \in Msgs : Arrive(m) \/ SyncHistory(m) \/ Delete(m)
    \/ \E e \in publishing : Publish(e)
    \/ \E c \in Calls : Serve(c) \/ Fail(c)

UserNext(c) ==
    \/ \E chat \in Chats : OpenChat(c, chat)
    \/ LoadOlder(c) \/ RunFind(c)
    \/ \E m \in matches : StepMatch(c, m)

ReplyNext(c) ==
    \/ OnOpenReply(c) \/ OnOlderReply(c)
    \/ OnSearchReply(c) \/ DropSearchReply(c)
    \/ OnFindReply(c) \/ Retry(c)

Next ==
    \/ DaemonNext
    \/ LoseEvents
    \/ OnEvent
    \/ ClearFind
    \/ \E c \in Calls : UserNext(c) \/ ReplyNext(c)

Spec == Init /\ [][Next]_vars

-----------------------------------------------------------------------------
(* Properties.                                                             *)

\* The open conversation never shows a message of another one, however many
\* chats are opened while replies of older ones, pages and find walks are in
\* flight, and its matches are its own ("A slower reply for an older query, or
\* another chat, must not win", find.go:69).
ShownBelongsToActive ==
    /\ \A m \in Range(shown) : ChatOf[m] = active
    /\ \A m \in matches : ChatOf[m] = active

\* Paging is never blocked for good: while loadingOlder refuses another page,
\* the call whose reply clears it is in flight.
PagingNotStuck == loadingOlder => \E c \in Calls : InFlight(c, "older")

Settled == active # NoChat /\ publishing = {} /\ feed = <<>>

SharesItsSecond(m) == \E k \in Msgs \ {m} : Time[k] = Time[m]

\* Once the events are handled the view is the table from its oldest row on: no
\* message twice, none out of order, none that was deleted, none missing
\* (rows that share a second with another apart, which a page boundary may
\* split).  It takes that since the chat was opened no reply was overtaken by an
\* event or by another page, no event was lost or handled late, and no history
\* chunk arrived.
SettledViewIsExact ==
    Settled /\ shown # <<>> /\ ~disturbed =>
        /\ Chronological(shown)
        /\ Range(shown) \subseteq stored
        /\ \A m \in stored : ChatOf[m] = active /\ Time[m] > Time[Head(shown)]
                               => Shows(m) \/ SharesItsSecond(m)

\* Under the same conditions a view that offers no older messages shows all of
\* the chat's, whatever was deleted from its front since.
OlderIsOffered ==
    Settled /\ ~disturbed /\ ~hasOlder =>
        \A m \in stored : ChatOf[m] = active => Shows(m) \/ SharesItsSecond(m)
=============================================================================
