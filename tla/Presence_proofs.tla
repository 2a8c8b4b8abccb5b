--------------------------- MODULE Presence_proofs ---------------------------
(***************************************************************************)
(* Proofs about both halves of presence, for any chats.                    *)
(*                                                                         *)
(* Typists, for any members and buffer: the header is current, group       *)
(* typists and online partners are right once their updates are handled,   *)
(* and every indicator shown has a timer.                                  *)
(*                                                                         *)
(* Composer, for any number of calls in flight: no indicator dangles, the  *)
(* tracker has what WhatsApp has, and a marked contact is subscribed to.   *)
(***************************************************************************)
EXTENDS Typists, Composer, SequenceTheorems, TLAPS

-----------------------------------------------------------------------------
(* The presence of others.                                                 *)

GroupTypers == Groups \X Members

\* Who an update of a direct chat or of a group can be about.
LEMMA TypersAreApart ==
    ASSUME NEW who \in Typers
    PROVE  /\ who[1] \in Chats
           /\ who \in GroupTypers => who[1] \in Groups /\ who[1] \notin Directs
                                     /\ who[2] # who[1]
           /\ who[1] \in Directs => who = <<who[1], who[1]>>
    BY JidsAssumption, ChatsAssumption DEF Typers, GroupTypers, Chats

-----------------------------------------------------------------------------
\* The desktop's own part needs no knowledge of the feed.
WindowOK ==
    /\ typists \subseteq timers
    /\ subtitle = SubtitleFor(active, typists, online, seen)

LEMMA InitWindow == Init => WindowOK
    <1> SUFFICES ASSUME Init PROVE WindowOK
        OBVIOUS
    <1>1. In(typists, active) = {}
        BY DEF Init, In
    <1> QED
        BY <1>1 DEF Init, WindowOK, SubtitleFor

\* A refreshed subtitle is the open chat's, and one that is left alone shows
\* nothing that a step about another chat changed.
LEMMA OtherChatsLine ==
    ASSUME NEW c, active # c,
           NEW T, NEW U, \A who : who[1] # c => (who \in T <=> who \in U),
           NEW O, NEW P, O \ {c} = P \ {c},
           NEW S, NEW R, S \ {c} = R \ {c}
    PROVE  SubtitleFor(active, T, O, S) = SubtitleFor(active, U, P, R)
    <1>1. In(T, active) = In(U, active)
        BY DEF In
    <1>2. active \in O <=> active \in P
        OBVIOUS
    <1>3. active \in S <=> active \in R
        OBVIOUS
    <1> QED
        BY <1>1, <1>2, <1>3 DEF SubtitleFor

LEMMA NextWindow == WindowOK /\ [Next]_vars => WindowOK'
    <1> SUFFICES ASSUME WindowOK, [Next]_vars PROVE WindowOK'
        OBVIOUS
    <1> USE DEF WindowOK
    <1>1. ASSUME UNCHANGED desktop PROVE WindowOK'
        BY <1>1 DEF desktop
    <1>2. CASE Outside
        BY <1>2, <1>1 DEF Outside, OnChatPresence, OnPresence
    <1>3. CASE OnUpdate
        <2> DEFINE update == Head(feed)
                   c == ChatOf(update)
        <2>1. typists' \subseteq timers'
            BY <1>3 DEF OnUpdate, TypistsAfter, With
        <2>2. CASE c = active
            BY <1>3, <2>1, <2>2 DEF OnUpdate, RefreshIf, Refresh
        <2>3. CASE c # active
            <3>1. \A who : who[1] # c => (who \in typists' <=> who \in typists)
                BY <1>3 DEF OnUpdate, TypistsAfter, With, In, ChatOf
            <3>2. online' \ {c} = online \ {c}
                BY <1>3 DEF OnUpdate, OnlineAfter, With
            <3>3. seen' \ {c} = seen \ {c}
                BY <1>3 DEF OnUpdate
            <3>4. SubtitleFor(active, typists', online', seen')
                      = SubtitleFor(active, typists, online, seen)
                <4> HIDE DEF c
                <4> QED
                    BY <2>3, <3>1, <3>2, <3>3, OtherChatsLine
            <3>5. active' = active /\ subtitle' = subtitle
                BY <1>3, <2>3 DEF OnUpdate, RefreshIf
            <3> QED
                BY <2>1, <3>4, <3>5
        <2> QED
            BY <2>2, <2>3
    <1>4. ASSUME NEW who \in Typers, Expire(who) PROVE WindowOK'
        <2>1. typists' \subseteq timers'
            BY <1>4 DEF Expire
        <2>2. CASE who[1] = active
            BY <1>4, <2>1, <2>2 DEF Expire, RefreshIf, Refresh
        <2>3. CASE who[1] # active
            <3>1. \A w : w[1] # who[1] => (w \in typists' <=> w \in typists)
                BY <1>4 DEF Expire
            <3>2. SubtitleFor(active, typists', online, seen)
                      = SubtitleFor(active, typists, online, seen)
                BY <2>3, <3>1, OtherChatsLine
            <3> QED
                BY <1>4, <2>1, <2>3, <3>2 DEF Expire, RefreshIf
        <2> QED
            BY <2>2, <2>3
    <1>5. ASSUME NEW c \in Chats, OpenChat(c) PROVE WindowOK'
        BY <1>5 DEF OpenChat, Refresh
    <1>6. CASE UNCHANGED vars
        BY <1>6, <1>1 DEF vars, desktop
    <1> QED
        BY <1>2, <1>3, <1>4, <1>5, <1>6 DEF Next

\* The header always says what the presence state of the open chat says.
THEOREM HeaderIsCurrent == Spec => []SubtitleIsCurrent
    <1>1. WindowOK => SubtitleIsCurrent
        BY DEF WindowOK, SubtitleIsCurrent
    <1> QED
        BY InitWindow, NextWindow, <1>1, PTL DEF Spec

\* Every indicator shown has a timer that will take it away, the safety half of
\* IndicatorFades.
THEOREM EveryTypistHasTimer == Spec => [](typists \subseteq timers)
    <1>1. WindowOK => typists \subseteq timers
        BY DEF WindowOK
    <1> QED
        BY InitWindow, NextWindow, <1>1, PTL DEF Spec

-----------------------------------------------------------------------------
(* The updates of a user carry what the user last said: the last of them in *)
(* the feed, unless one was dropped after it.                              *)

LastOf(i, who) ==
    feed[i].who = who /\ \A j \in DOMAIN feed : j > i => feed[j].who # who

SaysWhatWasSaid(update) ==
    /\ update.who \in GroupTypers => (update.typing <=> update.who \in composing)
    /\ ChatOf(update) \in Directs /\ update.online => ChatOf(update) \in present

FeedIsRight ==
    \A who \in Typers \ missed, i \in DOMAIN feed :
        LastOf(i, who) => SaysWhatWasSaid(feed[i])

IInv == TypeOK /\ FeedIsRight /\ GroupTypistsAreRight /\ OnlineIsTrue

LEMMA InitIInv == Init => IInv
    <1> SUFFICES ASSUME Init PROVE IInv
        OBVIOUS
    <1>0. /\ feed = <<>> /\ Len(feed) = 0 /\ DOMAIN feed = {}
          /\ feed \in Seq(Update)
        <2>1. feed = <<>>
            BY DEF Init
        <2>2. <<>> \in Seq(Update) /\ Len(<<>>) = 0
            OBVIOUS
        <2>3. DOMAIN feed = 1..0
            BY <2>1, <2>2
        <2> QED
            BY <2>1, <2>2, <2>3
    <1>1. TypeOK
        <2>1. subtitle \in Subtitles
            BY DEF Init, Subtitles
        <2>2. Len(feed) <= Buffer
            BY <1>0, BufferAssumption
        <2> QED
            BY <1>0, <2>1, <2>2 DEF Init, TypeOK
    <1>2. FeedIsRight
        BY <1>0 DEF FeedIsRight
    <1>3. GroupTypistsAreRight /\ OnlineIsTrue
        BY DEF Init, GroupTypistsAreRight, OnlineIsTrue
    <1> QED
        BY <1>1, <1>2, <1>3 DEF IInv

LEMMA SubtitleType ==
    ASSUME NEW c, NEW T \in SUBSET Typers, NEW O, NEW S
    PROVE  SubtitleFor(c, T, O, S) \in Subtitles
    <1>1. In(T, c) \in SUBSET Typers
        BY DEF In
    <1> QED
        BY <1>1 DEF SubtitleFor, Subtitles

\* Publishing keeps the feed well typed.
LEMMA PublishType ==
    ASSUME TypeOK, NEW update \in Update, Publish(update)
    PROVE  /\ feed' \in Seq(Update) /\ Len(feed') <= Buffer
           /\ missed' \subseteq Typers
    <1>1. update.who \in Typers
        BY DEF Update
    <1>2. CASE Len(feed) < Buffer /\ feed' = Append(feed, update)
        <2>1. feed' \in Seq(Update) /\ Len(feed') = Len(feed) + 1 /\ Len(feed) \in Nat
            BY <1>2 DEF TypeOK
        <2> QED
            BY <1>1, <1>2, <2>1, BufferAssumption DEF TypeOK, Publish
    <1>3. CASE feed' = feed
        BY <1>1, <1>3 DEF TypeOK, Publish
    <1> QED
        BY <1>2, <1>3 DEF Publish

LEMMA NextType == TypeOK /\ [Next]_vars => TypeOK'
    <1> SUFFICES ASSUME TypeOK, [Next]_vars PROVE TypeOK'
        OBVIOUS
    <1> USE DEF TypeOK
    <1>1. ASSUME NEW who \in Typers, NEW isTyping \in BOOLEAN, OnChatPresence(who, isTyping)
          PROVE  TypeOK'
        <2> DEFINE update == [who |-> who, typing |-> isTyping, online |-> FALSE,
                              lastSeen |-> FALSE]
        <2>1. update \in Update /\ Publish(update)
            BY <1>1 DEF OnChatPresence, Update
        <2>2. composing' \subseteq Typers
            BY <1>1 DEF OnChatPresence, With
        <2>3. feed' \in Seq(Update) /\ Len(feed') <= Buffer /\ missed' \subseteq Typers
            BY <2>1, PublishType
        <2> QED
            BY <1>1, <2>2, <2>3 DEF OnChatPresence, desktop
    <1>2. ASSUME NEW d \in Directs, NEW isOnline \in BOOLEAN, NEW lastSeen \in BOOLEAN,
                 OnPresence(d, isOnline, lastSeen)
          PROVE  TypeOK'
        <2> DEFINE update == [who |-> <<d, d>>, typing |-> FALSE, online |-> isOnline,
                              lastSeen |-> lastSeen]
        <2>1. update \in Update /\ Publish(update)
            BY <1>2 DEF OnPresence, Update, Typers
        <2>2. present' \subseteq Directs
            BY <1>2 DEF OnPresence, With
        <2>3. feed' \in Seq(Update) /\ Len(feed') <= Buffer /\ missed' \subseteq Typers
            BY <2>1, PublishType
        <2> QED
            BY <1>2, <2>2, <2>3 DEF OnPresence, desktop
    <1>3. CASE OnUpdate
        <2> DEFINE update == Head(feed)
        <2>1. update \in Update /\ feed' \in Seq(Update) /\ Len(feed') <= Len(feed)
            BY <1>3 DEF OnUpdate
        <2>2. update.who \in Typers /\ ChatOf(update) \in Chats
            BY <2>1, TypersAreApart DEF Update, ChatOf
        <2>3. IsPartner(update) => ChatOf(update) \in Directs
            BY <2>2, JidsAssumption, ChatsAssumption DEF IsPartner, ChatOf, Typers, Chats
        <2>4. typists' \subseteq Typers /\ timers' \subseteq Typers
            BY <1>3, <2>2 DEF OnUpdate, TypistsAfter, With
        <2>5. online' \subseteq Directs /\ seen' \subseteq Directs
            BY <1>3, <2>3 DEF OnUpdate, OnlineAfter, With
        <2>6. subtitle' \in Subtitles
            BY <1>3, <2>4, SubtitleType DEF OnUpdate, RefreshIf, Refresh
        <2>7. Len(feed') <= Buffer
            BY <2>1, BufferAssumption
        <2> QED
            BY <1>3, <2>1, <2>4, <2>5, <2>6, <2>7 DEF OnUpdate, outside
    <1>4. ASSUME NEW who \in Typers, Expire(who) PROVE TypeOK'
        <2>1. typists' \subseteq Typers /\ timers' \subseteq Typers
            BY <1>4 DEF Expire
        <2>2. subtitle' \in Subtitles
            BY <1>4, <2>1, SubtitleType DEF Expire, RefreshIf, Refresh
        <2> QED
            BY <1>4, <2>1, <2>2 DEF Expire, outside
    <1>5. ASSUME NEW c \in Chats, OpenChat(c) PROVE TypeOK'
        <2>1. subtitle' \in Subtitles
            BY <1>5, SubtitleType DEF OpenChat, Refresh
        <2> QED
            BY <1>5, <2>1 DEF OpenChat, outside
    <1>6. CASE UNCHANGED vars
        BY <1>6 DEF vars, outside, desktop
    <1> QED
        BY <1>1, <1>2, <1>3, <1>4, <1>5, <1>6 DEF Next, Outside

\* After an update about a user is published the last one of every user says
\* what was said, and the user's own is not handled yet.
LEMMA PublishRight ==
    ASSUME IInv, NEW update \in Update, Publish(update),
           (SaysWhatWasSaid(update))',
           \A u \in Update : u.who # update.who /\ SaysWhatWasSaid(u)
                                 => (SaysWhatWasSaid(u))'
    PROVE  /\ FeedIsRight'
           /\ (~Settled(update.who))'
           /\ \A who \in Typers : who # update.who => (Settled(who)' => Settled(who))
    <1> USE DEF IInv, TypeOK
    <1>0. update.who \in Typers
        BY DEF Update
    <1>1. CASE feed' = Append(feed, update) /\ missed' = missed \ {update.who}
        <2>1. /\ DOMAIN feed' = 1..(Len(feed) + 1)
              /\ DOMAIN feed = 1..Len(feed)
              /\ feed'[Len(feed) + 1] = update
              /\ \A i \in DOMAIN feed : feed'[i] = feed[i] /\ feed[i] \in Update
            BY <1>1
        <2>2. (~Settled(update.who))'
            BY <2>1 DEF Settled
        <2>3. ASSUME NEW who \in Typers, who # update.who, Settled(who)'
              PROVE  Settled(who)
            BY <1>1, <2>1, <2>3 DEF Settled
        <2>4. ASSUME NEW who \in Typers \ missed', NEW i \in DOMAIN feed', LastOf(i, who)'
              PROVE  SaysWhatWasSaid(feed[i])'
            <3>1. CASE i = Len(feed) + 1
                BY <2>1, <3>1
            <3>2. CASE i # Len(feed) + 1
                <4>1. i \in DOMAIN feed /\ feed'[i] = feed[i] /\ feed[i] \in Update
                    BY <2>1, <3>2
                <4>2. who # update.who
                    BY <2>1, <2>4, <4>1 DEF LastOf
                <4>3. LastOf(i, who) /\ who \notin missed
                    BY <1>1, <2>1, <2>4, <4>1, <4>2 DEF LastOf
                <4>4. SaysWhatWasSaid(feed[i]) /\ feed[i].who # update.who
                    BY <4>1, <4>2, <4>3 DEF FeedIsRight, LastOf
                <4>5. \A u \in Update : u = feed[i] => (SaysWhatWasSaid(u))'
                    BY <4>4
                <4> QED
                    BY <4>1, <4>5 DEF SaysWhatWasSaid, ChatOf
            <3> QED
                BY <3>1, <3>2
        <2> QED
            BY <2>2, <2>3, <2>4 DEF FeedIsRight
    <1>2. CASE missed' = missed \cup {update.who} /\ feed' = feed
        <2>1. (~Settled(update.who))'
            BY <1>2 DEF Settled
        <2>2. ASSUME NEW who \in Typers, who # update.who, Settled(who)'
              PROVE  Settled(who)
            BY <1>2, <2>2 DEF Settled
        <2>3. ASSUME NEW who \in Typers \ missed', NEW i \in DOMAIN feed', LastOf(i, who)'
              PROVE  SaysWhatWasSaid(feed[i])'
            <3>1. who # update.who /\ who \notin missed /\ i \in DOMAIN feed
                BY <1>2, <2>3
            <3>2. LastOf(i, who) /\ feed[i] \in Update
                BY <1>2, <2>3, <3>1 DEF LastOf
            <3>3. SaysWhatWasSaid(feed[i]) /\ feed[i].who # update.who
                BY <3>1, <3>2 DEF FeedIsRight, LastOf
            <3>4. \A u \in Update : u = feed[i] => (SaysWhatWasSaid(u))'
                BY <3>2, <3>3
            <3> QED
                BY <1>2, <3>2, <3>4 DEF SaysWhatWasSaid, ChatOf
        <2> QED
            BY <2>1, <2>2, <2>3 DEF FeedIsRight
    <1> QED
        BY <1>1, <1>2 DEF Publish

\* The head of the feed is what was last said of a user nothing else is on its
\* way about.
LEMMA HandlingRight ==
    ASSUME IInv, OnUpdate
    PROVE  /\ FeedIsRight'
           /\ \A who \in Typers : Settled(who)' =>
                  \/ Settled(who)
                  \/ Head(feed).who = who /\ SaysWhatWasSaid(Head(feed))
    <1> USE DEF IInv, TypeOK
    <1>1. /\ Len(feed) \in Nat \ {0}
          /\ DOMAIN feed = 1..Len(feed) /\ DOMAIN feed' = 1..(Len(feed) - 1)
          /\ Head(feed) = feed[1]
          /\ \A i \in DOMAIN feed' : feed'[i] = feed[i + 1] /\ i + 1 \in DOMAIN feed
        BY DEF OnUpdate
    <1>2. UNCHANGED <<composing, present, missed>>
        BY DEF OnUpdate, outside
    <1>3. ASSUME NEW who \in Typers \ missed', NEW i \in DOMAIN feed', LastOf(i, who)'
          PROVE  SaysWhatWasSaid(feed[i])'
        <2>1. LastOf(i + 1, who)
            <3>1. feed[i + 1].who = who
                BY <1>1, <1>3 DEF LastOf
            <3>2. ASSUME NEW j \in DOMAIN feed, j > i + 1 PROVE feed[j].who # who
                <4>1. j - 1 \in DOMAIN feed' /\ j - 1 > i /\ feed'[j - 1] = feed[j]
                    BY <1>1, <1>3, <3>2
                <4> QED
                    BY <1>3, <4>1 DEF LastOf
            <3> QED
                BY <3>1, <3>2 DEF LastOf
        <2>2. SaysWhatWasSaid(feed[i + 1])
            BY <1>1, <1>2, <1>3, <2>1 DEF FeedIsRight
        <2> QED
            BY <1>1, <1>2, <1>3, <2>2 DEF SaysWhatWasSaid, ChatOf
    <1>4. ASSUME NEW who \in Typers, Settled(who)', ~Settled(who)
          PROVE  Head(feed).who = who /\ SaysWhatWasSaid(Head(feed))
        <2>1. who \notin missed /\ \A i \in DOMAIN feed' : feed[i + 1].who # who
            BY <1>1, <1>2, <1>4 DEF Settled
        <2>2. \A j \in DOMAIN feed : j > 1 => feed[j].who # who
            <3> SUFFICES ASSUME NEW j \in DOMAIN feed, j > 1 PROVE feed[j].who # who
                OBVIOUS
            <3>1. j - 1 \in DOMAIN feed' /\ (j - 1) + 1 = j
                BY <1>1
            <3> QED
                BY <2>1, <3>1
        <2>3. feed[1].who = who /\ 1 \in DOMAIN feed
            <3>1. PICK j \in DOMAIN feed : feed[j].who = who
                BY <1>4, <2>1 DEF Settled
            <3>2. j = 1
                BY <1>1, <2>2, <3>1
            <3> QED
                BY <3>1, <3>2
        <2>4. LastOf(1, who)
            BY <2>2, <2>3 DEF LastOf
        <2> QED
            BY <1>1, <2>1, <2>3, <2>4 DEF FeedIsRight
    <1> QED
        BY <1>3, <1>4 DEF FeedIsRight

LEMMA NextIInv == IInv /\ [Next]_vars => IInv'
    <1> SUFFICES ASSUME IInv, [Next]_vars PROVE IInv'
        OBVIOUS
    <1>0. TypeOK'
        BY NextType DEF IInv
    <1>1. ASSUME NEW who \in Typers, NEW isTyping \in BOOLEAN, OnChatPresence(who, isTyping)
          PROVE  IInv'
        <2> DEFINE update == [who |-> who, typing |-> isTyping, online |-> FALSE,
                              lastSeen |-> FALSE]
        <2>1. update \in Update /\ Publish(update) /\ update.who = who
            BY <1>1 DEF OnChatPresence, Update
        <2>2. (SaysWhatWasSaid(update))'
            BY <1>1 DEF OnChatPresence, SaysWhatWasSaid, With
        <2>3. ASSUME NEW u \in Update, u.who # who, SaysWhatWasSaid(u)
              PROVE  (SaysWhatWasSaid(u))'
            BY <1>1, <2>3 DEF OnChatPresence, SaysWhatWasSaid, With, ChatOf
        <2>4. /\ FeedIsRight' /\ (~Settled(who))'
              /\ \A w \in Typers : w # who => (Settled(w)' => Settled(w))
            <3> HIDE DEF update
            <3> QED
                BY <2>1, <2>2, <2>3, PublishRight
        <2>5. GroupTypistsAreRight'
            <3> SUFFICES ASSUME NEW w \in GroupTypers, Settled(w)'
                         PROVE  /\ w \in composing' /\ w \in timers' => w \in typists'
                                /\ w \in typists' => w \in composing'
                BY DEF GroupTypistsAreRight, GroupTypers
            <3>1. w \in Typers
                BY DEF GroupTypers, Typers
            <3>2. w # who /\ Settled(w)
                BY <2>4, <3>1
            <3> QED
                BY <1>1, <3>2 DEF IInv, GroupTypistsAreRight, GroupTypers, OnChatPresence,
                                  With, desktop
        <2>6. OnlineIsTrue'
            <3> SUFFICES ASSUME NEW d \in online', Settled(<<d, d>>)' PROVE d \in present'
                BY DEF OnlineIsTrue
            <3>1. d \in online /\ d \in Directs
                BY <1>1 DEF OnChatPresence, desktop, IInv, TypeOK
            <3>2. <<d, d>> \in Typers
                BY <3>1 DEF Typers
            <3>3. Settled(<<d, d>>)
                BY <2>4, <3>2
            <3> QED
                BY <1>1, <3>1, <3>3 DEF IInv, OnlineIsTrue, OnChatPresence
        <2> QED
            BY <1>0, <2>4, <2>5, <2>6 DEF IInv
    <1>2. ASSUME NEW p \in Directs, NEW isOnline \in BOOLEAN, NEW lastSeen \in BOOLEAN,
                 OnPresence(p, isOnline, lastSeen)
          PROVE  IInv'
        <2> DEFINE who == <<p, p>>
                   update == [who |-> who, typing |-> FALSE, online |-> isOnline,
                              lastSeen |-> lastSeen]
        <2>0. who \in Typers /\ who \notin GroupTypers /\ who[1] = p
            BY TypersAreApart DEF Typers
        <2>1. update \in Update /\ Publish(update) /\ update.who = who
            BY <1>2, <2>0 DEF OnPresence, Update
        <2>2. (SaysWhatWasSaid(update))'
            BY <1>2, <2>0 DEF OnPresence, SaysWhatWasSaid, With, ChatOf
        <2>3. ASSUME NEW u \in Update, u.who # who, SaysWhatWasSaid(u)
              PROVE  (SaysWhatWasSaid(u))'
            <3>1. ChatOf(u) \in Directs => ChatOf(u) # p
                BY <2>3, TypersAreApart DEF ChatOf, Update
            <3> QED
                BY <1>2, <2>3, <3>1 DEF OnPresence, SaysWhatWasSaid, With
        <2>4. /\ FeedIsRight' /\ (~Settled(who))'
              /\ \A w \in Typers : w # who => (Settled(w)' => Settled(w))
            <3> HIDE DEF update, who
            <3> QED
                BY <2>1, <2>2, <2>3, PublishRight
        <2>5. GroupTypistsAreRight'
            <3> SUFFICES ASSUME NEW w \in GroupTypers, Settled(w)'
                         PROVE  /\ w \in composing' /\ w \in timers' => w \in typists'
                                /\ w \in typists' => w \in composing'
                BY DEF GroupTypistsAreRight, GroupTypers
            <3>1. w \in Typers
                BY DEF GroupTypers, Typers
            <3>2. w # who /\ Settled(w)
                BY <2>0, <2>4, <3>1
            <3> QED
                BY <1>2, <3>2 DEF IInv, GroupTypistsAreRight, GroupTypers, OnPresence, desktop
        <2>6. OnlineIsTrue'
            <3> SUFFICES ASSUME NEW d \in online', Settled(<<d, d>>)' PROVE d \in present'
                BY DEF OnlineIsTrue
            <3>1. d \in online /\ d \in Directs
                BY <1>2 DEF OnPresence, desktop, IInv, TypeOK
            <3>2. <<d, d>> \in Typers
                BY <3>1 DEF Typers
            <3>3. Settled(<<d, d>>) /\ d # p
                BY <2>4, <3>2
            <3> QED
                BY <1>2, <3>1, <3>3 DEF IInv, OnlineIsTrue, OnPresence, With
        <2> QED
            BY <1>0, <2>4, <2>5, <2>6 DEF IInv
    <1>3. CASE OnUpdate
        <2> DEFINE update == Head(feed)
                   c == ChatOf(update)
        <2>0. update \in Update /\ update.who \in Typers
            <3>1. update \in Update
                BY <1>3 DEF OnUpdate, IInv, TypeOK
            <3> QED
                BY <3>1 DEF Update
        <2>1. /\ FeedIsRight'
              /\ \A w \in Typers : Settled(w)' =>
                     Settled(w) \/ (update.who = w /\ SaysWhatWasSaid(update))
            BY <1>3, HandlingRight
        <2>2. \A w \in Typers : update.who = w => ~Settled(w)
            <3>1. 1 \in DOMAIN feed /\ update = feed[1]
                BY <1>3 DEF OnUpdate, IInv, TypeOK
            <3> QED
                BY <3>1 DEF Settled
        <2>3. GroupTypistsAreRight'
            <3> SUFFICES ASSUME NEW w \in GroupTypers, Settled(w)'
                         PROVE  /\ w \in composing' /\ w \in timers' => w \in typists'
                                /\ w \in typists' => w \in composing'
                BY DEF GroupTypistsAreRight, GroupTypers
            <3>1. w \in Typers
                BY DEF GroupTypers, Typers
            <3>2. CASE update.who = w
                <4>1. update.typing <=> w \in composing
                    BY <2>1, <2>2, <3>1, <3>2 DEF SaysWhatWasSaid
                <4>2. ~IsPartner(update)
                    BY <3>1, <3>2, TypersAreApart DEF IsPartner, ChatOf
                <4> QED
                    BY <1>3, <3>2, <4>1, <4>2 DEF OnUpdate, TypistsAfter, With, outside
            <3>3. CASE update.who # w
                <4>1. Settled(w)
                    BY <2>1, <3>1, <3>3
                <4>2. w \in composing /\ w \in timers => w \in typists
                    BY <4>1 DEF IInv, GroupTypistsAreRight, GroupTypers
                <4>3. w \in typists => w \in composing
                    BY <4>1 DEF IInv, GroupTypistsAreRight, GroupTypers
                <4>4. IsPartner(update) => w \notin In(Typers, c)
                    BY <2>0, <3>1, TypersAreApart, JidsAssumption, ChatsAssumption
                       DEF IsPartner, ChatOf, In, Typers, GroupTypers, Chats
                <4>5. w \in typists' <=> w \in typists
                    BY <1>3, <3>3, <4>4 DEF OnUpdate, TypistsAfter, With
                <4>6. w \in timers' <=> w \in timers
                    BY <1>3, <3>3 DEF OnUpdate
                <4>7. composing' = composing
                    BY <1>3 DEF OnUpdate, outside
                <4> QED
                    BY <4>2, <4>3, <4>5, <4>6, <4>7
            <3> QED
                BY <3>2, <3>3
        <2>4. OnlineIsTrue'
            <3> SUFFICES ASSUME NEW d \in online', Settled(<<d, d>>)' PROVE d \in present'
                BY DEF OnlineIsTrue
            <3>0. present' = present
                BY <1>3 DEF OnUpdate, outside
            <3>1. d \in Directs /\ <<d, d>> \in Typers
                BY <1>0 DEF TypeOK, Typers
            <3>2. CASE update.who = <<d, d>>
                <4>1. SaysWhatWasSaid(update) /\ IsPartner(update) /\ c = d
                    BY <2>1, <2>2, <3>1, <3>2 DEF IsPartner, ChatOf
                <4>2. update.online
                    BY <1>3, <4>1 DEF OnUpdate, OnlineAfter, With
                <4> QED
                    BY <3>0, <3>1, <4>1, <4>2 DEF SaysWhatWasSaid
            <3>3. CASE update.who # <<d, d>>
                <4>1. Settled(<<d, d>>)
                    BY <2>1, <3>1, <3>3
                <4>2. c # d
                    BY <2>0, <3>1, <3>3, TypersAreApart DEF ChatOf
                <4>3. d \in online
                    BY <1>3, <4>2 DEF OnUpdate, OnlineAfter, With
                <4> QED
                    BY <3>0, <4>1, <4>3 DEF IInv, OnlineIsTrue
            <3> QED
                BY <3>2, <3>3
        <2> QED
            BY <1>0, <2>1, <2>3, <2>4 DEF IInv
    <1>4. ASSUME NEW who \in Typers, Expire(who) PROVE IInv'
        <2>1. UNCHANGED <<composing, present, feed, missed, online>>
            BY <1>4 DEF Expire, outside
        <2>2. FeedIsRight' /\ OnlineIsTrue'
            BY <2>1 DEF IInv, FeedIsRight, LastOf, SaysWhatWasSaid, OnlineIsTrue, Settled
        <2>3. GroupTypistsAreRight'
            BY <1>4, <2>1 DEF Expire, IInv, GroupTypistsAreRight, Settled
        <2> QED
            BY <1>0, <2>2, <2>3 DEF IInv
    <1>5. ASSUME UNCHANGED <<composing, present, feed, missed, typists, online, timers>>
          PROVE  IInv'
        BY <1>0, <1>5 DEF IInv, FeedIsRight, LastOf, SaysWhatWasSaid, OnlineIsTrue, Settled,
                          GroupTypistsAreRight
    <1>6. ASSUME NEW c \in Chats, OpenChat(c) PROVE IInv'
        BY <1>5, <1>6 DEF OpenChat, outside
    <1>7. CASE UNCHANGED vars
        BY <1>5, <1>7 DEF vars, outside, desktop
    <1> QED
        BY <1>1, <1>2, <1>3, <1>4, <1>6, <1>7 DEF Next, Outside

\* The state stays well typed.
THEOREM TypeCorrectness == Spec => []TypeOK
    <1>1. IInv => TypeOK
        BY DEF IInv
    <1> QED
        BY InitIInv, NextIInv, <1>1, PTL DEF Spec

\* Group typists are those who last said so, once their updates are handled.
THEOREM GroupsShowTheirTypists == Spec => []GroupTypistsAreRight
    <1>1. IInv => GroupTypistsAreRight
        BY DEF IInv
    <1> QED
        BY InitIInv, NextIInv, <1>1, PTL DEF Spec

\* A partner shown online is online, once the updates are handled.
THEOREM OnlinePartnersAreOnline == Spec => []OnlineIsTrue
    <1>1. IInv => OnlineIsTrue
        BY DEF IInv
    <1> QED
        BY InitIInv, NextIInv, <1>1, PTL DEF Spec

-----------------------------------------------------------------------------
(* The user's own typing state.                                            *)
(*                                                                         *)
(* The properties speak of a chat without calls; CallsGood says what is    *)
(* true of a chat that no call has harmed while its calls are under way:   *)
(* the last one tells what the user does now, one that is being sent tells *)
(* what the tracker remembers and agrees with those made before it.        *)

\* What the user shows of himself in a chat.
Wanted(c) == active = c /\ idleTimer

IsOf(r, c) == r.chat = c
IsSending(r, c) == r.chat = c /\ r.at = "send"
SomeOf(s, c) == \E i \in DOMAIN s : IsOf(s[i], c)
SomeSending(s, c) == \E i \in DOMAIN s : IsSending(s[i], c)

\* The last call tells what the user does now.
LastTells(s, c, w) ==
    \A i \in DOMAIN s :
        (IsOf(s[i], c) /\ \A k \in DOMAIN s : k > i => ~IsOf(s[k], c)) => s[i].typing = w

\* A call that is being sent tells what the tracker has, and no call made
\* before it tells the opposite.
SendsTell(s, c, t) == \A i \in DOMAIN s : IsSending(s[i], c) => s[i].typing = t
SendsAgree(s, c) ==
    \A i, j \in DOMAIN s : (i < j /\ IsOf(s[i], c) /\ IsSending(s[j], c)) => s[i].typing = s[j].typing

CallsGood(c) ==
    /\ LastTells(calls, c, Wanted(c))
    /\ SendsTell(calls, c, c \in typing)
    /\ SendsAgree(calls, c)
    /\ SomeSending(calls, c) \/ (c \in sees => c \in typing)
    /\ SomeSending(calls, c) \/ lost \/ stale \/ (c \in sees <=> c \in typing)
    /\ SomeOf(calls, c) \/ (c \in sees => Wanted(c))

HarmlessGood == \A c \in Chats \ harmed : CallsGood(c)

\* A contact the tracker has marked is subscribed to or is just being.
IsSubscribing(r, c) == r.chat = c /\ r.at = "subscribing"
SomeSubscribing(s, c) == \E i \in DOMAIN s : IsSubscribing(s[i], c)
MarksReal == lost \/ stale \/ \A c \in subscribed \ subs : SomeSubscribing(calls, c)

\* An armed timer leaves room for the call it will make.
RoomToStop == idleTimer => Len(calls) <= MaxCalls

\* Only a partner is subscribed to.
Partnered(s) == \A i \in DOMAIN s : s[i].at \in {"subscribe", "subscribing"} => s[i].chat \in Directs

Typed == ComposerTypeOK /\ RoomToStop /\ Partnered(calls)

ComposerIInv == Typed /\ HarmlessGood /\ MarksReal

-----------------------------------------------------------------------------
(* The calls in flight when one is made, moves on or returns.              *)

LEMMA CallAppended ==
    ASSUME NEW s \in Seq(Call), NEW r \in Call, NEW c \in Chats, NEW w \in BOOLEAN, NEW t \in BOOLEAN,
           r.at = "call"
    PROVE  /\ Append(s, r) \in Seq(Call)
           /\ SomeOf(Append(s, r), c) <=> SomeOf(s, c) \/ IsOf(r, c)
           /\ SomeSending(Append(s, r), c) <=> SomeSending(s, c)
           /\ SomeSubscribing(Append(s, r), c) <=> SomeSubscribing(s, c)
           /\ SendsTell(s, c, t) => SendsTell(Append(s, r), c, t)
           /\ SendsAgree(s, c) => SendsAgree(Append(s, r), c)
           /\ (IsOf(r, c) /\ r.typing = w) => LastTells(Append(s, r), c, w)
           /\ (~IsOf(r, c) /\ LastTells(s, c, w)) => LastTells(Append(s, r), c, w)
<1> DEFINE n == Append(s, r)
<1>1. /\ DOMAIN n = 1..(Len(s) + 1) /\ DOMAIN s = 1..Len(s) /\ Len(s) \in Nat
      /\ \A i \in DOMAIN s : n[i] = s[i]
      /\ n[Len(s) + 1] = r
      /\ n \in Seq(Call)
  OBVIOUS
<1>2. /\ \A i \in DOMAIN n : i \in DOMAIN s \/ i = Len(s) + 1
      /\ Len(s) + 1 \in DOMAIN n
      /\ \A i \in DOMAIN s : i \in DOMAIN n /\ i < Len(s) + 1
  BY <1>1
<1>3. ~IsSending(r, c) /\ ~IsSubscribing(r, c)
  BY DEF IsSending, IsSubscribing
<1> HIDE DEF n
<1>4. SomeOf(n, c) <=> SomeOf(s, c) \/ IsOf(r, c)
  BY <1>1, <1>2 DEF SomeOf
<1>5. SomeSending(n, c) <=> SomeSending(s, c)
  BY <1>1, <1>2, <1>3 DEF SomeSending
<1>6. SomeSubscribing(n, c) <=> SomeSubscribing(s, c)
  BY <1>1, <1>2, <1>3 DEF SomeSubscribing
<1>7. SendsTell(s, c, t) => SendsTell(n, c, t)
  BY <1>1, <1>2, <1>3 DEF SendsTell
<1>8. SendsAgree(s, c) => SendsAgree(n, c)
  <2> SUFFICES ASSUME SendsAgree(s, c), NEW i \in DOMAIN n, NEW j \in DOMAIN n,
                      i < j, IsOf(n[i], c), IsSending(n[j], c)
               PROVE  n[i].typing = n[j].typing
    BY DEF SendsAgree
  <2>1. j \in DOMAIN s
    BY <1>1, <1>2, <1>3
  <2>2. i \in DOMAIN s
    BY <1>1, <1>2, <2>1
  <2> QED
    BY <1>1, <2>1, <2>2 DEF SendsAgree
<1>9. (IsOf(r, c) /\ r.typing = w) => LastTells(n, c, w)
  BY <1>1, <1>2 DEF LastTells
<1>10. (~IsOf(r, c) /\ LastTells(s, c, w)) => LastTells(n, c, w)
  BY <1>1, <1>2 DEF LastTells
<1> QED
  BY <1>1, <1>4, <1>5, <1>6, <1>7, <1>8, <1>9, <1>10 DEF n

LEMMA CallReturned ==
    ASSUME NEW s \in Seq(Call), NEW i \in DOMAIN s
    PROVE  LET n == RemoveAt(s, i)
           IN  /\ n \in Seq(Call) /\ Len(n) = Len(s) - 1
               /\ \A k \in DOMAIN n : k < i => k \in DOMAIN s /\ n[k] = s[k]
               /\ \A k \in DOMAIN n : k >= i => k + 1 \in DOMAIN s /\ n[k] = s[k + 1]
               /\ \A k \in DOMAIN s : k < i => k \in DOMAIN n /\ n[k] = s[k]
               /\ \A k \in DOMAIN s : k > i => k - 1 \in DOMAIN n /\ n[k - 1] = s[k]
<1> DEFINE a == SubSeq(s, 1, i - 1)
           b == SubSeq(s, i + 1, Len(s))
<1>1. Len(s) \in Nat /\ i \in 1..Len(s) /\ DOMAIN s = 1..Len(s)
  OBVIOUS
<1>2. a \in Seq(Call) /\ Len(a) = i - 1 /\ \A k \in 1..(i - 1) : a[k] = s[k]
  BY <1>1
<1>3. b \in Seq(Call) /\ Len(b) = Len(s) - i /\ \A k \in 1..(Len(s) - i) : b[k] = s[k + i]
  BY <1>1
<1> HIDE DEF a, b
<1>4. /\ a \o b \in Seq(Call) /\ Len(a \o b) = Len(s) - 1
      /\ DOMAIN (a \o b) = 1..(Len(s) - 1)
      /\ \A k \in 1..(Len(s) - 1) :
            /\ k <= i - 1 => (a \o b)[k] = a[k]
            /\ k > i - 1 => (a \o b)[k] = b[k - (i - 1)]
  <2>1. /\ a \o b \in Seq(Call) /\ Len(a \o b) = Len(a) + Len(b)
        /\ \A k \in 1..(Len(a) + Len(b)) :
              (a \o b)[k] = IF k <= Len(a) THEN a[k] ELSE b[k - Len(a)]
    BY <1>2, <1>3, ConcatProperties
  <2>2. Len(a) + Len(b) = Len(s) - 1
    BY <1>1, <1>2, <1>3
  <2>3. DOMAIN (a \o b) = 1..Len(a \o b)
    BY <2>1
  <2> QED
    BY <1>2, <2>1, <2>2, <2>3
<1>5. \A k \in 1..(Len(s) - 1) : k < i => (a \o b)[k] = s[k]
  <2> TAKE k \in 1..(Len(s) - 1)
  <2> HAVE k < i
  <2>1. k \in 1..(i - 1) /\ k <= i - 1
    BY <1>1
  <2> QED
    BY <1>2, <1>4, <2>1
<1>6. \A k \in 1..(Len(s) - 1) : k >= i => (a \o b)[k] = s[k + 1]
  <2> TAKE k \in 1..(Len(s) - 1)
  <2> HAVE k >= i
  <2>1. k - (i - 1) \in 1..(Len(s) - i) /\ (k - (i - 1)) + i = k + 1 /\ k > i - 1
    BY <1>1
  <2> QED
    BY <1>3, <1>4, <2>1
<1>7. RemoveAt(s, i) = a \o b
  BY DEF RemoveAt, a, b
<1>8. \A k \in DOMAIN s : k > i => k - 1 \in 1..(Len(s) - 1) /\ k - 1 >= i /\ (k - 1) + 1 = k
  BY <1>1
<1>9. \A k \in 1..(Len(s) - 1) : k \in DOMAIN s /\ k + 1 \in DOMAIN s
  BY <1>1
<1>10. \A k \in DOMAIN s : k < i => k \in 1..(Len(s) - 1)
  BY <1>1
<1>11. \A k \in DOMAIN s : k > i => (a \o b)[k - 1] = s[k]
  BY <1>6, <1>8
<1> QED
  BY <1>4, <1>5, <1>6, <1>7, <1>8, <1>9, <1>10, <1>11

LEMMA ReturnKeeps ==
    ASSUME NEW s \in Seq(Call), NEW i \in DOMAIN s, NEW c \in Chats, NEW w \in BOOLEAN, NEW t \in BOOLEAN
    PROVE  /\ SomeOf(RemoveAt(s, i), c) => SomeOf(s, c)
           /\ SomeOf(s, c) => SomeOf(RemoveAt(s, i), c) \/ IsOf(s[i], c)
           /\ SomeSending(RemoveAt(s, i), c) => SomeSending(s, c)
           /\ SomeSending(s, c) => SomeSending(RemoveAt(s, i), c) \/ IsSending(s[i], c)
           /\ SomeSubscribing(s, c) => SomeSubscribing(RemoveAt(s, i), c) \/ IsSubscribing(s[i], c)
           /\ SendsTell(s, c, t) => SendsTell(RemoveAt(s, i), c, t)
           /\ SendsAgree(s, c) => SendsAgree(RemoveAt(s, i), c)
           /\ (/\ LastTells(s, c, w)
               /\ \A k \in DOMAIN s : (k < i /\ IsOf(s[k], c) /\ IsOf(s[i], c)) => s[k].typing = s[i].typing)
                => LastTells(RemoveAt(s, i), c, w)
<1> DEFINE n == RemoveAt(s, i)
<1>1. /\ \A k \in DOMAIN n : k < i => k \in DOMAIN s /\ n[k] = s[k]
      /\ \A k \in DOMAIN n : k >= i => k + 1 \in DOMAIN s /\ n[k] = s[k + 1]
      /\ \A k \in DOMAIN s : k < i => k \in DOMAIN n /\ n[k] = s[k]
      /\ \A k \in DOMAIN s : k > i => k - 1 \in DOMAIN n /\ n[k - 1] = s[k]
      /\ n \in Seq(Call)
  BY CallReturned
<1>2. i \in Int /\ (\A k \in DOMAIN s : k \in Int) /\ (\A k \in DOMAIN n : k \in Int)
  BY <1>1
<1> HIDE DEF n
<1>3. \A k \in DOMAIN n : \E m \in DOMAIN s : n[k] = s[m]
  <2> TAKE k \in DOMAIN n
  <2>1. k < i \/ k >= i
    BY <1>2
  <2> QED
    BY <1>1, <2>1
<1>4. \A k \in DOMAIN s : k = i \/ \E m \in DOMAIN n : n[m] = s[k]
  <2> TAKE k \in DOMAIN s
  <2>1. k < i \/ k = i \/ k > i
    BY <1>2
  <2> QED
    BY <1>1, <2>1
<1>5. /\ SomeOf(n, c) => SomeOf(s, c)
      /\ SomeOf(s, c) => SomeOf(n, c) \/ IsOf(s[i], c)
  BY <1>3, <1>4 DEF SomeOf
<1>6. /\ SomeSending(n, c) => SomeSending(s, c)
      /\ SomeSending(s, c) => SomeSending(n, c) \/ IsSending(s[i], c)
  BY <1>3, <1>4 DEF SomeSending
<1>7. SomeSubscribing(s, c) => SomeSubscribing(n, c) \/ IsSubscribing(s[i], c)
  BY <1>3, <1>4 DEF SomeSubscribing
<1>8. SendsTell(s, c, t) => SendsTell(n, c, t)
  BY <1>3 DEF SendsTell
<1>9. SendsAgree(s, c) => SendsAgree(n, c)
  <2> SUFFICES ASSUME SendsAgree(s, c), NEW j \in DOMAIN n, NEW k \in DOMAIN n,
                      j < k, IsOf(n[j], c), IsSending(n[k], c)
               PROVE  n[j].typing = n[k].typing
    BY DEF SendsAgree
  <2>1. CASE k < i
    <3>1. j < i
      BY <1>2, <2>1
    <3> QED
      BY <1>1, <2>1, <3>1 DEF SendsAgree
  <2>2. CASE j < i /\ k >= i
    <3>1. j < k + 1
      BY <1>2, <2>2
    <3> QED
      BY <1>1, <2>2, <3>1 DEF SendsAgree
  <2>3. CASE j >= i /\ k >= i
    <3>1. j + 1 < k + 1
      BY <1>2, <2>3
    <3> QED
      BY <1>1, <2>3, <3>1 DEF SendsAgree
  <2> QED
    BY <1>2, <2>1, <2>2, <2>3
<1>10. ASSUME LastTells(s, c, w),
              \A k \in DOMAIN s : (k < i /\ IsOf(s[k], c) /\ IsOf(s[i], c)) => s[k].typing = s[i].typing
       PROVE  LastTells(n, c, w)
  <2> SUFFICES ASSUME NEW m \in DOMAIN n, IsOf(n[m], c), \A k \in DOMAIN n : k > m => ~IsOf(n[k], c)
               PROVE  n[m].typing = w
    BY DEF LastTells
  <2>1. \A k \in DOMAIN s : k > i /\ k - 1 > m => ~IsOf(s[k], c)
    BY <1>1
  <2>2. CASE m >= i
    <3>1. m + 1 \in DOMAIN s /\ s[m + 1] = n[m]
      BY <1>1, <2>2
    <3>2. \A k \in DOMAIN s : k > m + 1 => k > i /\ k - 1 > m
      BY <1>2, <2>2
    <3> QED
      BY <1>10, <2>1, <3>1, <3>2 DEF LastTells
  <2>3. CASE m < i
    <3>1. m \in DOMAIN s /\ s[m] = n[m]
      BY <1>1, <2>3
    <3>2. \A k \in DOMAIN s : k > m /\ k < i => ~IsOf(s[k], c)
      BY <1>1
    <3>3. \A k \in DOMAIN s : k > i => k - 1 > m
      BY <1>2, <2>3
    <3>4. \A k \in DOMAIN s : k > i => ~IsOf(s[k], c)
      BY <2>1, <3>3
    <3>5. CASE IsOf(s[i], c)
      BY <1>10, <2>3, <3>1, <3>4, <3>5 DEF LastTells
    <3>6. CASE ~IsOf(s[i], c)
      <4>1. \A k \in DOMAIN s : k > m => ~IsOf(s[k], c)
        <5> TAKE k \in DOMAIN s
        <5>1. k < i \/ k = i \/ k > i
          BY <1>2
        <5> QED
          BY <3>2, <3>4, <3>6, <5>1
      <4> QED
        BY <1>10, <3>1, <4>1 DEF LastTells
    <3> QED
      BY <3>5, <3>6
  <2> QED
    BY <1>2, <2>2, <2>3
<1> QED
  BY <1>5, <1>6, <1>7, <1>8, <1>9, <1>10 DEF n

\* A call that moves on keeps its chat and what it tells.
LEMMA CallMoved ==
    ASSUME NEW s \in Seq(Call), NEW i \in DOMAIN s, NEW step \in Steps, NEW c \in Chats,
           NEW w \in BOOLEAN, NEW t \in BOOLEAN
    PROVE  LET n == [s EXCEPT ![i].at = step]
           IN  /\ n \in Seq(Call) /\ Len(n) = Len(s)
               /\ SomeOf(n, c) <=> SomeOf(s, c)
               /\ LastTells(s, c, w) => LastTells(n, c, w)
               /\ step # "send" =>
                    /\ SomeSending(n, c) => SomeSending(s, c)
                    /\ SomeSending(s, c) => SomeSending(n, c) \/ IsSending(s[i], c)
                    /\ SendsTell(s, c, t) => SendsTell(n, c, t)
                    /\ SendsAgree(s, c) => SendsAgree(n, c)
               /\ step # "subscribing" =>
                    (SomeSubscribing(s, c) => SomeSubscribing(n, c) \/ IsSubscribing(s[i], c))
               /\ step = "subscribing" =>
                    /\ SomeSubscribing(s, c) => SomeSubscribing(n, c)
                    /\ s[i].chat = c => SomeSubscribing(n, c)
<1> DEFINE n == [s EXCEPT ![i].at = step]
<1>0. s[i] \in Call /\ DOMAIN s = 1..Len(s)
  OBVIOUS
<1>1. /\ n \in Seq(Call) /\ Len(n) = Len(s)
      /\ DOMAIN n = DOMAIN s
      /\ \A k \in DOMAIN s : k # i => n[k] = s[k]
  BY <1>0 DEF Call
<1>2. n[i].chat = s[i].chat /\ n[i].typing = s[i].typing /\ n[i].at = step
  BY <1>0 DEF Call
<1>3. \A k \in DOMAIN s : n[k].typing = s[k].typing /\ (IsOf(n[k], c) <=> IsOf(s[k], c))
  BY <1>1, <1>2 DEF IsOf
<1> HIDE DEF n
<1>4. SomeOf(n, c) <=> SomeOf(s, c)
  BY <1>1, <1>3 DEF SomeOf
<1>5. LastTells(s, c, w) => LastTells(n, c, w)
  BY <1>1, <1>3 DEF LastTells
<1>6. ASSUME step # "send"
      PROVE  /\ SomeSending(n, c) => SomeSending(s, c)
             /\ SomeSending(s, c) => SomeSending(n, c) \/ IsSending(s[i], c)
             /\ SendsTell(s, c, t) => SendsTell(n, c, t)
             /\ SendsAgree(s, c) => SendsAgree(n, c)
  <2>1. ~IsSending(n[i], c)
    BY <1>2, <1>6 DEF IsSending
  <2> QED
    BY <1>1, <1>3, <2>1 DEF SomeSending, SendsTell, SendsAgree
<1>7. ASSUME step # "subscribing"
      PROVE  SomeSubscribing(s, c) => SomeSubscribing(n, c) \/ IsSubscribing(s[i], c)
  BY <1>1 DEF SomeSubscribing
<1>8. ASSUME step = "subscribing"
      PROVE  /\ SomeSubscribing(s, c) => SomeSubscribing(n, c)
             /\ s[i].chat = c => SomeSubscribing(n, c)
  BY <1>1, <1>2, <1>8 DEF SomeSubscribing, IsSubscribing
<1> QED
  BY <1>1, <1>4, <1>5, <1>6, <1>7, <1>8 DEF n

-----------------------------------------------------------------------------
(* Every variable keeps its type.                                          *)

LEMMA InitTyped == ComposerInit => Typed
<1> SUFFICES ASSUME ComposerInit PROVE Typed
  OBVIOUS
<1>1. calls = <<>> /\ calls \in Seq(Call) /\ Len(calls) = 0 /\ DOMAIN calls = {}
  BY DEF ComposerInit
<1>2. Len(calls) <= MaxCalls + 1 /\ Partnered(calls)
  BY <1>1, MaxCallsAssumption DEF Partnered
<1> QED
  BY <1>1, <1>2 DEF ComposerInit, Typed, ComposerTypeOK, RoomToStop

LEMMA ChatIsCalled ==
    ASSUME Typed, NEW i \in DOMAIN calls
    PROVE  calls[i] \in Call /\ calls[i].chat \in Chats /\ calls[i].typing \in BOOLEAN
<1>1. calls[i] \in Call
  BY DEF Typed, ComposerTypeOK
<1> QED
  BY <1>1 DEF Call

\* SetPresence, when there is room.
LEMMA CallTyped ==
    ASSUME Typed, NEW c \in Chats, NEW isTyping \in BOOLEAN, SetPresence(c, isTyping)
    PROVE  /\ calls' \in Seq(Call) /\ Len(calls') = Len(calls) + 1
           /\ calls' = Append(calls, [chat |-> c, typing |-> isTyping, at |-> "call"])
           /\ [chat |-> c, typing |-> isTyping, at |-> "call"] \in Call
           /\ Partnered(calls')
<1>1. [chat |-> c, typing |-> isTyping, at |-> "call"] \in Call
  BY DEF Call, Steps
<1>2. calls \in Seq(Call) /\ Partnered(calls)
  BY DEF Typed, ComposerTypeOK
<1>3. \A k \in DOMAIN calls' : calls'[k].at = "call" \/ (k \in DOMAIN calls /\ calls'[k] = calls[k])
  BY <1>1, <1>2 DEF SetPresence
<1>4. Partnered(calls')
  BY <1>2, <1>3 DEF Partnered
<1> QED
  BY <1>1, <1>2, <1>4 DEF SetPresence

LEMMA UserTyped == Typed /\ (User \/ IdleTimeout) => Typed'
<1> SUFFICES ASSUME Typed, User \/ IdleTimeout PROVE Typed'
  OBVIOUS
<1>0. Len(calls) \in Nat /\ MaxCalls \in Nat /\ Len(calls) <= MaxCalls + 1
      /\ (idleTimer => Len(calls) <= MaxCalls) /\ active \in Chats \cup {NoChat}
  BY MaxCallsAssumption DEF Typed, ComposerTypeOK, RoomToStop
<1>1. /\ active' \in Chats \cup {NoChat} /\ idleTimer' \in BOOLEAN
      /\ UNCHANGED <<tracker, whatsapp, history>>
  BY <1>0 DEF User, Type, Blank, IdleTimeout, SwitchChat, StopTyping
<1>2. calls' \in Seq(Call) /\ Len(calls') <= MaxCalls + 1 /\ (idleTimer' => Len(calls') <= MaxCalls)
      /\ Partnered(calls')
  <2>1. CASE Type
    <3>1. active \in Chats /\ SetPresence(active, TRUE) /\ Len(calls) < MaxCalls
      BY <1>0, <2>1 DEF Type, CanCall
    <3>2. calls' \in Seq(Call) /\ Len(calls') = Len(calls) + 1 /\ Partnered(calls')
      BY <3>1, CallTyped
    <3> QED
      BY <1>0, <3>1, <3>2
  <2>2. CASE ~Type
    <3>1. ~idleTimer' /\ Len(calls) <= MaxCalls
          /\ (UNCHANGED calls \/ (active \in Chats /\ SetPresence(active, FALSE)))
      <4>1. CASE Blank
        <5>1. Len(calls) < MaxCalls /\ active # NoChat /\ StopTyping
          BY <4>1 DEF Blank, CanCall
        <5>2. Len(calls) <= MaxCalls
          BY <1>0, <5>1
        <5> QED
          BY <1>0, <5>1, <5>2 DEF StopTyping
      <4>2. CASE IdleTimeout
        BY <1>0, <4>2 DEF IdleTimeout, StopTyping
      <4>3. ASSUME NEW c \in Chats, SwitchChat(c)
            PROVE  /\ ~idleTimer' /\ Len(calls) <= MaxCalls
                   /\ UNCHANGED calls \/ (active \in Chats /\ SetPresence(active, FALSE))
        <5>1. Len(calls) < MaxCalls /\ StopTyping
          BY <4>3 DEF SwitchChat, CanCall
        <5>2. Len(calls) <= MaxCalls
          BY <1>0, <5>1
        <5> QED
          BY <1>0, <5>1, <5>2 DEF StopTyping
      <4> QED
        BY <2>2, <4>1, <4>2, <4>3 DEF User
    <3>2. CASE UNCHANGED calls
      BY <1>0, <3>1, <3>2 DEF Typed, ComposerTypeOK
    <3>3. CASE active \in Chats /\ SetPresence(active, FALSE)
      <4>1. calls' \in Seq(Call) /\ Len(calls') = Len(calls) + 1 /\ Partnered(calls')
        BY <3>3, CallTyped
      <4> QED
        BY <1>0, <3>1, <4>1
    <3> QED
      BY <3>1, <3>2, <3>3
  <2> QED
    BY <2>1, <2>2
<1> QED
  BY <1>1, <1>2 DEF Typed, ComposerTypeOK, RoomToStop, tracker, whatsapp, history

LEMMA ReturnTyped ==
    ASSUME Typed, NEW i \in DOMAIN calls, Return(i)
    PROVE  calls' \in Seq(Call) /\ Len(calls') = Len(calls) - 1 /\ Partnered(calls')
<1>1. calls \in Seq(Call) /\ Partnered(calls) /\ i \in Int
  BY DEF Typed, ComposerTypeOK
<1>2. /\ \A k \in DOMAIN calls' : k < i => k \in DOMAIN calls /\ calls'[k] = calls[k]
      /\ \A k \in DOMAIN calls' : k >= i => k + 1 \in DOMAIN calls /\ calls'[k] = calls[k + 1]
      /\ calls' \in Seq(Call) /\ Len(calls') = Len(calls) - 1
  BY <1>1, CallReturned DEF Return
<1>3. \A k \in DOMAIN calls' : k < i \/ k >= i
  BY <1>1, <1>2
<1> QED
  BY <1>1, <1>2, <1>3 DEF Partnered

LEMMA GotoTyped ==
    ASSUME Typed, NEW i \in DOMAIN calls, NEW step \in Steps, Goto(i, step),
           step \in {"subscribe", "subscribing"} => calls[i].chat \in Directs
    PROVE  calls' \in Seq(Call) /\ Len(calls') = Len(calls) /\ Partnered(calls')
<1>1. calls \in Seq(Call) /\ Partnered(calls) /\ calls[i] \in Call
  BY ChatIsCalled DEF Typed, ComposerTypeOK
<1>2. calls' \in Seq(Call) /\ Len(calls') = Len(calls) /\ DOMAIN calls' = DOMAIN calls
      /\ \A k \in DOMAIN calls : k # i => calls'[k] = calls[k]
  BY <1>1 DEF Goto, Call
<1>3. calls'[i].chat = calls[i].chat /\ calls'[i].at = step
  BY <1>1 DEF Goto, Call
<1> QED
  BY <1>1, <1>2, <1>3 DEF Partnered

LEMMA ServeTyped == ASSUME Typed, NEW i \in DOMAIN calls, Serve(i) PROVE Typed'
<1>0. /\ calls \in Seq(Call) /\ Len(calls) \in Nat /\ Len(calls) <= MaxCalls + 1 /\ MaxCalls \in Nat
      /\ calls[i].chat \in Chats /\ (idleTimer => Len(calls) <= MaxCalls)
      /\ calls[i].at \in {"subscribe", "subscribing"} => calls[i].chat \in Directs
  BY MaxCallsAssumption, ChatIsCalled DEF Typed, ComposerTypeOK, RoomToStop, Partnered
<1>1. /\ calls' \in Seq(Call) /\ Partnered(calls')
      /\ Len(calls') = Len(calls) \/ Len(calls') = Len(calls) - 1
  <2>1. Return(i) \/ \E step \in Steps : Goto(i, step) /\ (step \in {"subscribe", "subscribing"} => calls[i].chat \in Directs)
    BY <1>0 DEF Serve, Lose, Accept, SendPresence, CheckSubscribed, Subscribe, CheckTyping,
           SendChatPresence, AfterOnline, Steps, At
  <2> QED
    BY <2>1, ReturnTyped, GotoTyped
<1>2. Len(calls') <= MaxCalls + 1 /\ (idleTimer => Len(calls') <= MaxCalls)
  BY <1>0, <1>1
<1>3. /\ UNCHANGED <<composer, up, lost, stale>>
      /\ subscribed' \subseteq Directs /\ subs' \subseteq Directs
      /\ typing' \subseteq Chats /\ sees' \subseteq Chats /\ harmed' \subseteq Chats
      /\ available' \in BOOLEAN
  <2> USE <1>0 DEF Typed, ComposerTypeOK, tracker, whatsapp, history, composer, Harm, With, At
  <2>1. CASE Lose(i) \/ Accept(i) \/ SendPresence(i)
    BY <2>1 DEF Lose, Accept, SendPresence
  <2>2. CASE CheckSubscribed(i) \/ Subscribe(i)
    BY <2>2 DEF CheckSubscribed, Subscribe
  <2>3. CASE CheckTyping(i) \/ SendChatPresence(i)
    BY <2>3 DEF CheckTyping, SendChatPresence
  <2> QED
    BY <2>1, <2>2, <2>3 DEF Serve
<1> QED
  BY <1>1, <1>2, <1>3 DEF Typed, ComposerTypeOK, RoomToStop, composer

LEMMA ConnectionTyped == Typed /\ Connection => Typed'
<1> SUFFICES ASSUME Typed, Connection PROVE Typed'
  OBVIOUS
<1>1. UNCHANGED <<composer, calls>>
  BY DEF Connection, Disconnect, Reconnect, Reset, Restart
<1>2. /\ typing' \subseteq Chats /\ subscribed' \subseteq Directs /\ available' \in BOOLEAN
      /\ up' \in BOOLEAN /\ lost' \in BOOLEAN /\ sees' \subseteq Chats /\ subs' \subseteq Directs
      /\ harmed' \subseteq Chats /\ stale' \in BOOLEAN
  <2> USE DEF Typed, ComposerTypeOK, tracker, whatsapp, history, Forgotten
  <2>1. CASE Disconnect
    BY <2>1 DEF Disconnect
  <2>2. CASE Reconnect
    BY <2>2 DEF Reconnect
  <2>3. CASE Reset
    BY <2>3 DEF Reset
  <2>4. CASE Restart
    BY <2>4 DEF Restart
  <2> QED
    BY <2>1, <2>2, <2>3, <2>4 DEF Connection
<1> QED
  BY <1>1, <1>2 DEF Typed, ComposerTypeOK, RoomToStop, composer

LEMMA NextTyped == Typed /\ [ComposerNext]_composerVars => Typed'
<1>1. Typed /\ UNCHANGED composerVars => Typed'
  BY DEF Typed, ComposerTypeOK, RoomToStop, composerVars, composer, tracker, whatsapp, history
<1> QED
  BY <1>1, UserTyped, ServeTyped, ConnectionTyped DEF ComposerNext

-----------------------------------------------------------------------------
(* Subscriptions.                                                          *)

LEMMA NextMarks == Typed /\ MarksReal /\ [ComposerNext]_composerVars => MarksReal'
<1> SUFFICES ASSUME Typed, MarksReal, [ComposerNext]_composerVars PROVE MarksReal'
  OBVIOUS
<1> USE DEF composer, tracker, whatsapp, history
<1>0. calls \in Seq(Call) /\ Directs \subseteq Chats /\ subscribed \subseteq Directs
  BY DEF Typed, ComposerTypeOK, Chats
<1>1. CASE UNCHANGED <<calls, subscribed, subs, lost, stale>>
  BY <1>1 DEF MarksReal
<1>2. CASE User \/ IdleTimeout
  <2>1. UNCHANGED <<subscribed, subs, lost, stale>>
    BY <1>2 DEF User, Type, Blank, SwitchChat, IdleTimeout
  <2>2. UNCHANGED calls \/ \E c \in Chats, isTyping \in BOOLEAN : SetPresence(c, isTyping)
    BY <1>2 DEF User, Type, Blank, SwitchChat, IdleTimeout, StopTyping, Typed, ComposerTypeOK
  <2>3. ASSUME NEW d \in Chats, NEW isTyping \in BOOLEAN, SetPresence(d, isTyping), NEW c \in Chats
        PROVE  SomeSubscribing(calls, c) => SomeSubscribing(calls', c)
    <3> DEFINE r == [chat |-> d, typing |-> isTyping, at |-> "call"]
    <3>1. calls' = Append(calls, r) /\ r \in Call /\ r.at = "call"
      BY <2>3, CallTyped
    <3> HIDE DEF r
    <3> QED
      BY <1>0, <3>1, CallAppended
  <2> QED
    BY <1>0, <1>1, <2>1, <2>2, <2>3 DEF MarksReal
<1>3. ASSUME NEW i \in DOMAIN calls, Serve(i) PROVE MarksReal'
  <2>0. UNCHANGED <<lost, stale>> /\ calls[i].chat \in Chats
    BY <1>3, ChatIsCalled DEF Serve, Lose, Accept, SendPresence, CheckSubscribed, Subscribe,
                              CheckTyping, SendChatPresence
  <2> SUFFICES ASSUME ~lost, ~stale, NEW c \in subscribed' \ subs'
               PROVE  SomeSubscribing(calls', c)
    BY <2>0 DEF MarksReal
  <2>1. CASE calls[i].at # "subscribing" /\ subscribed' = subscribed /\ subs' = subs
    <3>1. SomeSubscribing(calls, c) /\ ~IsSubscribing(calls[i], c) /\ c \in Chats
      BY <1>0, <2>1 DEF MarksReal, IsSubscribing
    <3>2. CASE Return(i)
      BY <1>0, <3>1, <3>2, ReturnKeeps DEF Return
    <3>3. ASSUME NEW step \in Steps, Goto(i, step) PROVE SomeSubscribing(calls', c)
      BY <1>0, <3>1, <3>3, CallMoved DEF Goto
    <3>4. Return(i) \/ \E step \in Steps : Goto(i, step)
      BY <1>3 DEF Serve, Lose, Accept, SendPresence, CheckSubscribed, Subscribe, CheckTyping,
                  SendChatPresence, AfterOnline, Steps
    <3> QED
      BY <3>2, <3>3, <3>4
  <2>2. CASE CheckSubscribed(i)
    <3>1. subscribed' = subscribed \cup {calls[i].chat} /\ subs' = subs /\ calls[i].at = "subscribe"
      BY <2>2 DEF CheckSubscribed, At
    <3>2. CASE calls[i].chat \in subscribed
      BY <2>1, <3>1, <3>2
    <3>3. CASE calls[i].chat \notin subscribed
      <4>1. calls' = [calls EXCEPT ![i].at = "subscribing"] /\ "subscribing" \in Steps
        BY <2>2, <3>3 DEF CheckSubscribed, Goto, Steps
      <4>2. c \in Chats /\ (c = calls[i].chat \/ SomeSubscribing(calls, c))
        BY <1>0, <2>0, <3>1 DEF MarksReal
      <4> QED
        BY <1>0, <4>1, <4>2, CallMoved
    <3> QED
      BY <3>2, <3>3
  <2>3. CASE Subscribe(i)
    <3>1. calls' = [calls EXCEPT ![i].at = "typing"] /\ "typing" \in Steps
      BY <2>3 DEF Subscribe, Goto, Steps
    <3>2. c # calls[i].chat /\ c \in subscribed \ subs
      BY <2>3 DEF Subscribe
    <3>3. c \in Chats /\ SomeSubscribing(calls, c) /\ ~IsSubscribing(calls[i], c)
      BY <1>0, <3>2 DEF MarksReal, IsSubscribing
    <3> QED
      BY <1>0, <3>1, <3>3, CallMoved
  <2>4. CASE ~CheckSubscribed(i) /\ ~Subscribe(i)
    <3>1. calls[i].at # "subscribing" /\ subscribed' = subscribed /\ subs' = subs
      BY <1>3, <2>4 DEF Serve, Lose, Accept, SendPresence, CheckTyping, SendChatPresence, At
    <3> QED
      BY <2>1, <3>1
  <2> QED
    BY <2>2, <2>3, <2>4
<1>4. CASE Connection
  <2>1. CASE Disconnect \/ Restart
    BY <2>1 DEF Disconnect, Restart, MarksReal
  <2>2. CASE Reconnect
    BY <1>1, <2>2 DEF Reconnect
  <2>3. CASE Reset
    BY <2>3 DEF Reset, MarksReal
  <2> QED
    BY <1>4, <2>1, <2>2, <2>3 DEF Connection
<1> QED
  BY <1>1, <1>2, <1>3, <1>4 DEF ComposerNext, composerVars

-----------------------------------------------------------------------------
(* The calls of a chat that none has harmed.                               *)

LEMMA StateIsBoolean ==
    ASSUME Typed, NEW c \in Chats
    PROVE  /\ Wanted(c) \in BOOLEAN /\ (c \in typing) \in BOOLEAN
           /\ calls \in Seq(Call)
  BY DEF Typed, ComposerTypeOK, Wanted

\* The user makes a call, which tells what he now does.
LEMMA AnnounceKeeps ==
    ASSUME Typed, NEW d \in Chats, NEW isTyping \in BOOLEAN, SetPresence(d, isTyping),
           NEW c \in Chats, CallsGood(c), Wanted(c)' \in BOOLEAN,
           IF c = d THEN Wanted(c)' = isTyping ELSE Wanted(c)' = Wanted(c),
           UNCHANGED <<typing, sees, lost, stale>>
    PROVE  CallsGood(c)'
<1> DEFINE r == [chat |-> d, typing |-> isTyping, at |-> "call"]
           w == Wanted(c)'
           t == c \in typing
<1>1. calls' = Append(calls, r) /\ r \in Call /\ r.at = "call" /\ r.chat = d /\ r.typing = isTyping
  BY CallTyped
<1>2. IsOf(r, c) <=> c = d
  BY <1>1 DEF IsOf
<1>3. calls \in Seq(Call) /\ t \in BOOLEAN /\ w \in BOOLEAN
  BY StateIsBoolean
<1>4. /\ LastTells(calls, c, Wanted(c)) /\ SendsTell(calls, c, t) /\ SendsAgree(calls, c)
      /\ SomeSending(calls, c) \/ (c \in sees => c \in typing)
      /\ SomeSending(calls, c) \/ lost \/ stale \/ (c \in sees <=> c \in typing)
      /\ SomeOf(calls, c) \/ (c \in sees => Wanted(c))
  BY DEF CallsGood
<1> HIDE DEF r, w, t
<1>5. /\ SomeOf(calls', c) <=> SomeOf(calls, c) \/ IsOf(r, c)
      /\ SomeSending(calls', c) <=> SomeSending(calls, c)
      /\ SendsTell(calls', c, t) /\ SendsAgree(calls', c)
      /\ (IsOf(r, c) /\ r.typing = w) => LastTells(calls', c, w)
      /\ (~IsOf(r, c) /\ LastTells(calls, c, w)) => LastTells(calls', c, w)
  BY <1>1, <1>3, <1>4, CallAppended
<1>6. CASE c = d
  <2>1. LastTells(calls', c, w)
    BY <1>1, <1>2, <1>5, <1>6 DEF w
  <2> QED
    BY <1>2, <1>4, <1>5, <1>6, <2>1 DEF CallsGood, w, t
<1>7. CASE c # d
  <2>1. w = Wanted(c)
    BY <1>7 DEF w
  <2>2. LastTells(calls', c, w)
    BY <1>2, <1>4, <1>5, <1>7, <2>1
  <2> QED
    BY <1>2, <1>4, <1>5, <1>7, <2>1, <2>2 DEF CallsGood, w, t
<1> QED
  BY <1>6, <1>7

LEMMA UserKeepsCalls ==
    ASSUME Typed, HarmlessGood, User \/ IdleTimeout
    PROVE  HarmlessGood'
<1> USE DEF composer, tracker, whatsapp, history
<1>0. UNCHANGED <<typing, sees, lost, stale, harmed>>
  BY DEF User, Type, Blank, SwitchChat, IdleTimeout
<1>1. active \in Chats \cup {NoChat} /\ idleTimer \in BOOLEAN /\ NoChat \notin Chats
  BY ChatsAssumption DEF Typed, ComposerTypeOK
<1> SUFFICES ASSUME NEW c \in Chats \ harmed PROVE CallsGood(c)'
  BY <1>0 DEF HarmlessGood
<1>2. CallsGood(c)
  BY DEF HarmlessGood
<1>3. CASE Type
  <2>1. active \in Chats /\ SetPresence(active, TRUE) /\ active' = active /\ idleTimer' = TRUE
    BY <1>1, <1>3 DEF Type
  <2>2. IF c = active THEN Wanted(c)' = TRUE ELSE Wanted(c)' = Wanted(c)
    BY <1>1, <2>1 DEF Wanted
  <2>3. Wanted(c)' \in BOOLEAN
    BY <2>1 DEF Wanted
  <2> QED
    BY <1>0, <1>2, <2>1, <2>2, <2>3, AnnounceKeeps
<1>4. CASE ~Type
  <2>1. /\ idleTimer' = FALSE
        /\ \/ active = NoChat /\ UNCHANGED calls
           \/ active \in Chats /\ SetPresence(active, FALSE)
    BY <1>1, <1>4 DEF User, Blank, SwitchChat, IdleTimeout, StopTyping
  <2>2. Wanted(c)' = FALSE /\ (c # active => Wanted(c) = FALSE)
    BY <2>1 DEF Wanted
  <2>3. CASE active = NoChat /\ UNCHANGED calls
    <3>1. Wanted(c) = FALSE
      BY <1>1, <2>2, <2>3
    <3> QED
      BY <1>0, <1>2, <2>2, <2>3, <3>1 DEF CallsGood
  <2>4. CASE active \in Chats /\ SetPresence(active, FALSE)
    <3>1. IF c = active THEN Wanted(c)' = FALSE ELSE Wanted(c)' = Wanted(c)
      BY <2>2
    <3>2. Wanted(c)' \in BOOLEAN
      BY <2>2
    <3> QED
      BY <1>0, <1>2, <2>4, <3>1, <3>2, AnnounceKeeps
  <2> QED
    BY <2>1, <2>3, <2>4
<1> QED
  BY <1>3, <1>4

\* The same of the calls themselves: what a call that moves on changes of a chat.
LEMMA GotoKeeps ==
    ASSUME calls \in Seq(Call), NEW i \in DOMAIN calls, NEW step \in Steps, Goto(i, step),
           NEW c \in Chats, NEW w \in BOOLEAN, NEW t \in BOOLEAN
    PROVE  /\ Len(calls') = Len(calls)
           /\ SomeOf(calls', c) <=> SomeOf(calls, c)
           /\ LastTells(calls, c, w) => LastTells(calls', c, w)
           /\ step # "send" =>
                /\ SomeSending(calls', c) => SomeSending(calls, c)
                /\ SomeSending(calls, c) => SomeSending(calls', c) \/ IsSending(calls[i], c)
                /\ SendsTell(calls, c, t) => SendsTell(calls', c, t)
                /\ SendsAgree(calls, c) => SendsAgree(calls', c)
<1>1. calls' = [calls EXCEPT ![i].at = step]
  BY DEF Goto
<1> DEFINE n == [calls EXCEPT ![i].at = step]
<1>2. /\ Len(n) = Len(calls)
      /\ SomeOf(n, c) <=> SomeOf(calls, c)
      /\ LastTells(calls, c, w) => LastTells(n, c, w)
      /\ step # "send" =>
           /\ SomeSending(n, c) => SomeSending(calls, c)
           /\ SomeSending(calls, c) => SomeSending(n, c) \/ IsSending(calls[i], c)
           /\ SendsTell(calls, c, t) => SendsTell(n, c, t)
           /\ SendsAgree(calls, c) => SendsAgree(n, c)
  BY CallMoved
<1>3. calls' = n
  BY <1>1
<1> HIDE DEF n
<1> QED
  BY <1>2, <1>3

\* A call moves on, or returns, without having told WhatsApp anything.
LEMMA SilentStepKeeps ==
    ASSUME Typed, NEW i \in DOMAIN calls, NEW c \in Chats, CallsGood(c),
           \/ \E step \in Steps \ {"send"} : Goto(i, step)
           \/ Return(i) /\ calls[i].chat # c,
           calls[i].at # "send",
           UNCHANGED <<active, idleTimer, typing, sees, lost, stale>>
    PROVE  CallsGood(c)'
<1> DEFINE w == Wanted(c)
           t == c \in typing
<1>1. calls \in Seq(Call) /\ t \in BOOLEAN /\ w \in BOOLEAN
  BY StateIsBoolean
<1>2. ~IsSending(calls[i], c)
  BY DEF IsSending
<1>3. /\ LastTells(calls, c, w) /\ SendsTell(calls, c, t) /\ SendsAgree(calls, c)
      /\ SomeSending(calls, c) \/ (c \in sees => c \in typing)
      /\ SomeSending(calls, c) \/ lost \/ stale \/ (c \in sees <=> c \in typing)
      /\ SomeOf(calls, c) \/ (c \in sees => w)
  BY DEF CallsGood
<1>4. Wanted(c)' = w /\ (c \in typing)' = t
  BY DEF Wanted
<1> HIDE DEF w, t
<1>5. /\ LastTells(calls', c, w) /\ SendsTell(calls', c, t) /\ SendsAgree(calls', c)
      /\ SomeSending(calls', c) <=> SomeSending(calls, c)
      /\ SomeOf(calls', c) <=> SomeOf(calls, c)
  <2>1. ASSUME NEW step \in Steps \ {"send"}, Goto(i, step)
        PROVE  /\ LastTells(calls', c, w) /\ SendsTell(calls', c, t) /\ SendsAgree(calls', c)
               /\ SomeSending(calls', c) <=> SomeSending(calls, c)
               /\ SomeOf(calls', c) <=> SomeOf(calls, c)
    <3>1. step \in Steps /\ step # "send"
      OBVIOUS
    <3> QED
      BY <1>1, <1>2, <1>3, <2>1, <3>1, GotoKeeps
  <2>2. CASE Return(i) /\ calls[i].chat # c
    <3>1. ~IsOf(calls[i], c)
      BY <2>2 DEF IsOf
    <3> QED
      BY <1>1, <1>2, <1>3, <2>2, <3>1, ReturnKeeps DEF Return
  <2> QED
    BY <2>1, <2>2
<1> QED
  BY <1>3, <1>4, <1>5 DEF CallsGood, w, t

\* The tracker is asked: it sends nothing, or the call is the only one to be
\* sent.
LEMMA CheckTypingKeeps ==
    ASSUME Typed, NEW i \in DOMAIN calls, CheckTyping(i), NEW c \in Chats \ harmed', CallsGood(c)
    PROVE  CallsGood(c)'
<1> USE DEF composer, whatsapp, history
<1> DEFINE d == calls[i].chat
           w == Wanted(c)
           t == c \in typing
           u == c \in typing'
<1>0. calls \in Seq(Call) /\ t \in BOOLEAN /\ u \in BOOLEAN /\ w \in BOOLEAN /\ calls[i].typing \in BOOLEAN
      /\ calls[i] \in Call /\ i \in Int /\ \A k \in DOMAIN calls : k \in Int
  BY StateIsBoolean, ChatIsCalled
<1>1. /\ calls[i].at = "typing" /\ typing' = With(typing, d, calls[i].typing)
      /\ IF calls[i].typing = (d \in typing) THEN Return(i) ELSE Goto(i, "send")
      /\ UNCHANGED <<active, idleTimer, sees, lost, stale>>
      /\ c = d => ~Overtakes(i)
  BY DEF CheckTyping, At
<1>2. /\ LastTells(calls, c, w) /\ SendsTell(calls, c, t) /\ SendsAgree(calls, c)
      /\ SomeSending(calls, c) \/ (c \in sees => c \in typing)
      /\ SomeSending(calls, c) \/ lost \/ stale \/ (c \in sees <=> c \in typing)
      /\ SomeOf(calls, c) \/ (c \in sees => w)
  BY DEF CallsGood
<1>3. Wanted(c)' = w /\ ~IsSending(calls[i], c)
  BY <1>1 DEF Wanted, IsSending
<1>4. c # d => u = t
  BY <1>1 DEF With
<1>5. c = d => u = calls[i].typing
  BY <1>0, <1>1 DEF With
<1>6. c = d => \A k \in DOMAIN calls : (k < i /\ IsOf(calls[k], c)) => calls[k].typing = calls[i].typing
  <2> SUFFICES ASSUME c = d, NEW k \in DOMAIN calls, k < i, IsOf(calls[k], c)
               PROVE  calls[k].typing = calls[i].typing
    OBVIOUS
  <2>1. k \in 1..(i - 1)
    BY <1>0
  <2> QED
    BY <1>1, <2>1 DEF Overtakes, IsOf
<1> HIDE DEF w, t, u
<1>7. CASE Return(i)
  <2>1. /\ SomeOf(calls', c) => SomeOf(calls, c)
        /\ SomeOf(calls, c) => SomeOf(calls', c) \/ IsOf(calls[i], c)
        /\ SomeSending(calls', c) <=> SomeSending(calls, c)
        /\ SendsTell(calls', c, t) /\ SendsAgree(calls', c) /\ LastTells(calls', c, w)
    <3>1. \A k \in DOMAIN calls : (k < i /\ IsOf(calls[k], c) /\ IsOf(calls[i], c))
                                    => calls[k].typing = calls[i].typing
      BY <1>6 DEF IsOf
    <3> QED
      BY <1>0, <1>2, <1>3, <1>7, <3>1, ReturnKeeps DEF Return
  <2>2. u = t
    <3>1. CASE c = d
      <4>1. calls[i].typing = (d \in typing)
        <5> SUFFICES ASSUME calls[i].typing # (d \in typing) PROVE FALSE
          OBVIOUS
        <5>1. Goto(i, "send")
          BY <1>1
        <5>0. Len(calls') = Len(calls)
          <6>1. "send" \in Steps /\ TRUE \in BOOLEAN
            BY DEF Steps
          <6> QED
            BY <1>0, <5>1, <6>1, GotoKeeps
        <5>2. Len(calls') = Len(calls) /\ Len(calls') = Len(calls) - 1 /\ Len(calls) \in Nat
          BY <1>0, <1>7, <5>1, <5>0, CallReturned DEF Return
        <5> QED
          BY <5>2
      <4> QED
        BY <1>5, <3>1, <4>1 DEF t
    <3> QED
      BY <1>4, <3>1
  <2>3. SomeOf(calls', c) \/ (c \in sees => w)
    <3> SUFFICES ASSUME ~SomeOf(calls', c), c \in sees PROVE w
      OBVIOUS
    <3>1. CASE ~IsOf(calls[i], c)
      BY <1>2, <2>1, <3>1
    <3>2. CASE IsOf(calls[i], c)
      <4>1. ~SomeSending(calls', c)
        BY DEF SomeSending, SomeOf, IsSending, IsOf
      <4>2. t /\ c = d
        BY <1>2, <2>1, <3>2, <4>1 DEF t, IsOf
      <4>3. \A k \in DOMAIN calls : k > i => ~IsOf(calls[k], c)
        <5> SUFFICES ASSUME NEW k \in DOMAIN calls, k > i, IsOf(calls[k], c) PROVE FALSE
          OBVIOUS
        <5>1. k - 1 \in DOMAIN calls' /\ calls'[k - 1] = calls[k]
          BY <1>0, <1>7, CallReturned DEF Return
        <5> QED
          BY <5>1 DEF SomeOf
      <4>4. calls[i].typing = w
        BY <1>2, <3>2, <4>3 DEF LastTells
      <4> QED
        BY <1>5, <2>2, <4>2, <4>4
    <3> QED
      BY <3>1, <3>2
  <2> QED
    BY <1>1, <1>2, <1>3, <2>1, <2>2, <2>3 DEF CallsGood, w, t, u
<1>8. CASE Goto(i, "send") /\ calls[i].typing # (d \in typing)
  <2>1. /\ calls' = [calls EXCEPT ![i].at = "send"] /\ "send" \in Steps
        /\ DOMAIN calls' = DOMAIN calls
        /\ \A k \in DOMAIN calls : k # i => calls'[k] = calls[k]
        /\ calls'[i].chat = d /\ calls'[i].typing = calls[i].typing /\ calls'[i].at = "send"
    BY <1>0, <1>8 DEF Goto, Steps, Call
  <2>2. LastTells(calls', c, w) /\ (SomeOf(calls', c) <=> SomeOf(calls, c))
    BY <1>0, <1>2, <1>8, <2>1, GotoKeeps
  <2>3. CASE c # d
    <3>1. ~IsSending(calls'[i], c) /\ ~IsOf(calls'[i], c) /\ ~IsOf(calls[i], c)
      BY <2>1, <2>3 DEF IsSending, IsOf
    <3>2. SomeSending(calls', c) <=> SomeSending(calls, c)
      BY <1>3, <2>1, <3>1 DEF SomeSending
    <3>3. SendsTell(calls', c, t)
      BY <1>2, <2>1, <3>1 DEF SendsTell
    <3>4. SendsAgree(calls', c)
      BY <1>2, <2>1, <3>1 DEF SendsAgree
    <3> QED
      BY <1>1, <1>2, <1>3, <1>4, <2>2, <2>3, <3>2, <3>3, <3>4 DEF CallsGood, w, t, u
  <2>4. CASE c = d
    <3>1. SomeSending(calls', c) /\ IsOf(calls[i], c)
      BY <2>1, <2>4 DEF SomeSending, IsSending, IsOf
    <3>2. \A k \in DOMAIN calls : ~IsSending(calls[k], c)
      <4> SUFFICES ASSUME NEW k \in DOMAIN calls, IsSending(calls[k], c) PROVE FALSE
        OBVIOUS
      <4>1. calls[k].typing = t /\ calls[i].typing # t
        BY <1>2, <1>8, <2>4 DEF SendsTell, t
      <4>2. k # i /\ IsOf(calls[k], c)
        BY <1>3 DEF IsSending, IsOf
      <4>3. CASE k < i
        BY <1>6, <2>4, <4>1, <4>2, <4>3
      <4>4. CASE i < k
        BY <1>2, <3>1, <4>1, <4>4 DEF SendsAgree
      <4> QED
        BY <1>0, <4>2, <4>3, <4>4
    <3>3. SendsTell(calls', c, u)
      BY <1>5, <2>1, <2>4, <3>2 DEF SendsTell
    <3>4. SendsAgree(calls', c)
      <4> SUFFICES ASSUME NEW j \in DOMAIN calls', NEW k \in DOMAIN calls',
                          j < k, IsOf(calls'[j], c), IsSending(calls'[k], c)
                   PROVE  calls'[j].typing = calls'[k].typing
        BY DEF SendsAgree
      <4>1. k = i
        BY <2>1, <3>2
      <4>2. j # i /\ j < i /\ calls'[j] = calls[j]
        BY <1>0, <2>1, <4>1
      <4> QED
        BY <1>6, <2>1, <2>4, <4>1, <4>2
    <3> QED
      BY <1>1, <1>2, <1>3, <2>2, <2>4, <3>1, <3>3, <3>4 DEF CallsGood, w, u
  <2> QED
    BY <2>3, <2>4
<1> QED
  BY <1>1, <1>7, <1>8

\* The typing state is sent.
LEMMA SendKeeps ==
    ASSUME Typed, NEW i \in DOMAIN calls, SendChatPresence(i), NEW c \in Chats \ harmed', CallsGood(c)
    PROVE  CallsGood(c)'
<1> USE DEF composer, tracker, history
<1> DEFINE d == calls[i].chat
           w == Wanted(c)
           t == c \in typing
<1>0. calls \in Seq(Call) /\ t \in BOOLEAN /\ w \in BOOLEAN /\ calls[i].typing \in BOOLEAN
      /\ calls[i] \in Call /\ i \in Int /\ \A k \in DOMAIN calls : k \in Int
  BY StateIsBoolean, ChatIsCalled
<1>1. /\ calls[i].at = "send" /\ Return(i)
      /\ sees' = With(sees, d, calls[i].typing) \/ (sees' = sees /\ c # d)
      /\ UNCHANGED <<active, idleTimer, typing, lost, stale>>
  BY DEF SendChatPresence, At, Harm
<1>2. /\ LastTells(calls, c, w) /\ SendsTell(calls, c, t) /\ SendsAgree(calls, c)
      /\ SomeSending(calls, c) \/ (c \in sees => c \in typing)
      /\ SomeSending(calls, c) \/ lost \/ stale \/ (c \in sees <=> c \in typing)
      /\ SomeOf(calls, c) \/ (c \in sees => w)
  BY DEF CallsGood
<1>3. Wanted(c)' = w /\ (c \in typing)' = t
  BY <1>1 DEF Wanted
<1>4. (IsOf(calls[i], c) <=> c = d) /\ (IsSending(calls[i], c) <=> c = d)
  BY <1>1 DEF IsOf, IsSending
<1>5. /\ c = d => ((c \in sees') <=> calls[i].typing)
      /\ c # d => ((c \in sees') <=> (c \in sees))
  BY <1>0, <1>1 DEF With
<1>6. \A k \in DOMAIN calls : (k < i /\ IsOf(calls[k], c) /\ IsOf(calls[i], c))
                                => calls[k].typing = calls[i].typing
  BY <1>2, <1>4 DEF SendsAgree
<1> HIDE DEF w, t
<1>7. /\ SomeOf(calls', c) => SomeOf(calls, c)
      /\ SomeOf(calls, c) => SomeOf(calls', c) \/ IsOf(calls[i], c)
      /\ SomeSending(calls', c) => SomeSending(calls, c)
      /\ SomeSending(calls, c) => SomeSending(calls', c) \/ IsSending(calls[i], c)
      /\ SendsTell(calls', c, t) /\ SendsAgree(calls', c) /\ LastTells(calls', c, w)
  BY <1>0, <1>1, <1>2, <1>6, ReturnKeeps DEF Return
<1>8. CASE c # d
  BY <1>1, <1>2, <1>3, <1>4, <1>5, <1>7, <1>8 DEF CallsGood, w, t
<1>9. CASE c = d
  <2>1. calls[i].typing = t
    BY <1>2, <1>4, <1>9 DEF SendsTell
  <2>2. c \in sees' <=> c \in typing
    BY <1>5, <1>9, <2>1 DEF t
  <2>3. SomeOf(calls', c) \/ (c \in sees' => w)
    <3> SUFFICES ASSUME ~SomeOf(calls', c) PROVE c \in sees' => w
      OBVIOUS
    <3>1. \A k \in DOMAIN calls : k > i => ~IsOf(calls[k], c)
      <4> SUFFICES ASSUME NEW k \in DOMAIN calls, k > i, IsOf(calls[k], c) PROVE FALSE
        OBVIOUS
      <4>1. k - 1 \in DOMAIN calls' /\ calls'[k - 1] = calls[k]
        BY <1>0, <1>1, CallReturned DEF Return
      <4> QED
        BY <4>1 DEF SomeOf
    <3>2. calls[i].typing = w
      BY <1>2, <1>4, <1>9, <3>1 DEF LastTells
    <3> QED
      BY <1>5, <1>9, <3>2
  <2> QED
    BY <1>1, <1>3, <1>7, <2>2, <2>3 DEF CallsGood, w, t
<1> QED
  BY <1>8, <1>9

LEMMA ServeKeepsCalls ==
    ASSUME Typed, HarmlessGood, NEW i \in DOMAIN calls, Serve(i)
    PROVE  HarmlessGood'
<1> USE DEF composer, tracker, whatsapp, history
<1>0. harmed \subseteq harmed'
  BY DEF Serve, Lose, Accept, SendPresence, CheckSubscribed, Subscribe, CheckTyping,
         SendChatPresence, Harm
<1> SUFFICES ASSUME NEW c \in Chats \ harmed' PROVE CallsGood(c)'
  BY DEF HarmlessGood
<1>1. CallsGood(c)
  BY <1>0 DEF HarmlessGood
<1>2. CASE CheckTyping(i)
  BY <1>1, <1>2, CheckTypingKeeps
<1>3. CASE SendChatPresence(i)
  BY <1>1, <1>3, SendKeeps
<1>4. CASE ~CheckTyping(i) /\ ~SendChatPresence(i)
  <2>1. calls[i].at # "send" /\ UNCHANGED <<active, idleTimer, typing, sees, lost, stale>>
    BY <1>4 DEF Serve, Lose, Accept, SendPresence, CheckSubscribed, Subscribe, At
  <2>2. \/ \E step \in Steps \ {"send"} : Goto(i, step)
        \/ Return(i) /\ calls[i].chat # c
    BY <1>4 DEF Serve, Lose, Accept, SendPresence, CheckSubscribed, Subscribe, Harm,
                AfterOnline, Steps
  <2> QED
    BY <1>1, <2>1, <2>2, SilentStepKeeps
<1> QED
  BY <1>2, <1>3, <1>4

LEMMA ConnectionKeepsCalls ==
    ASSUME Typed, HarmlessGood, Connection
    PROVE  HarmlessGood'
<1> USE DEF composer, tracker, whatsapp, history
<1>0. UNCHANGED <<active, idleTimer, calls>>
  BY DEF Connection, Disconnect, Reconnect, Reset, Restart
<1> SUFFICES ASSUME NEW c \in Chats \ harmed' PROVE CallsGood(c)'
  BY DEF HarmlessGood
<1>1. CASE Disconnect \/ Restart
  <2>1. CallsGood(c) /\ UNCHANGED typing /\ c \notin sees' /\ (lost' \/ stale')
    BY <1>1 DEF HarmlessGood, Disconnect, Restart, Forgotten
  <2> QED
    BY <1>0, <2>1 DEF CallsGood, Wanted
<1>2. CASE Reconnect
  <2>1. CallsGood(c) /\ UNCHANGED <<typing, sees, lost, stale>>
    BY <1>2 DEF HarmlessGood, Reconnect
  <2> QED
    BY <1>0, <2>1 DEF CallsGood, Wanted
<1>3. CASE Reset
  <2>1. c \notin typing' /\ c \notin sees'
    BY <1>3 DEF Reset
  <2>2. \A i \in DOMAIN calls : ~IsSending(calls[i], c)
    BY <1>3 DEF Reset, Sending, IsSending
  <2>3. c \in harmed => \A i \in DOMAIN calls : ~IsOf(calls[i], c)
    BY <1>3 DEF Reset, InFlight, IsOf
  <2>4. LastTells(calls, c, Wanted(c))
    BY <2>3 DEF HarmlessGood, CallsGood, LastTells
  <2>5. SendsTell(calls, c, FALSE) /\ SendsAgree(calls, c) /\ (c \in typing)' = FALSE
    BY <2>1, <2>2 DEF SendsTell, SendsAgree
  <2> QED
    BY <1>0, <2>1, <2>4, <2>5 DEF CallsGood, Wanted
<1> QED
  BY <1>1, <1>2, <1>3 DEF Connection

-----------------------------------------------------------------------------
(* The theorems.                                                           *)

LEMMA InitComposerIInv == ComposerInit => ComposerIInv
<1> SUFFICES ASSUME ComposerInit PROVE ComposerIInv
  OBVIOUS
<1>1. Typed
  BY InitTyped
<1>2. HarmlessGood
  BY DEF ComposerInit, HarmlessGood, CallsGood, LastTells, SendsTell, SendsAgree
<1>3. MarksReal
  BY DEF ComposerInit, MarksReal
<1> QED
  BY <1>1, <1>2, <1>3 DEF ComposerIInv

LEMMA NextComposerIInv == ComposerIInv /\ [ComposerNext]_composerVars => ComposerIInv'
<1> SUFFICES ASSUME ComposerIInv, [ComposerNext]_composerVars PROVE ComposerIInv'
  OBVIOUS
<1>1. HarmlessGood /\ UNCHANGED composerVars => HarmlessGood'
  BY DEF composerVars, composer, tracker, whatsapp, history, HarmlessGood, CallsGood, Wanted
<1>2. HarmlessGood'
  BY <1>1, UserKeepsCalls, ServeKeepsCalls, ConnectionKeepsCalls DEF ComposerIInv, ComposerNext
<1> QED
  BY <1>2, NextTyped, NextMarks DEF ComposerIInv

LEMMA ComposerInvariance == ComposerSpec => []ComposerIInv
  BY InitComposerIInv, NextComposerIInv, PTL DEF ComposerSpec

\* Calls stay within their bound, and only partners are subscribed to.
THEOREM ComposerTypeCorrectness == ComposerSpec => []ComposerTypeOK
<1>1. ComposerIInv => ComposerTypeOK
  BY DEF ComposerIInv, Typed
<1> QED
  BY <1>1, ComposerInvariance, PTL

\* Once its calls are through, a chat's members see the user typing only while
\* the chat is open and its idle timer is armed.
THEOREM NeverDanglingTyping == ComposerSpec => []NoDanglingTyping
<1>1. ComposerIInv => NoDanglingTyping
  BY DEF ComposerIInv, Typed, ComposerTypeOK, HarmlessGood, CallsGood, NoDanglingTyping, Quiet, InFlight, SomeOf,
         IsOf, Wanted
<1> QED
  BY <1>1, ComposerInvariance, PTL

\* The tracker believes what WhatsApp has, but for a restarted session.
THEOREM TrackerAlwaysMatches == ComposerSpec => []TrackerMatchesServer
<1>1. ComposerIInv => TrackerMatchesServer
  BY DEF ComposerIInv, HarmlessGood, CallsGood, TrackerMatchesServer, Quiet, InFlight, SomeSending, IsSending
<1> QED
  BY <1>1, ComposerInvariance, PTL

\* A contact the tracker has marked is subscribed to, or a call is just doing it.
THEOREM SubscriptionAlwaysReal == ComposerSpec => []SubscriptionIsReal
<1>1. ComposerIInv => SubscriptionIsReal
  BY DEF ComposerIInv, MarksReal, SubscriptionIsReal, SomeSubscribing, IsSubscribing
<1> QED
  BY <1>1, ComposerInvariance, PTL
=============================================================================
