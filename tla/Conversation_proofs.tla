------------------------- MODULE Conversation_proofs -------------------------
(***************************************************************************)
(* The open conversation shows its own messages, and all of them, for      *)
(* every set of messages, chats and calls in flight.                       *)
(*                                                                         *)
(* ShownBelongsToActive is not inductive: a reply is put into the view     *)
(* because it names the open chat, and that says something about its page  *)
(* only if every page in flight holds messages of the chat it was asked    *)
(* for.  IInv adds that, and that a find walk which is waiting for a page  *)
(* has some budget left, which keeps the budget a natural number.          *)
(*                                                                         *)
(* That a settled view is exact takes an invariant of its own, Exact,      *)
(* about views that are not settled: see the last part.                    *)
(***************************************************************************)
EXTENDS Conversation, FiniteSetTheorems, TLAPS

GoodCall(r) ==
    /\ r \in CallRecord
    /\ \A i \in DOMAIN r.page : ChatOf[r.page[i]] = r.chat
    /\ r.kind = "find" => r.budget # 0

CallsGood == \A c \in Calls : GoodCall(call[c])

IInv == TypeOK /\ CallsGood /\ ShownBelongsToActive

-----------------------------------------------------------------------------
(* The record of a call.                                                   *)

LEMMA EmptySequence ==
    ASSUME NEW S
    PROVE  <<>> \in Seq(S) /\ DOMAIN <<>> = {}
<1>1. <<>> \in Seq(S) /\ Len(<<>>) = 0
  OBVIOUS
<1>2. DOMAIN <<>> = 1..0
  BY <1>1
<1> QED
  BY <1>1, <1>2

\* A call that has no page yet.
LEMMA CallIsGood ==
    ASSUME NEW kind \in {"open", "older", "search", "find", "retry"}, NEW phase \in Phases,
           NEW chat \in Chats \cup {NoChat}, NEW before \in Nat, NEW target \in Nat,
           NEW budget \in 0..FindLimit, kind = "find" => budget # 0
    PROVE  GoodCall(Call(kind, phase, chat, before, target, budget))
<1> DEFINE r == Call(kind, phase, chat, before, target, budget)
<1>1. <<>> \in Seq(Msgs) /\ DOMAIN <<>> = {}
  BY EmptySequence
<1>2. r \in CallRecord
  BY <1>1 DEF Call, CallRecord
<1>3. r.page = <<>> /\ r.kind = kind /\ r.budget = budget
  BY DEF Call
<1> QED
  BY <1>1, <1>2, <1>3 DEF GoodCall

LEMMA FreeIsGood == GoodCall(Free)
<1>1. 0 \in 0..FindLimit
  BY FindLimitAssumption
<1> QED
  BY <1>1, CallIsGood DEF Free, Phases

LEMMA OvertakenIsGood ==
    ASSUME NEW r, GoodCall(r), NEW b \in BOOLEAN
    PROVE  GoodCall([r EXCEPT !.overtaken = b])
<1> DEFINE s == [r EXCEPT !.overtaken = b]
<1>1. s \in CallRecord
  BY DEF GoodCall, CallRecord
<1>2. s.page = r.page /\ s.chat = r.chat /\ s.kind = r.kind /\ s.budget = r.budget
  BY DEF GoodCall, CallRecord
<1> QED
  BY <1>1, <1>2 DEF GoodCall

\* Overtake only marks calls.
LEMMA OvertakeIsGood ==
    ASSUME CallsGood, NEW c \in Calls, NEW kinds
    PROVE  /\ DOMAIN Overtake(c, kinds) = Calls
           /\ \A d \in Calls : GoodCall(Overtake(c, kinds)[d])
<1>1. DOMAIN Overtake(c, kinds) = Calls
  BY DEF Overtake
<1>2. ASSUME NEW d \in Calls
      PROVE  GoodCall(Overtake(c, kinds)[d])
  <2>1. Overtake(c, kinds)[d] \in {call[d], [call[d] EXCEPT !.overtaken = TRUE]}
    BY DEF Overtake
  <2>2. GoodCall(call[d])
    BY DEF CallsGood
  <2>3. GoodCall([call[d] EXCEPT !.overtaken = TRUE])
    BY <2>2, OvertakenIsGood
  <2> QED
    BY <2>1, <2>2, <2>3
<1> QED
  BY <1>1, <1>2

\* The type of "call" follows from its records.
LEMMA GoodCallsAreTyped ==
    ASSUME call' = [c \in Calls |-> call'[c]], CallsGood'
    PROVE  call' \in [Calls -> CallRecord]
  BY DEF CallsGood, GoodCall

-----------------------------------------------------------------------------
(* The daemon's steps: the view is not touched.                            *)

ViewTyped ==
    /\ active \in Chats \cup {NoChat}
    /\ shown \in Seq(Msgs)
    /\ hasOlder \in BOOLEAN /\ loadingOlder \in BOOLEAN
    /\ matches \subseteq Msgs

TablesTyped ==
    /\ row \in [Msgs -> {"none", "stored", "deleted"}]
    /\ publishing \subseteq Events
    /\ feed \in Seq(Events)
    /\ disturbed \in BOOLEAN

LEMMA Parts ==
    /\ IInv <=> /\ TablesTyped /\ ViewTyped /\ ShownBelongsToActive
                /\ call \in [Calls -> CallRecord] /\ CallsGood
    /\ IInv' <=> /\ TablesTyped' /\ ViewTyped' /\ ShownBelongsToActive'
                 /\ call' \in [Calls -> CallRecord] /\ CallsGood'
  BY DEF IInv, TypeOK, TablesTyped, ViewTyped

LEMMA ViewKept ==
    ASSUME IInv, UNCHANGED viewVars
    PROVE  ViewTyped' /\ ShownBelongsToActive'
  BY DEF IInv, TypeOK, ViewTyped, viewVars, ShownBelongsToActive

LEMMA CallsKept ==
    ASSUME IInv, UNCHANGED call
    PROVE  call' \in [Calls -> CallRecord] /\ CallsGood'
  BY DEF IInv, TypeOK, CallsGood

\* One call is replaced by a good record.
LEMMA CallReplaced ==
    ASSUME IInv, NEW c \in Calls, NEW r, GoodCall(r), call' = [call EXCEPT ![c] = r]
    PROVE  call' \in [Calls -> CallRecord] /\ CallsGood'
<1>1. \A d \in Calls : call'[d] = IF d = c THEN r ELSE call[d]
  BY DEF IInv, TypeOK
<1>2. CallsGood'
  BY <1>1 DEF IInv, CallsGood
<1>3. r \in CallRecord
  BY DEF GoodCall
<1> QED
  BY <1>2, <1>3 DEF IInv, TypeOK

\* Other calls may be marked as overtaken while one is replaced.
LEMMA CallReplacedAndOvertaking ==
    ASSUME IInv, NEW c \in Calls, NEW kinds, NEW r, GoodCall(r),
           call' = [Overtake(c, kinds) EXCEPT ![c] = r]
    PROVE  call' \in [Calls -> CallRecord] /\ CallsGood'
<1> DEFINE calls == Overtake(c, kinds)
<1>1. DOMAIN calls = Calls /\ \A d \in Calls : GoodCall(calls[d])
  BY OvertakeIsGood DEF IInv
<1>2. calls = [d \in Calls |-> calls[d]]
  BY DEF Overtake
<1>3. call' = [calls EXCEPT ![c] = r]
  OBVIOUS
<1> HIDE DEF calls
<1>4. \A d \in Calls : call'[d] = IF d = c THEN r ELSE calls[d]
  BY <1>1, <1>2, <1>3
<1>5. CallsGood'
  BY <1>1, <1>4 DEF CallsGood
<1>6. call' = [d \in Calls |-> call'[d]]
  BY <1>1, <1>2, <1>3
<1> QED
  BY <1>5, <1>6, GoodCallsAreTyped

\* Calls are marked one by one, as the loss of the feed does.
LEMMA CallsMarked ==
    ASSUME IInv, NEW marked \in [Calls -> BOOLEAN],
           call' = [c \in Calls |-> [call[c] EXCEPT !.overtaken = marked[c]]]
    PROVE  call' \in [Calls -> CallRecord] /\ CallsGood'
<1>1. \A c \in Calls : GoodCall([call[c] EXCEPT !.overtaken = marked[c]])
  BY OvertakenIsGood DEF IInv, CallsGood
<1>2. CallsGood'
  BY <1>1 DEF CallsGood
<1>3. call' = [c \in Calls |-> call'[c]]
  OBVIOUS
<1> QED
  BY <1>2, <1>3, GoodCallsAreTyped

\* What ListMessages returns is a sequence of messages of the chat.
LEMMA PagesBelong ==
    ASSUME NEW chat, NEW before, NEW page \in Pages(chat, before)
    PROVE  page \in Seq(Msgs) /\ \A i \in DOMAIN page : ChatOf[page[i]] = chat
<1> DEFINE rows == Older(chat, before)
           size == IF Cardinality(rows) < PageSize THEN Cardinality(rows) ELSE PageSize
<1>1. rows \subseteq Msgs /\ \A m \in rows : ChatOf[m] = chat
  BY DEF Older, stored
<1>2. Cardinality(rows) \in Nat
  BY <1>1, MsgsAssumption, FS_Subset, FS_CardinalityType
<1>3. size \in Nat
  BY <1>2, PageSizeAssumption
<1>4. page \in [1..size -> rows]
  BY DEF Pages
<1> HIDE DEF rows, size
<1>5. page \in Seq(rows) /\ DOMAIN page = 1..size
  BY <1>3, <1>4
<1> QED
  BY <1>1, <1>4, <1>5

\* ... and so is the result of a search.
LEMMA SearchBelongs ==
    ASSUME NEW chat, NEW page \in {<<>>} \cup {<<m>> : m \in Older(chat, 0)}
    PROVE  page \in Seq(Msgs) /\ \A i \in DOMAIN page : ChatOf[page[i]] = chat
<1>1. CASE page = <<>>
  BY <1>1, EmptySequence
<1>2. CASE \E m \in Older(chat, 0) : page = <<m>>
  <2>1. PICK m \in Older(chat, 0) : page = <<m>>
    BY <1>2
  <2>2. m \in Msgs /\ ChatOf[m] = chat
    BY DEF Older, stored
  <2>3. page \in Seq(Msgs) /\ Len(page) = 1 /\ page[1] = m
    BY <2>1, <2>2
  <2>4. DOMAIN page = 1..1
    BY <2>3
  <2> QED
    BY <2>2, <2>3, <2>4
<1> QED
  BY <1>1, <1>2

LEMMA ServedIsGood ==
    ASSUME NEW r, GoodCall(r), NEW page \in Seq(Msgs), \A i \in DOMAIN page : ChatOf[page[i]] = r.chat
    PROVE  GoodCall([r EXCEPT !.phase = "served", !.page = page])
<1> DEFINE s == [r EXCEPT !.phase = "served", !.page = page]
<1>1. s \in CallRecord
  BY DEF GoodCall, CallRecord, Phases
<1>2. s.page = page /\ s.chat = r.chat /\ s.kind = r.kind /\ s.budget = r.budget
  BY DEF GoodCall, CallRecord
<1> QED
  BY <1>1, <1>2 DEF GoodCall

LEMMA FailedIsGood ==
    ASSUME NEW r, GoodCall(r)
    PROVE  GoodCall([r EXCEPT !.phase = "failed"])
<1> DEFINE s == [r EXCEPT !.phase = "failed"]
<1>1. s \in CallRecord
  BY DEF GoodCall, CallRecord, Phases
<1>2. s.page = r.page /\ s.chat = r.chat /\ s.kind = r.kind /\ s.budget = r.budget
  BY DEF GoodCall, CallRecord
<1> QED
  BY <1>1, <1>2 DEF GoodCall

LEMMA DaemonStep ==
    ASSUME IInv, DaemonNext
    PROVE  IInv'
<1>1. ASSUME NEW m \in Msgs, Arrive(m)
      PROVE  IInv'
  <2>1. ViewTyped' /\ ShownBelongsToActive' /\ call' \in [Calls -> CallRecord] /\ CallsGood'
    BY <1>1, ViewKept, CallsKept DEF Arrive
  <2>2. TablesTyped'
    BY <1>1 DEF IInv, TypeOK, TablesTyped, Arrive, Events
  <2> QED
    BY <2>1, <2>2, Parts
<1>2. ASSUME NEW m \in Msgs, SyncHistory(m)
      PROVE  IInv'
  <2> DEFINE marked == [c \in Calls |-> call[c].overtaken \/ call[c].phase = "served"]
  <2>1. marked \in [Calls -> BOOLEAN]
    BY DEF IInv, TypeOK, CallRecord
  <2>2. call' = [c \in Calls |-> [call[c] EXCEPT !.overtaken = marked[c]]]
    BY <1>2 DEF SyncHistory
  <2> HIDE DEF marked
  <2>3. call' \in [Calls -> CallRecord] /\ CallsGood'
    BY <2>1, <2>2, CallsMarked
  <2>4. ViewTyped' /\ ShownBelongsToActive'
    BY <1>2, ViewKept DEF SyncHistory
  <2>5. TablesTyped'
    BY <1>2 DEF IInv, TypeOK, TablesTyped, SyncHistory
  <2> QED
    BY <2>3, <2>4, <2>5, Parts
<1>3. ASSUME NEW m \in Msgs, Delete(m)
      PROVE  IInv'
  <2>1. ViewTyped' /\ ShownBelongsToActive' /\ call' \in [Calls -> CallRecord] /\ CallsGood'
    BY <1>3, ViewKept, CallsKept DEF Delete
  <2>2. TablesTyped'
    BY <1>3 DEF IInv, TypeOK, TablesTyped, Delete, Events
  <2> QED
    BY <2>1, <2>2, Parts
<1>4. ASSUME NEW e \in publishing, Publish(e)
      PROVE  IInv'
  <2>1. ViewTyped' /\ ShownBelongsToActive' /\ call' \in [Calls -> CallRecord] /\ CallsGood'
    BY <1>4, ViewKept, CallsKept DEF Publish
  <2>2. e \in Events /\ e.msg \in Msgs
    BY DEF IInv, TypeOK, Events
  <2>3. feed' \in Seq(Events)
    BY <1>4, <2>2 DEF IInv, TypeOK, Publish
  <2>4. row' = row /\ disturbed' = disturbed /\ publishing' \subseteq publishing
    BY <1>4 DEF Publish
  <2>5. TablesTyped'
    BY <2>3, <2>4 DEF IInv, TypeOK, TablesTyped
  <2> QED
    BY <2>1, <2>5, Parts
<1>5. ASSUME NEW c \in Calls, Serve(c)
      PROVE  IInv'
  <2>1. GoodCall(call[c])
    BY DEF IInv, CallsGood
  <2> DEFINE chat == call[c].chat
             found == {<<>>} \cup {<<m>> : m \in Older(chat, 0)}
             read == Pages(chat, call[c].before)
  <2>2. PICK page \in IF call[c].kind = "search" THEN found ELSE read :
               call' = [call EXCEPT ![c] = [call[c] EXCEPT !.phase = "served", !.page = page]]
    BY <1>5 DEF Serve
  <2>3. page \in found \/ page \in read
    BY <2>2
  <2>4. page \in Seq(Msgs) /\ \A i \in DOMAIN page : ChatOf[page[i]] = chat
    <3>1. CASE page \in found
      BY <3>1, SearchBelongs
    <3>2. CASE page \in read
      BY <3>2, PagesBelong
    <3> QED
      BY <2>3, <3>1, <3>2
  <2> DEFINE r == [call[c] EXCEPT !.phase = "served", !.page = page]
  <2>5. GoodCall(r)
    BY <2>1, <2>4, ServedIsGood
  <2>6. call' = [call EXCEPT ![c] = r]
    BY <2>2
  <2> HIDE DEF r
  <2>7. call' \in [Calls -> CallRecord] /\ CallsGood'
    BY <2>5, <2>6, CallReplaced
  <2>8. ViewTyped' /\ ShownBelongsToActive'
    BY <1>5, ViewKept DEF Serve
  <2>9. TablesTyped'
    BY <1>5 DEF IInv, TypeOK, TablesTyped, Serve, tableVars
  <2> QED
    BY <2>7, <2>8, <2>9, Parts
<1>6. ASSUME NEW c \in Calls, Fail(c)
      PROVE  IInv'
  <2> DEFINE r == [call[c] EXCEPT !.phase = "failed"]
  <2>1. GoodCall(r)
    BY FailedIsGood DEF IInv, CallsGood
  <2>2. call' = [call EXCEPT ![c] = r]
    BY <1>6 DEF Fail
  <2> HIDE DEF r
  <2>3. call' \in [Calls -> CallRecord] /\ CallsGood'
    BY <2>1, <2>2, CallReplaced
  <2>4. ViewTyped' /\ ShownBelongsToActive'
    BY <1>6, ViewKept DEF Fail
  <2>5. TablesTyped'
    BY <1>6 DEF IInv, TypeOK, TablesTyped, Fail, tableVars
  <2> QED
    BY <2>3, <2>4, <2>5, Parts
<1> QED
  BY <1>1, <1>2, <1>3, <1>4, <1>5, <1>6 DEF DaemonNext

-----------------------------------------------------------------------------
(* The view.                                                               *)

Belongs(seq, chat) == seq \in Seq(Msgs) /\ \A i \in DOMAIN seq : ChatOf[seq[i]] = chat

LEMMA ViewBelongs ==
    ASSUME IInv
    PROVE  /\ Belongs(shown, active)
           /\ shown # <<>> => Head(shown) \in Msgs
<1>1. shown \in Seq(Msgs)
  BY DEF IInv, TypeOK
<1>2. \A i \in DOMAIN shown : shown[i] \in Range(shown)
  BY DEF Range
<1> QED
  BY <1>1, <1>2 DEF IInv, ShownBelongsToActive, Belongs

LEMMA BelongingView ==
    ASSUME Belongs(shown, active)', matches' \subseteq Msgs, \A m \in matches' : ChatOf[m] = active',
           active' \in Chats \cup {NoChat}, hasOlder' \in BOOLEAN, loadingOlder' \in BOOLEAN
    PROVE  ViewTyped' /\ ShownBelongsToActive'
<1>1. \A m \in Range(shown') : ChatOf[m] = active'
  BY DEF Belongs, Range
<1> QED
  BY <1>1 DEF Belongs, ViewTyped, ShownBelongsToActive

LEMMA EmptyBelongs ==
    ASSUME NEW chat
    PROVE  Belongs(<<>>, chat)
  BY EmptySequence DEF Belongs

LEMMA AppendBelongs ==
    ASSUME NEW seq, NEW chat, Belongs(seq, chat), NEW m \in Msgs, ChatOf[m] = chat
    PROVE  Belongs(Append(seq, m), chat)
<1>1. Append(seq, m) \in Seq(Msgs) /\ Len(Append(seq, m)) = Len(seq) + 1
  BY DEF Belongs
<1>2. \A i \in 1..(Len(seq) + 1) : Append(seq, m)[i] = IF i = Len(seq) + 1 THEN m ELSE seq[i]
  BY DEF Belongs
<1>3. \A i \in 1..(Len(seq) + 1) : i # Len(seq) + 1 => i \in DOMAIN seq
  BY DEF Belongs
<1>4. DOMAIN Append(seq, m) = 1..(Len(seq) + 1)
  BY <1>1
<1> QED
  BY <1>1, <1>2, <1>3, <1>4 DEF Belongs

LEMMA ConcatBelongs ==
    ASSUME NEW seq, NEW tail, NEW chat, Belongs(seq, chat), Belongs(tail, chat)
    PROVE  Belongs(seq \o tail, chat)
<1>1. seq \in Seq(Msgs) /\ tail \in Seq(Msgs)
  BY DEF Belongs
<1>2. seq \o tail \in Seq(Msgs) /\ Len(seq \o tail) = Len(seq) + Len(tail)
  BY <1>1
<1>3. ASSUME NEW i \in DOMAIN (seq \o tail)
      PROVE  ChatOf[(seq \o tail)[i]] = chat
  <2>1. i \in 1..(Len(seq) + Len(tail))
    BY <1>2
  <2>2. CASE i <= Len(seq)
    <3>1. (seq \o tail)[i] = seq[i] /\ i \in DOMAIN seq
      BY <1>1, <2>1, <2>2
    <3> QED
      BY <3>1 DEF Belongs
  <2>3. CASE i > Len(seq)
    <3>1. (seq \o tail)[i] = tail[i - Len(seq)] /\ i - Len(seq) \in DOMAIN tail
      BY <1>1, <2>1, <2>3
    <3> QED
      BY <3>1 DEF Belongs
  <2> QED
    BY <1>1, <2>1, <2>2, <2>3
<1> QED
  BY <1>2, <1>3 DEF Belongs

LEMMA PartBelongs ==
    ASSUME NEW seq, NEW chat, Belongs(seq, chat), NEW a \in 1..(Len(seq) + 1), NEW b \in 0..Len(seq)
    PROVE  Belongs(SubSeq(seq, a, b), chat)
<1>1. seq \in Seq(Msgs)
  BY DEF Belongs
<1>2. SubSeq(seq, a, b) \in Seq(Msgs)
  BY <1>1
<1>3. Len(SubSeq(seq, a, b)) = IF a <= b THEN b - a + 1 ELSE 0
  BY <1>1
<1>4. ASSUME NEW i \in DOMAIN SubSeq(seq, a, b)
      PROVE  ChatOf[SubSeq(seq, a, b)[i]] = chat
  <2>1. i \in 1..Len(SubSeq(seq, a, b))
    BY <1>2
  <2>2. a <= b /\ i \in 1..(b - a + 1)
    BY <1>3, <2>1
  <2>3. SubSeq(seq, a, b)[i] = seq[a + i - 1] /\ a + i - 1 \in DOMAIN seq
    BY <1>1, <2>2
  <2> QED
    BY <2>3 DEF Belongs
<1> QED
  BY <1>2, <1>4 DEF Belongs

-----------------------------------------------------------------------------
(* Events.                                                                 *)

LEMMA MessageEvent ==
    ASSUME IInv, NEW m \in Msgs, OnMessage(m), UNCHANGED <<active, hasOlder, loadingOlder, matches>>
    PROVE  ViewTyped' /\ ShownBelongsToActive' /\ disturbed' \in BOOLEAN
<1>1. Belongs(shown, active)
  BY ViewBelongs
<1>2. Belongs(shown', active)
  BY <1>1, AppendBelongs DEF OnMessage
<1>3. disturbed' \in BOOLEAN
  BY DEF OnMessage, IInv, TypeOK
<1>4. ViewTyped' /\ ShownBelongsToActive'
  BY <1>2, BelongingView DEF IInv, TypeOK, ShownBelongsToActive
<1> QED
  BY <1>3, <1>4

LEMMA DeletedEvent ==
    ASSUME IInv, NEW m \in Msgs, OnMessageDeleted(m), UNCHANGED <<active, hasOlder, loadingOlder, matches>>
    PROVE  ViewTyped' /\ ShownBelongsToActive' /\ disturbed' \in BOOLEAN
<1>1. Belongs(shown, active)
  BY ViewBelongs
<1>2. Belongs(shown', active)
  <2>1. CASE shown' = shown
    BY <1>1, <2>1
  <2>2. ASSUME NEW i \in DOMAIN shown,
               shown' = SubSeq(shown, 1, i - 1) \o SubSeq(shown, i + 1, Len(shown))
        PROVE  Belongs(shown', active)
    <3>1. i \in 1..Len(shown) /\ Len(shown) \in Nat
      BY <1>1 DEF Belongs
    <3>2. /\ 1 \in 1..(Len(shown) + 1) /\ i - 1 \in 0..Len(shown)
          /\ i + 1 \in 1..(Len(shown) + 1) /\ Len(shown) \in 0..Len(shown)
      BY <3>1
    <3>3. Belongs(SubSeq(shown, 1, i - 1), active)
      BY <1>1, <3>2, PartBelongs
    <3>4. Belongs(SubSeq(shown, i + 1, Len(shown)), active)
      BY <1>1, <3>2, PartBelongs
    <3> QED
      BY <2>2, <3>3, <3>4, ConcatBelongs
  <2> QED
    BY <2>1, <2>2 DEF OnMessageDeleted
<1>3. disturbed' \in BOOLEAN
  BY DEF OnMessageDeleted, IInv, TypeOK
<1>4. ViewTyped' /\ ShownBelongsToActive'
  BY <1>2, BelongingView DEF IInv, TypeOK, ShownBelongsToActive
<1> QED
  BY <1>3, <1>4

LEMMA EventStep ==
    ASSUME IInv, OnEvent
    PROVE  IInv'
<1> DEFINE e == Head(feed)
<1>1. e \in Events /\ e.msg \in Msgs /\ feed' \in Seq(Events)
  <2>1. feed \in Seq(Events) /\ feed # <<>> /\ feed' = Tail(feed)
    BY DEF IInv, TypeOK, OnEvent
  <2>2. e \in Events /\ Tail(feed) \in Seq(Events)
    BY <2>1
  <2> QED
    BY <2>1, <2>2 DEF Events
<1>2. UNCHANGED <<active, hasOlder, loadingOlder, matches>> /\ row' = row /\ publishing' = publishing
  BY DEF OnEvent, tableVars
<1>3. OnMessage(e.msg) \/ OnMessageDeleted(e.msg)
  BY DEF OnEvent
<1>4. ViewTyped' /\ ShownBelongsToActive' /\ disturbed' \in BOOLEAN
  BY <1>1, <1>2, <1>3, MessageEvent, DeletedEvent
<1>5. TablesTyped'
  BY <1>1, <1>2, <1>4 DEF IInv, TypeOK, TablesTyped
<1>6. call' \in [Calls -> CallRecord] /\ CallsGood'
  <2> DEFINE marked == [c \in Calls |-> call[c].overtaken \/ Overtakes(e, c)]
  <2>1. \A c \in Calls : call[c].overtaken \in BOOLEAN /\ Overtakes(e, c) \in BOOLEAN
    BY DEF IInv, TypeOK, CallRecord, Overtakes
  <2>2. marked \in [Calls -> BOOLEAN]
    BY <2>1
  <2>3. call' = [c \in Calls |-> [call[c] EXCEPT !.overtaken = marked[c]]]
    BY DEF OnEvent
  <2> HIDE DEF marked
  <2> QED
    BY <2>2, <2>3, CallsMarked
<1> QED
  BY <1>4, <1>5, <1>6, Parts

LEMMA LossStep ==
    ASSUME IInv, LoseEvents
    PROVE  IInv'
<1> DEFINE marked == [c \in Calls |-> call[c].overtaken \/ call[c].phase = "served"]
<1>1. marked \in [Calls -> BOOLEAN]
  BY DEF IInv, TypeOK, CallRecord
<1>2. call' = [c \in Calls |-> [call[c] EXCEPT !.overtaken = marked[c]]]
  BY DEF LoseEvents
<1> HIDE DEF marked
<1>3. call' \in [Calls -> CallRecord] /\ CallsGood'
  BY <1>1, <1>2, CallsMarked
<1>4. ViewTyped' /\ ShownBelongsToActive'
  BY ViewKept DEF LoseEvents
<1>5. feed' \in Seq(Events)
  BY EmptySequence DEF LoseEvents
<1>6. TablesTyped'
  BY <1>5 DEF IInv, TypeOK, TablesTyped, LoseEvents, tableVars
<1> QED
  BY <1>3, <1>4, <1>6, Parts

-----------------------------------------------------------------------------
(* The user, and replies.                                                  *)

LEMMA Released ==
    ASSUME IInv, NEW c \in Calls, Release(c)
    PROVE  call' \in [Calls -> CallRecord] /\ CallsGood'
  BY FreeIsGood, CallReplaced DEF Release

LEMMA Asked ==
    ASSUME IInv, NEW c \in Calls, shown # <<>>,
           NEW kind \in {"older", "find"}, NEW target \in Nat, NEW budget \in 0..FindLimit,
           kind = "find" => budget # 0, Ask(c, kind, target, budget)
    PROVE  call' \in [Calls -> CallRecord] /\ CallsGood'
<1>1. Time[Head(shown)] \in Nat
  BY ViewBelongs, TimeAssumption
<1>2. active \in Chats \cup {NoChat}
  BY DEF IInv, TypeOK
<1>3. GoodCall(Call(kind, "sent", active, Time[Head(shown)], target, budget))
  BY <1>1, <1>2, CallIsGood DEF Phases
<1> QED
  BY <1>3, CallReplaced DEF Ask

LEMMA Scrolled ==
    ASSUME IInv, NEW c \in Calls, NEW target \in Nat, NEW budget \in 0..FindLimit,
           ScrollTo(c, target, budget)
    PROVE  call' \in [Calls -> CallRecord] /\ CallsGood'
<1>1. CASE Release(c)
  BY <1>1, Released
<1>2. CASE shown # <<>> /\ budget # 0 /\ Ask(c, "find", target, budget)
  BY <1>2, Asked
<1> QED
  BY <1>1, <1>2 DEF ScrollTo

LEMMA TablesKept ==
    ASSUME IInv, UNCHANGED <<tableVars, feed>>, disturbed' \in BOOLEAN
    PROVE  TablesTyped'
  BY DEF IInv, TypeOK, TablesTyped, tableVars

LEMMA PagePrepended ==
    ASSUME IInv, NEW c \in Calls, Prepend(c), UNCHANGED <<active, matches>>, loadingOlder' \in BOOLEAN
    PROVE  ViewTyped' /\ ShownBelongsToActive' /\ disturbed' \in BOOLEAN
<1>1. Belongs(shown, active)
  BY ViewBelongs
<1>2. GoodCall(call[c])
  BY DEF IInv, CallsGood
<1>3. Belongs(call[c].page, call[c].chat)
  BY <1>2 DEF GoodCall, CallRecord, Belongs
<1>4. Belongs(shown', active)
  <2>1. CASE call[c].chat = active
    <3>1. Belongs(call[c].page \o shown, active)
      BY <1>1, <1>3, <2>1, ConcatBelongs
    <3> QED
      BY <1>1, <3>1 DEF Prepend
  <2>2. CASE call[c].chat # active
    BY <1>1, <2>2 DEF Prepend
  <2> QED
    BY <2>1, <2>2
<1>5. hasOlder' \in BOOLEAN /\ disturbed' \in BOOLEAN
  BY DEF Prepend, IInv, TypeOK
<1>6. ViewTyped' /\ ShownBelongsToActive'
  BY <1>4, <1>5, BelongingView DEF IInv, TypeOK, ShownBelongsToActive
<1> QED
  BY <1>5, <1>6

LEMMA UserStep ==
    ASSUME IInv, NEW c \in Calls, UserNext(c)
    PROVE  IInv'
<1>1. ASSUME NEW chat \in Chats, OpenChat(c, chat)
      PROVE  IInv'
  <2>1. GoodCall(Call("open", "sent", chat, 0, 0, 0))
    BY FindLimitAssumption, CallIsGood DEF Phases
  <2>2. call' \in [Calls -> CallRecord] /\ CallsGood'
    BY <1>1, <2>1, CallReplacedAndOvertaking DEF OpenChat
  <2>3. ViewTyped' /\ ShownBelongsToActive'
    BY <1>1, EmptyBelongs, BelongingView DEF OpenChat
  <2>4. TablesTyped'
    BY <1>1, TablesKept DEF OpenChat
  <2> QED
    BY <2>2, <2>3, <2>4, Parts
<1>2. CASE LoadOlder(c)
  <2>1. call' \in [Calls -> CallRecord] /\ CallsGood'
    <3>1. shown # <<>> /\ Ask(c, "older", 0, 0)
      BY <1>2 DEF LoadOlder
    <3>2. 0 \in 0..FindLimit
      BY FindLimitAssumption
    <3> QED
      BY <3>1, <3>2, Asked
  <2>2. ViewTyped' /\ ShownBelongsToActive'
    BY <1>2 DEF LoadOlder, IInv, TypeOK, ViewTyped, ShownBelongsToActive
  <2>3. TablesTyped'
    BY <1>2, TablesKept DEF LoadOlder, IInv, TypeOK
  <2> QED
    BY <2>1, <2>2, <2>3, Parts
<1>3. CASE RunFind(c)
  <2>1. GoodCall(Call("search", "sent", active, 0, 0, 0))
    <3>1. active \in Chats \cup {NoChat} /\ 0 \in 0..FindLimit
      BY FindLimitAssumption DEF IInv, TypeOK
    <3> QED
      BY <3>1, CallIsGood DEF Phases
  <2>2. call' \in [Calls -> CallRecord] /\ CallsGood'
    BY <1>3, <2>1, CallReplaced DEF RunFind
  <2>3. ViewTyped' /\ ShownBelongsToActive'
    BY <1>3, ViewKept DEF RunFind
  <2>4. TablesTyped'
    BY <1>3, TablesKept DEF RunFind, IInv, TypeOK
  <2> QED
    BY <2>2, <2>3, <2>4, Parts
<1>4. ASSUME NEW m \in matches, StepMatch(c, m)
      PROVE  IInv'
  <2>1. m \in Nat /\ FindLimit \in 0..FindLimit
    BY MsgsAssumption, FindLimitAssumption DEF IInv, TypeOK
  <2>2. call' \in [Calls -> CallRecord] /\ CallsGood'
    BY <1>4, <2>1, Scrolled DEF StepMatch
  <2>3. ViewTyped' /\ ShownBelongsToActive'
    BY <1>4, ViewKept DEF StepMatch
  <2>4. TablesTyped'
    BY <1>4, TablesKept DEF StepMatch, IInv, TypeOK
  <2> QED
    BY <2>2, <2>3, <2>4, Parts
<1> QED
  BY <1>1, <1>2, <1>3, <1>4 DEF UserNext

LEMMA ReplyStep ==
    ASSUME IInv, NEW c \in Calls, ReplyNext(c)
    PROVE  IInv'
<1>0. /\ GoodCall(call[c]) /\ GoodCall(Free)
      /\ call[c].page \in Seq(Msgs) /\ Belongs(call[c].page, call[c].chat)
      /\ call[c].target \in Nat /\ call[c].budget \in 0..FindLimit
  BY FreeIsGood DEF IInv, CallsGood, GoodCall, CallRecord, Belongs
<1>1. CASE OnOpenReply(c)
  <2>1. call' \in [Calls -> CallRecord] /\ CallsGood'
    BY <1>0, <1>1, CallReplacedAndOvertaking DEF OnOpenReply
  <2>2. Belongs(shown, active)
    BY ViewBelongs
  <2>3. Belongs(shown', active)
    BY <1>0, <1>1, <2>2 DEF OnOpenReply
  <2>4. ViewTyped' /\ ShownBelongsToActive'
    BY <1>1, <2>3, BelongingView DEF OnOpenReply, IInv, TypeOK, ShownBelongsToActive
  <2>5. call[c].overtaken \in BOOLEAN
    BY DEF IInv, TypeOK, CallRecord
  <2>6. disturbed' \in BOOLEAN
    BY <1>1, <2>5 DEF OnOpenReply, IInv, TypeOK
  <2>7. TablesTyped'
    BY <1>1, <2>6, TablesKept DEF OnOpenReply
  <2> QED
    BY <2>1, <2>4, <2>7, Parts
<1>2. CASE OnOlderReply(c)
  <2>1. call' \in [Calls -> CallRecord] /\ CallsGood'
    BY <1>0, <1>2, CallReplacedAndOvertaking DEF OnOlderReply
  <2>2. ViewTyped' /\ ShownBelongsToActive' /\ disturbed' \in BOOLEAN
    BY <1>2, PagePrepended DEF OnOlderReply
  <2>3. TablesTyped'
    BY <1>2, <2>2, TablesKept DEF OnOlderReply
  <2> QED
    BY <2>1, <2>2, <2>3, Parts
<1>3. CASE OnSearchReply(c)
  <2>1. call[c].page # <<>> => call[c].page[Len(call[c].page)] \in Nat
    <3> DEFINE page == call[c].page
    <3>1. page \in Seq(Msgs)
      BY <1>0
    <3> HIDE DEF page
    <3>2. page # <<>> => Len(page) \in DOMAIN page
      BY <3>1
    <3>3. \A i \in DOMAIN page : page[i] \in Msgs
      BY <3>1
    <3>4. page # <<>> => page[Len(page)] \in Nat
      BY <3>2, <3>3, MsgsAssumption
    <3> QED
      BY <3>4 DEF page
  <2>2. FindLimit \in 0..FindLimit
    BY FindLimitAssumption
  <2>3. call' \in [Calls -> CallRecord] /\ CallsGood'
    BY <1>3, <2>1, <2>2, Released, Scrolled DEF OnSearchReply
  <2>4. matches' \subseteq Msgs /\ \A m \in matches' : ChatOf[m] = active
    BY <1>0, <1>3 DEF OnSearchReply, Belongs, Range
  <2>5. ViewTyped' /\ ShownBelongsToActive'
    BY <1>3, <2>4 DEF OnSearchReply, IInv, TypeOK, ViewTyped, ShownBelongsToActive
  <2>6. TablesTyped'
    BY <1>3, TablesKept DEF OnSearchReply, IInv, TypeOK
  <2> QED
    BY <2>3, <2>5, <2>6, Parts
<1>4. CASE DropSearchReply(c)
  <2>1. call' \in [Calls -> CallRecord] /\ CallsGood'
    BY <1>4, Released DEF DropSearchReply
  <2>2. ViewTyped' /\ ShownBelongsToActive'
    BY <1>4, ViewKept DEF DropSearchReply
  <2>3. TablesTyped'
    BY <1>4, TablesKept DEF DropSearchReply, IInv, TypeOK
  <2> QED
    BY <2>1, <2>2, <2>3, Parts
<1>5. CASE OnFindReply(c)
  <2> DEFINE r == Call("retry", "sent", NoChat, 0, call[c].target, call[c].budget - 1)
  <2>1. call[c].budget - 1 \in 0..FindLimit
    BY <1>0, <1>5, FindLimitAssumption DEF GoodCall, OnFindReply, InFlight
  <2>2. GoodCall(r)
    BY <1>0, <2>1, CallIsGood DEF Phases
  <2> HIDE DEF r
  <2>3. \E s \in {r, Free} : call' = [Overtake(c, {"open", "older", "find"}) EXCEPT ![c] = s]
    BY <1>5 DEF OnFindReply, r
  <2>4. call' \in [Calls -> CallRecord] /\ CallsGood'
    BY <1>0, <2>2, <2>3, CallReplacedAndOvertaking
  <2>5. ViewTyped' /\ ShownBelongsToActive' /\ disturbed' \in BOOLEAN
    BY <1>5, PagePrepended DEF OnFindReply, IInv, TypeOK
  <2>6. TablesTyped'
    BY <1>5, <2>5, TablesKept DEF OnFindReply
  <2> QED
    BY <2>4, <2>5, <2>6, Parts
<1>6. CASE Retry(c)
  <2>1. call' \in [Calls -> CallRecord] /\ CallsGood'
    BY <1>0, <1>6, Scrolled DEF Retry
  <2>2. ViewTyped' /\ ShownBelongsToActive'
    BY <1>6, ViewKept DEF Retry
  <2>3. TablesTyped'
    BY <1>6, TablesKept DEF Retry, IInv, TypeOK
  <2> QED
    BY <2>1, <2>2, <2>3, Parts
<1> QED
  BY <1>1, <1>2, <1>3, <1>4, <1>5, <1>6 DEF ReplyNext

LEMMA ClearStep ==
    ASSUME IInv, ClearFind
    PROVE  IInv'
<1>1. call' \in [Calls -> CallRecord] /\ CallsGood'
  BY CallsKept DEF ClearFind
<1>2. ViewTyped' /\ ShownBelongsToActive'
  BY DEF ClearFind, IInv, TypeOK, ViewTyped, ShownBelongsToActive
<1>3. TablesTyped'
  BY TablesKept DEF ClearFind, IInv, TypeOK
<1> QED
  BY <1>1, <1>2, <1>3, Parts

-----------------------------------------------------------------------------

LEMMA InitIInv == Init => IInv
<1> SUFFICES ASSUME Init PROVE IInv
  OBVIOUS
<1>1. call = [c \in Calls |-> Free] /\ feed = <<>> /\ shown = <<>> /\ matches = {}
  BY DEF Init
<1>2. \A c \in Calls : call[c] = Free
  BY <1>1
<1>3. CallsGood
  BY <1>2, FreeIsGood DEF CallsGood
<1>4. Free \in CallRecord
  BY FreeIsGood DEF GoodCall
<1>5. call \in [Calls -> CallRecord]
  BY <1>1, <1>4
<1>6. feed \in Seq(Events) /\ shown \in Seq(Msgs) /\ DOMAIN shown = {}
  BY <1>1, EmptySequence
<1>7. ShownBelongsToActive
  BY <1>1, <1>6 DEF ShownBelongsToActive, Range
<1>8. TablesTyped /\ ViewTyped
  BY <1>6 DEF Init, TablesTyped, ViewTyped
<1> QED
  BY <1>3, <1>5, <1>7, <1>8, Parts

LEMMA NextIInv == IInv /\ [Next]_vars => IInv'
<1> SUFFICES ASSUME IInv, [Next]_vars PROVE IInv'
  OBVIOUS
<1>1. CASE DaemonNext
  BY <1>1, DaemonStep
<1>2. CASE LoseEvents
  BY <1>2, LossStep
<1>3. CASE OnEvent
  BY <1>3, EventStep
<1>4. CASE ClearFind
  BY <1>4, ClearStep
<1>5. ASSUME NEW c \in Calls, UserNext(c)
      PROVE  IInv'
  BY <1>5, UserStep
<1>6. ASSUME NEW c \in Calls, ReplyNext(c)
      PROVE  IInv'
  BY <1>6, ReplyStep
<1>7. CASE UNCHANGED vars
  <2>1. call' \in [Calls -> CallRecord] /\ CallsGood'
    BY <1>7, CallsKept DEF vars
  <2>2. ViewTyped' /\ ShownBelongsToActive'
    BY <1>7, ViewKept DEF vars
  <2>3. TablesTyped'
    BY <1>7, TablesKept DEF vars, IInv, TypeOK
  <2> QED
    BY <2>1, <2>2, <2>3, Parts
<1> QED
  BY <1>1, <1>2, <1>3, <1>4, <1>5, <1>6, <1>7 DEF Next

\* The variables of the view, the table and the calls stay well typed, the
\* budget of a find walk among them.
THEOREM TypeCorrectness == Spec => []TypeOK
<1>1. IInv => TypeOK
  BY DEF IInv
<1> QED
  BY <1>1, InitIInv, NextIInv, PTL DEF Spec

\* The open conversation and its find matches hold messages of the open chat
\* only, for any number of chats, of messages and of calls whose replies come
\* back in any order after the user has moved on.
THEOREM ViewIsTheOpenChats == Spec => []ShownBelongsToActive
<1>1. IInv => ShownBelongsToActive
  BY DEF IInv
<1> QED
  BY <1>1, InitIInv, NextIInv, PTL DEF Spec

-----------------------------------------------------------------------------
(* Paging back is never blocked for good: PagingNotStuck is inductive      *)
(* beside IInv, as every step that ends a call of its kind also clears     *)
(* loadingOlder, and no step turns such a call into another one.           *)

IsOlder(r) == r.phase # "free" /\ r.kind = "older"

LEMMA StillPaging ==
    ASSUME PagingNotStuck, loadingOlder' = loadingOlder,
           \A d \in Calls : IsOlder(call[d]) => IsOlder(call'[d])
    PROVE  PagingNotStuck'
  BY DEF PagingNotStuck, InFlight, IsOlder

\* Only the record of c changes, and it was none of an older page.
LEMMA OthersPage ==
    ASSUME IInv, NEW c \in Calls, NEW r, call' = [call EXCEPT ![c] = r], ~IsOlder(call[c]) \/ IsOlder(r)
    PROVE  \A d \in Calls : IsOlder(call[d]) => IsOlder(call'[d])
<1>1. \A d \in Calls : call'[d] = IF d = c THEN r ELSE call[d]
  BY DEF IInv, TypeOK
<1> QED
  BY <1>1

LEMMA OthersPageOn ==
    ASSUME IInv, NEW c \in Calls, NEW kinds, NEW r, ~IsOlder(call[c]),
           call' = [Overtake(c, kinds) EXCEPT ![c] = r]
    PROVE  \A d \in Calls : IsOlder(call[d]) => IsOlder(call'[d])
<1> DEFINE calls == Overtake(c, kinds)
<1>1. ASSUME NEW d \in Calls, IsOlder(call[d])
      PROVE  IsOlder(call'[d])
  <2>1. d # c
    BY <1>1
  <2>2. call'[d] = calls[d]
    BY <2>1 DEF Overtake
  <2>3. calls[d] \in {call[d], [call[d] EXCEPT !.overtaken = TRUE]}
    BY DEF Overtake
  <2>4. call[d] \in CallRecord
    BY DEF IInv, TypeOK
  <2>5. IsOlder([call[d] EXCEPT !.overtaken = TRUE])
    BY <1>1, <2>4 DEF IsOlder, CallRecord
  <2> QED
    BY <1>1, <2>2, <2>3, <2>5
<1> QED
  BY <1>1

LEMMA MarkedPage ==
    ASSUME IInv, NEW marked, call' = [c \in Calls |-> [call[c] EXCEPT !.overtaken = marked[c]]]
    PROVE  \A d \in Calls : IsOlder(call[d]) => IsOlder(call'[d])
<1>1. \A d \in Calls : call[d] \in CallRecord
  BY DEF IInv, TypeOK
<1>2. \A d \in Calls : call'[d] = [call[d] EXCEPT !.overtaken = marked[d]]
  OBVIOUS
<1> QED
  BY <1>1, <1>2 DEF IsOlder, CallRecord

LEMMA ReleaseOrFind ==
    ASSUME IInv, NEW c \in Calls, NEW target, NEW budget, ~IsOlder(call[c]),
           Release(c) \/ ScrollTo(c, target, budget)
    PROVE  \A d \in Calls : IsOlder(call[d]) => IsOlder(call'[d])
<1>1. \E r : call' = [call EXCEPT ![c] = r]
  BY DEF Release, ScrollTo, Ask
<1> QED
  BY <1>1, OthersPage

LEMMA NextPaging == IInv /\ PagingNotStuck /\ [Next]_vars => PagingNotStuck'
<1> SUFFICES ASSUME IInv, PagingNotStuck, [Next]_vars PROVE PagingNotStuck'
  OBVIOUS
<1>1. CASE UNCHANGED <<call, loadingOlder>>
  BY <1>1, StillPaging
<1>2. ASSUME NEW m \in Msgs, SyncHistory(m) PROVE PagingNotStuck'
  <2> DEFINE marked == [c \in Calls |-> call[c].overtaken \/ call[c].phase = "served"]
  <2>1. call' = [c \in Calls |-> [call[c] EXCEPT !.overtaken = marked[c]]]
    BY <1>2 DEF SyncHistory
  <2> HIDE DEF marked
  <2> QED
    BY <1>2, <2>1, MarkedPage, StillPaging DEF SyncHistory, viewVars
<1>3. CASE LoseEvents
  <2> DEFINE marked == [c \in Calls |-> call[c].overtaken \/ call[c].phase = "served"]
  <2>1. call' = [c \in Calls |-> [call[c] EXCEPT !.overtaken = marked[c]]]
    BY <1>3 DEF LoseEvents
  <2> HIDE DEF marked
  <2> QED
    BY <1>3, <2>1, MarkedPage, StillPaging DEF LoseEvents, viewVars
<1>4. CASE OnEvent
  <2> DEFINE marked == [c \in Calls |-> call[c].overtaken \/ Overtakes(Head(feed), c)]
  <2>1. call' = [c \in Calls |-> [call[c] EXCEPT !.overtaken = marked[c]]]
    BY <1>4 DEF OnEvent
  <2> HIDE DEF marked
  <2> QED
    BY <1>4, <2>1, MarkedPage, StillPaging DEF OnEvent
<1>5. ASSUME NEW c \in Calls, Serve(c) PROVE PagingNotStuck'
  <2>1. PICK page : call' = [call EXCEPT ![c] = [call[c] EXCEPT !.phase = "served", !.page = page]]
    BY <1>5 DEF Serve
  <2>2. call[c] \in CallRecord
    BY DEF IInv, TypeOK
  <2> DEFINE r == [call[c] EXCEPT !.phase = "served", !.page = page]
  <2>3. ~IsOlder(call[c]) \/ IsOlder(r)
    BY <2>2 DEF IsOlder, CallRecord
  <2> HIDE DEF r
  <2>4. call' = [call EXCEPT ![c] = r]
    BY <2>1 DEF r
  <2> QED
    BY <1>5, <2>3, <2>4, OthersPage, StillPaging DEF Serve, viewVars
<1>6. ASSUME NEW c \in Calls, Fail(c) PROVE PagingNotStuck'
  <2>1. call[c] \in CallRecord
    BY DEF IInv, TypeOK
  <2> DEFINE r == [call[c] EXCEPT !.phase = "failed"]
  <2>2. ~IsOlder(call[c]) \/ IsOlder(r)
    BY <2>1 DEF IsOlder, CallRecord
  <2> HIDE DEF r
  <2>3. call' = [call EXCEPT ![c] = r]
    BY <1>6 DEF Fail, r
  <2> QED
    BY <1>6, <2>2, <2>3, OthersPage, StillPaging DEF Fail, viewVars
<1>7. ASSUME NEW c \in Calls, NEW chat \in Chats, OpenChat(c, chat) PROVE PagingNotStuck'
  BY <1>7 DEF OpenChat, PagingNotStuck
<1>8. ASSUME NEW c \in Calls, LoadOlder(c) PROVE PagingNotStuck'
  <2>1. call' = [call EXCEPT ![c] = Call("older", "sent", active, Time[Head(shown)], 0, 0)]
    BY <1>8 DEF LoadOlder, Ask
  <2>2. call'[c].phase = "sent" /\ call'[c].kind = "older"
    BY <2>1 DEF IInv, TypeOK, Call
  <2> QED
    BY <2>2 DEF PagingNotStuck, InFlight
<1>9. ASSUME NEW c \in Calls, RunFind(c) PROVE PagingNotStuck'
  BY <1>9, OthersPage, StillPaging DEF RunFind, IsOlder, viewVars
<1>10. ASSUME NEW c \in Calls, NEW m \in matches, StepMatch(c, m) PROVE PagingNotStuck'
  <2>1. ~IsOlder(call[c])
    BY <1>10 DEF StepMatch, IsOlder
  <2> QED
    BY <1>10, <2>1, ReleaseOrFind, StillPaging DEF StepMatch, viewVars
<1>11. ASSUME NEW c \in Calls, ReplyNext(c) PROVE PagingNotStuck'
  <2>1. CASE OnOlderReply(c)
    BY <2>1 DEF OnOlderReply, PagingNotStuck
  <2>2. CASE OnOpenReply(c)
    <3>1. ~IsOlder(call[c])
      BY <2>2 DEF OnOpenReply, InFlight, IsOlder
    <3> QED
      BY <2>2, <3>1, OthersPageOn, StillPaging DEF OnOpenReply
  <2>3. CASE OnSearchReply(c)
    <3>1. ~IsOlder(call[c])
      BY <2>3 DEF OnSearchReply, InFlight, IsOlder
    <3> QED
      BY <2>3, <3>1, ReleaseOrFind, StillPaging DEF OnSearchReply
  <2>4. CASE DropSearchReply(c)
    <3>1. ~IsOlder(call[c])
      BY <2>4 DEF DropSearchReply, InFlight, IsOlder
    <3> QED
      BY <2>4, <3>1, ReleaseOrFind, StillPaging DEF DropSearchReply, viewVars
  <2>5. CASE OnFindReply(c)
    <3>1. ~IsOlder(call[c])
      BY <2>5 DEF OnFindReply, InFlight, IsOlder
    <3>2. \E r : call' = [Overtake(c, {"open", "older", "find"}) EXCEPT ![c] = r]
      BY <2>5 DEF OnFindReply
    <3> QED
      BY <2>5, <3>1, <3>2, OthersPageOn, StillPaging DEF OnFindReply
  <2>6. CASE Retry(c)
    <3>1. ~IsOlder(call[c])
      BY <2>6 DEF Retry, InFlight, IsOlder
    <3> QED
      BY <2>6, <3>1, ReleaseOrFind, StillPaging DEF Retry, viewVars
  <2> QED
    BY <1>11, <2>1, <2>2, <2>3, <2>4, <2>5, <2>6 DEF ReplyNext
<1>12. (\E m \in Msgs : Arrive(m) \/ Delete(m)) \/ (\E e \in publishing : Publish(e)) \/ ClearFind
          => UNCHANGED <<call, loadingOlder>>
  BY DEF Arrive, Delete, Publish, ClearFind, viewVars
<1>13. UNCHANGED vars => UNCHANGED <<call, loadingOlder>>
  BY DEF vars, viewVars
<1> QED
  BY <1>1, <1>2, <1>3, <1>4, <1>5, <1>6, <1>7, <1>8, <1>9, <1>10, <1>11, <1>12, <1>13
     DEF Next, DaemonNext, UserNext

\* Whatever chats are opened and replies fail while a page is on its way, the
\* flag that refuses another page is set only while its call is in flight.
THEOREM PagingNeverStuck == Spec => []PagingNotStuck
<1>1. Init => PagingNotStuck
  BY DEF Init, PagingNotStuck
<1> QED
  BY <1>1, InitIInv, NextIInv, NextPaging, PTL DEF Spec

-----------------------------------------------------------------------------
(* What the view shows.  SettledViewIsExact and OlderIsOffered say nothing *)
(* while events or replies are on their way, so the invariant has to: what *)
(* the view lacks is announced by an event under way, what it shows too    *)
(* much is withdrawn by one; a page read holds what lay in front of its    *)
(* boundary; and a page asked for joins the view at that boundary.  The    *)
(* parts are stated of values, not of the state: "st" are the messages     *)
(* stored, "arr" those with an arrival under way, "kp" those stored or     *)
(* with a deletion under way.                                              *)

arriving == {m \in Msgs : UnderWay("new", m)}
leaving == {m \in Msgs : UnderWay("deleted", m)}
kept == stored \cup leaving

Accounted(seq, arr) == Range(seq) \cup arr \cup {m \in Msgs : SharesItsSecond(m)}

SeqRight(seq, chat, older, st, arr, kp) ==
    /\ Chronological(seq)
    /\ Range(seq) \subseteq kp
    /\ \A m \in st : /\ ChatOf[m] = chat
                     /\ older => seq # <<>> /\ Time[m] > Time[Head(seq)]
                     => m \in Accounted(seq, arr)

\* A page that was read and that no event has overtaken; before that it is empty.
PageRight(r, st, arr, kp) ==
    /\ r.phase \in {"sent", "failed"} /\ ~r.overtaken => r.page = <<>>
    /\ r.phase = "served" /\ ~r.overtaken /\ r.kind \in {"open", "older", "find"} =>
           /\ Chronological(r.page)
           /\ Range(r.page) \subseteq kp
           /\ r.before # 0 => \A m \in Range(r.page) : Time[m] < r.before
           /\ \A m \in st : /\ ChatOf[m] = r.chat
                            /\ r.before # 0 => Time[m] < r.before
                            /\ r.page # <<>> => Time[m] > Time[Head(r.page)]
                            => m \in Range(r.page) \cup arr

\* From the boundary on the view has all there is, and nothing older.
FloorRight(floor, chat, seq, st, arr) ==
    /\ \A m \in Range(seq) : Time[m] >= floor
    /\ \A m \in st : ChatOf[m] = chat /\ Time[m] >= floor => m \in Accounted(seq, arr)

\* A call still due to change the view.
WaitRight(r, chat, older, wrong, seq, st, arr) ==
    r.phase # "free" /\ ~r.overtaken =>
        /\ r.kind = "open" => r.before = 0 /\ older
        /\ r.kind \in {"older", "find"} =>
              r.chat = chat /\ r.before # 0 /\ (~wrong => FloorRight(r.before, chat, seq, st, arr))

EventsRight ==
    /\ \A m \in arriving : row[m] # "none"
    /\ \A m \in leaving : row[m] = "deleted"

ViewRight == ~disturbed => SeqRight(shown, active, hasOlder, stored, arriving, kept)

CallsRight ==
    \A c \in Calls : /\ PageRight(call[c], stored, arriving, kept)
                     /\ WaitRight(call[c], active, hasOlder, disturbed, shown, stored, arriving)

Exact == EventsRight /\ ViewRight /\ CallsRight

-----------------------------------------------------------------------------
(* Sequences of messages.                                                  *)

LEMMA AppendedRange ==
    ASSUME NEW S, NEW seq \in Seq(S), NEW m \in S
    PROVE  Range(Append(seq, m)) = Range(seq) \cup {m}
<1>1. /\ Len(Append(seq, m)) = Len(seq) + 1
      /\ DOMAIN seq = 1..Len(seq) /\ DOMAIN Append(seq, m) = 1..(Len(seq) + 1)
      /\ \A i \in 1..Len(seq) : Append(seq, m)[i] = seq[i]
      /\ Append(seq, m)[Len(seq) + 1] = m
      /\ Len(seq) \in Nat
  OBVIOUS
<1>2. \A i \in 1..(Len(seq) + 1) : i \in 1..Len(seq) \/ i = Len(seq) + 1
  BY <1>1
<1>3. Range(Append(seq, m)) \subseteq Range(seq) \cup {m}
  BY <1>1, <1>2 DEF Range
<1>4. Range(seq) \subseteq Range(Append(seq, m))
  <2>1. \A i \in 1..Len(seq) : i \in 1..(Len(seq) + 1)
    BY <1>1
  <2> QED
    BY <1>1, <2>1 DEF Range
<1>5. m \in Range(Append(seq, m))
  <2>1. Len(seq) + 1 \in DOMAIN Append(seq, m)
    BY <1>1
  <2> QED
    BY <1>1, <2>1 DEF Range
<1> QED
  BY <1>3, <1>4, <1>5

LEMMA TailRange ==
    ASSUME NEW S, NEW seq \in Seq(S), seq # <<>>
    PROVE  Range(seq) = Range(Tail(seq)) \cup {Head(seq)}
<1>1. /\ Len(Tail(seq)) = Len(seq) - 1 /\ Len(seq) \in Nat \ {0}
      /\ DOMAIN seq = 1..Len(seq) /\ DOMAIN Tail(seq) = 1..(Len(seq) - 1)
      /\ \A i \in 1..(Len(seq) - 1) : Tail(seq)[i] = seq[i + 1]
      /\ Head(seq) = seq[1]
  OBVIOUS
<1>2. \A i \in 1..Len(seq) : i = 1 \/ (i - 1 \in 1..(Len(seq) - 1) /\ (i - 1) + 1 = i)
  BY <1>1
<1>3. Range(seq) \subseteq Range(Tail(seq)) \cup {Head(seq)}
  <2>1. ASSUME NEW i \in 1..Len(seq), i # 1
        PROVE  seq[i] \in Range(Tail(seq))
    <3>1. i - 1 \in DOMAIN Tail(seq) /\ Tail(seq)[i - 1] = seq[i]
      BY <1>1, <1>2, <2>1
    <3> QED
      BY <3>1 DEF Range
  <2> QED
    BY <1>1, <2>1 DEF Range
<1>4. Range(Tail(seq)) \subseteq Range(seq)
  <2>1. \A i \in 1..(Len(seq) - 1) : i + 1 \in 1..Len(seq)
    BY <1>1
  <2> QED
    BY <1>1, <2>1 DEF Range
<1>5. Head(seq) \in Range(seq)
  <2>1. 1 \in DOMAIN seq
    BY <1>1
  <2> QED
    BY <1>1, <2>1 DEF Range
<1> QED
  BY <1>3, <1>4, <1>5

LEMMA ConcatRange ==
    ASSUME NEW S, NEW s \in Seq(S), NEW t \in Seq(S)
    PROVE  Range(s \o t) = Range(s) \cup Range(t)
<1>1. /\ Len(s) \in Nat /\ Len(t) \in Nat
      /\ DOMAIN s = 1..Len(s) /\ DOMAIN t = 1..Len(t) /\ DOMAIN (s \o t) = 1..(Len(s) + Len(t))
      /\ \A i \in 1..(Len(s) + Len(t)) : (s \o t)[i] = IF i <= Len(s) THEN s[i] ELSE t[i - Len(s)]
  OBVIOUS
<1>2. Range(s \o t) \subseteq Range(s) \cup Range(t)
  <2>1. \A i \in 1..(Len(s) + Len(t)) : IF i <= Len(s) THEN i \in 1..Len(s) ELSE i - Len(s) \in 1..Len(t)
    BY <1>1
  <2> QED
    BY <1>1, <2>1 DEF Range
<1>3. Range(s) \subseteq Range(s \o t)
  <2>1. \A i \in 1..Len(s) : i \in 1..(Len(s) + Len(t)) /\ i <= Len(s)
    BY <1>1
  <2> QED
    BY <1>1, <2>1 DEF Range
<1>4. Range(t) \subseteq Range(s \o t)
  <2>1. ASSUME NEW i \in 1..Len(t)
        PROVE  t[i] \in Range(s \o t)
    <3>1. /\ Len(s) + i \in 1..(Len(s) + Len(t))
          /\ ~(Len(s) + i <= Len(s)) /\ (Len(s) + i) - Len(s) = i
      BY <1>1
    <3>2. (s \o t)[Len(s) + i] = t[i]
      BY <1>1, <3>1
    <3> QED
      BY <1>1, <3>1, <3>2 DEF Range
  <2> QED
    BY <1>1, <2>1 DEF Range
<1> QED
  BY <1>2, <1>3, <1>4

\* In chronological order the head is the oldest.
LEMMA HeadIsOldest ==
    ASSUME NEW seq \in Seq(Msgs), Chronological(seq), seq # <<>>
    PROVE  /\ Head(seq) \in Range(seq) /\ Head(seq) \in Msgs
           /\ \A m \in Range(seq) : m \in Msgs /\ Time[m] >= Time[Head(seq)]
<1>1. 1 \in DOMAIN seq /\ Head(seq) = seq[1] /\ DOMAIN seq = 1..Len(seq) /\ Len(seq) \in Nat
  OBVIOUS
<1>2. ASSUME NEW i \in DOMAIN seq
      PROVE  seq[i] \in Msgs /\ Time[seq[i]] >= Time[seq[1]]
  <2>1. seq[i] \in Msgs /\ seq[1] \in Msgs
    BY <1>1
  <2>2. Time[seq[i]] \in Nat /\ Time[seq[1]] \in Nat
    BY <2>1, TimeAssumption
  <2>3. i = 1 \/ 1 < i
    BY <1>1
  <2>4. 1 < i => Time[seq[1]] <= Time[seq[i]]
    BY <1>1 DEF Chronological
  <2> QED
    BY <2>1, <2>2, <2>3, <2>4
<1> QED
  BY <1>1, <1>2 DEF Range

LEMMA EmptyIsChronological == Chronological(<<>>) /\ Range(<<>>) = {}
  BY EmptySequence DEF Chronological, Range

LEMMA AppendedOrder ==
    ASSUME NEW seq \in Seq(Msgs), Chronological(seq), NEW m \in Msgs, m \notin Range(seq),
           \A k \in Range(seq) : ~(Time[k] > Time[m])
    PROVE  Chronological(Append(seq, m))
<1>1. /\ Len(seq) \in Nat /\ DOMAIN seq = 1..Len(seq)
      /\ DOMAIN Append(seq, m) = 1..(Len(seq) + 1)
      /\ \A i \in 1..Len(seq) : Append(seq, m)[i] = seq[i] /\ seq[i] \in Msgs
      /\ Append(seq, m)[Len(seq) + 1] = m
  OBVIOUS
<1>2. \A k \in Msgs : Time[k] \in Nat
  BY TimeAssumption
<1>3. ASSUME NEW i \in 1..(Len(seq) + 1), NEW j \in 1..(Len(seq) + 1), i < j
      PROVE  Append(seq, m)[i] # Append(seq, m)[j] /\ Time[Append(seq, m)[i]] <= Time[Append(seq, m)[j]]
  <2>1. i \in 1..Len(seq) /\ (j \in 1..Len(seq) \/ j = Len(seq) + 1)
    BY <1>1, <1>3
  <2>2. CASE j \in 1..Len(seq)
    BY <1>1, <1>3, <2>1, <2>2 DEF Chronological
  <2>3. CASE j = Len(seq) + 1
    <3>1. seq[i] \in Range(seq)
      BY <1>1, <2>1 DEF Range
    <3>2. Time[seq[i]] \in Nat /\ Time[m] \in Nat
      BY <1>1, <1>2, <2>1
    <3>3. Time[seq[i]] <= Time[m] /\ seq[i] # m
      BY <3>1, <3>2
    <3> QED
      BY <1>1, <2>1, <2>3, <3>3
  <2> QED
    BY <2>1, <2>2, <2>3
<1> QED
  BY <1>1, <1>3 DEF Chronological

LEMMA ConcatOrder ==
    ASSUME NEW s \in Seq(Msgs), NEW t \in Seq(Msgs), Chronological(s), Chronological(t),
           \A k \in Range(s), m \in Range(t) : Time[k] < Time[m]
    PROVE  Chronological(s \o t)
<1>1. /\ Len(s) \in Nat /\ Len(t) \in Nat
      /\ DOMAIN s = 1..Len(s) /\ DOMAIN t = 1..Len(t) /\ DOMAIN (s \o t) = 1..(Len(s) + Len(t))
      /\ \A i \in 1..(Len(s) + Len(t)) : (s \o t)[i] = IF i <= Len(s) THEN s[i] ELSE t[i - Len(s)]
      /\ \A i \in 1..Len(s) : s[i] \in Msgs
      /\ \A i \in 1..Len(t) : t[i] \in Msgs
  OBVIOUS
<1>2. \A k \in Msgs : Time[k] \in Nat
  BY TimeAssumption
<1>3. ASSUME NEW i \in 1..(Len(s) + Len(t)), NEW j \in 1..(Len(s) + Len(t)), i < j
      PROVE  (s \o t)[i] # (s \o t)[j] /\ Time[(s \o t)[i]] <= Time[(s \o t)[j]]
  <2>1. CASE j <= Len(s)
    <3>1. i \in 1..Len(s) /\ j \in 1..Len(s) /\ i <= Len(s)
      BY <1>1, <1>3, <2>1
    <3>2. (s \o t)[i] = s[i] /\ (s \o t)[j] = s[j]
      BY <1>1, <2>1, <3>1
    <3> QED
      BY <1>1, <1>3, <3>1, <3>2 DEF Chronological
  <2>2. CASE i > Len(s)
    <3>1. /\ i - Len(s) \in 1..Len(t) /\ j - Len(s) \in 1..Len(t) /\ i - Len(s) < j - Len(s)
          /\ ~(i <= Len(s)) /\ ~(j <= Len(s))
      BY <1>1, <1>3, <2>2
    <3>2. (s \o t)[i] = t[i - Len(s)] /\ (s \o t)[j] = t[j - Len(s)]
      BY <1>1, <3>1
    <3> QED
      BY <1>1, <3>1, <3>2 DEF Chronological
  <2>3. CASE i <= Len(s) /\ j > Len(s)
    <3>1. i \in 1..Len(s) /\ j - Len(s) \in 1..Len(t) /\ ~(j <= Len(s))
      BY <1>1, <2>3
    <3>2. (s \o t)[i] = s[i] /\ (s \o t)[j] = t[j - Len(s)]
      BY <1>1, <2>3, <3>1
    <3>3. s[i] \in Range(s) /\ t[j - Len(s)] \in Range(t)
      BY <1>1, <3>1 DEF Range
    <3>4. Time[s[i]] < Time[t[j - Len(s)]]
      BY <3>3
    <3>5. Time[s[i]] \in Nat /\ Time[t[j - Len(s)]] \in Nat
      BY <1>1, <1>2, <3>1
    <3> QED
      BY <3>2, <3>4, <3>5
  <2> QED
    BY <1>1, <2>1, <2>2, <2>3
<1> QED
  BY <1>1, <1>3 DEF Chronological

\* A row goes: the others stay in order, the one that goes is not shown twice.
LEMMA RemovedRow ==
    ASSUME NEW seq \in Seq(Msgs), Chronological(seq), NEW i \in DOMAIN seq
    PROVE  LET rest == SubSeq(seq, 1, i - 1) \o SubSeq(seq, i + 1, Len(seq))
           IN  rest \in Seq(Msgs) /\ Chronological(rest) /\ Range(rest) = Range(seq) \ {seq[i]}
<1> DEFINE n == Len(seq)
           front == SubSeq(seq, 1, i - 1)
           back == SubSeq(seq, i + 1, n)
           rest == front \o back
           from(j) == IF j < i THEN j ELSE j + 1
<1>1. n \in Nat /\ DOMAIN seq = 1..n /\ i \in 1..n
  OBVIOUS
<1>2. front \in Seq(Msgs) /\ Len(front) = i - 1 /\ \A j \in 1..(i - 1) : front[j] = seq[j]
  <2>1. Len(front) = IF 1 <= i - 1 THEN (i - 1) - 1 + 1 ELSE 0
    BY <1>1
  <2> QED
    BY <1>1, <2>1
<1>3. back \in Seq(Msgs) /\ Len(back) = n - i /\ \A j \in 1..(n - i) : back[j] = seq[i + j]
  <2>1. Len(back) = IF i + 1 <= n THEN n - (i + 1) + 1 ELSE 0
    BY <1>1
  <2> QED
    BY <1>1, <2>1
<1> HIDE DEF front, back
<1>4. rest \in Seq(Msgs) /\ Len(rest) = n - 1 /\ DOMAIN rest = 1..(n - 1)
  <2>1. front \in Seq(Msgs) /\ back \in Seq(Msgs)
    BY <1>2, <1>3
  <2>2. rest \in Seq(Msgs) /\ Len(rest) = Len(front) + Len(back)
    BY <2>1
  <2>3. (i - 1) + (n - i) = n - 1
    BY <1>1
  <2>4. Len(rest) = n - 1
    BY <1>2, <1>3, <2>2, <2>3
  <2> QED
    BY <2>2, <2>4
<1>5. ASSUME NEW j \in 1..(n - 1)
      PROVE  rest[j] = seq[from(j)] /\ from(j) \in 1..n /\ from(j) # i
  <2>1. CASE j < i
    <3>1. rest[j] = front[j] /\ j \in 1..(i - 1)
      BY <1>1, <1>2, <1>3, <2>1
    <3> QED
      BY <1>1, <1>2, <2>1, <3>1
  <2>2. CASE ~(j < i)
    <3>1. rest[j] = back[j - (i - 1)] /\ j - (i - 1) \in 1..(n - i)
      BY <1>1, <1>2, <1>3, <2>2
    <3>2. rest[j] = seq[i + (j - (i - 1))] /\ i + (j - (i - 1)) = j + 1
      BY <1>1, <1>3, <3>1
    <3> QED
      BY <1>1, <2>2, <3>2
  <2> QED
    BY <2>1, <2>2
<1> HIDE DEF rest
<1>6. \A j, k \in 1..(n - 1) : j < k => from(j) < from(k)
  BY <1>1
<1>7. Chronological(rest)
  BY <1>1, <1>4, <1>5, <1>6 DEF Chronological
<1>8. \A j, k \in 1..n : j # k => seq[j] # seq[k]
  BY <1>1 DEF Chronological
<1>9. Range(rest) \subseteq Range(seq) \ {seq[i]}
  <2>1. ASSUME NEW j \in 1..(n - 1)
        PROVE  rest[j] \in Range(seq) /\ rest[j] # seq[i]
    BY <1>1, <1>5, <1>8 DEF Range
  <2> QED
    BY <1>4, <2>1 DEF Range
<1>10. Range(seq) \ {seq[i]} \subseteq Range(rest)
  <2>1. ASSUME NEW k \in 1..n, k # i
        PROVE  seq[k] \in Range(rest)
    <3> DEFINE j == IF k < i THEN k ELSE k - 1
    <3>1. j \in 1..(n - 1) /\ from(j) = k
      BY <1>1, <2>1
    <3>2. rest[j] = seq[k]
      BY <1>5, <3>1
    <3> QED
      BY <1>4, <3>1, <3>2 DEF Range
  <2> QED
    BY <1>1, <2>1 DEF Range
<1> QED
  BY <1>4, <1>7, <1>9, <1>10 DEF rest, front, back

-----------------------------------------------------------------------------
(* How the parts survive.                                                  *)

\* An arrival is announced when it is stored, and nothing is withdrawn
\* unannounced: what was right remains so.
LEMMA CalmKeepsSeq ==
    ASSUME NEW seq, NEW chat, NEW older, NEW st, NEW st2, NEW arr, NEW arr2, NEW kp, NEW kp2,
           st2 \subseteq st \cup arr2, arr \subseteq arr2, kp \subseteq kp2,
           SeqRight(seq, chat, older, st, arr, kp)
    PROVE  SeqRight(seq, chat, older, st2, arr2, kp2)
<1>1. Accounted(seq, arr) \cup arr2 = Accounted(seq, arr2)
  BY DEF Accounted
<1> QED
  BY <1>1 DEF SeqRight

LEMMA CalmKeepsPage ==
    ASSUME NEW r, NEW st, NEW st2, NEW arr, NEW arr2, NEW kp, NEW kp2,
           st2 \subseteq st \cup arr2, arr \subseteq arr2, kp \subseteq kp2,
           PageRight(r, st, arr, kp)
    PROVE  PageRight(r, st2, arr2, kp2)
  BY DEF PageRight

LEMMA CalmKeepsWait ==
    ASSUME NEW r, NEW chat, NEW older, NEW wrong, NEW seq, NEW st, NEW st2, NEW arr, NEW arr2,
           st2 \subseteq st \cup arr2, arr \subseteq arr2,
           WaitRight(r, chat, older, wrong, seq, st, arr)
    PROVE  WaitRight(r, chat, older, wrong, seq, st2, arr2)
<1>1. Accounted(seq, arr) \cup arr2 = Accounted(seq, arr2)
  BY DEF Accounted
<1>2. FloorRight(r.before, chat, seq, st, arr) => FloorRight(r.before, chat, seq, st2, arr2)
  BY <1>1 DEF FloorRight
<1> QED
  BY <1>2 DEF WaitRight

\* A handled arrival that is not late joins the view.
LEMMA ArrivalJoins ==
    ASSUME NEW seq \in Seq(Msgs), NEW chat, NEW older, NEW st, NEW arr, NEW arr2, NEW kp,
           NEW m \in Msgs, ChatOf[m] = chat, m \notin Range(seq), m \in kp,
           st \subseteq Msgs, arr \subseteq arr2 \cup {m},
           \A k \in Range(seq) : ChatOf[k] = chat,
           \A k \in Msgs : ChatOf[k] = chat /\ Time[k] > Time[m]
                             => k \notin Range(seq) /\ (k \in st => k \in arr),
           SeqRight(seq, chat, older, st, arr, kp)
    PROVE  SeqRight(Append(seq, m), chat, older, st, arr2, kp)
<1>1. Range(Append(seq, m)) = Range(seq) \cup {m}
  BY AppendedRange
<1>2. \A k \in Range(seq) : k \in Msgs
  BY DEF Range
<1>3. Chronological(Append(seq, m))
  BY <1>2, AppendedOrder DEF SeqRight
<1>4. Accounted(seq, arr) \subseteq Accounted(Append(seq, m), arr2)
  BY <1>1 DEF Accounted
<1>5. Append(seq, m) # <<>> /\ Head(Append(seq, m)) = IF seq = <<>> THEN m ELSE Head(seq)
  OBVIOUS
<1>6. ASSUME NEW k \in st, ChatOf[k] = chat, older => Time[k] > Time[Head(Append(seq, m))]
      PROVE  k \in Accounted(Append(seq, m), arr2)
  <2>1. CASE ~older \/ seq # <<>>
    <3>1. k \in Accounted(seq, arr)
      BY <1>5, <1>6, <2>1 DEF SeqRight
    <3> QED
      BY <1>4, <3>1
  <2>2. CASE older /\ seq = <<>>
    <3>1. Time[k] > Time[m] /\ k \in Msgs
      BY <1>5, <1>6, <2>2
    <3>2. k \in arr
      BY <1>6, <3>1
    <3> QED
      BY <1>1, <3>2 DEF Accounted
  <2> QED
    BY <2>1, <2>2
<1> QED
  BY <1>1, <1>3, <1>6 DEF SeqRight

\* A handled arrival that is shown already, or belongs elsewhere.
LEMMA ArrivalPasses ==
    ASSUME NEW seq, NEW chat, NEW older, NEW st, NEW arr, NEW arr2, NEW kp, NEW m \in Msgs,
           ChatOf[m] = chat => m \in Range(seq), arr \subseteq arr2 \cup {m},
           SeqRight(seq, chat, older, st, arr, kp)
    PROVE  SeqRight(seq, chat, older, st, arr2, kp)
<1>1. \A k : ChatOf[k] = chat /\ k \in Accounted(seq, arr) => k \in Accounted(seq, arr2)
  BY DEF Accounted
<1> QED
  BY <1>1 DEF SeqRight

\* A handled deletion removes a row that is not stored.
LEMMA DeletionRemoves ==
    ASSUME NEW seq \in Seq(Msgs), NEW seq2 \in Seq(Msgs), NEW chat, NEW older, NEW st, NEW arr,
           NEW kp, NEW kp2, NEW m, m \notin st, st \subseteq Msgs, kp \subseteq kp2 \cup {m},
           Chronological(seq2), Range(seq2) = Range(seq) \ {m},
           SeqRight(seq, chat, older, st, arr, kp)
    PROVE  SeqRight(seq2, chat, older, st, arr, kp2)
<1>1. \A k \in st : k \in Accounted(seq, arr) => k \in Accounted(seq2, arr)
  BY DEF Accounted
<1>2. ASSUME seq2 # <<>>, NEW k \in st, Time[k] > Time[Head(seq2)]
      PROVE  seq # <<>> /\ Time[k] > Time[Head(seq)]
  <2>1. Head(seq2) \in Range(seq2) /\ Head(seq2) \in Msgs
    BY <1>2, HeadIsOldest
  <2>2. seq # <<>>
    BY <2>1, EmptyIsChronological
  <2>3. Time[Head(seq2)] >= Time[Head(seq)] /\ Head(seq) \in Msgs
    BY <2>1, <2>2, HeadIsOldest DEF SeqRight
  <2>4. Time[k] \in Nat /\ Time[Head(seq)] \in Nat /\ Time[Head(seq2)] \in Nat
    BY <2>1, <2>3, TimeAssumption
  <2> QED
    BY <1>2, <2>2, <2>3, <2>4
<1> QED
  BY <1>1, <1>2 DEF SeqRight

\* The page of older messages joins the view at its boundary; if there is none
\* the view has everything.
LEMMA PageJoins ==
    ASSUME NEW r, r.phase = "served", ~r.overtaken, r.kind \in {"older", "find"},
           r.page \in Seq(Msgs), NEW seq \in Seq(Msgs), NEW chat, NEW older, NEW st, NEW arr, NEW kp,
           r.before \in Nat, st \subseteq Msgs,
           PageRight(r, st, arr, kp), WaitRight(r, chat, older, FALSE, seq, st, arr),
           SeqRight(seq, chat, older, st, arr, kp)
    PROVE  /\ r.page # <<>> => SeqRight(r.page \o seq, chat, older, st, arr, kp)
           /\ r.page = <<>> => SeqRight(seq, chat, FALSE, st, arr, kp)
<1>1. r.chat = chat /\ r.before # 0 /\ FloorRight(r.before, chat, seq, st, arr)
  BY DEF WaitRight
<1>2. /\ Chronological(r.page) /\ Range(r.page) \subseteq kp
      /\ \A m \in Range(r.page) : Time[m] < r.before
      /\ \A m \in st : /\ ChatOf[m] = chat /\ Time[m] < r.before
                       /\ r.page # <<>> => Time[m] > Time[Head(r.page)]
                       => m \in Range(r.page) \cup arr
  BY <1>1 DEF PageRight
<1>3. \A m \in st : Time[m] >= r.before \/ Time[m] < r.before
  BY TimeAssumption
<1>4. ASSUME r.page = <<>>
      PROVE  SeqRight(seq, chat, FALSE, st, arr, kp)
  <2>1. \A m \in st : ChatOf[m] = chat => m \in Accounted(seq, arr)
    BY <1>1, <1>2, <1>3, <1>4, EmptyIsChronological DEF FloorRight, Accounted
  <2> QED
    BY <2>1 DEF SeqRight
<1>5. ASSUME r.page # <<>>
      PROVE  SeqRight(r.page \o seq, chat, older, st, arr, kp)
  <2> DEFINE page == r.page
  <2>1. page \in Seq(Msgs) /\ page # <<>>
    BY <1>5
  <2> HIDE DEF page
  <2>2. Range(page \o seq) = Range(page) \cup Range(seq)
    BY <2>1, ConcatRange
  <2>3. Head(page \o seq) = Head(page) /\ page \o seq # <<>>
    <3>1. Len(page) \in Nat \ {0} /\ Len(seq) \in Nat
      BY <2>1
    <3>2. page \o seq \in Seq(Msgs) /\ Len(page \o seq) = Len(page) + Len(seq)
      BY <2>1
    <3>3. (page \o seq)[1] = page[1]
      BY <2>1, <3>1
    <3>4. page \o seq # <<>>
      BY <3>1, <3>2
    <3> QED
      BY <2>1, <3>2, <3>3, <3>4
  <2>4. \A k \in Range(page), m \in Range(seq) : Time[k] < Time[m]
    <3>1. \A k \in Range(page) : Time[k] < r.before /\ k \in Msgs
      BY <1>2, <2>1 DEF page, Range
    <3>2. \A m \in Range(seq) : Time[m] >= r.before /\ m \in Msgs
      BY <1>1 DEF FloorRight, Range
    <3>3. \A m \in Msgs : Time[m] \in Nat
      BY TimeAssumption
    <3> QED
      BY <3>1, <3>2, <3>3
  <2>5. Chronological(page \o seq)
    BY <1>2, <2>1, <2>4, ConcatOrder DEF SeqRight, page
  <2>6. Accounted(seq, arr) \cup Range(page) = Accounted(page \o seq, arr)
    BY <2>2 DEF Accounted
  <2>7. ASSUME NEW m \in st, ChatOf[m] = chat, older => Time[m] > Time[Head(page)]
        PROVE  m \in Accounted(page \o seq, arr)
    <3>1. CASE Time[m] >= r.before
      BY <1>1, <2>6, <2>7, <3>1 DEF FloorRight
    <3>2. CASE ~older
      BY <2>6, <2>7, <3>2 DEF SeqRight
    <3>3. CASE older /\ Time[m] < r.before
      <4>1. m \in Range(page) \cup arr
        BY <1>2, <2>7, <3>3 DEF page
      <4> QED
        BY <2>2, <4>1 DEF Accounted
    <3> QED
      BY <1>3, <3>1, <3>2, <3>3
  <2>8. Range(page \o seq) \subseteq kp
    BY <1>2, <2>2 DEF SeqRight, page
  <2>9. SeqRight(page \o seq, chat, older, st, arr, kp)
    BY <2>3, <2>5, <2>7, <2>8 DEF SeqRight
  <2> QED
    BY <2>9 DEF page
<1> QED
  BY <1>4, <1>5

\* The page of an opened chat is its view.
LEMMA PageOpens ==
    ASSUME NEW r, r.phase = "served", ~r.overtaken, r.kind = "open", r.before = 0,
           NEW st, NEW arr, NEW kp, PageRight(r, st, arr, kp)
    PROVE  SeqRight(r.page, r.chat, TRUE, st, arr, kp)
  BY DEF PageRight, SeqRight, Accounted

\* What is asked for in front of the view joins it at its head.
LEMMA HeadIsFloor ==
    ASSUME NEW seq \in Seq(Msgs), seq # <<>>, NEW chat, NEW older, NEW st, NEW arr, NEW kp,
           st \subseteq Msgs, SeqRight(seq, chat, older, st, arr, kp)
    PROVE  FloorRight(Time[Head(seq)], chat, seq, st, arr)
<1>1. /\ Head(seq) \in Range(seq) /\ Head(seq) \in Msgs
      /\ \A m \in Range(seq) : Time[m] >= Time[Head(seq)]
  BY HeadIsOldest DEF SeqRight
<1>2. ASSUME NEW m \in st, ChatOf[m] = chat, Time[m] >= Time[Head(seq)]
      PROVE  m \in Accounted(seq, arr)
  <2>1. m \in Msgs /\ Time[m] \in Nat /\ Time[Head(seq)] \in Nat
    BY <1>1, TimeAssumption
  <2>2. CASE Time[m] > Time[Head(seq)]
    BY <1>2, <2>2 DEF SeqRight
  <2>3. CASE m = Head(seq)
    BY <1>1, <2>3 DEF Accounted
  <2>4. CASE Time[m] = Time[Head(seq)] /\ m # Head(seq)
    BY <1>1, <2>1, <2>4 DEF Accounted, SharesItsSecond
  <2> QED
    BY <1>2, <2>1, <2>2, <2>3, <2>4
<1> QED
  BY <1>1, <1>2 DEF FloorRight

-----------------------------------------------------------------------------
(* The table and its events.                                               *)

LEMMA TableSets ==
    ASSUME IInv
    PROVE  stored \subseteq Msgs /\ arriving \subseteq Msgs /\ stored \subseteq kept
  BY DEF stored, arriving, kept

LEMMA SameTable ==
    ASSUME UNCHANGED <<tableVars, feed>>
    PROVE  /\ stored' = stored /\ arriving' = arriving /\ kept' = kept
           /\ EventsRight => EventsRight'
  BY DEF tableVars, stored, arriving, kept, leaving, UnderWay, EventsRight

LEMMA OvertakenIsRight ==
    ASSUME NEW r, r.overtaken, NEW chat, NEW older, NEW wrong, NEW seq, NEW st, NEW arr, NEW kp
    PROVE  PageRight(r, st, arr, kp) /\ WaitRight(r, chat, older, wrong, seq, st, arr)
  BY DEF PageRight, WaitRight

\* A call that waits for nothing of the view: free, a search, a retry.
LEMMA IdleIsRight ==
    ASSUME NEW r, r.phase = "free" \/ r.kind \notin {"open", "older", "find"},
           r.phase \in {"sent", "failed"} => r.page = <<>>,
           NEW chat, NEW older, NEW wrong, NEW seq, NEW st, NEW arr, NEW kp
    PROVE  PageRight(r, st, arr, kp) /\ WaitRight(r, chat, older, wrong, seq, st, arr)
  BY DEF PageRight, WaitRight

\* The daemon changes the table and announces it: nothing becomes wrong.
LEMMA CalmStep ==
    ASSUME Exact, UNCHANGED <<viewVars, call, disturbed>>, EventsRight',
           stored' \subseteq stored \cup arriving', arriving \subseteq arriving', kept \subseteq kept'
    PROVE  Exact'
<1>1. UNCHANGED <<active, shown, hasOlder, call, disturbed>>
  BY DEF viewVars
<1>2. ViewRight'
  BY <1>1, CalmKeepsSeq DEF Exact, ViewRight
<1>3. CallsRight'
  BY <1>1, CalmKeepsPage, CalmKeepsWait DEF Exact, CallsRight
<1> QED
  BY <1>2, <1>3 DEF Exact

LEMMA ArriveKeepsExact ==
    ASSUME IInv, Exact, NEW m \in Msgs, Arrive(m)
    PROVE  Exact'
<1>1. /\ UNCHANGED <<viewVars, call, disturbed, feed>>
      /\ row' = [row EXCEPT ![m] = "stored"] /\ row[m] # "deleted"
      /\ publishing' = publishing \cup {[type |-> "new", msg |-> m]}
      /\ row \in [Msgs -> {"none", "stored", "deleted"}]
  BY DEF Arrive, IInv, TypeOK
<1>2. /\ \A k \in Msgs : UnderWay("new", k)' <=> UnderWay("new", k) \/ k = m
      /\ \A k \in Msgs : UnderWay("deleted", k)' <=> UnderWay("deleted", k)
  BY <1>1 DEF UnderWay
<1>3. arriving' = arriving \cup {m} /\ leaving' = leaving
  BY <1>2 DEF arriving, leaving
<1>4. stored' = stored \cup {m}
  BY <1>1 DEF stored
<1>5. EventsRight'
  BY <1>1, <1>3 DEF Exact, EventsRight, arriving
<1> QED
  BY <1>1, <1>3, <1>4, <1>5, CalmStep DEF kept

LEMMA DeleteKeepsExact ==
    ASSUME IInv, Exact, NEW m \in Msgs, Delete(m)
    PROVE  Exact'
<1>1. /\ UNCHANGED <<viewVars, call, disturbed, feed>>
      /\ row' = [row EXCEPT ![m] = "deleted"]
      /\ publishing' = publishing \cup {[type |-> "deleted", msg |-> m]}
      /\ row \in [Msgs -> {"none", "stored", "deleted"}]
  BY DEF Delete, IInv, TypeOK
<1>2. /\ \A k \in Msgs : UnderWay("new", k)' <=> UnderWay("new", k)
      /\ \A k \in Msgs : UnderWay("deleted", k)' <=> UnderWay("deleted", k) \/ k = m
  BY <1>1 DEF UnderWay
<1>3. arriving' = arriving /\ leaving' = leaving \cup {m}
  BY <1>2 DEF arriving, leaving
<1>4. stored' = stored \ {m}
  BY <1>1 DEF stored
<1>5. EventsRight'
  BY <1>1, <1>3 DEF Exact, EventsRight, arriving, leaving
<1> QED
  BY <1>1, <1>3, <1>4, <1>5, CalmStep DEF kept

\* Publishing moves an event, it stays under way.
LEMMA PublishKeepsExact ==
    ASSUME IInv, Exact, NEW e \in publishing, Publish(e)
    PROVE  Exact'
<1>1. /\ UNCHANGED <<viewVars, call, disturbed, row>>
      /\ publishing' = publishing \ {e} /\ feed' = Append(feed, e)
      /\ feed \in Seq(Events) /\ e \in Events
  BY DEF Publish, IInv, TypeOK
<1>2. Range(feed') = Range(feed) \cup {e}
  BY <1>1, AppendedRange
<1>3. publishing' \cup Range(feed') = publishing \cup Range(feed)
  BY <1>1, <1>2
<1>4. \A type, m : UnderWay(type, m)' <=> UnderWay(type, m)
  BY <1>3 DEF UnderWay
<1>5. arriving' = arriving /\ leaving' = leaving /\ stored' = stored
  BY <1>1, <1>4 DEF arriving, leaving, stored
<1>6. EventsRight'
  BY <1>1, <1>5 DEF Exact, EventsRight
<1> QED
  BY <1>1, <1>5, <1>6, CalmStep DEF kept

\* The view is disturbed, and whatever has been read is marked.
LEMMA DisturbedStep ==
    ASSUME IInv, Exact, UNCHANGED viewVars, disturbed' = TRUE, EventsRight',
           call' = [c \in Calls |-> [call[c] EXCEPT !.overtaken = @ \/ call[c].phase = "served"]]
    PROVE  Exact'
<1>1. UNCHANGED <<active, shown, hasOlder>>
  BY DEF viewVars
<1>2. ASSUME NEW c \in Calls
      PROVE  /\ PageRight(call'[c], stored', arriving', kept')
             /\ WaitRight(call'[c], active, hasOlder, TRUE, shown, stored', arriving')
  <2> DEFINE r == call[c]
             s == call'[c]
  <2>1. r \in CallRecord
    BY DEF IInv, TypeOK
  <2>2. s = [r EXCEPT !.overtaken = r.overtaken \/ r.phase = "served"]
    OBVIOUS
  <2>3. /\ s.kind = r.kind /\ s.phase = r.phase /\ s.chat = r.chat /\ s.before = r.before
        /\ s.page = r.page /\ s.overtaken = (r.overtaken \/ r.phase = "served")
    BY <2>1, <2>2 DEF CallRecord
  <2>4. PageRight(r, stored, arriving, kept) /\ WaitRight(r, active, hasOlder, disturbed, shown, stored, arriving)
    BY DEF Exact, CallsRight
  <2> HIDE DEF r, s
  <2>5. PageRight(s, stored', arriving', kept')
    BY <2>3, <2>4 DEF PageRight
  <2>6. WaitRight(s, active, hasOlder, TRUE, shown, stored', arriving')
    BY <2>3, <2>4 DEF WaitRight
  <2> QED
    BY <2>5, <2>6 DEF s
<1>3. CallsRight'
  BY <1>1, <1>2 DEF CallsRight
<1>4. ViewRight'
  BY DEF ViewRight
<1> QED
  BY <1>3, <1>4 DEF Exact

LEMMA HistoryKeepsExact ==
    ASSUME IInv, Exact, NEW m \in Msgs, SyncHistory(m)
    PROVE  Exact'
<1>1. /\ row' = [row EXCEPT ![m] = "stored"] /\ row[m] = "none"
      /\ UNCHANGED <<publishing, feed, viewVars>>
      /\ row \in [Msgs -> {"none", "stored", "deleted"}]
  BY DEF SyncHistory, IInv, TypeOK
<1>2. arriving' = arriving /\ leaving' = leaving
  BY <1>1 DEF arriving, leaving, UnderWay
<1>3. EventsRight'
  BY <1>1, <1>2 DEF Exact, EventsRight, arriving, leaving
<1> QED
  BY <1>1, <1>3, DisturbedStep DEF SyncHistory

LEMMA LossKeepsExact ==
    ASSUME IInv, Exact, LoseEvents
    PROVE  Exact'
<1>1. feed' = <<>> /\ UNCHANGED <<row, publishing, viewVars>>
  BY DEF LoseEvents, tableVars
<1>2. publishing' \cup Range(feed') \subseteq publishing \cup Range(feed)
  BY <1>1, EmptyIsChronological
<1>3. arriving' \subseteq arriving /\ leaving' \subseteq leaving
  BY <1>2 DEF arriving, leaving, UnderWay
<1>4. EventsRight'
  BY <1>1, <1>3 DEF Exact, EventsRight
<1> QED
  BY <1>1, <1>4, DisturbedStep DEF LoseEvents

-----------------------------------------------------------------------------
(* Events reach the window.                                                *)

\* A call after an event: marked, or as it was.
LEMMA EventMarks ==
    ASSUME IInv, NEW e, NEW c \in Calls,
           call' = [d \in Calls |-> [call[d] EXCEPT !.overtaken = @ \/ Overtakes(e, d)]]
    PROVE  /\ call'[c].overtaken \/ call'[c] = call[c]
           /\ Overtakes(e, c) => call'[c].overtaken
<1>1. call[c] \in CallRecord
  BY DEF IInv, TypeOK
<1>2. Overtakes(e, c) \in BOOLEAN
  BY DEF Overtakes
<1>3. call'[c] = [call[c] EXCEPT !.overtaken = call[c].overtaken \/ Overtakes(e, c)]
  OBVIOUS
<1>4. call'[c].overtaken = (call[c].overtaken \/ Overtakes(e, c))
  BY <1>1, <1>3 DEF CallRecord
<1>5. ~call[c].overtaken /\ ~Overtakes(e, c) => call'[c] = call[c]
  BY <1>1, <1>3 DEF CallRecord
<1> QED
  BY <1>1, <1>2, <1>4, <1>5 DEF CallRecord

\* What the head of the feed takes with it.
LEMMA EventLeaves ==
    ASSUME IInv, Exact, OnEvent
    PROVE  /\ Head(feed) \in Events /\ Head(feed).msg \in Msgs
           /\ stored' = stored /\ arriving' \subseteq arriving /\ leaving' \subseteq leaving
           /\ arriving \subseteq arriving' \cup {Head(feed).msg}
           /\ leaving \subseteq leaving' \cup {Head(feed).msg}
           /\ Head(feed).type = "new" => leaving' = leaving /\ Head(feed).msg \in arriving
           /\ Head(feed).type = "deleted" => arriving' = arriving /\ Head(feed).msg \in leaving
           /\ EventsRight'
<1> DEFINE e == Head(feed)
<1>1. feed \in Seq(Events) /\ feed # <<>> /\ feed' = Tail(feed) /\ UNCHANGED tableVars
  BY DEF OnEvent, IInv, TypeOK
<1>2. e \in Events /\ Range(feed) = Range(feed') \cup {e}
  BY <1>1, TailRange
<1>3. UNCHANGED <<row, publishing>>
  BY <1>1 DEF tableVars
<1> HIDE DEF e
<1>4. e.msg \in Msgs /\ e.type \in {"new", "deleted"} /\ e = [type |-> e.type, msg |-> e.msg]
  BY <1>2 DEF Events
<1>5. ASSUME NEW type, NEW m
      PROVE  UnderWay(type, m) <=> UnderWay(type, m)' \/ e = [type |-> type, msg |-> m]
  BY <1>2, <1>3 DEF UnderWay
<1>6. \A type, m : e = [type |-> type, msg |-> m] <=> type = e.type /\ m = e.msg
  BY <1>4
<1>7. \A type, m : UnderWay(type, m) <=> UnderWay(type, m)' \/ (type = e.type /\ m = e.msg)
  BY <1>5, <1>6
<1>8. /\ arriving' \subseteq arriving /\ leaving' \subseteq leaving
      /\ arriving \subseteq arriving' \cup {e.msg} /\ leaving \subseteq leaving' \cup {e.msg}
      /\ e.type = "new" => leaving' = leaving /\ e.msg \in arriving
      /\ e.type = "deleted" => arriving' = arriving /\ e.msg \in leaving
  BY <1>4, <1>7 DEF arriving, leaving
<1>9. stored' = stored
  BY <1>3 DEF stored
<1>10. EventsRight'
  BY <1>3, <1>8 DEF Exact, EventsRight
<1> QED
  BY <1>2, <1>4, <1>8, <1>9, <1>10 DEF e

LEMMA ArrivalKeepsView ==
    ASSUME IInv, Exact, OnEvent, Head(feed).type = "new"
    PROVE  ViewRight'
<1> DEFINE m == Head(feed).msg
<1>1. /\ m \in Msgs /\ stored' = stored /\ kept' = kept
      /\ arriving \subseteq arriving' \cup {m} /\ m \in arriving
  BY EventLeaves DEF kept
<1>2. active' = active /\ hasOlder' = hasOlder /\ OnMessage(m)
  BY DEF OnEvent
<1>3. shown \in Seq(Msgs) /\ \A k \in Range(shown) : ChatOf[k] = active
  BY DEF IInv, TypeOK, ShownBelongsToActive
<1> HIDE DEF m
<1>4. SUFFICES ASSUME ~disturbed'
               PROVE  SeqRight(shown', active, hasOlder, stored, arriving', kept)
  BY <1>1, <1>2 DEF ViewRight
<1>5. SeqRight(shown, active, hasOlder, stored, arriving, kept)
  BY <1>2, <1>4 DEF Exact, ViewRight, OnMessage
<1>6. CASE ChatOf[m] # active \/ Shows(m)
  <2>1. shown' = shown /\ (ChatOf[m] = active => m \in Range(shown))
    BY <1>2, <1>6 DEF OnMessage, Shows
  <2> QED
    BY <1>1, <1>5, <2>1, ArrivalPasses
<1>7. CASE ChatOf[m] = active /\ ~Shows(m)
  <2>1. shown' = Append(shown, m) /\ ~Late(m)
    BY <1>2, <1>4, <1>7 DEF OnMessage
  <2>2. \A k \in Msgs : ChatOf[k] = active /\ Time[k] > Time[m]
                          => k \notin Range(shown) /\ (k \in stored => k \in arriving)
    BY <1>7, <2>1 DEF Late, Shows, stored, arriving
  <2>3. m \in kept
    <3>1. row[m] \in {"stored", "deleted"}
      BY <1>1 DEF Exact, EventsRight, IInv, TypeOK
    <3>2. row[m] = "deleted" => UnderWay("deleted", m)
      BY <2>1 DEF Late
    <3> QED
      BY <1>1, <3>1, <3>2 DEF kept, stored, leaving
  <2> QED
    BY <1>1, <1>3, <1>5, <1>7, <2>1, <2>2, <2>3, TableSets, ArrivalJoins DEF Shows
<1> QED
  BY <1>6, <1>7

LEMMA ArrivalKeepsCalls ==
    ASSUME IInv, Exact, OnEvent, Head(feed).type = "new"
    PROVE  CallsRight'
<1> DEFINE e == Head(feed)
           m == e.msg
<1>1. /\ m \in Msgs /\ stored' = stored /\ kept' = kept /\ stored \subseteq Msgs
      /\ arriving \subseteq arriving' \cup {m}
  BY EventLeaves, TableSets DEF kept
<1>2. active' = active /\ hasOlder' = hasOlder /\ OnMessage(m)
  BY DEF OnEvent
<1>3. e.type = "new" /\ call' = [d \in Calls |-> [call[d] EXCEPT !.overtaken = @ \/ Overtakes(e, d)]]
  BY DEF OnEvent
<1>4. shown' \in {shown, Append(shown, m)} /\ (ChatOf[m] = active => m \in Range(shown'))
      /\ Range(shown) \subseteq Range(shown') /\ Range(shown') \subseteq Range(shown) \cup {m}
      /\ (ChatOf[m] # active => shown' = shown)
  <2>1. Range(Append(shown, m)) = Range(shown) \cup {m}
    BY <1>1, AppendedRange DEF IInv, TypeOK
  <2> QED
    BY <1>2, <2>1 DEF OnMessage, Shows
<1>5. disturbed => disturbed'
  BY <1>2 DEF OnMessage
<1> HIDE DEF m, e
<1>6. ASSUME NEW c \in Calls
      PROVE  /\ PageRight(call'[c], stored, arriving', kept)
             /\ WaitRight(call'[c], active, hasOlder, disturbed', shown', stored, arriving')
  <2> DEFINE r == call[c]
  <2>1. CASE call'[c].overtaken
    BY <2>1, OvertakenIsRight
  <2>2. CASE ~call'[c].overtaken
    <3>1. call'[c] = r /\ ~Overtakes(e, c) /\ ~r.overtaken
      BY <1>3, <2>2, EventMarks
    <3>2. r \in CallRecord /\ r.before \in Nat
      BY DEF IInv, TypeOK, CallRecord
    <3>3. PageRight(r, stored, arriving, kept) /\ WaitRight(r, active, hasOlder, disturbed, shown, stored, arriving)
      BY DEF Exact, CallsRight
    <3>4. r.phase # "free" /\ r.chat = ChatOf[m] =>
             /\ ~(Time[m] < r.before)
             /\ r.phase = "served" /\ r.kind = "open" => m \in Range(r.page)
      BY <1>3, <3>1 DEF Overtakes, m
    <3> HIDE DEF r
    <3>5. PageRight(r, stored, arriving', kept)
      <4>1. r.phase = "served" /\ r.kind \in {"open", "older", "find"} /\ ChatOf[m] = r.chat
            /\ (r.before # 0 => Time[m] < r.before) => m \in Range(r.page)
        <5>1. r.phase = "served" /\ r.kind \in {"older", "find"} => r.before # 0
          BY <3>1, <3>3 DEF WaitRight
        <5> QED
          BY <3>4, <5>1
      <4> QED
        BY <1>1, <3>3, <4>1 DEF PageRight
    <3>6. WaitRight(r, active, hasOlder, disturbed', shown', stored, arriving')
      <4>1. ASSUME r.phase # "free", r.kind \in {"older", "find"}, ~disturbed'
            PROVE  FloorRight(r.before, active, shown', stored, arriving')
        <5>1. r.chat = active /\ FloorRight(r.before, active, shown, stored, arriving)
          BY <1>5, <3>1, <3>3, <4>1 DEF WaitRight
        <5>2. ChatOf[m] = active => Time[m] >= r.before
          <6>1. Time[m] \in Nat
            BY <1>1, TimeAssumption
          <6> QED
            BY <3>2, <3>4, <4>1, <5>1, <6>1
        <5>3. \A k \in Range(shown') : Time[k] >= r.before
          BY <1>4, <5>1, <5>2 DEF FloorRight
        <5>4. \A k \in stored : ChatOf[k] = active /\ k \in Accounted(shown, arriving) => k \in Accounted(shown', arriving')
          BY <1>1, <1>4 DEF Accounted
        <5> QED
          BY <5>1, <5>3, <5>4 DEF FloorRight
      <4> QED
        BY <3>3, <4>1 DEF WaitRight
    <3> QED
      BY <3>1, <3>5, <3>6
  <2> QED
    BY <2>1, <2>2
<1> QED
  BY <1>1, <1>2, <1>6 DEF CallsRight

\* The shown list after a deletion, if it was in order.
LEMMA DeletedRow ==
    ASSUME IInv, OnMessageDeleted(Head(feed).msg), Chronological(shown)
    PROVE  /\ shown' \in Seq(Msgs) /\ Chronological(shown')
           /\ Range(shown') = Range(shown) \ {Head(feed).msg}
<1> DEFINE m == Head(feed).msg
<1>1. shown \in Seq(Msgs) /\ \A k \in Range(shown) : ChatOf[k] = active
  BY DEF IInv, TypeOK, ShownBelongsToActive
<1> HIDE DEF m
<1>2. CASE ChatOf[m] # active \/ ~Shows(m)
  <2>1. shown' = shown /\ m \notin Range(shown)
    BY <1>1, <1>2 DEF OnMessageDeleted, Shows, m
  <2> QED
    BY <1>1, <2>1 DEF m
<1>3. CASE ~(ChatOf[m] # active \/ ~Shows(m))
  <2>1. PICK i \in DOMAIN shown :
            /\ shown[i] = m
            /\ shown' = SubSeq(shown, 1, i - 1) \o SubSeq(shown, i + 1, Len(shown))
    BY <1>3 DEF OnMessageDeleted, m
  <2> QED
    BY <1>1, <2>1, RemovedRow DEF m
<1> QED
  BY <1>2, <1>3

LEMMA DeletionKeepsExact ==
    ASSUME IInv, Exact, OnEvent, Head(feed).type = "deleted"
    PROVE  ViewRight' /\ CallsRight'
<1> DEFINE e == Head(feed)
           m == e.msg
<1>1. /\ stored' = stored /\ stored \subseteq Msgs /\ arriving' = arriving
      /\ leaving \subseteq leaving' \cup {m} /\ m \in leaving
  BY EventLeaves, TableSets
<1>2. /\ active' = active /\ hasOlder' = hasOlder /\ disturbed' = disturbed
      /\ OnMessageDeleted(m)
  BY DEF OnEvent, OnMessageDeleted
<1>3. e.type = "deleted" /\ call' = [d \in Calls |-> [call[d] EXCEPT !.overtaken = @ \/ Overtakes(e, d)]]
  BY DEF OnEvent
<1>4. m \notin stored /\ kept \subseteq kept' \cup {m}
  BY <1>1 DEF Exact, EventsRight, stored, kept
<1>5. ~disturbed => /\ Chronological(shown) /\ shown' \in Seq(Msgs) /\ Chronological(shown')
                    /\ Range(shown') = Range(shown) \ {m}
  BY <1>2, DeletedRow DEF Exact, ViewRight, SeqRight
<1>6. shown \in Seq(Msgs)
  BY DEF IInv, TypeOK
<1> HIDE DEF m, e
<1>7. ViewRight'
  BY <1>1, <1>2, <1>4, <1>5, <1>6, DeletionRemoves DEF Exact, ViewRight
<1>8. ASSUME NEW c \in Calls
      PROVE  /\ PageRight(call'[c], stored, arriving, kept')
             /\ WaitRight(call'[c], active, hasOlder, disturbed, shown', stored, arriving)
  <2> DEFINE r == call[c]
  <2>1. CASE call'[c].overtaken
    BY <2>1, OvertakenIsRight
  <2>2. CASE ~call'[c].overtaken
    <3>1. call'[c] = r /\ ~Overtakes(e, c) /\ ~r.overtaken
      BY <1>3, <2>2, EventMarks
    <3>2. PageRight(r, stored, arriving, kept) /\ WaitRight(r, active, hasOlder, disturbed, shown, stored, arriving)
      BY DEF Exact, CallsRight
    <3>3. \A i \in DOMAIN r.page : ChatOf[r.page[i]] = r.chat
      BY DEF IInv, CallsGood, GoodCall
    <3>4. r.phase = "served" /\ r.chat = ChatOf[m] => m \notin Range(r.page)
      BY <1>3, <3>1 DEF Overtakes, m
    <3> HIDE DEF r
    <3>5. r.phase = "served" => m \notin Range(r.page)
      BY <3>3, <3>4 DEF Range
    <3>6. PageRight(r, stored, arriving, kept')
      BY <1>4, <3>2, <3>5 DEF PageRight
    <3>7. WaitRight(r, active, hasOlder, disturbed, shown', stored, arriving)
      <4>1. ~disturbed => \A k \in stored : k \in Accounted(shown, arriving) => k \in Accounted(shown', arriving)
        BY <1>4, <1>5 DEF Accounted
      <4>2. ~disturbed /\ FloorRight(r.before, active, shown, stored, arriving)
              => FloorRight(r.before, active, shown', stored, arriving)
        BY <1>5, <4>1 DEF FloorRight
      <4> QED
        BY <3>2, <4>2 DEF WaitRight
    <3> QED
      BY <3>1, <3>6, <3>7
  <2> QED
    BY <2>1, <2>2
<1> QED
  BY <1>1, <1>2, <1>7, <1>8 DEF CallsRight

LEMMA EventKeepsExact ==
    ASSUME IInv, Exact, OnEvent
    PROVE  Exact'
<1>1. Head(feed).type \in {"new", "deleted"} /\ EventsRight'
  BY EventLeaves DEF Events
<1> QED
  BY <1>1, ArrivalKeepsView, ArrivalKeepsCalls, DeletionKeepsExact DEF Exact

-----------------------------------------------------------------------------
(* Calls.                                                                  *)

\* What ListMessages returns is right when it is read.
LEMMA PagesAreRight ==
    ASSUME NEW r, NEW arr, NEW kp, stored \subseteq kp, r.page \in Pages(r.chat, r.before), r.phase = "served"
    PROVE  PageRight(r, stored, arr, kp)
<1> DEFINE rows == Older(r.chat, r.before)
           size == IF Cardinality(rows) < PageSize THEN Cardinality(rows) ELSE PageSize
           page == r.page
<1>1. rows \subseteq Msgs /\ rows \subseteq stored
  BY DEF Older, stored
<1>2. IsFiniteSet(rows) /\ Cardinality(rows) \in Nat
  BY <1>1, MsgsAssumption, FS_Subset, FS_CardinalityType
<1>3. /\ page \in [1..size -> rows] /\ Chronological(page)
      /\ \A m \in rows \ Range(page), k \in Range(page) : Time[m] <= Time[k]
  BY DEF Pages
<1>4. size \in Nat
  BY <1>2, PageSizeAssumption
<1>5. \A m \in rows : r.before # 0 => Time[m] < r.before
  BY DEF Older
<1>6. \A m \in stored : ChatOf[m] = r.chat /\ (r.before # 0 => Time[m] < r.before) => m \in rows
  BY DEF Older, stored
<1> HIDE DEF rows
<1>7. page = <<>> => rows = {}
  <2>1. page = <<>> => size = 0
    <3> HIDE DEF size
    <3> QED
      BY <1>3, <1>4
  <2>2. size = 0 => Cardinality(rows) = 0
    BY <1>2, PageSizeAssumption
  <2> QED
    BY <1>2, <2>1, <2>2, FS_EmptySet
<1> HIDE DEF size, page
<1>8. page \in Seq(Msgs) /\ Range(page) \subseteq rows
  <2>1. page \in Seq(rows)
    BY <1>3, <1>4
  <2> QED
    BY <1>1, <1>3, <2>1 DEF Range
<1>9. ASSUME NEW m \in rows, page # <<>>, Time[m] > Time[Head(page)]
      PROVE  m \in Range(page)
  <2>1. Head(page) \in Range(page) /\ Head(page) \in Msgs
    BY <1>3, <1>8, <1>9, HeadIsOldest
  <2>2. Time[m] \in Nat /\ Time[Head(page)] \in Nat
    BY <1>1, <2>1, TimeAssumption
  <2>3. m \notin Range(page) => Time[m] <= Time[Head(page)]
    BY <1>3, <2>1
  <2> QED
    BY <1>9, <2>2, <2>3
<1>10. Range(page) \subseteq kp
  BY <1>1, <1>8
<1> QED
  BY <1>3, <1>5, <1>6, <1>7, <1>8, <1>9, <1>10 DEF PageRight, page

\* One call changes, the view and the table do not.
LEMMA CallStep ==
    ASSUME IInv, Exact, UNCHANGED <<tableVars, feed, active, shown, hasOlder, disturbed>>,
           NEW c \in Calls, NEW r, call' = [call EXCEPT ![c] = r],
           PageRight(r, stored, arriving, kept),
           WaitRight(r, active, hasOlder, disturbed, shown, stored, arriving)
    PROVE  Exact'
<1>1. stored' = stored /\ arriving' = arriving /\ kept' = kept /\ EventsRight'
  BY SameTable DEF Exact
<1>2. \A d \in Calls : call'[d] = IF d = c THEN r ELSE call[d]
  BY DEF IInv, TypeOK
<1>3. ViewRight'
  BY <1>1 DEF Exact, ViewRight
<1>4. ASSUME NEW d \in Calls
      PROVE  /\ PageRight(call'[d], stored, arriving, kept)
             /\ WaitRight(call'[d], active, hasOlder, disturbed, shown, stored, arriving)
  BY <1>2 DEF Exact, CallsRight
<1>5. CallsRight'
  BY <1>1, <1>4 DEF CallsRight
<1> QED
  BY <1>1, <1>3, <1>5 DEF Exact

LEMMA ServeKeepsExact ==
    ASSUME IInv, Exact, NEW c \in Calls, Serve(c) \/ Fail(c)
    PROVE  Exact'
<1> DEFINE r == call[c]
<1>1. UNCHANGED <<tableVars, feed, active, shown, hasOlder, disturbed>>
  BY DEF Serve, Fail, viewVars
<1>2. r \in CallRecord /\ stored \subseteq kept
  BY TableSets DEF IInv, TypeOK
<1>3. r.phase = "sent" /\ PageRight(r, stored, arriving, kept)
      /\ WaitRight(r, active, hasOlder, disturbed, shown, stored, arriving)
  BY DEF Serve, Fail, Exact, CallsRight
<1>4. CASE Serve(c)
  <2>1. PICK page : /\ r.kind # "search" => page \in Pages(r.chat, r.before)
                    /\ call' = [call EXCEPT ![c] = [r EXCEPT !.phase = "served", !.page = page]]
    BY <1>4 DEF Serve
  <2> DEFINE s == [r EXCEPT !.phase = "served", !.page = page]
  <2>2. /\ s.kind = r.kind /\ s.chat = r.chat /\ s.before = r.before /\ s.overtaken = r.overtaken
        /\ s.phase = "served" /\ s.page = page
    BY <1>2 DEF CallRecord
  <2>3. call' = [call EXCEPT ![c] = s]
    BY <2>1
  <2> HIDE DEF s, r
  <2>4. CASE s.kind = "search"
    <3>1. /\ PageRight(s, stored, arriving, kept)
          /\ WaitRight(s, active, hasOlder, disturbed, shown, stored, arriving)
      BY <2>2, <2>4, IdleIsRight
    <3> QED
      BY <1>1, <2>3, <3>1, CallStep
  <2>5. CASE s.kind # "search"
    <3>1. PageRight(s, stored, arriving, kept)
      BY <1>2, <2>1, <2>2, <2>5, PagesAreRight
    <3>2. WaitRight(s, active, hasOlder, disturbed, shown, stored, arriving)
      BY <1>3, <2>2 DEF WaitRight
    <3> QED
      BY <1>1, <2>3, <3>1, <3>2, CallStep
  <2> QED
    BY <2>4, <2>5
<1>5. CASE Fail(c)
  <2> DEFINE s == [r EXCEPT !.phase = "failed"]
  <2>1. /\ s.kind = r.kind /\ s.chat = r.chat /\ s.before = r.before /\ s.overtaken = r.overtaken
        /\ s.phase = "failed" /\ s.page = r.page
    BY <1>2 DEF CallRecord
  <2>2. call' = [call EXCEPT ![c] = s]
    BY <1>5 DEF Fail
  <2> HIDE DEF s, r
  <2>3. PageRight(s, stored, arriving, kept)
    BY <1>3, <2>1 DEF PageRight
  <2>4. WaitRight(s, active, hasOlder, disturbed, shown, stored, arriving)
    BY <1>3, <2>1 DEF WaitRight
  <2> QED
    BY <1>1, <2>2, <2>3, <2>4, CallStep
<1> QED
  BY <1>4, <1>5

LEMMA CallFields ==
    ASSUME NEW kind, NEW phase, NEW chat, NEW before, NEW target, NEW budget
    PROVE  LET r == Call(kind, phase, chat, before, target, budget)
           IN  /\ r.kind = kind /\ r.phase = phase /\ r.chat = chat /\ r.before = before
               /\ r.page = <<>> /\ ~r.overtaken
  BY DEF Call

LEMMA ReleaseKeepsExact ==
    ASSUME IInv, Exact, UNCHANGED <<tableVars, feed, active, shown, hasOlder, disturbed>>,
           NEW c \in Calls, Release(c)
    PROVE  Exact'
<1>1. Free.phase = "free" /\ Free.page = <<>>
  BY CallFields DEF Free
<1>2. /\ PageRight(Free, stored, arriving, kept)
      /\ WaitRight(Free, active, hasOlder, disturbed, shown, stored, arriving)
  BY <1>1, IdleIsRight
<1> QED
  BY <1>2, CallStep DEF Release

\* A page is asked for in front of the view.
LEMMA AskKeepsExact ==
    ASSUME IInv, Exact, UNCHANGED <<tableVars, feed, active, shown, hasOlder, disturbed>>,
           NEW c \in Calls, shown # <<>>, NEW kind \in {"older", "find"}, NEW target, NEW budget,
           Ask(c, kind, target, budget)
    PROVE  Exact'
<1> DEFINE floor == Time[Head(shown)]
           r == Call(kind, "sent", active, floor, target, budget)
<1>1. call' = [call EXCEPT ![c] = r]
  BY DEF Ask
<1>2. r.kind = kind /\ r.phase = "sent" /\ r.chat = active /\ r.before = floor /\ r.page = <<>>
  BY CallFields
<1>3. shown \in Seq(Msgs) /\ stored \subseteq Msgs /\ floor # 0
  BY ViewBelongs, TableSets, TimeAssumption DEF IInv, TypeOK
<1> HIDE DEF r
<1>4. ~disturbed => FloorRight(floor, active, shown, stored, arriving)
  BY <1>3, HeadIsFloor DEF Exact, ViewRight
<1>5. PageRight(r, stored, arriving, kept)
  BY <1>2 DEF PageRight
<1>6. WaitRight(r, active, hasOlder, disturbed, shown, stored, arriving)
  BY <1>2, <1>3, <1>4 DEF WaitRight
<1> QED
  BY <1>1, <1>5, <1>6, CallStep

LEMMA ScrollKeepsExact ==
    ASSUME IInv, Exact, UNCHANGED <<tableVars, feed, active, shown, hasOlder, disturbed>>,
           NEW c \in Calls, NEW target, NEW budget, Release(c) \/ ScrollTo(c, target, budget)
    PROVE  Exact'
<1>1. CASE Release(c)
  BY <1>1, ReleaseKeepsExact
<1>2. CASE shown # <<>> /\ Ask(c, "find", target, budget)
  BY <1>2, AskKeepsExact
<1> QED
  BY <1>1, <1>2 DEF ScrollTo

-----------------------------------------------------------------------------
(* Opening and paging.                                                     *)

\* A call of these kinds that is in flight is overtaken, every other is not
\* touched.
LEMMA OvertakeMarks ==
    ASSUME IInv, NEW c \in Calls, NEW kinds, NEW d \in Calls, d # c
    PROVE  /\ call[d].phase # "free" /\ call[d].kind \in kinds => Overtake(c, kinds)[d].overtaken
           /\ ~(call[d].phase # "free" /\ call[d].kind \in kinds) => Overtake(c, kinds)[d] = call[d]
<1>1. call[d] \in CallRecord
  BY DEF IInv, TypeOK
<1>2. [call[d] EXCEPT !.overtaken = TRUE].overtaken
  BY <1>1 DEF CallRecord
<1>3. Overtake(c, kinds)[d] = IF call[d].phase # "free" /\ call[d].kind \in kinds
                             THEN [call[d] EXCEPT !.overtaken = TRUE] ELSE call[d]
  BY DEF Overtake, InFlight
<1> QED
  BY <1>2, <1>3

\* Opening a chat, and its reply, overtake every page of older messages; the
\* calls that are left do not depend on the view.
LEMMA OpeningKeepsCalls ==
    ASSUME IInv, Exact, UNCHANGED <<tableVars, feed>>, hasOlder' = hasOlder \/ hasOlder' = TRUE,
           NEW c \in Calls, NEW s, call' = [Overtake(c, {"older", "find"}) EXCEPT ![c] = s],
           s.page = <<>> \/ s.phase = "free", s.phase \in {"free", "sent"},
           s.phase # "free" => s.kind = "open" /\ s.before = 0 /\ hasOlder' = TRUE
    PROVE  CallsRight'
<1>1. stored' = stored /\ arriving' = arriving /\ kept' = kept
  BY SameTable
<1>2. ASSUME NEW d \in Calls
      PROVE  /\ PageRight(call'[d], stored, arriving, kept)
             /\ WaitRight(call'[d], active', hasOlder', disturbed', shown', stored, arriving)
  <2> DEFINE kinds == {"older", "find"}
  <2>0. call'[d] = IF d = c THEN s ELSE Overtake(c, kinds)[d]
    BY DEF Overtake
  <2> HIDE DEF kinds
  <2>1. CASE d = c
    <3>1. call'[d] = s
      BY <2>1, <2>0
    <3> QED
      BY <3>1 DEF PageRight, WaitRight
  <2>2. CASE d # c /\ call[d].phase # "free" /\ call[d].kind \in {"older", "find"}
    <3>1. call'[d].overtaken
      BY <2>2, <2>0, OvertakeMarks DEF kinds
    <3> QED
      BY <3>1, OvertakenIsRight
  <2>3. CASE d # c /\ ~(call[d].phase # "free" /\ call[d].kind \in {"older", "find"})
    <3>1. call'[d] = call[d]
      BY <2>3, <2>0, OvertakeMarks DEF kinds
    <3>2. /\ PageRight(call[d], stored, arriving, kept)
          /\ WaitRight(call[d], active, hasOlder, disturbed, shown, stored, arriving)
      BY DEF Exact, CallsRight
    <3>3. WaitRight(call[d], active', hasOlder', disturbed', shown', stored, arriving)
      BY <2>3, <3>2 DEF WaitRight
    <3> QED
      BY <3>1, <3>2, <3>3
  <2> QED
    BY <2>1, <2>2, <2>3
<1> QED
  BY <1>1, <1>2 DEF CallsRight

LEMMA OpenKeepsExact ==
    ASSUME IInv, Exact, NEW c \in Calls, NEW chat \in Chats, OpenChat(c, chat)
    PROVE  Exact'
<1> DEFINE s == Call("open", "sent", chat, 0, 0, 0)
<1>1. /\ UNCHANGED <<tableVars, feed>> /\ hasOlder' = TRUE /\ disturbed' = TRUE
      /\ call' = [Overtake(c, {"older", "find"}) EXCEPT ![c] = s]
  BY DEF OpenChat
<1>2. s.kind = "open" /\ s.phase = "sent" /\ s.before = 0 /\ s.page = <<>>
  BY CallFields
<1> HIDE DEF s
<1>3. CallsRight'
  BY <1>1, <1>2, OpeningKeepsCalls
<1>4. ViewRight'
  BY <1>1 DEF ViewRight
<1> QED
  BY <1>1, <1>3, <1>4, SameTable DEF Exact

LEMMA OpenReplyKeepsExact ==
    ASSUME IInv, Exact, NEW c \in Calls, OnOpenReply(c)
    PROVE  Exact'
<1> DEFINE r == call[c]
<1>1. /\ UNCHANGED <<tableVars, feed, active, hasOlder>>
      /\ call' = [Overtake(c, {"older", "find"}) EXCEPT ![c] = Free]
  BY DEF OnOpenReply
<1>2. Free.phase = "free"
  BY CallFields DEF Free
<1>3. CallsRight'
  BY <1>1, <1>2, OpeningKeepsCalls
<1>4. stored' = stored /\ arriving' = arriving /\ kept' = kept /\ EventsRight'
  BY <1>1, SameTable DEF Exact
<1>5. ViewRight'
  <2>1. CASE r.phase = "failed" \/ r.chat # active
    <3>1. UNCHANGED <<shown, disturbed>>
      BY <2>1 DEF OnOpenReply
    <3> QED
      BY <1>1, <1>4, <3>1 DEF Exact, ViewRight
  <2>2. CASE ~(r.phase = "failed" \/ r.chat # active)
    <3>1. shown' = r.page /\ disturbed' = r.overtaken /\ r.kind = "open" /\ r.phase = "served" /\ r.chat = active
      BY <2>2 DEF OnOpenReply, InFlight
    <3>2. /\ PageRight(r, stored, arriving, kept)
          /\ WaitRight(r, active, hasOlder, disturbed, shown, stored, arriving)
          /\ hasOlder \in BOOLEAN
      BY DEF Exact, CallsRight, IInv, TypeOK
    <3> HIDE DEF r
    <3>3. ~r.overtaken => r.before = 0 /\ hasOlder = TRUE
      BY <3>1, <3>2 DEF WaitRight
    <3>4. ~r.overtaken => SeqRight(r.page, active, TRUE, stored, arriving, kept)
      BY <3>1, <3>2, <3>3, PageOpens
    <3> QED
      BY <1>1, <1>4, <3>1, <3>3, <3>4 DEF ViewRight
  <2> QED
    BY <2>1, <2>2
<1> QED
  BY <1>3, <1>4, <1>5 DEF Exact

\* A page of older messages, for the view or for a find walk.
LEMMA PrependKeepsExact ==
    ASSUME IInv, Exact, UNCHANGED <<tableVars, feed, active>>, NEW c \in Calls,
           call[c].kind \in {"older", "find"}, call[c].phase \in {"served", "failed"}, Prepend(c),
           NEW s, call' = [Overtake(c, {"open", "older", "find"}) EXCEPT ![c] = s],
           s.phase = "free" \/ (s.kind = "retry" /\ s.page = <<>>)
    PROVE  Exact'
<1> DEFINE r == call[c]
<1>1. stored' = stored /\ arriving' = arriving /\ kept' = kept /\ EventsRight' /\ active' = active
  BY SameTable DEF Exact
<1>2. ASSUME NEW d \in Calls
      PROVE  /\ PageRight(call'[d], stored, arriving, kept)
             /\ WaitRight(call'[d], active, hasOlder', disturbed', shown', stored, arriving)
  <2> DEFINE kinds == {"open", "older", "find"}
  <2>0. call'[d] = IF d = c THEN s ELSE Overtake(c, kinds)[d]
    BY DEF Overtake
  <2> HIDE DEF kinds
  <2>1. CASE d = c
    <3>1. call'[d] = s
      BY <2>1, <2>0
    <3> QED
      BY <3>1, IdleIsRight
  <2>2. CASE d # c /\ call[d].phase # "free" /\ call[d].kind \in {"open", "older", "find"}
    <3>1. call'[d].overtaken
      BY <2>2, <2>0, OvertakeMarks DEF kinds
    <3> QED
      BY <3>1, OvertakenIsRight
  <2>3. CASE d # c /\ ~(call[d].phase # "free" /\ call[d].kind \in {"open", "older", "find"})
    <3>1. call'[d] = call[d]
      BY <2>3, <2>0, OvertakeMarks DEF kinds
    <3>2. PageRight(call[d], stored, arriving, kept)
      BY DEF Exact, CallsRight
    <3>3. WaitRight(call[d], active, hasOlder', disturbed', shown', stored, arriving)
      BY <2>3 DEF WaitRight
    <3> QED
      BY <3>1, <3>2, <3>3
  <2> QED
    BY <2>1, <2>2, <2>3
<1>3. CallsRight'
  BY <1>1, <1>2 DEF CallsRight
<1>4. ASSUME ~disturbed'
      PROVE  SeqRight(shown', active, hasOlder', stored, arriving, kept)
  <2>1. ~disturbed /\ SeqRight(shown, active, hasOlder, stored, arriving, kept)
    BY <1>4 DEF Prepend, Exact, ViewRight
  <2>2. /\ PageRight(r, stored, arriving, kept)
        /\ WaitRight(r, active, hasOlder, FALSE, shown, stored, arriving)
    BY <2>1 DEF Exact, CallsRight, WaitRight
  <2>3. /\ r.page \in Seq(Msgs) /\ r.before \in Nat /\ shown \in Seq(Msgs) /\ stored \subseteq Msgs
        /\ hasOlder \in BOOLEAN
    BY TableSets DEF IInv, TypeOK, CallRecord
  <2>4. /\ r.chat = active /\ r.page # <<>> => shown' = r.page \o shown /\ hasOlder' = hasOlder /\ ~r.overtaken
        /\ r.chat # active /\ r.page # <<>> => shown' = shown /\ hasOlder' = hasOlder
        /\ r.page = <<>> => /\ shown' = shown /\ hasOlder' = FALSE /\ r.chat = active
                            /\ r.phase # "failed" /\ ~r.overtaken
    BY <1>4, <2>3 DEF Prepend
  <2>5. r.kind \in {"older", "find"} /\ r.phase \in {"served", "failed"}
    OBVIOUS
  <2> HIDE DEF r
  <2>6. ~r.overtaken /\ r.page # <<>> => r.phase = "served"
    BY <2>2, <2>5 DEF PageRight
  <2>7. CASE r.chat = active /\ r.page # <<>>
    BY <2>1, <2>2, <2>3, <2>4, <2>5, <2>6, <2>7, PageJoins
  <2>8. CASE r.page = <<>>
    <3>1. r.phase = "served" /\ ~r.overtaken
      BY <2>4, <2>5, <2>8
    <3>2. SeqRight(shown, active, FALSE, stored, arriving, kept)
      BY <2>1, <2>2, <2>3, <2>5, <2>8, <3>1, PageJoins
    <3> QED
      BY <2>4, <2>8, <3>2
  <2>9. CASE r.chat # active /\ r.page # <<>>
    BY <2>1, <2>4, <2>9
  <2> QED
    BY <2>7, <2>8, <2>9
<1>5. ViewRight'
  BY <1>1, <1>4 DEF ViewRight
<1> QED
  BY <1>1, <1>3, <1>5 DEF Exact

-----------------------------------------------------------------------------

LEMMA NextExact == IInv /\ Exact /\ [Next]_vars => Exact'
<1> SUFFICES ASSUME IInv, Exact, [Next]_vars PROVE Exact'
  OBVIOUS
<1>1. CASE DaemonNext
  BY <1>1, ArriveKeepsExact, HistoryKeepsExact, DeleteKeepsExact, PublishKeepsExact, ServeKeepsExact
     DEF DaemonNext
<1>2. CASE LoseEvents
  BY <1>2, LossKeepsExact
<1>3. CASE OnEvent
  BY <1>3, EventKeepsExact
<1>4. CASE ClearFind \/ UNCHANGED vars
  <2>1. UNCHANGED <<tableVars, feed, active, shown, hasOlder, disturbed, call>>
    BY <1>4 DEF ClearFind, vars, viewVars
  <2>2. stored' = stored /\ arriving' = arriving /\ kept' = kept /\ EventsRight'
    BY <2>1, SameTable DEF Exact
  <2> QED
    BY <2>1, <2>2 DEF Exact, ViewRight, CallsRight
<1>5. ASSUME NEW c \in Calls, UserNext(c)
      PROVE  Exact'
  <2>1. ASSUME NEW chat \in Chats, OpenChat(c, chat)
        PROVE  Exact'
    BY <2>1, OpenKeepsExact
  <2>2. CASE LoadOlder(c)
    BY <2>2, AskKeepsExact DEF LoadOlder
  <2>3. CASE RunFind(c)
    <3> DEFINE s == Call("search", "sent", active, 0, 0, 0)
    <3>1. s.kind = "search" /\ s.phase = "sent" /\ s.page = <<>>
      BY CallFields
    <3>2. call' = [call EXCEPT ![c] = s] /\ UNCHANGED <<tableVars, feed, active, shown, hasOlder, disturbed>>
      BY <2>3 DEF RunFind, viewVars
    <3> HIDE DEF s
    <3> QED
      BY <3>1, <3>2, IdleIsRight, CallStep
  <2>4. ASSUME NEW m \in matches, StepMatch(c, m)
        PROVE  Exact'
    BY <2>4, ScrollKeepsExact DEF StepMatch, viewVars
  <2> QED
    BY <1>5, <2>1, <2>2, <2>3, <2>4 DEF UserNext
<1>6. ASSUME NEW c \in Calls, ReplyNext(c)
      PROVE  Exact'
  <2>1. CASE OnOpenReply(c)
    BY <2>1, OpenReplyKeepsExact
  <2>2. CASE OnOlderReply(c)
    <3>1. Free.phase = "free"
      BY CallFields DEF Free
    <3> QED
      BY <2>2, <3>1, PrependKeepsExact DEF OnOlderReply, InFlight
  <2>3. CASE OnSearchReply(c)
    BY <2>3, ScrollKeepsExact DEF OnSearchReply
  <2>4. CASE DropSearchReply(c)
    BY <2>4, ReleaseKeepsExact DEF DropSearchReply, viewVars
  <2>5. CASE OnFindReply(c)
    <3> DEFINE s == Call("retry", "sent", NoChat, 0, call[c].target, call[c].budget - 1)
    <3>1. Free.phase = "free" /\ s.kind = "retry" /\ s.page = <<>>
      BY CallFields DEF Free
    <3> HIDE DEF s
    <3>2. \E t \in {s, Free} : call' = [Overtake(c, {"open", "older", "find"}) EXCEPT ![c] = t]
      BY <2>5 DEF OnFindReply, s
    <3> QED
      BY <2>5, <3>1, <3>2, PrependKeepsExact DEF OnFindReply, InFlight
  <2>6. CASE Retry(c)
    BY <2>6, ScrollKeepsExact DEF Retry, viewVars
  <2> QED
    BY <1>6, <2>1, <2>2, <2>3, <2>4, <2>5, <2>6 DEF ReplyNext
<1> QED
  BY <1>1, <1>2, <1>3, <1>4, <1>5, <1>6 DEF Next

LEMMA InitExact == Init => Exact
<1> SUFFICES ASSUME Init PROVE Exact
  OBVIOUS
<1>1. stored = {} /\ arriving = {} /\ leaving = {} /\ shown = <<>>
  BY EmptyIsChronological DEF Init, stored, arriving, leaving, UnderWay
<1>2. EventsRight
  BY <1>1 DEF EventsRight
<1>3. ViewRight
  BY <1>1, EmptyIsChronological DEF ViewRight, SeqRight
<1>4. CallsRight
  <2>1. Free.phase = "free" /\ Free.page = <<>>
    BY CallFields DEF Free
  <2>2. \A c \in Calls : call[c] = Free
    BY DEF Init
  <2> QED
    BY <2>1, <2>2, IdleIsRight DEF CallsRight
<1> QED
  BY <1>2, <1>3, <1>4 DEF Exact

LEMMA ExactHolds == Spec => []Exact
  BY InitIInv, NextIInv, InitExact, NextExact, PTL DEF Spec

\* Once the events are handled nothing is announced any more.
LEMMA SettledSets ==
    ASSUME Settled
    PROVE  kept = stored /\ arriving = {}
  BY EmptyIsChronological DEF Settled, kept, leaving, arriving, UnderWay

\* Once the events are handled, a view that nothing has disturbed since its
\* chat was opened is the table from its oldest row on, for any messages, page
\* size, find limit and calls in flight.
THEOREM SettledViewAlwaysExact == Spec => []SettledViewIsExact
<1>1. Exact => SettledViewIsExact
  BY SettledSets DEF Exact, ViewRight, SeqRight, Accounted, SettledViewIsExact, Shows
<1> QED
  BY <1>1, ExactHolds, PTL

\* ... and if it offers no older messages it shows the whole chat.
THEOREM OlderAlwaysOffered == Spec => []OlderIsOffered
<1>1. Exact => OlderIsOffered
  BY SettledSets DEF Exact, ViewRight, SeqRight, Accounted, OlderIsOffered, Shows
<1> QED
  BY <1>1, ExactHolds, PTL
=============================================================================
