-------------------------- MODULE ChatList_proofs ---------------------------
(***************************************************************************)
(* The chat list on both sides of the RPC.                                 *)
(*                                                                         *)
(* Inbox: the two chat rows of a contact implement module Contact, for any *)
(* number of messages, of RPC goroutines and of reconcile passes.  What    *)
(* the refinement needs of the tables is that an address without a row     *)
(* holds nothing a merge could count (NoGhostRow), and that whoever stores *)
(* a message finds a row or is about to write one (Anchored).              *)
(*                                                                         *)
(* Sidebar: the list the window shows follows its index, its search and    *)
(* the daemon's table, for any finite set of chats and any number of       *)
(* calls.  The order has each chat of the index once, so that what a       *)
(* rebuild sorts and filters is what the index holds (OrderIsIndexed);     *)
(* a row that was written has a goroutine that is about to publish it      *)
(* (DueIsPending), and once it has, the last event about the chat, until   *)
(* it is handled or unless it was lost, has that row (LastEventIsCurrent). *)
(***************************************************************************)
EXTENDS Inbox, Sidebar, FiniteSetTheorems, SequenceTheorems, WellFoundedInduction, TLAPS

\* The parts of the type invariant.
TablesOK == rows \subseteq Addrs /\ chat \in [Addrs -> Row]

ProcsOK == proc \in [Procs -> [pc : Pcs, msg : Msgs, addr : Addrs]]

HomesOK == home \in [Msgs -> Addrs \cup {"absent"}]

NoGhostRow == \A a \in Addrs \ rows : chat[a] = EmptyRow

\* A send started from a chat that the client showed; its row may have been
\* merged into another one since, but not removed.
Anchored == \A p \in Rpcs : proc[p].pc \in {"insert", "network", "touch"} => rows # {}

IInv ==
    /\ known \in BOOLEAN
    /\ TablesOK
    /\ ProcsOK
    /\ HomesOK
    /\ NoGhostRow
    /\ Anchored
    /\ untouched \subseteq Msgs
    /\ ContactListed

-----------------------------------------------------------------------------
(* The newest of some messages.                                            *)

\* A set of message ids has a greatest element.
LEMMA NewestExists ==
    ASSUME NEW S \in SUBSET Msgs, S # {}
    PROVE  \E m \in S : \A n \in S : n <= m
<1> DEFINE T == {NumMsgs - m : m \in S}
<1>1. T \subseteq Nat /\ T # {}
  <2>1. \A m \in S : m \in Msgs /\ NumMsgs - m \in Nat
    BY NumMsgsAssumption DEF Msgs
  <2>2. PICK m \in S : TRUE
    OBVIOUS
  <2>3. NumMsgs - m \in T
    OBVIOUS
  <2> QED
    BY <2>1, <2>3
<1>2. PICK x \in T : \A y \in T : ~(<<y, x>> \in OpToRel(<, Nat))
  BY <1>1, NatLessThanWellFounded, WFMin
<1>3. PICK m \in S : x = NumMsgs - m
  OBVIOUS
<1>4. ASSUME NEW n \in S PROVE n <= m
  <2>1. NumMsgs - n \in T /\ NumMsgs - n \in Nat /\ x \in Nat
    BY <1>1
  <2>2. ~(NumMsgs - n < x)
    BY <1>2, <2>1 DEF OpToRel
  <2>3. n \in Int /\ m \in Int /\ NumMsgs \in Int
    BY NumMsgsAssumption DEF Msgs
  <2> QED
    BY <1>3, <2>2, <2>3
<1> QED
  BY <1>4

\* So a refreshed preview is the text of a message, or none.
LEMMA RefreshedIsTyped ==
    ASSUME NEW a, NEW where, NEW preview \in Msgs \cup {NoText}
    PROVE  Refreshed(a, where, preview) \in Msgs \cup {NoText}
<1>1. InChat(a, where) \in SUBSET Msgs
  BY DEF InChat
<1>2. CASE InChat(a, where) = {}
  BY <1>2 DEF Refreshed
<1>3. CASE InChat(a, where) # {}
  <2>1. \E m \in InChat(a, where) : \A n \in InChat(a, where) : n <= m
    BY <1>1, <1>3, NewestExists
  <2> QED
    BY <1>1, <1>3, <2>1 DEF Refreshed
<1> QED
  BY <1>2, <1>3

\* Writing a row of the right type.
LEMMA WriteIsTyped ==
    ASSUME TablesOK, NoGhostRow, NEW a \in Addrs, NEW row \in Row, Write(a, row)
    PROVE  TablesOK' /\ NoGhostRow' /\ rows' # {} /\ untouched' = {}
  BY DEF TablesOK, NoGhostRow, Write

\* Counting a message in a row and showing it as the preview.
LEMMA TouchedIsTyped ==
    ASSUME NEW row \in Row, NEW unread \in Nat, NEW m \in Msgs
    PROVE  [row EXCEPT !.unread = unread, !.preview = m] \in Row
<1> DEFINE counted == [row EXCEPT !.unread = unread]
<1>1. counted \in Row
  BY DEF Row
<1> HIDE DEF counted
<1>2. [counted EXCEPT !.preview = m] \in Row
  BY <1>1 DEF Row
<1>3. [row EXCEPT !.unread = unread, !.preview = m] = [counted EXCEPT !.preview = m]
  BY DEF counted
<1> QED
  BY <1>2, <1>3

LEMMA IdleIsTyped == Idle \in [pc : Pcs, msg : Msgs, addr : Addrs] /\ Idle.pc = "idle"
  BY NumMsgsAssumption DEF Idle, Pcs, Msgs, Addrs

LEMMA InitIInv == Init => IInv
<1> SUFFICES ASSUME Init PROVE IInv
  OBVIOUS
<1>1. TablesOK /\ NoGhostRow
  BY DEF Init, TablesOK, NoGhostRow, EmptyRow, Row
<1>2. ProcsOK /\ Anchored /\ known \in BOOLEAN
  BY IdleIsTyped DEF Init, ProcsOK, Anchored, Procs
<1>3. HomesOK /\ ContactListed /\ untouched \subseteq Msgs
  BY DEF Init, HomesOK, ContactListed, Stored
<1> QED
  BY <1>1, <1>2, <1>3 DEF IInv

-----------------------------------------------------------------------------
(* A statement that only moves a goroutine on leaves the tables alone.     *)

LEMMA MovesKeepIInv ==
    ASSUME IInv, NEW p \in Procs, NEW next \in [pc : Pcs, msg : Msgs, addr : Addrs],
           proc' = [proc EXCEPT ![p] = next],
           UNCHANGED <<known, rows, chat, home, untouched>>,
           p \in Rpcs /\ next.pc \in {"insert", "network", "touch"} => rows # {},
           ~At(Events, "touch") \/ p # Events
    PROVE  IInv'
<1>1. (TablesOK /\ HomesOK /\ NoGhostRow)'
  BY DEF IInv, TablesOK, HomesOK, NoGhostRow
<1>2. ProcsOK' /\ Anchored'
  BY DEF IInv, ProcsOK, Anchored, Procs
<1>3. ContactListed'
  BY DEF IInv, ContactListed, Stored, At, ProcsOK, Procs
<1> QED
  BY <1>1, <1>2, <1>3 DEF IInv

\* A statement that leaves a row of either address keeps what the rest needs.
LEMMA WritesKeepIInv ==
    ASSUME IInv, NEW p \in Procs, rows' # {}, TablesOK', NoGhostRow', HomesOK',
           UNCHANGED known, untouched' \subseteq Msgs, Stop(p)
    PROVE  IInv'
<1>1. ProcsOK'
  BY IdleIsTyped DEF IInv, ProcsOK, Stop
<1>2. Anchored' /\ ContactListed'
  BY DEF Anchored, ContactListed
<1> QED
  BY <1>1, <1>2 DEF IInv

-----------------------------------------------------------------------------
(* The handlers' steps keep the invariant.                                 *)

LEMMA EventKeepsIInv ==
    ASSUME IInv, NEW m \in Msgs, NEW a \in Addrs, LiveMessage(m, a) \/ RemoteDelete(m, a)
    PROVE  IInv'
<1>1. Events \in Procs /\ Events \notin Rpcs /\ Canonical(a) \in Addrs
  BY ProcsAssumption DEF Procs, Canonical, Addrs
<1>2. CASE LiveMessage(m, a)
  BY <1>1, <1>2, MovesKeepIInv DEF LiveMessage, Run, At, Pcs
<1>3. CASE RemoteDelete(m, a)
  BY <1>1, <1>3, MovesKeepIInv DEF RemoteDelete, Run, At, Pcs
<1> QED
  BY <1>2, <1>3

\* A message is stored either with a row at hand or just before the event
\* goroutine writes one.
LEMMA InsertKeepsIInv ==
    ASSUME IInv, NEW p \in Rpcs \cup {Events}, InsertMessage(p)
    PROVE  IInv'
<1> USE ProcsAssumption DEF IInv, InsertMessage, At, Goto, Procs
<1>1. (TablesOK /\ NoGhostRow)'
  BY DEF TablesOK, NoGhostRow
<1>2. HomesOK' /\ ProcsOK'
  BY DEF HomesOK, ProcsOK, Pcs
<1>3. Anchored'
  BY DEF Anchored, ProcsOK
<1>4. CASE rows # {}
  BY <1>1, <1>2, <1>3, <1>4 DEF ContactListed
<1>5. CASE rows = {}
  <2>1. p = Events /\ proc'[p].pc = "touch" /\ proc'[p].msg = proc[p].msg
    BY <1>5 DEF Anchored, ProcsOK
  <2>2. \A m \in Stored' \ untouched' : m = proc[p].msg \/ m \in Stored \ untouched
    BY DEF Stored, HomesOK
  <2>3. ContactListed'
    BY <1>5, <2>1, <2>2 DEF ContactListed
  <2> QED
    BY <1>1, <1>2, <1>3, <2>3
<1> QED
  BY <1>4, <1>5

LEMMA TouchKeepsIInv ==
    ASSUME IInv, NEW p \in Rpcs \cup {Events}, TouchChat(p)
    PROVE  IInv'
<1>1. p \in Procs /\ proc[p].addr \in Addrs
  BY DEF Procs, IInv, ProcsOK
<1> DEFINE counted == IF p = Events /\ proc[p].msg \notin Outgoing THEN 1 ELSE 0
           row == [chat[proc[p].addr] EXCEPT !.unread = @ + counted, !.preview = proc[p].msg]
<1>2. row \in Row
  <2>1. chat[proc[p].addr] \in Row /\ proc[p].msg \in Msgs /\ counted \in Nat
    BY <1>1 DEF IInv, TablesOK, ProcsOK
  <2>2. chat[proc[p].addr].unread + counted \in Nat
    BY <2>1 DEF Row
  <2> QED
    BY <2>1, <2>2, TouchedIsTyped
<1>3. TablesOK' /\ NoGhostRow' /\ rows' # {} /\ untouched' = {}
  <2>1. Write(proc[p].addr, row)
    BY DEF TouchChat
  <2> QED
    BY <1>1, <1>2, <2>1, WriteIsTyped DEF IInv
<1>4. HomesOK' /\ Stop(p) /\ UNCHANGED known
  BY DEF IInv, HomesOK, TouchChat
<1> QED
  BY <1>1, <1>3, <1>4, WritesKeepIInv

LEMMA DeleteKeepsIInv ==
    ASSUME IInv, NEW p \in Rpcs \cup {Events}, DeleteMessage(p)
    PROVE  IInv'
<1> USE ProcsAssumption, IdleIsTyped DEF IInv, DeleteMessage, At, Goto, Stop, Procs
<1>1. (TablesOK /\ NoGhostRow)'
  BY DEF TablesOK, NoGhostRow
<1>2. HomesOK' /\ ProcsOK'
  BY DEF HomesOK, ProcsOK, Pcs
<1>3. Anchored'
  BY DEF Anchored, ProcsOK
<1>4. ContactListed'
  BY DEF ContactListed, Stored, HomesOK, ProcsOK
<1> QED
  BY <1>1, <1>2, <1>3, <1>4

LEMMA RefreshKeepsIInv ==
    ASSUME IInv, NEW p \in Rpcs \cup {Events}, RefreshLastMessage(p)
    PROVE  IInv'
<1>1. p \in Procs /\ proc[p].addr \in Addrs /\ ~(p = Events /\ At(Events, "touch"))
  BY DEF Procs, IInv, ProcsOK, RefreshLastMessage, At
<1>2. CASE proc[p].addr \in rows
  <2> DEFINE a == proc[p].addr
             row == [chat[a] EXCEPT !.preview = Refreshed(a, home, @)]
  <2>1. TablesOK' /\ NoGhostRow' /\ rows' # {} /\ untouched' = {}
    <3>1. chat[a] \in Row
      BY <1>1 DEF IInv, TablesOK
    <3>2. Refreshed(a, home, chat[a].preview) \in Msgs \cup {NoText}
      BY <3>1, RefreshedIsTyped DEF Row
    <3>3. row \in Row
      BY <3>1, <3>2 DEF Row
    <3>4. Write(a, row)
      BY <1>2 DEF RefreshLastMessage
    <3> QED
      BY <1>1, <3>3, <3>4, WriteIsTyped DEF IInv
  <2>2. HomesOK' /\ Stop(p) /\ UNCHANGED known
    BY DEF IInv, HomesOK, RefreshLastMessage
  <2> QED
    BY <1>1, <2>1, <2>2, WritesKeepIInv
<1>3. CASE proc[p].addr \notin rows
  BY <1>1, <1>3, IdleIsTyped, MovesKeepIInv DEF RefreshLastMessage, Stop
<1> QED
  BY <1>2, <1>3

LEMMA FlagKeepsIInv ==
    ASSUME IInv, NEW p \in Rpcs \cup {Events}, NEW a \in Addrs, NEW flag \in Flags,
           NEW on \in BOOLEAN, SetChatFlags(p, a, flag, on)
    PROVE  IInv'
<1>1. TablesOK' /\ NoGhostRow' /\ rows' = rows /\ rows # {} /\ untouched' = {}
  BY DEF IInv, TablesOK, NoGhostRow, SetChatFlags, Write, Unpinned, Row
<1>2. known' \in BOOLEAN /\ (HomesOK /\ ProcsOK /\ Anchored /\ ContactListed)'
  BY <1>1 DEF IInv, HomesOK, ProcsOK, Anchored, ContactListed, SetChatFlags
<1> QED
  BY <1>1, <1>2 DEF IInv

LEMMA RpcKeepsIInv ==
    ASSUME IInv, NEW p \in Rpcs, RpcNext(p)
    PROVE  IInv'
<1>1. p \in Procs /\ p # Events
  BY ProcsAssumption DEF Procs
<1>2. ASSUME NEW a \in Addrs, GetMessages(p, a) \/ StartChat(p, a) PROVE IInv'
  <2>1. Canonical(a) \in Addrs /\ 1 \in Msgs
    BY NumMsgsAssumption DEF Canonical, Addrs, Msgs
  <2> QED
    BY <1>1, <1>2, <2>1, MovesKeepIInv DEF GetMessages, StartChat, Run, Pcs
<1>3. ASSUME NEW m \in Msgs, LocalDelete(p, m) PROVE IInv'
  <2>1. home[m] \in Addrs
    BY <1>3 DEF LocalDelete, IInv, HomesOK
  <2> QED
    BY <1>1, <1>3, <2>1, MovesKeepIInv DEF LocalDelete, Run, Pcs
<1>4. ASSUME NEW m \in Msgs, NEW a \in Addrs, SendText(p, m, a) PROVE IInv'
  BY <1>1, <1>4, MovesKeepIInv DEF SendText, Run, Pcs
<1>5. CASE SendReturns(p)
  <2>1. rows # {} /\ proc[p] \in [pc : Pcs, msg : Msgs, addr : Addrs]
    BY <1>1, <1>5 DEF SendReturns, At, IInv, Anchored, ProcsOK
  <2>2. CASE Stop(p)
    BY <1>1, <1>5, <2>2, IdleIsTyped, MovesKeepIInv DEF SendReturns, Stop
  <2>3. CASE Goto(p, "touch")
    <3>1. [proc[p] EXCEPT !.pc = "touch"] \in [pc : Pcs, msg : Msgs, addr : Addrs]
      BY <2>1 DEF Pcs
    <3>2. proc' = [proc EXCEPT ![p] = [proc[p] EXCEPT !.pc = "touch"]]
      BY <2>3 DEF Goto
    <3> QED
      BY <1>1, <1>5, <2>1, <3>1, <3>2, MovesKeepIInv DEF SendReturns
  <2> QED
    BY <1>5, <2>2, <2>3 DEF SendReturns
<1>6. CASE UpsertChat(p)
  <2>1. proc[p].addr \in Addrs
    BY <1>1 DEF IInv, ProcsOK
  <2>2. TablesOK' /\ NoGhostRow' /\ rows' # {} /\ untouched' = {}
    BY <1>6, <2>1 DEF IInv, TablesOK, NoGhostRow, UpsertChat, Write, EmptyRow, Row
  <2>3. HomesOK' /\ Stop(p) /\ UNCHANGED known
    BY <1>6 DEF IInv, HomesOK, UpsertChat
  <2> QED
    BY <1>1, <2>2, <2>3, WritesKeepIInv
<1>7. CASE ClearUnread(p)
  <2>1. proc[p].addr \in Addrs
    BY <1>1 DEF IInv, ProcsOK
  <2>2. CASE proc[p].addr \in rows
    <3>1. TablesOK' /\ NoGhostRow' /\ rows' # {} /\ untouched' = {}
      <4> DEFINE row == [chat[proc[p].addr] EXCEPT !.unread = 0]
      <4>1. row \in Row
        BY <2>1 DEF IInv, TablesOK, Row
      <4>2. Write(proc[p].addr, row)
        BY <1>7, <2>2 DEF ClearUnread
      <4> QED
        BY <2>1, <4>1, <4>2, WriteIsTyped DEF IInv
    <3>2. HomesOK' /\ Stop(p) /\ UNCHANGED known
      BY <1>7 DEF IInv, HomesOK, ClearUnread
    <3> QED
      BY <1>1, <3>1, <3>2, WritesKeepIInv
  <2>3. CASE proc[p].addr \notin rows
    BY <1>1, <1>7, <2>3, IdleIsTyped, MovesKeepIInv DEF ClearUnread, Stop
  <2> QED
    BY <2>2, <2>3
<1> QED
  BY <1>2, <1>3, <1>4, <1>5, <1>6, <1>7 DEF RpcNext

\* The history worker writes a row for the conversation it took.
LEMMA HistoryKeepsIInv ==
    ASSUME IInv, HistoryNext
    PROVE  IInv'
<1>1. History \in Procs /\ History \notin Rpcs /\ History # Events
  BY ProcsAssumption DEF Procs
<1>2. ASSUME NEW a \in Addrs, TakeConversation(a) PROVE IInv'
  <2>1. Canonical(a) \in Addrs /\ 1 \in Msgs
    BY NumMsgsAssumption DEF Canonical, Addrs, Msgs
  <2> QED
    BY <1>1, <1>2, <2>1, MovesKeepIInv DEF TakeConversation, Run, Pcs
<1>3. ASSUME NEW a \in Addrs, NEW batch \in SUBSET Msgs, NEW unread \in 0..1,
             NEW flags \in SUBSET Flags, SyncConversation(a, batch, unread, flags)
      PROVE  IInv'
  <2> DEFINE c == proc[History].addr
             row == [unread |-> unread, flags |-> flags,
                     preview |-> Refreshed(c, home', chat[c].preview)]
  <2>1. c \in Addrs
    BY <1>1 DEF IInv, ProcsOK
  <2>2. row \in Row
    <3>1. chat[c].preview \in Msgs \cup {NoText}
      BY <2>1 DEF IInv, TablesOK, Row
    <3>2. Refreshed(c, home', chat[c].preview) \in Msgs \cup {NoText}
      BY <3>1, RefreshedIsTyped
    <3> QED
      BY <3>2 DEF Row
  <2>3. TablesOK' /\ NoGhostRow' /\ rows' # {} /\ untouched' = {}
    <3>1. Write(c, row)
      BY <1>3 DEF SyncConversation
    <3> QED
      BY <2>1, <2>2, <3>1, WriteIsTyped DEF IInv
  <2>4. HomesOK' /\ Stop(History) /\ UNCHANGED known
    BY <1>3 DEF IInv, HomesOK, SyncConversation
  <2> QED
    BY <1>1, <2>3, <2>4, WritesKeepIInv
<1> QED
  BY <1>2, <1>3 DEF HistoryNext

\* Two rows of the right type fold into one.
LEMMA FoldedIsTyped ==
    ASSUME NEW from \in Row, NEW to \in Row
    PROVE  Folded(from, to) \in Row
  BY DEF Folded, Row

\* A merge leaves the row of the phone number.
LEMMA PassKeepsIInv ==
    ASSUME IInv, NEW p \in Passes, PassNext(p)
    PROVE  IInv'
<1>1. p \in Procs /\ p \notin Rpcs /\ p # Events
  BY ProcsAssumption DEF Procs
<1>2. CASE ScanLIDChats(p)
  <2>1. 1 \in Msgs /\ "lid" \in Addrs
    BY NumMsgsAssumption DEF Addrs, Msgs
  <2> QED
    BY <1>1, <1>2, <2>1, MovesKeepIInv DEF ScanLIDChats, Run, Pcs
<1>3. CASE MergeChat(p) /\ ~known
  BY <1>1, <1>3, IdleIsTyped, MovesKeepIInv DEF MergeChat, Stop
<1>4. CASE MergeChat(p) /\ known
  <2>1. HomesOK' /\ Stop(p) /\ UNCHANGED known
    BY <1>4 DEF IInv, HomesOK, MergeChat, Addrs
  <2>2. CASE "lid" \in rows
    <3>1. chat["lid"] \in Row /\ chat["pn"] \in Row /\ EmptyRow \in Row
      BY DEF IInv, TablesOK, Addrs, EmptyRow, Row
    <3>2. Folded(chat["lid"], chat["pn"]) \in Row
      BY <3>1, FoldedIsTyped
    <3>3. TablesOK' /\ NoGhostRow' /\ rows' # {} /\ untouched' \subseteq Msgs
      BY <1>4, <2>2, <3>1, <3>2 DEF IInv, MergeChat, TablesOK, NoGhostRow, Addrs
    <3> QED
      BY <1>1, <2>1, <3>3, WritesKeepIInv
  <2>3. CASE "lid" \notin rows
    <3>1. UNCHANGED <<rows, chat>>
      BY <1>4, <2>3 DEF MergeChat
    <3>2. ProcsOK' /\ Anchored' /\ TablesOK' /\ NoGhostRow'
      BY <1>1, <2>1, <3>1, IdleIsTyped
         DEF IInv, ProcsOK, Anchored, TablesOK, NoGhostRow, Stop, Procs
    <3>3. Stored' = Stored /\ untouched' = untouched
      BY <1>4 DEF IInv, HomesOK, MergeChat, Stored, Addrs
    <3>4. ContactListed'
      BY <1>1, <2>1, <3>1, <3>3 DEF IInv, ContactListed, At, Stop, ProcsOK, Procs
    <3> QED
      BY <2>1, <3>2, <3>3, <3>4 DEF IInv
  <2> QED
    BY <2>2, <2>3
<1> QED
  BY <1>2, <1>3, <1>4 DEF PassNext

\* A handler that is cut short leaves the message it stored, if the contact has
\* no row, among the untouched ones.
LEMMA CutKeepsIInv ==
    ASSUME IInv, NEW cut \in SUBSET Procs, \A p \in Procs \ cut : proc'[p] = proc[p],
           \A p \in cut : proc'[p] = Idle, proc' \in [Procs -> [pc : Pcs, msg : Msgs, addr : Addrs]],
           untouched' = untouched \cup LeftBy(cut), UNCHANGED <<known, rows, chat, home>>
    PROVE  IInv'
<1>1. (TablesOK /\ HomesOK /\ NoGhostRow /\ ProcsOK)'
  BY DEF IInv, TablesOK, HomesOK, NoGhostRow, ProcsOK
<1>2. Anchored'
  BY IdleIsTyped DEF IInv, Anchored, Procs
<1>3. untouched' \subseteq Msgs
  BY DEF IInv, ProcsOK, LeftBy
<1>4. ContactListed'
  <2>1. CASE rows # {}
    BY <2>1 DEF ContactListed
  <2>2. CASE rows = {}
    <3> SUFFICES ASSUME NEW m \in Stored \ untouched'
                 PROVE  At(Events, "touch")' /\ proc'[Events].msg = m
      BY DEF ContactListed, Stored
    <3>1. At(Events, "touch") /\ proc[Events].msg = m /\ Events \in Procs
      BY <2>2 DEF IInv, ContactListed, Procs
    <3>2. Events \notin cut
      BY <2>2, <3>1 DEF LeftBy
    <3> QED
      BY <3>1, <3>2 DEF At
  <2> QED
    BY <2>1, <2>2
<1> QED
  BY <1>1, <1>2, <1>3, <1>4 DEF IInv

LEMMA FailureKeepsIInv ==
    ASSUME IInv, Crash \/ \E p \in Procs : StatementFails(p)
    PROVE  IInv'
<1>1. CASE Crash
  BY <1>1, CutKeepsIInv, IdleIsTyped DEF Crash
<1>2. ASSUME NEW p \in Procs, StatementFails(p) PROVE IInv'
  <2>1. proc' \in [Procs -> [pc : Pcs, msg : Msgs, addr : Addrs]] /\ proc'[p] = Idle
        /\ \A q \in Procs \ {p} : proc'[q] = proc[q]
    BY <1>2, IdleIsTyped DEF StatementFails, Stop, IInv, ProcsOK
  <2>2. {p} \in SUBSET Procs
    OBVIOUS
  <2> QED
    BY <1>2, <2>1, <2>2, CutKeepsIInv DEF StatementFails
<1> QED
  BY <1>1, <1>2

LEMMA StepKeepsIInv == IInv /\ [Next]_vars => IInv'
<1> SUFFICES ASSUME IInv, [Next]_vars PROVE IInv'
  OBVIOUS
<1>1. CASE Learn
  BY <1>1 DEF Learn, IInv, TablesOK, ProcsOK, HomesOK, NoGhostRow, Anchored,
              ContactListed, Stored, At
<1>2. CASE EventNext
  BY <1>2, EventKeepsIInv DEF EventNext
<1>3. CASE HistoryNext
  BY <1>3, HistoryKeepsIInv
<1>4. CASE FlagNext
  BY <1>4, FlagKeepsIInv DEF FlagNext
<1>5. ASSUME NEW p \in Passes, PassNext(p) PROVE IInv'
  BY <1>5, PassKeepsIInv
<1>6. ASSUME NEW p \in Rpcs, RpcNext(p) PROVE IInv'
  BY <1>6, RpcKeepsIInv
<1>7. ASSUME NEW p \in Rpcs \cup {Events}, StatementNext(p) PROVE IInv'
  BY <1>7, InsertKeepsIInv, TouchKeepsIInv, DeleteKeepsIInv, RefreshKeepsIInv
     DEF StatementNext
<1>8. CASE UNCHANGED vars
  BY <1>8 DEF vars, IInv, TablesOK, ProcsOK, HomesOK, NoGhostRow, Anchored,
              ContactListed, Stored, At
<1>9. CASE Crash \/ \E p \in Procs : StatementFails(p)
  BY <1>9, FailureKeepsIInv
<1> QED
  BY <1>1, <1>2, <1>3, <1>4, <1>5, <1>6, <1>7, <1>8, <1>9 DEF Next

LEMMA IInvHolds == Spec => []IInv
  BY InitIInv, StepKeepsIInv, PTL DEF Spec

\* The type invariant of the tables and of the goroutines (TypeOK).
THEOREM TypeCorrectness == Spec => []TypeOK
<1>1. IInv => TypeOK
  BY DEF IInv, TablesOK, ProcsOK, HomesOK, TypeOK
<1> QED
  BY <1>1, IInvHolds, PTL

\* No interleaving of merges, deletions, sends, failing statements and crashes
\* drops a conversation out of the chat list: only a message whose handler was
\* cut short before TouchChat may be stored without a row (ContactListed).
THEOREM ConversationsStayListed == Spec => []ContactListed
<1>1. IInv => ContactListed
  BY DEF IInv
<1> QED
  BY <1>1, IInvHolds, PTL

-----------------------------------------------------------------------------
(* The two rows, seen as one contact, take the steps of module Contact.    *)

Unread(rs) == rs["pn"].unread + rs["lid"].unread
FlagsOf(rs) == (rs["pn"].flags \cup rs["lid"].flags) \ {"muted"}

Doing == [p \in Procs |-> Job[proc[p].pc]]

\* What is seen of the two tables.
TableVars == <<Stored, rows # {}, Unread(chat), FlagsOf(chat)>>

LEMMA MovesAreInvisible ==
    ASSUME UNCHANGED <<rows, chat, home>>
    PROVE  UNCHANGED TableVars
  BY DEF TableVars, Stored, Unread, FlagsOf

\* A step of one goroutine moves no other one.
OthersStay(p) == \A q \in Procs \ {p} : proc'[q] = proc[q]

LEMMA GoroutineMoves ==
    ASSUME IInv, NEW p \in Procs
    PROVE  /\ \A step : Goto(p, step) => OthersStay(p)
           /\ Stop(p) => OthersStay(p)
           /\ \A step, m, a : Run(p, step, m, a) => OthersStay(p)
  BY DEF IInv, ProcsOK, Goto, Stop, Run, OthersStay

\* So it takes a turn of module Contact.
LEMMA TurnIsTaken ==
    ASSUME IInv, IInv', NEW p \in Procs, OthersStay(p)
    PROVE  AsContact!Turn(p)
<1>1. proc'[p].pc \in Pcs
  BY DEF IInv, ProcsOK
<1>2. Job[proc'[p].pc] \in AsContact!Jobs
  BY <1>1 DEF Job, AsContact!Jobs
<1>3. Doing'[p] = Job[proc'[p].pc]
  BY DEF Doing
<1>4. \A q \in Procs : q # p => Doing'[q] = Doing[q]
  BY DEF Doing, OthersStay
<1>5. DOMAIN Doing = Procs /\ DOMAIN Doing' = Procs
  BY DEF Doing
<1>6. Doing = [q \in Procs |-> Doing[q]] /\ Doing' = [q \in Procs |-> Doing'[q]]
  BY DEF Doing
<1>7. Doing' = [Doing EXCEPT ![p] = Doing'[p]]
  BY <1>4, <1>5, <1>6
<1> QED
  BY <1>2, <1>3, <1>7 DEF AsContact!Turn, Doing

\* What the writing of one row does to the contact's counter and flags.
LEMMA WriteIsSeen ==
    ASSUME IInv, NEW a \in Addrs, NEW row \in Row, Write(a, row)
    PROVE  /\ rows' # {}
           /\ Unread(chat) \in Nat /\ Unread(chat') \in Nat
           /\ Unread(chat') = Unread(chat) + (row.unread - chat[a].unread)
           /\ row.flags = chat[a].flags => FlagsOf(chat') = FlagsOf(chat)
           /\ row.flags = {} => FlagsOf(chat') \subseteq FlagsOf(chat)
<1>1. chat["pn"] \in Row /\ chat["lid"] \in Row /\ a \in {"pn", "lid"} /\ rows' # {}
  BY DEF IInv, TablesOK, Addrs, Write
<1>2. \A b \in Addrs : chat'[b] = IF b = a THEN row ELSE chat[b]
  BY DEF IInv, TablesOK, Write
<1>3. chat'["pn"] = (IF a = "pn" THEN row ELSE chat["pn"])
      /\ chat'["lid"] = (IF a = "lid" THEN row ELSE chat["lid"])
  BY <1>2 DEF Addrs
<1>4. chat["pn"].unread \in Nat /\ chat["lid"].unread \in Nat /\ row.unread \in Nat
  BY <1>1 DEF Row
<1>5. CASE a = "pn"
  BY <1>1, <1>3, <1>4, <1>5 DEF Unread, FlagsOf
<1>6. CASE a = "lid"
  BY <1>1, <1>3, <1>4, <1>6 DEF Unread, FlagsOf
<1> QED
  BY <1>1, <1>5, <1>6

\* A goroutine that leaves what is seen alone takes a Move.
LEMMA MoveImplements ==
    ASSUME IInv, IInv', NEW p \in Procs, OthersStay(p), UNCHANGED TableVars
    PROVE  AsContact!Next
<1>1. AsContact!Turn(p)
  BY TurnIsTaken
<1>2. AsContact!Move
  BY DEF TableVars, Unread, FlagsOf, AsContact!Move
<1> QED
  BY <1>1, <1>2 DEF AsContact!Next, AsContact!Act

LEMMA RefinesInit == Init => AsContact!Init
<1> SUFFICES ASSUME Init PROVE AsContact!Init
  OBVIOUS
<1>1. Stored = {} /\ rows = {}
  BY DEF Init, Stored
<1>2. \A a \in Addrs : chat[a].unread = 0 /\ chat[a].flags = {}
  BY DEF Init, EmptyRow
<1>3. /\ chat["pn"].unread + chat["lid"].unread = 0
      /\ (chat["pn"].flags \cup chat["lid"].flags) \ {"muted"} = {}
  BY <1>2 DEF Addrs
<1>4. [p \in Procs |-> Job[proc[p].pc]] = [p \in Procs |-> "nothing"]
  BY DEF Init, Idle, Job, Pcs
<1> QED
  BY <1>1, <1>3, <1>4 DEF AsContact!Init

LEMMA Jobs ==
    /\ Job["insert"] = "store" /\ Job["touch"] = "bump" /\ Job["delete"] = "remove"
    /\ Job["sync"] = "snapshot" /\ Job["clear"] = "open" /\ Job["create"] = "start"
  BY DEF Job, Pcs

\* A handler at a step is seen doing its job, and takes a turn with it.
LEMMA HandlerTurns ==
    ASSUME IInv, IInv', NEW p \in Procs, NEW step \in Pcs, At(p, step), OthersStay(p)
    PROVE  AsContact!Turn(p) /\ [q \in Procs |-> Job[proc[q].pc]][p] = Job[step]
  BY TurnIsTaken DEF At

LEMMA InsertImplements ==
    ASSUME IInv, IInv', NEW p \in Rpcs \cup {Events}, InsertMessage(p)
    PROVE  AsContact!Next
<1>1. proc[p].msg \in Msgs /\ proc[p].addr \in Addrs
  BY DEF IInv, ProcsOK, Procs
<1>2. Stored' = Stored \cup {proc[p].msg}
  BY <1>1 DEF InsertMessage, Stored, IInv, HomesOK, Addrs
<1>3. p \in Procs /\ At(p, "insert") /\ OthersStay(p)
  BY GoroutineMoves DEF InsertMessage, Procs
<1>4. AsContact!Turn(p) /\ [q \in Procs |-> Job[proc[q].pc]][p] = "store"
  BY <1>3, HandlerTurns, Jobs DEF Pcs
<1>5. AsContact!Store(p, proc[p].msg)
  BY <1>2, <1>4 DEF InsertMessage, AsContact!Store
<1> QED
  BY <1>1, <1>3, <1>4, <1>5 DEF AsContact!Next, AsContact!Act

LEMMA DeleteImplements ==
    ASSUME IInv, IInv', NEW p \in Rpcs \cup {Events}, DeleteMessage(p)
    PROVE  AsContact!Next
<1>1. proc[p].msg \in Msgs
  BY DEF IInv, ProcsOK, Procs
<1>2. Stored' = Stored \ {proc[p].msg}
  BY <1>1 DEF DeleteMessage, Stored, IInv, HomesOK
<1>3. p \in Procs /\ At(p, "delete") /\ OthersStay(p)
  BY GoroutineMoves DEF DeleteMessage, Procs
<1>4. AsContact!Turn(p) /\ [q \in Procs |-> Job[proc[q].pc]][p] = "remove"
  BY <1>3, HandlerTurns, Jobs DEF Pcs
<1>5. AsContact!Remove(p, proc[p].msg)
  BY <1>2, <1>4 DEF DeleteMessage, AsContact!Remove
<1> QED
  BY <1>1, <1>3, <1>4, <1>5 DEF AsContact!Next, AsContact!Act

LEMMA TouchImplements ==
    ASSUME IInv, IInv', NEW p \in Rpcs \cup {Events}, TouchChat(p)
    PROVE  AsContact!Next
<1> DEFINE a == proc[p].addr
           counted == IF p = Events /\ proc[p].msg \notin Outgoing THEN 1 ELSE 0
           row == [chat[a] EXCEPT !.unread = @ + counted, !.preview = proc[p].msg]
<1>1. a \in Addrs /\ proc[p].msg \in Msgs /\ counted \in {0, 1} /\ chat[a] \in Row
  BY DEF IInv, ProcsOK, Procs, TablesOK
<1>2. row \in Row /\ row.unread = chat[a].unread + counted /\ row.flags = chat[a].flags
  <2>1. chat[a].unread \in Nat /\ chat[a].unread + counted \in Nat
    BY <1>1 DEF Row
  <2>2. row \in Row
    BY <1>1, <2>1, TouchedIsTyped
  <2>3. row.unread = chat[a].unread + counted /\ row.flags = chat[a].flags
    BY <1>1 DEF Row
  <2> QED
    BY <2>2, <2>3
<1>3. Write(a, row)
  BY DEF TouchChat
<1> HIDE DEF counted, row
<1>4. /\ rows' # {} /\ Unread(chat') = Unread(chat) + counted
      /\ FlagsOf(chat') = FlagsOf(chat)
  <2>1. Unread(chat') = Unread(chat) + (row.unread - chat[a].unread)
    BY <1>1, <1>2, <1>3, WriteIsSeen
  <2>2. row.unread - chat[a].unread = counted
    BY <1>1, <1>2 DEF Row
  <2> QED
    BY <1>1, <1>2, <1>3, <2>1, <2>2, WriteIsSeen
<1>5. Stored' = Stored
  BY DEF TouchChat, Stored
<1>6. p \in Procs /\ At(p, "touch") /\ OthersStay(p)
  BY GoroutineMoves DEF TouchChat, Procs
<1>7. AsContact!Turn(p) /\ [q \in Procs |-> Job[proc[q].pc]][p] = "bump"
  BY <1>6, HandlerTurns, Jobs DEF Pcs
<1>8. AsContact!Bump(p, counted)
  BY <1>4, <1>5, <1>7 DEF AsContact!Bump, Unread, FlagsOf
<1> QED
  BY <1>1, <1>6, <1>7, <1>8 DEF AsContact!Next, AsContact!Act

LEMMA RefreshImplements ==
    ASSUME IInv, IInv', NEW p \in Rpcs \cup {Events}, RefreshLastMessage(p)
    PROVE  AsContact!Next
<1>0. p \in Procs /\ OthersStay(p)
  BY GoroutineMoves DEF RefreshLastMessage, Procs
<1> DEFINE a == proc[p].addr
           row == [chat[a] EXCEPT !.preview = Refreshed(a, home, @)]
<1>1. a \in Addrs /\ chat[a] \in Row /\ Stored' = Stored
  BY DEF IInv, ProcsOK, Procs, TablesOK, RefreshLastMessage, Stored
<1>2. CASE a \in rows
  <2>1. Refreshed(a, home, chat[a].preview) \in Msgs \cup {NoText}
    BY <1>1, RefreshedIsTyped DEF Row
  <2>2. row \in Row /\ row.unread = chat[a].unread /\ row.flags = chat[a].flags
    BY <1>1, <2>1 DEF Row
  <2>3. Write(a, row)
    BY <1>2 DEF RefreshLastMessage
  <2>4. row.unread - chat[a].unread = 0
    BY <1>1, <2>2 DEF Row
  <2> HIDE DEF row
  <2>5. /\ rows' # {} /\ FlagsOf(chat') = FlagsOf(chat)
        /\ Unread(chat') = Unread(chat) + (row.unread - chat[a].unread)
        /\ Unread(chat) \in Nat
    BY <1>1, <2>2, <2>3, WriteIsSeen
  <2>6. UNCHANGED TableVars
    BY <1>1, <1>2, <2>4, <2>5 DEF TableVars
  <2> QED
    BY <1>0, <2>6, MoveImplements
<1>3. CASE a \notin rows
  BY <1>0, <1>3, MovesAreInvisible, MoveImplements DEF RefreshLastMessage
<1> QED
  BY <1>2, <1>3

LEMMA FlagImplements ==
    ASSUME IInv, NEW p \in Rpcs \cup {Events}, NEW a \in Addrs, NEW flag \in Flags,
           NEW on \in BOOLEAN, SetChatFlags(p, a, flag, on)
    PROVE  AsContact!Next
<1>1. PICK flags \in SUBSET Flags : Write(a, [chat[a] EXCEPT !.flags = flags])
  BY DEF SetChatFlags, Unpinned, IInv, TablesOK, Row
<1> DEFINE row == [chat[a] EXCEPT !.flags = flags]
<1>2. chat[a] \in Row /\ Stored' = Stored /\ rows' # {} /\ rows # {}
  BY DEF IInv, TablesOK, SetChatFlags, Stored, Write
<1>3. row \in Row /\ row.unread - chat[a].unread = 0
  BY <1>2 DEF Row
<1> HIDE DEF row
<1>4. Unread(chat') = Unread(chat) + (row.unread - chat[a].unread) /\ Unread(chat) \in Nat
  BY <1>1, <1>3, WriteIsSeen DEF row
<1>5. AsContact!Flag
  BY <1>2, <1>3, <1>4 DEF AsContact!Flag, Unread, SetChatFlags
<1> QED
  BY <1>5 DEF AsContact!Next

LEMMA SyncImplements ==
    ASSUME IInv, NEW a \in Addrs, NEW batch \in SUBSET Msgs, NEW unread \in 0..1,
           NEW flags \in SUBSET Flags, SyncConversation(a, batch, unread, flags)
    PROVE  AsContact!Next
<1>1. Stored \subseteq Stored'
  BY DEF SyncConversation, Stored, Addrs
<1>2. IInv'
  BY HistoryKeepsIInv DEF HistoryNext
<1>3. Unread(chat') \in Nat
  BY <1>2 DEF IInv, TablesOK, Addrs, Row, Unread
<1>4. rows' # {}
  BY DEF SyncConversation, Write
<1>5. History \in Procs /\ At(History, "sync") /\ OthersStay(History)
  BY GoroutineMoves DEF SyncConversation, Procs
<1>6. AsContact!Turn(History) /\ [q \in Procs |-> Job[proc[q].pc]][History] = "snapshot"
  BY <1>2, <1>5, HandlerTurns, Jobs DEF Pcs
<1>7. AsContact!Snapshot(History)
  BY <1>1, <1>3, <1>4, <1>6 DEF AsContact!Snapshot, Unread
<1> QED
  BY <1>5, <1>6, <1>7 DEF AsContact!Next, AsContact!Act

\* Nothing is lost when one row is folded into the other, or moved.
LEMMA MergeImplements ==
    ASSUME IInv, IInv', NEW p \in Passes, MergeChat(p)
    PROVE  AsContact!Next
<1>0. p \in Procs /\ OthersStay(p)
  BY GoroutineMoves DEF MergeChat, Procs
<1>1. CASE ~known
  BY <1>0, <1>1, MovesAreInvisible, MoveImplements DEF MergeChat
<1>2. CASE known
  <2>1. Stored' = Stored
    BY <1>2 DEF IInv, HomesOK, MergeChat, Stored, Addrs
  <2>2. UNCHANGED TableVars
    <3>1. CASE "lid" \notin rows
      BY <1>2, <2>1, <3>1 DEF MergeChat, TableVars, Unread, FlagsOf
    <3>2. CASE "lid" \in rows
      <4>1. rows' # {} /\ rows # {}
        BY <1>2, <3>2 DEF MergeChat
      <4>2. chat'["lid"] = EmptyRow /\ chat'["pn"] = Folded(chat["lid"], chat["pn"])
        BY <1>2, <3>2 DEF MergeChat, Addrs
      <4>3. chat["pn"] \in Row /\ chat["lid"] \in Row
            /\ ("pn" \notin rows => chat["pn"] = EmptyRow)
        BY DEF IInv, TablesOK, NoGhostRow, Addrs
      <4>4. chat["pn"].unread \in Nat /\ chat["lid"].unread \in Nat
        BY <4>3 DEF Row
      <4>5. EmptyRow.unread = 0 /\ EmptyRow.flags = {}
        BY DEF EmptyRow
      <4>6. CASE "pn" \in rows
        BY <2>1, <4>1, <4>2, <4>4, <4>5, <4>6 DEF Folded, TableVars, Unread, FlagsOf
      <4>7. CASE "pn" \notin rows
        BY <2>1, <4>1, <4>2, <4>3, <4>4, <4>5, <4>7
           DEF Folded, TableVars, Unread, FlagsOf
      <4> QED
        BY <4>6, <4>7
    <3> QED
      BY <3>1, <3>2
  <2> QED
    BY <1>0, <2>2, MoveImplements
<1> QED
  BY <1>1, <1>2 DEF MergeChat

LEMMA ClearImplements ==
    ASSUME IInv, IInv', NEW p \in Rpcs, ClearUnread(p)
    PROVE  AsContact!Next
<1>0. p \in Procs /\ At(p, "clear") /\ OthersStay(p)
  BY GoroutineMoves DEF ClearUnread, Procs
<1> DEFINE a == proc[p].addr
           row == [chat[a] EXCEPT !.unread = 0]
<1>1. a \in Addrs /\ chat[a] \in Row /\ Stored' = Stored
  BY DEF IInv, ProcsOK, Procs, TablesOK, ClearUnread, Stored
<1>2. CASE a \in rows
  <2>1. row \in Row /\ row.unread = 0 /\ row.flags = chat[a].flags /\ Write(a, row)
    BY <1>1, <1>2 DEF Row, ClearUnread
  <2> HIDE DEF row
  <2>2. /\ rows' # {} /\ FlagsOf(chat') = FlagsOf(chat)
        /\ Unread(chat) \in Nat /\ Unread(chat') \in Nat
        /\ Unread(chat') = Unread(chat) + (row.unread - chat[a].unread)
    BY <1>1, <2>1, WriteIsSeen
  <2>3. chat[a].unread \in Nat
    BY <1>1 DEF Row
  <2>4. Unread(chat') \in 0..Unread(chat)
    BY <2>1, <2>2, <2>3
  <2>5. AsContact!Turn(p) /\ [q \in Procs |-> Job[proc[q].pc]][p] = "open"
    BY <1>0, HandlerTurns, Jobs DEF Pcs
  <2>6. AsContact!Open(p)
    BY <1>1, <1>2, <2>2, <2>4, <2>5 DEF AsContact!Open, Unread, FlagsOf
  <2> QED
    BY <1>0, <2>5, <2>6 DEF AsContact!Next, AsContact!Act
<1>3. CASE a \notin rows
  BY <1>0, <1>3, MovesAreInvisible, MoveImplements DEF ClearUnread
<1> QED
  BY <1>2, <1>3

LEMMA UpsertImplements ==
    ASSUME IInv, IInv', NEW p \in Rpcs, UpsertChat(p)
    PROVE  AsContact!Next
<1> DEFINE a == proc[p].addr
           row == [EmptyRow EXCEPT !.preview = chat[a].preview]
<1>1. a \in Addrs /\ chat[a] \in Row /\ Stored' = Stored /\ Write(a, row)
  BY DEF IInv, ProcsOK, Procs, TablesOK, UpsertChat, Stored
<1>2. row \in Row /\ row.unread = 0 /\ row.flags = {} /\ chat[a].unread \in Nat
  BY <1>1 DEF EmptyRow, Row
<1> HIDE DEF row
<1>3. /\ rows' # {} /\ FlagsOf(chat') \subseteq FlagsOf(chat)
      /\ Unread(chat) \in Nat /\ Unread(chat') \in Nat
      /\ Unread(chat') = Unread(chat) + (row.unread - chat[a].unread)
  BY <1>1, <1>2, WriteIsSeen
<1>4. Unread(chat') \in 0..Unread(chat)
  BY <1>2, <1>3
<1>5. p \in Procs /\ At(p, "create") /\ OthersStay(p)
  BY GoroutineMoves DEF UpsertChat, Procs
<1>6. AsContact!Turn(p) /\ [q \in Procs |-> Job[proc[q].pc]][p] = "start"
  BY <1>5, HandlerTurns, Jobs DEF Pcs
<1>7. AsContact!Start(p)
  BY <1>1, <1>3, <1>4, <1>6 DEF AsContact!Start, Unread, FlagsOf
<1> QED
  BY <1>5, <1>6, <1>7 DEF AsContact!Next, AsContact!Act

LEMMA StepRefines == IInv /\ IInv' /\ [Next]_vars => [AsContact!Next]_AsContact!vars
<1> SUFFICES ASSUME IInv, IInv', [Next]_vars PROVE [AsContact!Next]_AsContact!vars
  OBVIOUS
<1>1. CASE Learn \/ UNCHANGED vars
  <2>1. UNCHANGED <<rows, chat, home, proc>>
    BY <1>1 DEF Learn, vars
  <2> QED
    BY <2>1 DEF AsContact!vars, Stored
<1>2. CASE EventNext
  <2>1. Events \in Procs /\ OthersStay(Events) /\ UNCHANGED <<rows, chat, home>>
    BY <1>2, GoroutineMoves DEF EventNext, LiveMessage, RemoteDelete, Procs
  <2> QED
    BY <2>1, MovesAreInvisible, MoveImplements
<1>3. CASE HistoryNext
  <2>1. ASSUME NEW a \in Addrs, TakeConversation(a) PROVE AsContact!Next
    <3>1. History \in Procs /\ OthersStay(History) /\ UNCHANGED <<rows, chat, home>>
      BY <2>1, GoroutineMoves DEF TakeConversation, Procs
    <3> QED
      BY <3>1, MovesAreInvisible, MoveImplements
  <2> QED
    BY <1>3, <2>1, SyncImplements DEF HistoryNext
<1>4. CASE FlagNext
  BY <1>4, FlagImplements DEF FlagNext
<1>5. ASSUME NEW p \in Passes, PassNext(p) PROVE AsContact!Next
  <2>1. CASE ScanLIDChats(p)
    <3>1. p \in Procs /\ OthersStay(p) /\ UNCHANGED <<rows, chat, home>>
      BY <2>1, GoroutineMoves DEF ScanLIDChats, Procs
    <3> QED
      BY <3>1, MovesAreInvisible, MoveImplements
  <2> QED
    BY <1>5, <2>1, MergeImplements DEF PassNext
<1>6. ASSUME NEW p \in Rpcs, RpcNext(p) PROVE AsContact!Next
  <2>1. CASE ClearUnread(p)
    BY <2>1, ClearImplements
  <2>2. CASE UpsertChat(p)
    BY <2>2, UpsertImplements
  <2>3. CASE ~ClearUnread(p) /\ ~UpsertChat(p)
    <3>1. p \in Procs /\ OthersStay(p) /\ UNCHANGED <<rows, chat, home>>
      BY <1>6, <2>3, GoroutineMoves
         DEF RpcNext, GetMessages, StartChat, LocalDelete, SendText, SendReturns, Procs
    <3> QED
      BY <3>1, MovesAreInvisible, MoveImplements
  <2> QED
    BY <2>1, <2>2, <2>3
<1>7. ASSUME NEW p \in Rpcs \cup {Events}, StatementNext(p)
      PROVE  AsContact!Next
  BY <1>7, InsertImplements, TouchImplements, DeleteImplements, RefreshImplements
     DEF StatementNext
<1>8. ASSUME NEW p \in Procs, StatementFails(p) PROVE AsContact!Next
  <2>1. OthersStay(p) /\ UNCHANGED <<rows, chat, home>>
    BY <1>8, GoroutineMoves DEF StatementFails
  <2> QED
    BY <2>1, MovesAreInvisible, MoveImplements
<1>9. CASE Crash
  <2>1. UNCHANGED TableVars
    BY <1>9, MovesAreInvisible DEF Crash
  <2>2. Doing' = [p \in Procs |-> "nothing"]
    BY <1>9 DEF Crash, Doing, Idle, Job, Pcs
  <2>3. AsContact!Halt
    BY <2>1, <2>2 DEF AsContact!Halt, TableVars, Unread, FlagsOf, Doing
  <2> QED
    BY <2>3 DEF AsContact!Next
<1> QED
  BY <1>1, <1>2, <1>3, <1>4, <1>5, <1>6, <1>7, <1>8, <1>9 DEF Next

\* Whatever the handlers interleave, the two rows of a contact behave as one
\* conversation that loses no message, no unread count and no flag to a merge
\* (ImplementsContact).
THEOREM InboxImplementsContact == Spec => ImplementsContact
  BY InitIInv, IInvHolds, RefinesInit, StepRefines, PTL
     DEF Spec, ImplementsContact, AsContact!Spec

-----------------------------------------------------------------------------
(* The list of the window.                                                 *)

\* The order has each chat of the index once.
OrderIsIndexed == IsInjective(order) /\ Range(order) = Listed(index)

\* What the answered query tells of the results the window has.
AnswerIsKnown ==
    /\ query = NoQuery => answered = NoQuery
    /\ query # NoQuery /\ answered \notin {query, NoQuery} => Searching

ModelIsResults ==
    query # NoQuery /\ answered # NoQuery /\ ~queued => model = Ordered(results)

\* An event about the chat is still to be published or handled.
Awaited(c) == c \in due \/ \E k \in DOMAIN feed : feed[k].chat = c

\* Whoever is to publish the present row has it, or will find it.
WillPublish(p, c) ==
    /\ pub[p] # Quiet /\ pub[p].chat = c
    /\ \/ pub[p].at = "wrote" /\ table[c] # NoRow
       \/ pub[p].at = "read" /\ pub[p].row = table[c]
DueIsPending == \A c \in due : \E p \in Writers : WillPublish(p, c)

\* The last event about a chat, once it was published and if it was not lost,
\* has its row.
LastEventIsCurrent ==
    \A c \in Chats \ (due \cup lost), k \in DOMAIN feed :
        /\ feed[k].chat = c
        /\ \A m \in DOMAIN feed : m > k => feed[m].chat # c
        => feed[k].row = table[c]

\* Without an event to come, what was not marked is the row of the table.
IndexUnlessAwaited == \A c \in Chats \ stale : Awaited(c) \/ index[c] = table[c]
RepliesUnlessAwaited ==
    \A i \in Calls : call[i].at = "read" =>
        \A c \in Listed(call[i].rows) \ call[i].since : Awaited(c) \/ call[i].rows[c] = table[c]
ResultsUnlessAwaited ==
    \A c \in Listed(results) \ older : Awaited(c) \/ results[c] = table[c]

SidebarIInv ==
    /\ SidebarTypeOK
    /\ OrderIsIndexed /\ ModelFollowsIndex
    /\ AnswerIsKnown /\ ModelIsResults
    /\ DueIsPending /\ LastEventIsCurrent
    /\ IndexUnlessAwaited /\ RepliesUnlessAwaited /\ ResultsUnlessAwaited

-----------------------------------------------------------------------------
(* Arranging a finite set.                                                 *)

\* Any two members are in order one way or the other.
Orders(R, S) ==
    /\ \A x, y \in S : x # y => <<x, y>> \in R \/ <<y, x>> \in R
    /\ \A x, y, z \in S : <<x, y>> \in R /\ <<y, z>> \in R => <<x, z>> \in R

\* One of them comes last.
IsLast(m, R, S) == \A x \in S : x # m => <<x, m>> \in R

LEMMA LastExists ==
    ASSUME NEW S, IsFiniteSet(S), S # {}, NEW R, Orders(R, S)
    PROVE  \E m \in S : IsLast(m, R, S)
<1> DEFINE Bad == {T \in SUBSET S : T # {} /\ ~\E m \in T : IsLast(m, R, T)}
<1>1. Bad = {}
  <2> SUFFICES ASSUME Bad # {} PROVE FALSE
    OBVIOUS
  <2>1. IsWellFoundedOn(StrictSubsetOrdering(S), SUBSET S)
    BY FS_StrictSubsetOrderingWellFounded, FS_FiniteSubsetsOfFinite
  <2>2. Bad \subseteq SUBSET S
    OBVIOUS
  <2> HIDE DEF Bad
  <2>3. PICK T \in Bad : \A U \in Bad : ~(<<U, T>> \in StrictSubsetOrdering(S))
    BY <2>1, <2>2, WFMin
  <2> USE DEF Bad
  <2>4. T \in SUBSET S /\ T # {} /\ ~\E m \in T : IsLast(m, R, T)
    OBVIOUS
  <2>5. PICK x \in T : TRUE
    BY <2>4
  <2> DEFINE U == T \ {x}
  <2>6. U \in SUBSET S /\ <<U, T>> \in StrictSubsetOrdering(S)
    BY <2>4, <2>5 DEF StrictSubsetOrdering
  <2>7. CASE U = {}
    BY <2>4, <2>5, <2>7 DEF IsLast
  <2>8. CASE U # {}
    <3>1. U \notin Bad
      BY <2>3, <2>6
    <3>2. PICK m \in U : IsLast(m, R, U)
      BY <2>6, <2>8, <3>1
    <3>3. <<x, m>> \in R => IsLast(m, R, T)
      BY <3>2 DEF IsLast
    <3>4. <<m, x>> \in R => IsLast(x, R, T)
      <4> SUFFICES ASSUME <<m, x>> \in R, NEW y \in T, y # x PROVE <<y, x>> \in R
        BY DEF IsLast
      <4>1. CASE y = m
        BY <4>1
      <4>2. CASE y # m
        <5>1. <<y, m>> \in R
          BY <3>2, <4>2 DEF IsLast
        <5>2. x \in S /\ m \in S /\ y \in S
          BY <2>4
        <5> QED
          BY <5>1, <5>2 DEF Orders
      <4> QED
        BY <4>1, <4>2
    <3>5. x \in S /\ m \in S /\ x # m /\ x \in T /\ m \in T
      BY <2>4, <2>5, <3>2
    <3>6. <<x, m>> \in R \/ <<m, x>> \in R
      BY <3>5 DEF Orders
    <3> QED
      BY <2>4, <3>3, <3>4, <3>5, <3>6
  <2> QED
    BY <2>7, <2>8
<1> QED
  BY <1>1

\* A sequence runs along an order.
RunsAlong(s, R) == \A i, j \in DOMAIN s : i < j => <<s[i], s[j]>> \in R

LEMMA ArrangementExists ==
    ASSUME NEW S, IsFiniteSet(S), NEW R, Orders(R, S)
    PROVE  \E s \in SetToSeqs(S) : RunsAlong(s, R)
<1> DEFINE Bad == {T \in SUBSET S : ~\E s \in SetToSeqs(T) : RunsAlong(s, R)}
<1>1. Bad = {}
  <2> SUFFICES ASSUME Bad # {} PROVE FALSE
    OBVIOUS
  <2>1. IsWellFoundedOn(StrictSubsetOrdering(S), SUBSET S)
    BY FS_StrictSubsetOrderingWellFounded, FS_FiniteSubsetsOfFinite
  <2>2. Bad \subseteq SUBSET S
    OBVIOUS
  <2> HIDE DEF Bad
  <2>3. PICK T \in Bad : \A U \in Bad : ~(<<U, T>> \in StrictSubsetOrdering(S))
    BY <2>1, <2>2, WFMin
  <2> USE DEF Bad
  <2>4. T \in SUBSET S /\ ~\E s \in SetToSeqs(T) : RunsAlong(s, R)
    OBVIOUS
  <2>5. IsFiniteSet(T)
    BY <2>4, FS_Subset
  <2>6. CASE T = {}
    <3> DEFINE s == [i \in 1..0 |-> i]
    <3>1. Cardinality(T) = 0
      BY <2>6, FS_EmptySet
    <3>2. s \in SetToSeqs(T) /\ RunsAlong(s, R)
      BY <2>6, <3>1 DEF SetToSeqs, RunsAlong
    <3> QED
      BY <2>4, <3>2
  <2>7. CASE T # {}
    <3>1. Orders(R, T)
      BY <2>4 DEF Orders
    <3>2. PICK m \in T : IsLast(m, R, T)
      BY <2>5, <2>7, <3>1, LastExists
    <3> DEFINE U == T \ {m}
               n == Cardinality(U)
    <3>3. U \in SUBSET S /\ <<U, T>> \in StrictSubsetOrdering(S)
      BY <2>4, <3>2 DEF StrictSubsetOrdering
    <3>4. IsFiniteSet(U) /\ n \in Nat /\ Cardinality(T) = n + 1
      <4>1. IsFiniteSet(U) /\ Cardinality(U) = Cardinality(T) - 1
        BY <2>5, <3>2, FS_RemoveElement
      <4>2. Cardinality(U) \in Nat /\ Cardinality(T) \in Nat
        BY <2>5, <4>1, FS_CardinalityType
      <4> QED
        BY <4>1, <4>2
    <3>5. PICK t \in SetToSeqs(U) : RunsAlong(t, R)
      BY <2>3, <3>3
    <3> HIDE DEF U, n
    <3>6. t \in [1..n -> U] /\ \A i, j \in 1..n : i # j => t[i] # t[j]
      BY <3>5 DEF SetToSeqs, n
    <3> DEFINE s == [i \in 1..(n + 1) |-> IF i = n + 1 THEN m ELSE t[i]]
    <3>7. \A i \in 1..n : i \in 1..(n + 1) /\ s[i] = t[i] /\ t[i] \in T /\ t[i] # m
      BY <3>4, <3>6 DEF U
    <3>8. s[n + 1] = m /\ \A i \in 1..(n + 1) : i = n + 1 \/ i \in 1..n
      BY <3>4
    <3>9. s \in [1..(n + 1) -> T]
      <4>1. \A i \in 1..(n + 1) : (IF i = n + 1 THEN m ELSE t[i]) \in T
        BY <3>2, <3>7, <3>8
      <4> QED
        BY <4>1
    <3>10. \A i, j \in 1..(n + 1) : i # j => s[i] # s[j]
      BY <3>6, <3>7, <3>8
    <3>11. s \in SetToSeqs(T)
      BY <3>4, <3>9, <3>10 DEF SetToSeqs
    <3>12. RunsAlong(s, R)
      <4> SUFFICES ASSUME NEW i \in 1..(n + 1), NEW j \in 1..(n + 1), i < j
                   PROVE <<s[i], s[j]>> \in R
        BY DEF RunsAlong
      <4>1. i \in 1..n
        BY <3>4, <3>8
      <4>2. CASE j = n + 1
        BY <3>2, <3>7, <3>8, <4>1, <4>2 DEF IsLast
      <4>3. CASE j \in 1..n
        BY <3>5, <3>6, <3>7, <4>1, <4>3 DEF RunsAlong
      <4> QED
        BY <3>8, <4>2, <4>3
    <3> QED
      BY <2>4, <3>11, <3>12
  <2> QED
    BY <2>6, <2>7
<1> QED
  BY <1>1

\* An arrangement is a sequence of the set's members, each once, in order.
LEMMA ArrangedProperties ==
    ASSUME NEW S, IsFiniteSet(S), NEW R, Orders(R, S)
    PROVE  /\ Arranged(S, R) \in Seq(S)
           /\ IsInjective(Arranged(S, R))
           /\ Range(Arranged(S, R)) = S
           /\ RunsAlong(Arranged(S, R), R)
<1> DEFINE s == Arranged(S, R)
           n == Cardinality(S)
<1>1. \E t \in SetToSeqs(S) : \A i, j \in DOMAIN t : i < j => <<t[i], t[j]>> \in R
  BY ArrangementExists DEF RunsAlong
<1>2. s \in SetToSeqs(S) /\ RunsAlong(s, R)
  BY <1>1 DEF Arranged, RunsAlong
<1> HIDE DEF s
<1>3. n \in Nat
  BY FS_CardinalityType
<1>4. s \in [1..n -> S] /\ IsInjective(s)
  BY <1>2 DEF SetToSeqs, IsInjective
<1>5. s \in Seq(S)
  BY <1>3, <1>4
<1>6. s \in Injection(1..n, S)
  BY <1>4 DEF Injection
<1>7. Cardinality(1..n) = n
  BY <1>3, FS_Interval
<1>8. s \in Surjection(1..n, S)
  BY <1>6, <1>7, FS_Injection
<1>9. Range(s) = S
  BY <1>4, <1>8 DEF Range, Surjection
<1> QED
  BY <1>2, <1>4, <1>5, <1>9 DEF s

-----------------------------------------------------------------------------
(* The order of the chat list.                                             *)

\* Pinned first, then the newest: a weak order.
LEMMA BeforeIsWeakOrder ==
    /\ \A r, s \in ChatRow : ~(Before(r, s) /\ Before(s, r))
    /\ \A r, s, t \in ChatRow : ~Before(s, r) /\ ~Before(t, s) => ~Before(t, r)
  BY DEF Before, ChatRow

LEMMA RowsAreChatRows ==
    ASSUME NEW found \in Table, NEW c \in Listed(found)
    PROVE  c \in Chats /\ found[c] \in ChatRow
  BY RowsAssumption DEF Table, Listed

LEMMA ListedIsFinite ==
    ASSUME NEW found PROVE IsFiniteSet(Listed(found)) /\ Listed(found) \subseteq Chats
<1>1. Listed(found) \subseteq Chats
  BY DEF Listed
<1> QED
  BY <1>1, ChatsAssumption, FS_Subset

\* What the database returns is in the list's order, each chat once.
LEMMA OrderedProperties ==
    ASSUME NEW found \in Table
    PROVE  /\ Ordered(found) \in Seq(Chats)
           /\ IsInjective(Ordered(found))
           /\ Range(Ordered(found)) = Listed(found)
<1> DEFINE S == Listed(found)
           R == {p \in S \X S : ~Before(found[p[2]], found[p[1]])}
<1>1. Orders(R, S)
  <2>1. \A x, y \in S : <<x, y>> \in R <=> ~Before(found[y], found[x])
    OBVIOUS
  <2>2. \A x \in S : found[x] \in ChatRow
    BY RowsAreChatRows
  <2> HIDE DEF R, S
  <2> QED
    BY <2>1, <2>2, BeforeIsWeakOrder DEF Orders
<1>2. IsFiniteSet(S) /\ S \subseteq Chats
  BY ListedIsFinite
<1>3. Ordered(found) = Arranged(S, R)
  BY DEF Ordered
<1> HIDE DEF R, S
<1>4. Arranged(S, R) \in Seq(S) /\ IsInjective(Arranged(S, R)) /\ Range(Arranged(S, R)) = S
  BY <1>1, <1>2, ArrangedProperties
<1>5. Arranged(S, R) \in Seq(Chats)
  BY <1>2, <1>4
<1> QED
  BY <1>3, <1>4, <1>5 DEF S

\* Where a member of a sequence without repetitions is.
LEMMA PositionProperties ==
    ASSUME NEW s \in Seq(Chats), IsInjective(s)
    PROVE  /\ \A i \in DOMAIN s : Position(s[i], s) = i
           /\ \A c \in Range(s) : Position(c, s) \in DOMAIN s /\ s[Position(c, s)] = c
           /\ \A c \in Range(s) : Position(c, s) \in Int
<1>1. \A c \in Range(s) : Position(c, s) \in DOMAIN s /\ s[Position(c, s)] = c
  BY DEF Position, Range
<1>2. \A i \in DOMAIN s : s[i] \in Range(s)
  BY DEF Range
<1>3. DOMAIN s = 1..Len(s)
  OBVIOUS
<1>4. \A i \in DOMAIN s : Position(s[i], s) = i
  BY <1>1, <1>2 DEF IsInjective
<1> QED
  BY <1>1, <1>3, <1>4

\* Two members of a sequence are at two positions of it.
LEMMA PositionsDiffer ==
    ASSUME NEW s \in Seq(Chats), IsInjective(s),
           NEW c \in Range(s), NEW d \in Range(s), c # d
    PROVE  Position(c, s) < Position(d, s) \/ Position(d, s) < Position(c, s)
<1>1. s[Position(c, s)] = c /\ s[Position(d, s)] = d
  BY PositionProperties
<1>2. Position(c, s) # Position(d, s)
  BY <1>1
<1>3. Position(c, s) \in Int /\ Position(d, s) \in Int
  BY PositionProperties
<1> QED
  BY <1>2, <1>3

LEMMA RangeIsFinite ==
    ASSUME NEW s \in Seq(Chats) PROVE IsFiniteSet(Range(s)) /\ Range(s) \subseteq Chats
<1>1. Range(s) \subseteq Chats
  BY DEF Range
<1> QED
  BY <1>1, ChatsAssumption, FS_Subset

\* A filter keeps the members of the set, in their order.
LEMMA KeptProperties ==
    ASSUME NEW s \in Seq(Chats), IsInjective(s), NEW set
    PROVE  /\ Kept(s, set) \in Seq(Chats)
           /\ IsInjective(Kept(s, set))
           /\ Range(Kept(s, set)) = Range(s) \cap set
           /\ \A i, j \in DOMAIN Kept(s, set) :
                 i < j => Position(Kept(s, set)[i], s) < Position(Kept(s, set)[j], s)
<1> DEFINE S == Range(s) \cap set
           R == {p \in S \X S : Position(p[1], s) < Position(p[2], s)}
<1>1. \A x, y \in S : <<x, y>> \in R <=> Position(x, s) < Position(y, s)
  OBVIOUS
<1>2. S \subseteq Range(s)
  OBVIOUS
<1>3. Kept(s, set) = Arranged(S, R)
  BY DEF Kept
<1>4. IsFiniteSet(S) /\ S \subseteq Chats
  BY RangeIsFinite, FS_Subset
<1> HIDE DEF R
<1>5. Orders(R, S)
  <2>1. \A x \in S : Position(x, s) \in Int
    BY <1>2, PositionProperties
  <2>2. \A x, y \in S : x # y => Position(x, s) < Position(y, s) \/ Position(y, s) < Position(x, s)
    BY <1>2, PositionsDiffer
  <2> HIDE DEF S
  <2> QED
    BY <1>1, <2>1, <2>2 DEF Orders
<1>6. /\ Arranged(S, R) \in Seq(S) /\ IsInjective(Arranged(S, R))
      /\ Range(Arranged(S, R)) = S /\ RunsAlong(Arranged(S, R), R)
  BY <1>4, <1>5, ArrangedProperties
<1>7. Arranged(S, R) \in Seq(Chats)
  <2> HIDE DEF S
  <2> QED
    BY <1>4, <1>6
<1>8. \A i, j \in DOMAIN Arranged(S, R) :
          i < j => Position(Arranged(S, R)[i], s) < Position(Arranged(S, R)[j], s)
  <2> HIDE DEF S
  <2>1. \A i \in DOMAIN Arranged(S, R) : Arranged(S, R)[i] \in S
    BY <1>6
  <2> QED
    BY <1>1, <1>6, <2>1 DEF RunsAlong
<1> QED
  BY <1>3, <1>6, <1>7, <1>8

\* The stable sort keeps the chats and puts them in the list's order.
LEMMA SortedProperties ==
    ASSUME NEW found \in Table, NEW s \in Seq(Chats), IsInjective(s), Range(s) = Listed(found)
    PROVE  /\ Sorted(s, found) \in Seq(Chats)
           /\ IsInjective(Sorted(s, found))
           /\ Range(Sorted(s, found)) = Range(s)
           /\ \A i, j \in DOMAIN Sorted(s, found) :
                 i < j => ~Before(found[Sorted(s, found)[j]], found[Sorted(s, found)[i]])
<1> DEFINE S == Range(s)
           R == {p \in S \X S :
                    \/ Before(found[p[1]], found[p[2]])
                    \/ /\ ~Before(found[p[2]], found[p[1]])
                       /\ Position(p[1], s) < Position(p[2], s)}
<1>1. \A x, y \in S : <<x, y>> \in R <=>
          \/ Before(found[x], found[y])
          \/ ~Before(found[y], found[x]) /\ Position(x, s) < Position(y, s)
  OBVIOUS
<1>2. Sorted(s, found) = Arranged(S, R)
  BY DEF Sorted
<1>3. IsFiniteSet(S) /\ S \subseteq Chats
  BY RangeIsFinite
<1>4. \A x \in S : found[x] \in ChatRow
  BY RowsAreChatRows
<1>5. \A x \in S : Position(x, s) \in Int
  BY PositionProperties
<1>6. \A x, y \in S : x # y => Position(x, s) < Position(y, s) \/ Position(y, s) < Position(x, s)
  BY PositionsDiffer
<1> HIDE DEF R, S
<1>7. \A x, y \in S : <<x, y>> \in R => ~Before(found[y], found[x])
  BY <1>1, <1>4, BeforeIsWeakOrder
<1>8. Orders(R, S)
  <2>1. \A x, y \in S : x # y => <<x, y>> \in R \/ <<y, x>> \in R
    BY <1>1, <1>6
  <2>2. ASSUME NEW x \in S, NEW y \in S, NEW z \in S, <<x, y>> \in R, <<y, z>> \in R
        PROVE  <<x, z>> \in R
    <3>1. ~Before(found[y], found[x]) /\ ~Before(found[z], found[y])
      BY <1>7, <2>2
    <3>2. found[x] \in ChatRow /\ found[y] \in ChatRow /\ found[z] \in ChatRow
      BY <1>4
    <3>3. ~Before(found[z], found[x])
      BY <3>1, <3>2, BeforeIsWeakOrder
    <3>4. Before(found[x], found[y]) => Before(found[x], found[z])
      BY <3>1, <3>2, BeforeIsWeakOrder
    <3>5. Before(found[y], found[z]) => Before(found[x], found[z])
      BY <3>1, <3>2, BeforeIsWeakOrder
    <3>6. CASE Position(x, s) < Position(y, s) /\ Position(y, s) < Position(z, s)
      <4>1. Position(x, s) < Position(z, s)
        BY <1>5, <3>6
      <4> QED
        BY <1>1, <3>3, <4>1
    <3>7. CASE Before(found[x], found[y]) \/ Before(found[y], found[z])
      BY <1>1, <3>4, <3>5, <3>7
    <3> QED
      BY <1>1, <2>2, <3>6, <3>7
  <2> QED
    BY <2>1, <2>2 DEF Orders
<1>9. /\ Arranged(S, R) \in Seq(S) /\ IsInjective(Arranged(S, R))
      /\ Range(Arranged(S, R)) = S /\ RunsAlong(Arranged(S, R), R)
  BY <1>3, <1>8, ArrangedProperties
<1>10. Arranged(S, R) \in Seq(Chats)
  BY <1>3, <1>9
<1>11. \A i, j \in DOMAIN Arranged(S, R) :
           i < j => ~Before(found[Arranged(S, R)[j]], found[Arranged(S, R)[i]])
  <2>1. \A i \in DOMAIN Arranged(S, R) : Arranged(S, R)[i] \in S
    BY <1>9
  <2> QED
    BY <1>7, <1>9, <2>1 DEF RunsAlong
<1> QED
  BY <1>2, <1>9, <1>10, <1>11 DEF S

-----------------------------------------------------------------------------
(* The splice.                                                             *)

\* A set of numbers below a bound has a greatest one.
LEMMA LargestProperties ==
    ASSUME NEW b \in Nat, NEW S \in SUBSET (0..b), S # {}
    PROVE  Largest(S) \in S
<1> DEFINE R == {p \in S \X S : p[1] <= p[2]}
<1>1. IsFiniteSet(S)
  <2>1. IsFiniteSet(0..b)
    BY FS_Interval
  <2> QED
    BY <2>1, FS_Subset
<1>2. \A x, y \in S : <<x, y>> \in R <=> x <= y
  OBVIOUS
<1>3. \A x \in S : x \in Int
  OBVIOUS
<1> HIDE DEF R
<1>4. Orders(R, S)
  BY <1>2, <1>3 DEF Orders
<1>5. PICK m \in S : IsLast(m, R, S)
  BY <1>1, <1>4, LastExists
<1>6. ASSUME NEW k \in S PROVE k <= m
  <2>1. k # m => <<k, m>> \in R
    BY <1>5 DEF IsLast
  <2>2. <<k, m>> \in R => k <= m
    BY <1>2, <1>5
  <2> QED
    BY <1>3, <2>1, <2>2
<1> QED
  BY <1>6 DEF Largest

\* The head that is shared, and the tail that is, agree and do not overlap.
LEMMA SharedEnds ==
    ASSUME NEW current \in Seq(Chats), NEW want \in Seq(Chats)
    PROVE  LET h == SharedHead(current, want)
               t == SharedTail(current, want)
           IN  /\ h \in Nat /\ t \in Nat
               /\ h + t <= Len(current) /\ h + t <= Len(want)
               /\ \A i \in 1..h : current[i] = want[i]
               /\ \A i \in 0..(t - 1) : current[Len(current) - i] = want[Len(want) - i]
<1> DEFINE l == Lesser(Len(current), Len(want))
           H == {n \in 0..l : \A i \in 1..n : current[i] = want[i]}
           h == SharedHead(current, want)
           T == {n \in 0..(l - h) :
                    \A i \in 0..(n - 1) : current[Len(current) - i] = want[Len(want) - i]}
           t == SharedTail(current, want)
<1>1. l \in Nat /\ l <= Len(current) /\ l <= Len(want)
  BY DEF Lesser
<1> HIDE DEF l
<1>2. H \in SUBSET (0..l) /\ 0 \in H
  BY <1>1
<1>3. h = Largest(H)
  BY DEF SharedHead, l
<1>4. h \in H
  <2> HIDE DEF H
  <2> QED
    BY <1>1, <1>2, <1>3, LargestProperties
<1>5. h \in 0..l /\ \A i \in 1..h : current[i] = want[i]
  BY <1>4
<1>6. l - h \in Nat
  BY <1>1, <1>5
<1> HIDE DEF H, h
<1>7. T \in SUBSET (0..(l - h)) /\ 0 \in T
  BY <1>6
<1>8. t = Largest(T)
  BY DEF SharedTail, l, h
<1>9. t \in T
  <2> HIDE DEF T
  <2> QED
    BY <1>6, <1>7, <1>8, LargestProperties
<1>10. /\ t \in 0..(l - h)
       /\ \A i \in 0..(t - 1) : current[Len(current) - i] = want[Len(want) - i]
  BY <1>9
<1> HIDE DEF T, t
<1>11. h \in Nat /\ t \in Nat /\ h + t <= Len(current) /\ h + t <= Len(want)
  BY <1>1, <1>5, <1>10
<1> QED
  BY <1>5, <1>10, <1>11 DEF h, t

\* Whatever the list showed, the splice leaves it showing what is wanted.
LEMMA SpliceLands ==
    ASSUME NEW current \in Seq(Chats), NEW want \in Seq(Chats)
    PROVE  ApplyChatModel(current, want) = want
<1> DEFINE h == SharedHead(current, want)
           t == SharedTail(current, want)
           L == Len(current)
           W == Len(want)
           x == SubSeq(current, 1, h)
           y == SubSeq(want, h + 1, W - t)
           z == SubSeq(current, L - t + 1, L)
<1>1. /\ h \in Nat /\ t \in Nat /\ h + t <= L /\ h + t <= W
      /\ \A i \in 1..h : current[i] = want[i]
      /\ \A i \in 0..(t - 1) : current[L - i] = want[W - i]
  BY SharedEnds
<1>2. ApplyChatModel(current, want) = x \o y \o z
  BY DEF ApplyChatModel
<1>3. L \in Nat /\ W \in Nat
  OBVIOUS
<1> HIDE DEF h, t
<1>4. x \in Seq(Chats) /\ Len(x) = h /\ \A i \in 1..h : x[i] = current[i]
  BY <1>1, <1>3, SubSeqProperties
<1>5. y \in Seq(Chats) /\ Len(y) = W - t - h /\ \A i \in 1..(W - t - h) : y[i] = want[h + i]
  BY <1>1, <1>3, SubSeqProperties
<1>6. z \in Seq(Chats) /\ Len(z) = t /\ \A i \in 1..t : z[i] = current[L - t + i]
  BY <1>1, <1>3, SubSeqProperties
<1> HIDE DEF x, y, z, L, W
<1>7. /\ x \o y \in Seq(Chats) /\ Len(x \o y) = W - t
      /\ \A i \in 1..(W - t) : (x \o y)[i] = want[i]
  <2>1. x \o y \in Seq(Chats) /\ Len(x \o y) = h + (W - t - h)
    BY <1>4, <1>5, ConcatProperties
  <2>2. ASSUME NEW i \in 1..(W - t) PROVE (x \o y)[i] = want[i]
    <3>1. CASE i <= h
      <4>1. i \in 1..Len(x) /\ i \in 1..h
        BY <1>1, <1>3, <1>4, <3>1
      <4>2. (x \o y)[i] = x[i]
        BY <1>4, <1>5, <4>1, ConcatProperties
      <4> QED
        BY <1>1, <1>4, <4>1, <4>2
    <3>2. CASE i > h
      <4>1. i - h \in 1..(W - t - h) /\ h + (i - h) = i
        BY <1>1, <1>3, <3>2
      <4>2. (x \o y)[i] = y[i - h]
        BY <1>1, <1>3, <1>4, <1>5, <3>2, ConcatProperties
      <4> QED
        BY <1>5, <4>1, <4>2
    <3>3. i \in Int /\ h \in Int
      BY <1>1, <1>3
    <3>4. i <= h \/ i > h
      BY <3>3
    <3> QED
      BY <3>1, <3>2, <3>4, Zenon
  <2> QED
    BY <1>1, <1>3, <2>1, <2>2
<1> DEFINE xy == x \o y
<1>8. xy \in Seq(Chats) /\ Len(xy) = W - t /\ \A i \in 1..(W - t) : xy[i] = want[i]
  BY <1>7
<1> HIDE DEF xy
<1>9. /\ xy \o z \in Seq(Chats) /\ Len(xy \o z) = W
      /\ \A i \in 1..W : (xy \o z)[i] = IF i <= W - t THEN xy[i] ELSE z[i - (W - t)]
  <2>1. xy \in Seq(Chats) /\ z \in Seq(Chats) /\ Len(xy) = W - t /\ Len(z) = t
    BY <1>6, <1>8
  <2>2. Len(xy) + Len(z) = W
    BY <1>1, <1>3, <2>1
  <2>3. /\ xy \o z \in Seq(Chats)
        /\ Len(xy \o z) = Len(xy) + Len(z)
        /\ \A i \in 1..(Len(xy) + Len(z)) :
              (xy \o z)[i] = IF i <= Len(xy) THEN xy[i] ELSE z[i - Len(xy)]
    BY <2>1, ConcatProperties
  <2> QED
    BY <2>1, <2>2, <2>3
<1>10. ASSUME NEW i \in 1..W PROVE (xy \o z)[i] = want[i]
  <2>1. CASE i <= W - t
    <3>1. i \in 1..(W - t)
      BY <1>1, <1>3, <2>1
    <3> QED
      BY <1>8, <1>9, <2>1, <3>1
  <2>2. CASE i > W - t
    <3> DEFINE k == i - (W - t)
    <3>1. k \in 1..t /\ t - k \in 0..(t - 1)
      BY <1>1, <1>3, <2>2
    <3>2. (xy \o z)[i] = z[k]
      BY <1>1, <1>3, <1>9, <2>2
    <3>3. z[k] = current[L - t + k]
      BY <1>6, <3>1
    <3>4. L - (t - k) = L - t + k /\ W - (t - k) = i
      BY <1>1, <1>3, <2>2
    <3> HIDE DEF k
    <3>5. current[L - (t - k)] = want[W - (t - k)]
      BY <1>1, <3>1
    <3> QED
      BY <3>2, <3>3, <3>4, <3>5
  <2>3. i \in Int /\ W - t \in Int
    BY <1>1, <1>3
  <2>4. i <= W - t \/ i > W - t
    BY <2>3
  <2> QED
    BY <2>1, <2>2, <2>4, Zenon
<1>11. xy \o z = want
  BY <1>9, <1>10, SeqEqual DEF W
<1> QED
  BY <1>2, <1>11 DEF xy

-----------------------------------------------------------------------------
(* The list after a rebuild, a reply and an event.                         *)

\* The list shows the chats of a tab, in order.
ShowsTab ==
    /\ IsInjective(model) /\ InOrder(model)
    /\ Range(model) = {c \in Listed(index) : FilterMatches(c, filter)}

LEMMA RebuildProperties ==
    ASSUME SidebarTypeOK, OrderIsIndexed, Rebuild,
           results' \in Table, older' \subseteq Chats
    PROVE  /\ index' \in Table /\ order' \in Seq(Chats) /\ model' \in Seq(Chats)
           /\ stale' \subseteq Chats
           /\ OrderIsIndexed'
           /\ query' # NoQuery => model' = Ordered(results')
           /\ query' = NoQuery => ShowsTab'
<1>1. index \in Table /\ order \in Seq(Chats) /\ model \in Seq(Chats) /\ stale \subseteq Chats
  BY DEF SidebarTypeOK
<1>2. CASE query' # NoQuery
  <2> DEFINE shown == Listed(results') \cap Listed(index)
  <2>1. /\ index' = [c \in Chats |-> IF c \in shown THEN results'[c] ELSE index[c]]
        /\ model' = ApplyChatModel(model, Ordered(results'))
        /\ stale' = stale \cup (shown \cap older')
        /\ order' = order
    BY <1>2 DEF Rebuild
  <2>2. index' \in Table
    BY <1>1, <2>1 DEF Table
  <2>3. Listed(index') = Listed(index)
    BY <1>1, <2>1 DEF Listed, Table
  <2>4. OrderIsIndexed'
    BY <2>1, <2>3 DEF OrderIsIndexed
  <2>5. Ordered(results') \in Seq(Chats)
    BY OrderedProperties
  <2>6. model' = Ordered(results')
    BY <1>1, <2>1, <2>5, SpliceLands
  <2>7. stale' \subseteq Chats
    BY <1>1, <2>1
  <2> QED
    BY <1>1, <1>2, <2>1, <2>2, <2>4, <2>5, <2>6, <2>7
<1>3. CASE query' = NoQuery
  <2> DEFINE sorted == Sorted(order, index)
             visible == {c \in Range(sorted) : FilterMatches(c, filter')}
             kept == Kept(sorted, visible)
  <2>1. /\ order' = sorted
        /\ model' = ApplyChatModel(model, kept)
        /\ index' = index /\ stale' = stale
    BY <1>3 DEF Rebuild
  <2>2. /\ sorted \in Seq(Chats) /\ IsInjective(sorted) /\ Range(sorted) = Listed(index)
        /\ \A i, j \in DOMAIN sorted :
              i < j => ~Before(index[sorted[j]], index[sorted[i]])
    BY <1>1, SortedProperties DEF OrderIsIndexed
  <2> HIDE DEF sorted
  <2>3. /\ kept \in Seq(Chats) /\ IsInjective(kept) /\ Range(kept) = Range(sorted) \cap visible
        /\ \A i, j \in DOMAIN kept : i < j => Position(kept[i], sorted) < Position(kept[j], sorted)
    BY <2>2, KeptProperties
  <2>4. Range(kept) = {c \in Listed(index) : FilterMatches(c, filter')}
    BY <2>2, <2>3
  <2> HIDE DEF kept, visible
  <2>5. model' = kept
    BY <1>1, <2>1, <2>3, SpliceLands
  <2>6. OrderIsIndexed'
    BY <2>1, <2>2 DEF OrderIsIndexed
  <2>7. ASSUME NEW i \in DOMAIN kept, NEW j \in DOMAIN kept, i < j
        PROVE  ~Before(index[kept[j]], index[kept[i]])
    <3> DEFINE p == Position(kept[i], sorted)
               q == Position(kept[j], sorted)
    <3>1. kept[i] \in Range(sorted) /\ kept[j] \in Range(sorted)
      BY <2>3 DEF Range
    <3>2. p \in DOMAIN sorted /\ sorted[p] = kept[i] /\ q \in DOMAIN sorted /\ sorted[q] = kept[j]
      BY <2>2, <3>1, PositionProperties
    <3>3. p < q
      BY <2>3, <2>7
    <3> QED
      BY <2>2, <3>2, <3>3
  <2>8. InOrder(model)'
    BY <2>1, <2>5, <2>7 DEF InOrder
  <2>9. Range(model') = {c \in Listed(index') : FilterMatches(c, filter)'}
    BY <2>1, <2>4, <2>5 DEF FilterMatches
  <2>10. ShowsTab'
    BY <2>3, <2>5, <2>8, <2>9 DEF ShowsTab
  <2> QED
    BY <1>1, <1>3, <2>1, <2>2, <2>3, <2>5, <2>6, <2>10
<1> QED
  BY <1>2, <1>3

LEMMA UpsertProperties ==
    ASSUME SidebarTypeOK, OrderIsIndexed, NEW found \in Table, Upsert(found)
    PROVE  /\ index' \in Table /\ order' \in Seq(Chats)
           /\ queued' \in BOOLEAN
           /\ OrderIsIndexed'
           /\ model' = model
           /\ queued' \/ (~queued /\ index' = index)
<1>1. index \in Table /\ order \in Seq(Chats) /\ queued \in BOOLEAN
  BY DEF SidebarTypeOK
<1> DEFINE new == Kept(Ordered(found), Chats \ Listed(index))
<1>2. /\ index' = [c \in Chats |-> IF found[c] # NoRow THEN found[c] ELSE index[c]]
      /\ order' = order \o new
      /\ queued' = (queued \/ Listed(found) # {})
      /\ model' = model
  BY DEF Upsert
<1>3. index' \in Table
  BY <1>1, <1>2 DEF Table
<1>4. Listed(index') = Listed(index) \cup Listed(found)
  BY <1>1, <1>2 DEF Listed, Table
<1>5. /\ Ordered(found) \in Seq(Chats) /\ IsInjective(Ordered(found))
      /\ Range(Ordered(found)) = Listed(found)
  BY OrderedProperties
<1>6. /\ new \in Seq(Chats) /\ IsInjective(new)
      /\ Range(new) = Listed(found) \cap (Chats \ Listed(index))
  BY <1>5, KeptProperties
<1> HIDE DEF new
<1>7. order' \in Seq(Chats) /\ Len(order') = Len(order) + Len(new)
      /\ \A i \in 1..(Len(order) + Len(new)) :
            order'[i] = IF i <= Len(order) THEN order[i] ELSE new[i - Len(order)]
  BY <1>1, <1>2, <1>6, ConcatProperties
<1>8. Range(order') = Range(order) \cup Range(new)
  BY <1>1, <1>2, <1>6, RangeConcatenation
<1>9. Range(order') = Listed(index')
  <2>1. Listed(found) \subseteq Chats
    BY DEF Listed
  <2> QED
    BY <1>4, <1>6, <1>8, <2>1 DEF OrderIsIndexed
<1>10. IsInjective(order')
  <2>1. Len(order) \in Nat /\ Len(new) \in Nat /\ DOMAIN order = 1..Len(order)
        /\ DOMAIN new = 1..Len(new) /\ DOMAIN order' = 1..(Len(order) + Len(new))
    BY <1>1, <1>6, <1>7
  <2>2. \A i \in DOMAIN order, j \in DOMAIN new : order[i] # new[j]
    <3>1. \A i \in DOMAIN order : order[i] \in Listed(index)
      BY DEF OrderIsIndexed, Range
    <3>2. \A j \in DOMAIN new : new[j] \notin Listed(index)
      BY <1>6 DEF Range
    <3> QED
      BY <3>1, <3>2
  <2>3. \A i \in DOMAIN order' :
            \/ i \in DOMAIN order /\ order'[i] = order[i]
            \/ i - Len(order) \in DOMAIN new /\ order'[i] = new[i - Len(order)]
    BY <1>7, <2>1
  <2>4. IsInjective(order) /\ IsInjective(new)
    BY <1>6 DEF OrderIsIndexed
  <2> QED
    BY <2>1, <2>2, <2>3, <2>4 DEF IsInjective
<1>11. queued' \/ (~queued /\ index' = index)
  <2>1. CASE Listed(found) = {}
    <3>1. \A c \in Chats : found[c] = NoRow
      BY <2>1 DEF Listed
    <3>2. index' = [c \in Chats |-> index[c]]
      BY <1>2, <3>1
    <3>3. index' = index
      BY <1>1, <3>2 DEF Table
    <3> QED
      BY <1>1, <1>2, <2>1, <3>3
  <2> QED
    BY <1>1, <1>2, <2>1
<1> QED
  BY <1>1, <1>2, <1>3, <1>7, <1>9, <1>10, <1>11 DEF OrderIsIndexed

LEMMA RemoveProperties ==
    ASSUME SidebarTypeOK, OrderIsIndexed, NEW c \in Chats, RemoveChat(c)
    PROVE  /\ index' \in Table /\ order' \in Seq(Chats)
           /\ queued' \in BOOLEAN
           /\ OrderIsIndexed'
           /\ model' = model
           /\ queued' \/ (~queued /\ index' = index)
<1>1. index \in Table /\ order \in Seq(Chats) /\ queued \in BOOLEAN
  BY DEF SidebarTypeOK
<1>2. /\ index' = [index EXCEPT ![c] = NoRow]
      /\ order' = Kept(order, Chats \ {c})
      /\ queued' = (queued \/ index[c] # NoRow)
      /\ model' = model
  BY DEF RemoveChat
<1>3. index' \in Table
  BY <1>1, <1>2 DEF Table
<1>4. Listed(index') = Listed(index) \ {c}
  BY <1>1, <1>2 DEF Listed, Table
<1>5. /\ order' \in Seq(Chats) /\ IsInjective(order')
      /\ Range(order') = Range(order) \cap (Chats \ {c})
  BY <1>1, <1>2, KeptProperties DEF OrderIsIndexed
<1>6. Range(order') = Listed(index')
  <2>1. Listed(index) \subseteq Chats
    BY DEF Listed
  <2> QED
    BY <1>4, <1>5, <2>1 DEF OrderIsIndexed
<1>7. index[c] = NoRow => index' = index
  BY <1>1, <1>2 DEF Table
<1> QED
  BY <1>1, <1>2, <1>3, <1>5, <1>6, <1>7 DEF OrderIsIndexed

-----------------------------------------------------------------------------
(* Types, and the list against the index.                                  *)

LEMMA SidebarInitIInv == SidebarInit => SidebarIInv
<1> SUFFICES ASSUME SidebarInit PROVE SidebarIInv
  OBVIOUS
<1>1. Empty \in Table /\ Listed(Empty) = {} /\ Free \in Call
  BY DEF Empty, Table, Listed, Free, Call, Kinds
<1>2. /\ table \in StartTables /\ writes = 0 /\ feed = <<>>
      /\ call = [i \in Calls |-> Free]
      /\ index = Empty /\ order = <<>> /\ queued = FALSE /\ model = <<>>
      /\ filter = "direct" /\ query = NoQuery /\ results = Empty /\ answered = NoQuery
      /\ older = {} /\ due = {} /\ lost = {} /\ stale = Listed(table)
      /\ pub = [p \in Writers |-> Quiet]
  BY DEF SidebarInit
<1>3. table \in Table
  BY <1>2, StartAssumption DEF Table
<1>4. DOMAIN <<>> = {} /\ Range(<<>>) = {} /\ IsInjective(<<>>)
  BY DEF Range, IsInjective
<1>5. SidebarTypeOK
  <2>1. table \in Table /\ writes \in 0..MaxWrites
    BY <1>2, <1>3, MaxWritesAssumption
  <2>2. \A S : <<>> \in Seq(S)
    OBVIOUS
  <2>3. call \in [Calls -> Call] /\ index \in Table /\ results \in Table
    BY <1>1, <1>2
  <2>4. Listed(table) \subseteq Chats
    BY DEF Listed
  <2> QED
    BY <1>2, <2>1, <2>2, <2>3, <2>4 DEF SidebarTypeOK
<1>6. OrderIsIndexed
  BY <1>1, <1>2, <1>4 DEF OrderIsIndexed
<1>7. ModelFollowsIndex
  BY <1>1, <1>2, <1>4 DEF ModelFollowsIndex, InOrder
<1>8. AnswerIsKnown /\ ModelIsResults
  BY <1>2 DEF AnswerIsKnown, ModelIsResults
<1>9. DueIsPending /\ LastEventIsCurrent
  BY <1>2, <1>4 DEF DueIsPending, LastEventIsCurrent
<1>10. IndexUnlessAwaited
  BY <1>1, <1>2, <1>3 DEF IndexUnlessAwaited, Listed, Empty
<1>11. RepliesUnlessAwaited
  BY <1>2 DEF RepliesUnlessAwaited, Free
<1>12. ResultsUnlessAwaited
  BY <1>1, <1>2 DEF ResultsUnlessAwaited
<1> QED
  BY <1>5, <1>6, <1>7, <1>8, <1>9, <1>10, <1>11, <1>12 DEF SidebarIInv

LEMMA CallTypes ==
    ASSUME call \in [Calls -> Call]
    PROVE  /\ Free \in Call
           /\ \A kind \in Kinds : Ask(kind) \in Call
           /\ \A i \in Calls : call[i].rows \in Table /\ call[i].since \subseteq Chats
           /\ \A i \in Calls, s \in SUBSET Chats : [call[i] EXCEPT !.since = s] \in Call
<1>1. Empty \in Table
  BY DEF Empty, Table
<1> QED
  BY <1>1 DEF Free, Ask, Call, Kinds

LEMMA StartedTypes ==
    ASSUME NEW c \in Chats, NEW row \in Rows
    PROVE  /\ Started(c, row) \in Call
           /\ Started(c, row).at = "read" /\ Started(c, row).rows[c] = row
           /\ \A d \in Chats : d # c => Started(c, row).rows[d] = NoRow
<1>1. Empty \in Table
  BY DEF Empty, Table
<1>2. [Empty EXCEPT ![c] = row] \in Table
  BY <1>1 DEF Table
<1>3. \A d \in Chats : [Empty EXCEPT ![c] = row][d] = IF d = c THEN row ELSE NoRow
  BY DEF Empty
<1> QED
  BY <1>2, <1>3 DEF Started, Call, Kinds

\* An event changes what is known of the rows of a call, not the call.
LEMMA PassedTypes ==
    ASSUME NEW k \in Call, NEW c \in Chats
    PROVE  /\ Passed(k, c) \in Call
           /\ Passed(k, c).kind = k.kind /\ Passed(k, c).at = k.at
           /\ Passed(k, c).rows = k.rows
           /\ Passed(k, c).since = IF c \in Listed(k.rows) THEN k.since \cup {c} ELSE k.since
  BY DEF Passed, Call

LEMMA SinceTypes ==
    ASSUME SidebarTypeOK, NEW c \in Chats, Since(c)
    PROVE  call' \in [Calls -> Call] /\ older' \subseteq Chats
<1>1. call \in [Calls -> Call] /\ older \subseteq Chats
  BY DEF SidebarTypeOK
<1>2. call' \in [Calls -> Call]
  BY <1>1, PassedTypes DEF Since
<1>3. older' \subseteq Chats
  BY <1>1 DEF Since
<1> QED
  BY <1>2, <1>3

\* The events to come are about chats, with their rows.
ChatEvents == [chat : Chats, row : Rows \cup {NoRow}]

LEMMA NextEvent ==
    ASSUME SidebarTypeOK, feed # <<>>
    PROVE  Head(feed) \in ChatEvents /\ Tail(feed) \in Seq(ChatEvents)
  BY HeadTailProperties DEF SidebarTypeOK, ChatEvents

LEMMA EventRow ==
    ASSUME NEW c \in Chats, NEW row \in Rows \cup {NoRow}
    PROVE  [Empty EXCEPT ![c] = row] \in Table
  BY DEF Empty, Table

\* An answer has rows of the table.
LEMMA ReadProperties ==
    ASSUME SidebarTypeOK, NEW i \in Calls, Read(i)
    PROVE  \E answer \in Table :
               /\ call' = [call EXCEPT ![i].at = "read", ![i].rows = answer]
               /\ \A c \in Listed(answer) : answer[c] = table[c]
<1> DEFINE In(c) == CASE call[i].kind = "active" -> ~table[c].archived
                      [] call[i].kind = "archived" -> table[c].archived
                      [] OTHER -> c \in Matches[call[i].kind]
           answer == [c \in Chats |-> IF table[c] # NoRow /\ In(c) THEN table[c] ELSE NoRow]
<1>1. call' = [call EXCEPT ![i].at = "read", ![i].rows = answer]
  BY DEF Read
<1> HIDE DEF In
<1>2. answer \in Table
  BY DEF SidebarTypeOK, Table
<1>3. \A c \in Listed(answer) : answer[c] = table[c]
  BY DEF Listed
<1> QED
  BY <1>1, <1>2, <1>3

\* What the daemon and the network do leaves the list alone.
Elsewhere ==
    \/ \E p \in Writers : PublisherNext(p)
    \/ \E i \in Calls, c \in Chats, row \in Rows : NewChat(i, c, row)
    \/ \E i \in Calls : Read(i) \/ Fail(i)
    \/ \E i, j \in Calls : LoadChats(i, j)
    \/ \E i \in Calls, q \in Queries : Search(i, q)

LEMMA PublisherTypes ==
    ASSUME SidebarTypeOK, NEW p \in Writers, PublisherNext(p)
    PROVE  SidebarTypeOK' /\ UNCHANGED list
<1> USE DEF SidebarTypeOK
<1>1. \A k \in {"wrote", "read"}, c \in Chats, row \in Rows \cup {NoRow} :
          /\ [at |-> k, chat |-> c, row |-> row] \in Pub
          /\ [pub EXCEPT ![p] = [at |-> k, chat |-> c, row |-> row]]
                 \in [Writers -> Pub \cup {Quiet}]
  BY DEF Pub
<1>2. [pub EXCEPT ![p] = Quiet] \in [Writers -> Pub \cup {Quiet}]
  OBVIOUS
<1>3. pub[p].at \in {"wrote", "read"} => pub[p] \in Pub
  BY DEF Quiet
<1>4. ASSUME NEW c \in Chats, NEW row \in Rows \cup {NoRow}, WriteRow(p, c, row)
      PROVE  SidebarTypeOK' /\ UNCHANGED list
  <2>1. table' \in Table /\ writes' \in 0..MaxWrites /\ due' \subseteq Chats
    BY <1>4, MaxWritesAssumption DEF WriteRow, Table
  <2>2. pub' \in [Writers -> Pub \cup {Quiet}]
    BY <1>1, <1>4 DEF WriteRow
  <2>3. UNCHANGED <<lost, feed, call, list, filter, search, stale>>
    BY <1>4 DEF WriteRow
  <2> QED
    BY <2>1, <2>2, <2>3 DEF list, search
<1>5. CASE ReadRow(p)
  <2>1. pub[p] \in Pub /\ pub[p].at = "wrote" /\ pub[p].chat \in Chats
    BY <1>3, <1>5 DEF ReadRow, Pub
  <2>2. pub' \in [Writers -> Pub \cup {Quiet}]
    <3>1. table[pub[p].chat] \in Rows \cup {NoRow}
      BY <2>1 DEF Table
    <3>2. \/ pub' = [pub EXCEPT ![p] = [at |-> "read", chat |-> pub[p].chat,
                                        row |-> table[pub[p].chat]]]
          \/ pub' = [pub EXCEPT ![p] = Quiet]
      BY <1>5 DEF ReadRow
    <3> QED
      BY <1>1, <1>2, <2>1, <3>1, <3>2
  <2>3. due' \subseteq Chats /\ lost' \subseteq Chats /\ stale' \subseteq Chats
    BY <1>5, <2>1 DEF ReadRow, Unsaid
  <2>4. call' \in [Calls -> Call] /\ older' \subseteq Chats
    BY <1>5, <2>1, SinceTypes DEF ReadRow, Unsaid
  <2>5. UNCHANGED <<table, writes, feed, list, filter, query, results, answered>>
    BY <1>5 DEF ReadRow
  <2> QED
    BY <2>2, <2>3, <2>4, <2>5 DEF list
<1>6. CASE Publish(p)
  <2>1. /\ pub[p] \in Pub /\ pub[p].at = "read"
        /\ pub[p].chat \in Chats /\ pub[p].row \in Rows \cup {NoRow}
    BY <1>3, <1>6 DEF Publish, Pub
  <2> DEFINE event == [chat |-> pub[p].chat, row |-> pub[p].row]
  <2>2. feed' \in Seq(ChatEvents)
    <3>1. feed \in Seq(ChatEvents) /\ event \in ChatEvents
      BY <2>1 DEF ChatEvents
    <3>2. feed' = Append(feed, event) \/ feed' = feed
      BY <1>6 DEF Publish
    <3>3. Append(feed, event) \in Seq(ChatEvents)
      BY <3>1, AppendProperties
    <3> QED
      BY <3>1, <3>2, <3>3
  <2>3. due' \subseteq Chats /\ lost' \subseteq Chats /\ stale' \subseteq Chats
    BY <1>6, <2>1 DEF Publish, Unsaid
  <2>4. call' \in [Calls -> Call] /\ older' \subseteq Chats
    BY <1>6, <2>1, SinceTypes DEF Publish, Unsaid
  <2>5. UNCHANGED <<table, writes, list, filter, query, results, answered>>
        /\ pub' = [pub EXCEPT ![p] = Quiet]
    BY <1>6 DEF Publish
  <2> QED
    BY <1>2, <2>2, <2>3, <2>4, <2>5 DEF ChatEvents, list
<1> QED
  BY <1>4, <1>5, <1>6 DEF PublisherNext

LEMMA ElsewhereTypes ==
    ASSUME SidebarTypeOK, Elsewhere
    PROVE  SidebarTypeOK' /\ UNCHANGED list
<1> USE DEF SidebarTypeOK
<1>1. ASSUME NEW p \in Writers, PublisherNext(p)
      PROVE  SidebarTypeOK' /\ UNCHANGED list
  BY <1>1, PublisherTypes
<1>2. ASSUME NEW i \in Calls, Read(i)
      PROVE  SidebarTypeOK' /\ UNCHANGED list
  <2>1. PICK answer \in Table : call' = [call EXCEPT ![i].at = "read", ![i].rows = answer]
    BY <1>2, ReadProperties
  <2>2. call' \in [Calls -> Call]
    BY <2>1 DEF Call
  <2> QED
    BY <1>2, <2>2 DEF Read, list, daemon, search
<1>3. ASSUME NEW i \in Calls, Fail(i)
      PROVE  SidebarTypeOK' /\ UNCHANGED list
  <2>1. call' \in [Calls -> Call] /\ answered' \in Queries \cup {NoQuery}
    BY <1>3, CallTypes DEF Fail
  <2> QED
    BY <1>3, <2>1 DEF Fail, list, daemon
<1>4. ASSUME NEW i \in Calls, NEW j \in Calls, LoadChats(i, j)
      PROVE  SidebarTypeOK' /\ UNCHANGED list
  <2>1. Ask("active") \in Call /\ Ask("archived") \in Call
    BY CallTypes DEF Kinds
  <2>2. call' = [call EXCEPT ![i] = Ask("active"), ![j] = Ask("archived")]
    BY <1>4 DEF LoadChats
  <2>3. call' \in [Calls -> Call]
    BY <2>1, <2>2
  <2> QED
    BY <1>4, <2>3 DEF LoadChats, list, daemon, search
<1>5. ASSUME NEW i \in Calls, NEW q \in Queries, Search(i, q)
      PROVE  SidebarTypeOK' /\ UNCHANGED list
  <2>1. Ask(q) \in Call
    BY CallTypes DEF Kinds
  <2>2. call' \in [Calls -> Call] /\ query' \in Queries \cup {NoQuery}
    BY <1>5, <2>1 DEF Search
  <2> QED
    BY <1>5, <2>2 DEF Search, list, daemon
<1>6. ASSUME NEW i \in Calls, NEW c \in Chats, NEW row \in Rows, NewChat(i, c, row)
      PROVE  SidebarTypeOK' /\ UNCHANGED list
  <2>1. table' \in Table /\ writes' \in 0..MaxWrites
    BY <1>6, MaxWritesAssumption DEF NewChat, Table
  <2>2. pub' = pub /\ due' \subseteq Chats /\ lost' \subseteq Chats /\ stale' \subseteq Chats
        /\ older' \subseteq Chats
    BY <1>6 DEF NewChat
  <2>3. call' \in [Calls -> Call]
    <3>1. [k \in Calls |-> Passed(call[k], c)] \in [Calls -> Call]
      BY PassedTypes
    <3>2. Started(c, row) \in Call
      BY StartedTypes
    <3>3. \A f \in [Calls -> Call] : [f EXCEPT ![i] = Started(c, row)] \in [Calls -> Call]
      BY <3>2
    <3>4. \/ call' = [call EXCEPT ![i] = Started(c, row)]
          \/ call' = [[k \in Calls |-> Passed(call[k], c)] EXCEPT ![i] = Started(c, row)]
      BY <1>6 DEF NewChat
    <3>5. call \in [Calls -> Call]
      OBVIOUS
    <3> HIDE DEF SidebarTypeOK
    <3> QED
      BY <3>1, <3>3, <3>4, <3>5
  <2>4. UNCHANGED <<feed, list, filter, query, results, answered>>
    BY <1>6 DEF NewChat
  <2> QED
    BY <2>1, <2>2, <2>3, <2>4 DEF list
<1> QED
  BY <1>1, <1>2, <1>3, <1>4, <1>5, <1>6 DEF Elsewhere

\* A rebuild, on its timer, on another tab or for other results.
Rebuilding ==
    \/ RebuildTimeout \/ ClearSearch
    \/ \E f \in Filters : SetFilter(f)
    \/ \E i \in Calls : OnSearch(i) /\ call[i].kind = query

LEMMA RebuildingTypes ==
    ASSUME SidebarTypeOK, OrderIsIndexed, Rebuilding
    PROVE  SidebarTypeOK' /\ Rebuild
<1> USE DEF SidebarTypeOK
<1>1. Empty \in Table
  BY DEF Empty, Table
<1> DEFINE Rest ==
             /\ results' \in Table /\ older' \subseteq Chats /\ call' \in [Calls -> Call]
             /\ query' \in Queries \cup {NoQuery} /\ answered' \in Queries \cup {NoQuery}
             /\ filter' \in Filters \cup {"direct"} /\ queued' \in BOOLEAN
             /\ UNCHANGED <<daemon, feed>> /\ Rebuild
<1>2. Rest
  <2>1. CASE RebuildTimeout
    BY <2>1 DEF RebuildTimeout, search
  <2>2. CASE ClearSearch
    BY <1>1, <2>2 DEF ClearSearch
  <2>3. ASSUME NEW f \in Filters, SetFilter(f)
        PROVE  Rest
    BY <2>3 DEF SetFilter, search
  <2>4. ASSUME NEW i \in Calls, OnSearch(i), call[i].kind = query
        PROVE  Rest
    <3>1. call' \in [Calls -> Call] /\ call[i].rows \in Table /\ call[i].since \subseteq Chats
      BY <2>4, CallTypes DEF OnSearch
    <3> QED
      BY <2>4, <3>1 DEF OnSearch
  <2> HIDE DEF Rest
  <2> QED
    BY <2>1, <2>2, <2>3, <2>4 DEF Rebuilding
<1>3. /\ index' \in Table /\ order' \in Seq(Chats) /\ model' \in Seq(Chats)
      /\ stale' \subseteq Chats
  BY <1>2, RebuildProperties
<1> QED
  BY <1>2, <1>3 DEF daemon

\* A reply or an event reaches the index.
Upserting == OnEvent \/ \E i \in Calls : OnChats(i)

LEMMA UpsertingProperties ==
    ASSUME SidebarTypeOK, OrderIsIndexed, Upserting
    PROVE  /\ SidebarTypeOK' /\ OrderIsIndexed'
           /\ model' = model
           /\ queued' \/ (~queued /\ index' = index)
           /\ UNCHANGED <<filter, query, results, answered>>
<1> USE DEF SidebarTypeOK
<1> DEFINE Indexed ==
             /\ index' \in Table /\ order' \in Seq(Chats) /\ queued' \in BOOLEAN
             /\ OrderIsIndexed' /\ model' = model
             /\ queued' \/ (~queued /\ index' = index)
<1>1. CASE OnEvent
  <2> DEFINE c == Head(feed).chat
             row == Head(feed).row
  <2>1. feed # <<>> /\ feed' = Tail(feed) /\ Since(c)
    BY <1>1 DEF OnEvent
  <2>2. c \in Chats /\ row \in Rows \cup {NoRow} /\ feed' \in Seq(ChatEvents)
    BY <2>1, NextEvent DEF ChatEvents
  <2>3. Indexed
    <3>1. CASE row = NoRow
      <4>1. RemoveChat(c)
        BY <1>1, <3>1 DEF OnEvent
      <4> QED
        BY <2>2, <4>1, RemoveProperties
    <3>2. CASE row # NoRow
      <4>1. Upsert([Empty EXCEPT ![c] = row])
        BY <1>1, <3>2 DEF OnEvent
      <4>2. [Empty EXCEPT ![c] = row] \in Table
        BY <2>2, EventRow
      <4> QED
        BY <4>1, <4>2, UpsertProperties
    <3> QED
      BY <3>1, <3>2
  <2>4. call' \in [Calls -> Call] /\ older' \subseteq Chats
    BY <2>1, <2>2, SinceTypes
  <2>5. stale' \subseteq Chats /\ UNCHANGED <<daemon, filter, query, results, answered>>
    BY <1>1, <2>2 DEF OnEvent
  <2> HIDE DEF Indexed, c, row
  <2> QED
    BY <2>2, <2>3, <2>4, <2>5 DEF Indexed, daemon, ChatEvents
<1>2. ASSUME NEW i \in Calls, OnChats(i)
      PROVE  /\ SidebarTypeOK' /\ Indexed
             /\ UNCHANGED <<filter, query, results, answered>>
  <2>1. Upsert(call[i].rows) /\ call' = [call EXCEPT ![i] = Free]
    BY <1>2 DEF OnChats
  <2>2. call[i].rows \in Table /\ call' \in [Calls -> Call] /\ call[i].since \subseteq Chats
    BY <2>1, CallTypes
  <2>3. Indexed
    BY <2>1, <2>2, UpsertProperties
  <2>4. Listed(call[i].rows) \subseteq Chats
    BY DEF Listed
  <2>5. stale' \subseteq Chats /\ UNCHANGED <<daemon, feed, filter, search>>
    BY <1>2, <2>2, <2>4 DEF OnChats
  <2> HIDE DEF Indexed
  <2> QED
    BY <2>2, <2>3, <2>5 DEF Indexed, daemon, search
<1> QED
  BY <1>1, <1>2 DEF Upserting

\* An answer to an earlier query is dropped.
Outrun == \E i \in Calls : OnSearch(i) /\ call[i].kind # query

LEMMA OutrunTypes ==
    ASSUME SidebarTypeOK, Outrun
    PROVE  SidebarTypeOK' /\ UNCHANGED <<daemon, feed, list, filter, search, stale>>
<1> PICK i \in Calls : OnSearch(i) /\ call[i].kind # query
  BY DEF Outrun
<1>1. call' = [call EXCEPT ![i] = Free] /\ UNCHANGED <<daemon, feed, list, filter, search, stale>>
  BY DEF OnSearch, list
<1>2. call' \in [Calls -> Call]
  BY <1>1, CallTypes DEF SidebarTypeOK
<1> QED
  BY <1>1, <1>2 DEF SidebarTypeOK, daemon, list, search

LEMMA SidebarSteps ==
    ASSUME SidebarNext
    PROVE  Elsewhere \/ Rebuilding \/ Upserting \/ Outrun
  BY DEF SidebarNext, Elsewhere, Rebuilding, Upserting, Outrun

\* Types, and the order and the list against the index.
LEMMA ListStep ==
    ASSUME SidebarTypeOK, OrderIsIndexed, ModelFollowsIndex, [SidebarNext]_sidebarVars
    PROVE  SidebarTypeOK' /\ OrderIsIndexed' /\ ModelFollowsIndex'
<1>1. ModelFollowsIndex <=> (~queued /\ query = NoQuery => ShowsTab)
  BY DEF ModelFollowsIndex, ShowsTab
<1>2. ModelFollowsIndex' <=> (~queued' /\ query' = NoQuery => ShowsTab')
  BY DEF ModelFollowsIndex, ShowsTab
<1>3. UNCHANGED <<index, model, filter>> => (ShowsTab <=> ShowsTab')
  BY DEF ShowsTab, InOrder, FilterMatches
<1>4. CASE Elsewhere
  <2>1. SidebarTypeOK' /\ UNCHANGED list
    BY <1>4, ElsewhereTypes
  <2>2. UNCHANGED filter /\ (query' = query \/ query' # NoQuery)
    BY <1>4, QueriesAssumption
    DEF Elsewhere, PublisherNext, WriteRow, ReadRow, Publish, NewChat,
        Read, Fail, LoadChats, Search, search
  <2> QED
    BY <1>1, <1>2, <1>3, <2>1, <2>2 DEF list, OrderIsIndexed
<1>5. CASE Rebuilding
  <2>1. SidebarTypeOK' /\ Rebuild
    BY <1>5, RebuildingTypes
  <2>2. results' \in Table /\ older' \subseteq Chats
    BY <2>1 DEF SidebarTypeOK
  <2>3. OrderIsIndexed' /\ (query' = NoQuery => ShowsTab')
    BY <2>1, <2>2, RebuildProperties
  <2> QED
    BY <1>2, <2>1, <2>3
<1>6. CASE Upserting
  <2>1. /\ SidebarTypeOK' /\ OrderIsIndexed' /\ model' = model
        /\ queued' \/ (~queued /\ index' = index)
        /\ UNCHANGED <<filter, query, results, answered>>
    BY <1>6, UpsertingProperties
  <2> QED
    BY <1>1, <1>2, <1>3, <2>1
<1>7. CASE Outrun
  <2>1. SidebarTypeOK' /\ UNCHANGED <<daemon, feed, list, filter, search, stale>>
    BY <1>7, OutrunTypes
  <2> QED
    BY <1>1, <1>2, <1>3, <2>1 DEF list, search, OrderIsIndexed
<1>8. CASE UNCHANGED sidebarVars
  BY <1>1, <1>2, <1>3, <1>8
  DEF sidebarVars, daemon, list, search, SidebarTypeOK, OrderIsIndexed
<1> QED
  BY <1>4, <1>5, <1>6, <1>7, <1>8, SidebarSteps

-----------------------------------------------------------------------------
(* Searching.                                                              *)

\* A call of the current query stays in flight.
LEMMA SearchingStays ==
    ASSUME query' = query, Searching,
           \A k \in Calls : call[k].kind = query /\ call[k].at # "free"
                              => call'[k].kind = query /\ call'[k].at # "free"
    PROVE  Searching'
  BY DEF Searching

LEMMA SinceKeepsCalls ==
    ASSUME SidebarTypeOK, NEW c \in Chats, Since(c), NEW k \in Calls
    PROVE  /\ call'[k].kind = call[k].kind /\ call'[k].at = call[k].at
           /\ call'[k].rows = call[k].rows
           /\ call'[k].since = IF c \in Listed(call[k].rows) THEN call[k].since \cup {c}
                                                             ELSE call[k].since
<1>1. call[k] \in Call
  BY DEF SidebarTypeOK
<1>2. call'[k] = Passed(call[k], c)
  BY DEF Since
<1> QED
  BY <1>1, <1>2, PassedTypes

LEMMA ElsewhereAnswers ==
    ASSUME SidebarTypeOK, AnswerIsKnown, ModelIsResults, Elsewhere
    PROVE  AnswerIsKnown' /\ ModelIsResults'
<1>1. UNCHANGED list
  BY ElsewhereTypes
<1>2. call \in [Calls -> Call]
  BY DEF SidebarTypeOK
<1>3. ASSUME UNCHANGED <<query, results, answered>>, Searching => Searching'
      PROVE  AnswerIsKnown' /\ ModelIsResults'
  BY <1>1, <1>3 DEF AnswerIsKnown, ModelIsResults, list
<1>4. ASSUME NEW p \in Writers, PublisherNext(p)
      PROVE  AnswerIsKnown' /\ ModelIsResults'
  <2>1. UNCHANGED <<query, results, answered>>
    BY <1>4 DEF PublisherNext, WriteRow, ReadRow, Publish, search
  <2>2. UNCHANGED call \/ (pub[p].chat \in Chats /\ Since(pub[p].chat))
    <3>1. pub[p].at \in {"wrote", "read"} => pub[p].chat \in Chats
      BY DEF SidebarTypeOK, Quiet, Pub
    <3> QED
      BY <1>4, <3>1 DEF PublisherNext, WriteRow, ReadRow, Publish, Unsaid
  <2>3. Searching => Searching'
    BY <2>1, <2>2, SinceKeepsCalls, SearchingStays
  <2> QED
    BY <1>3, <2>1, <2>3
<1>5. ASSUME NEW i \in Calls, Read(i)
      PROVE  AnswerIsKnown' /\ ModelIsResults'
  <2>1. UNCHANGED <<query, results, answered>>
    BY <1>5 DEF Read, search
  <2>2. PICK answer : call' = [call EXCEPT ![i].at = "read", ![i].rows = answer]
    BY <1>5, ReadProperties
  <2>3. \A k \in Calls : call[k].at # "free" =>
            call'[k].kind = call[k].kind /\ call'[k].at # "free"
    BY <1>2, <2>2 DEF Call
  <2>4. Searching => Searching'
    BY <2>1, <2>3, SearchingStays
  <2> QED
    BY <1>3, <2>1, <2>4
<1>6. ASSUME NEW i \in Calls, Fail(i)
      PROVE  AnswerIsKnown' /\ ModelIsResults'
  <2>1. UNCHANGED <<query, results>> /\ call' = [call EXCEPT ![i] = Free]
        /\ answered' = IF call[i].kind = query THEN NoQuery ELSE answered
    BY <1>6 DEF Fail
  <2>2. CASE call[i].kind = query
    BY <1>1, <2>1, <2>2 DEF AnswerIsKnown, ModelIsResults, list
  <2>3. CASE call[i].kind # query
    <3>1. \A k \in Calls : call[k].kind = query => call'[k] = call[k]
      BY <1>2, <2>1, <2>3
    <3>2. Searching => Searching'
      BY <2>1, <3>1, SearchingStays
    <3> QED
      BY <1>3, <2>1, <2>3, <3>2
  <2> QED
    BY <2>2, <2>3
<1>7. ASSUME NEW i \in Calls, NEW j \in Calls, LoadChats(i, j)
      PROVE  AnswerIsKnown' /\ ModelIsResults'
  <2>1. /\ UNCHANGED <<query, results, answered>>
        /\ call[i] = Free /\ call[j] = Free
        /\ call' = [call EXCEPT ![i] = Ask("active"), ![j] = Ask("archived")]
    BY <1>7 DEF LoadChats, search
  <2>2. \A k \in Calls : call[k].at # "free" => call'[k] = call[k]
    BY <1>2, <2>1 DEF Free
  <2>3. Searching => Searching'
    BY <2>1, <2>2, SearchingStays
  <2> QED
    BY <1>3, <2>1, <2>3
<1>8. ASSUME NEW i \in Calls, NEW q \in Queries, Search(i, q)
      PROVE  AnswerIsKnown' /\ ModelIsResults'
  <2>1. /\ query' = q /\ q # NoQuery /\ UNCHANGED <<results, answered>>
        /\ call' = [call EXCEPT ![i] = Ask(q)]
    BY <1>8, QueriesAssumption DEF Search
  <2>2. call'[i].kind = q /\ call'[i].at = "asked"
    <3>1. call'[i] = Ask(q)
      BY <1>2, <2>1
    <3> QED
      BY <3>1 DEF Ask, Free
  <2>3. Searching'
    BY <2>1, <2>2 DEF Searching
  <2> QED
    BY <1>1, <2>1, <2>3 DEF AnswerIsKnown, ModelIsResults, list
<1>9. ASSUME NEW i \in Calls, NEW c \in Chats, NEW row \in Rows, NewChat(i, c, row)
      PROVE  AnswerIsKnown' /\ ModelIsResults'
  <2>1. UNCHANGED <<query, results, answered>> /\ call[i] = Free
    BY <1>9 DEF NewChat
  <2>2. \A k \in Calls : k # i => call'[k] = call[k] \/ call'[k] = Passed(call[k], c)
    BY <1>2, <1>9 DEF NewChat
  <2>3. \A k \in Calls : call[k].at # "free" =>
            call'[k].kind = call[k].kind /\ call'[k].at # "free"
    <3>1. i \in Calls /\ call[i].at = "free"
      BY <2>1 DEF Free
    <3>2. \A k \in Calls : /\ Passed(call[k], c).kind = call[k].kind
                          /\ Passed(call[k], c).at = call[k].at
      BY <1>2, PassedTypes
    <3> QED
      BY <2>2, <3>1, <3>2
  <2>4. Searching => Searching'
    BY <2>1, <2>3, SearchingStays
  <2> QED
    BY <1>3, <2>1, <2>4
<1> QED
  BY <1>4, <1>5, <1>6, <1>7, <1>8, <1>9 DEF Elsewhere

LEMMA RebuildingAnswers ==
    ASSUME SidebarTypeOK, OrderIsIndexed, AnswerIsKnown, Rebuilding
    PROVE  AnswerIsKnown' /\ ModelIsResults'
<1>1. SidebarTypeOK' /\ Rebuild
  BY RebuildingTypes
<1>2. results' \in Table /\ older' \subseteq Chats
  BY <1>1 DEF SidebarTypeOK
<1>3. query' # NoQuery => model' = Ordered(results')
  BY <1>1, <1>2, RebuildProperties
<1>4. ModelIsResults'
  BY <1>3 DEF ModelIsResults
<1>5. CASE RebuildTimeout \/ \E f \in Filters : SetFilter(f)
  <2>1. UNCHANGED <<call, query, answered>>
    BY <1>5 DEF RebuildTimeout, SetFilter, search
  <2> QED
    BY <1>4, <2>1 DEF AnswerIsKnown, Searching
<1>6. CASE ClearSearch
  <2>1. query' = NoQuery /\ answered' = NoQuery
    BY <1>6 DEF ClearSearch
  <2> QED
    BY <1>4, <2>1 DEF AnswerIsKnown
<1>7. ASSUME NEW i \in Calls, OnSearch(i), call[i].kind = query
      PROVE  AnswerIsKnown'
  <2>1. query' = query /\ answered' = query /\ query \in Queries
    BY <1>7 DEF OnSearch
  <2> QED
    BY <2>1, QueriesAssumption DEF AnswerIsKnown
<1> QED
  BY <1>4, <1>5, <1>6, <1>7 DEF Rebuilding

LEMMA UpsertingAnswers ==
    ASSUME SidebarTypeOK, OrderIsIndexed, AnswerIsKnown, ModelIsResults, Upserting
    PROVE  AnswerIsKnown' /\ ModelIsResults'
<1>1. /\ model' = model /\ (queued' \/ ~queued)
      /\ UNCHANGED <<query, results, answered>>
  BY UpsertingProperties
<1>2. ModelIsResults'
  BY <1>1 DEF ModelIsResults
<1>3. CASE OnEvent
  <2>1. Head(feed).chat \in Chats /\ Since(Head(feed).chat)
    BY <1>3, NextEvent DEF OnEvent, ChatEvents
  <2>2. Searching => Searching'
    BY <1>1, <2>1, SinceKeepsCalls, SearchingStays
  <2> QED
    BY <1>1, <1>2, <2>2 DEF AnswerIsKnown
<1>4. ASSUME NEW i \in Calls, OnChats(i) PROVE AnswerIsKnown'
  <2>1. call' = [call EXCEPT ![i] = Free] /\ call[i].kind \notin Queries
    BY <1>4 DEF OnChats
  <2>2. call \in [Calls -> Call] /\ query \in Queries \cup {NoQuery}
    BY DEF SidebarTypeOK
  <2>3. query # NoQuery => \A k \in Calls : call[k].kind = query => call'[k] = call[k]
    BY <2>1, <2>2
  <2>4. query # NoQuery /\ Searching => Searching'
    BY <1>1, <2>3, SearchingStays
  <2> QED
    BY <1>1, <2>4 DEF AnswerIsKnown
<1> QED
  BY <1>2, <1>3, <1>4 DEF Upserting

LEMMA OutrunAnswers ==
    ASSUME SidebarTypeOK, AnswerIsKnown, ModelIsResults, Outrun
    PROVE  AnswerIsKnown' /\ ModelIsResults'
<1> PICK i \in Calls : OnSearch(i) /\ call[i].kind # query
  BY DEF Outrun
<1>1. UNCHANGED <<list, search>>
  BY OutrunTypes
<1>2. call' = [call EXCEPT ![i] = Free] /\ call \in [Calls -> Call]
  BY DEF OnSearch, SidebarTypeOK
<1>3. \A k \in Calls : call[k].kind = query => call'[k] = call[k]
  BY <1>2
<1>4. Searching => Searching'
  BY <1>1, <1>3, SearchingStays DEF search
<1> QED
  BY <1>1, <1>4 DEF AnswerIsKnown, ModelIsResults, list, search

LEMMA AnswerStep ==
    ASSUME SidebarTypeOK, OrderIsIndexed, AnswerIsKnown, ModelIsResults,
           [SidebarNext]_sidebarVars
    PROVE  AnswerIsKnown' /\ ModelIsResults'
<1>1. CASE UNCHANGED sidebarVars
  BY <1>1 DEF AnswerIsKnown, ModelIsResults, Searching, sidebarVars, list, search
<1> QED
  BY <1>1, SidebarSteps, ElsewhereAnswers, RebuildingAnswers, UpsertingAnswers, OutrunAnswers

-----------------------------------------------------------------------------
(* Index, replies and results against the table.                           *)

\* A row that was written is awaited.
LEMMA WriteIsCurrent ==
    ASSUME SidebarTypeOK, LastEventIsCurrent,
           IndexUnlessAwaited, RepliesUnlessAwaited, ResultsUnlessAwaited,
           NEW p \in Writers, NEW c \in Chats, NEW row \in Rows \cup {NoRow},
           WriteRow(p, c, row)
    PROVE  /\ LastEventIsCurrent'
           /\ IndexUnlessAwaited' /\ RepliesUnlessAwaited' /\ ResultsUnlessAwaited'
<1>1. table' = [table EXCEPT ![c] = row] /\ table \in Table
  BY DEF WriteRow, SidebarTypeOK
<1>2. \A d \in Chats : d # c => table'[d] = table[d]
  BY <1>1 DEF Table
<1>3. due' = due \cup {c} /\ UNCHANGED <<lost, feed, call, index, results, older, stale>>
  BY DEF WriteRow, list, search
<1>4. Awaited(c)' /\ \A d : Awaited(d) => Awaited(d)'
  BY <1>3 DEF Awaited
<1>5. LastEventIsCurrent'
  BY <1>2, <1>3 DEF LastEventIsCurrent
<1>6. IndexUnlessAwaited'
  BY <1>2, <1>3, <1>4 DEF IndexUnlessAwaited
<1>7. RepliesUnlessAwaited'
  BY <1>2, <1>3, <1>4 DEF RepliesUnlessAwaited, Listed
<1>8. ResultsUnlessAwaited'
  BY <1>2, <1>3, <1>4 DEF ResultsUnlessAwaited, Listed
<1> QED
  BY <1>5, <1>6, <1>7, <1>8

\* A row that nobody is told of leaves behind whoever has an older one.
LEMMA UnsaidIsCurrent ==
    ASSUME SidebarTypeOK, LastEventIsCurrent,
           IndexUnlessAwaited, RepliesUnlessAwaited, ResultsUnlessAwaited,
           NEW c \in Chats,
           \A d \in Chats : d # c => table'[d] = table[d],
           due' = due \ {c}, lost' = lost \cup {c}, stale' = stale \cup {c},
           older' = older \cup ({c} \cap Listed(results)),
           UNCHANGED <<feed, index, results>>,
           \A i \in Calls : call'[i].at = "read" =>
               \A d \in Listed(call'[i].rows) \ call'[i].since :
                   \/ call'[i].rows[d] = table'[d]
                   \/ /\ d # c
                      /\ call[i].at = "read" /\ call[i].rows = call'[i].rows
                      /\ d \in Listed(call[i].rows) \ call[i].since
    PROVE  /\ LastEventIsCurrent'
           /\ IndexUnlessAwaited' /\ RepliesUnlessAwaited' /\ ResultsUnlessAwaited'
<1>1. \A d : d # c => (Awaited(d)' <=> Awaited(d))
  BY DEF Awaited
<1>2. LastEventIsCurrent'
  BY DEF LastEventIsCurrent
<1>3. IndexUnlessAwaited'
  BY <1>1 DEF IndexUnlessAwaited
<1>4. RepliesUnlessAwaited'
  BY <1>1 DEF RepliesUnlessAwaited, Listed
<1>5. ResultsUnlessAwaited'
  BY <1>1 DEF ResultsUnlessAwaited, Listed
<1> QED
  BY <1>2, <1>3, <1>4, <1>5

\* Then replies that were read before are marked.
LEMMA SinceMarksReplies ==
    ASSUME SidebarTypeOK, NEW c \in Chats, Since(c), UNCHANGED table, NEW i \in Calls,
           call'[i].at = "read", NEW d \in Listed(call'[i].rows) \ call'[i].since
    PROVE  /\ d # c /\ call[i].at = "read" /\ call[i].rows = call'[i].rows
           /\ d \in Listed(call[i].rows) \ call[i].since
<1>1. /\ call'[i].at = call[i].at /\ call'[i].rows = call[i].rows
      /\ call'[i].since = IF c \in Listed(call[i].rows) THEN call[i].since \cup {c}
                                                        ELSE call[i].since
  BY SinceKeepsCalls
<1> QED
  BY <1>1

LEMMA ReadRowIsCurrent ==
    ASSUME SidebarTypeOK, LastEventIsCurrent,
           IndexUnlessAwaited, RepliesUnlessAwaited, ResultsUnlessAwaited,
           NEW p \in Writers, ReadRow(p)
    PROVE  /\ LastEventIsCurrent'
           /\ IndexUnlessAwaited' /\ RepliesUnlessAwaited' /\ ResultsUnlessAwaited'
<1>1. UNCHANGED <<table, feed, index, results>>
  BY DEF ReadRow, list
<1>2. CASE UNCHANGED <<due, lost, stale, call, older>>
  <2>1. \A d : Awaited(d)' <=> Awaited(d)
    BY <1>1, <1>2 DEF Awaited
  <2> QED
    BY <1>1, <1>2, <2>1
    DEF LastEventIsCurrent, IndexUnlessAwaited, RepliesUnlessAwaited, ResultsUnlessAwaited
<1>3. CASE Unsaid(pub[p].chat)
  <2>1. PICK c \in Chats : pub[p].chat = c
    BY DEF SidebarTypeOK, ReadRow, Quiet, Pub
  <2>2. /\ due' = due \ {c} /\ lost' = lost \cup {c} /\ stale' = stale \cup {c}
        /\ older' = older \cup ({c} \cap Listed(results)) /\ Since(c)
    BY <1>3, <2>1 DEF Unsaid, Since
  <2> QED
    BY <1>1, <2>2, UnsaidIsCurrent, SinceMarksReplies
<1> QED
  BY <1>2, <1>3 DEF ReadRow

LEMMA PublishIsCurrent ==
    ASSUME SidebarTypeOK, LastEventIsCurrent,
           IndexUnlessAwaited, RepliesUnlessAwaited, ResultsUnlessAwaited,
           NEW p \in Writers, Publish(p)
    PROVE  /\ LastEventIsCurrent'
           /\ IndexUnlessAwaited' /\ RepliesUnlessAwaited' /\ ResultsUnlessAwaited'
<1>1. UNCHANGED <<table, index, results>>
  BY DEF Publish, list
<1>2. PICK c \in Chats, row \in Rows \cup {NoRow} : pub[p].chat = c /\ pub[p].row = row
  BY DEF SidebarTypeOK, Publish, Quiet, Pub
<1>3. feed \in Seq(ChatEvents)
  BY DEF SidebarTypeOK, ChatEvents
<1>4. \/ /\ feed' = Append(feed, [chat |-> c, row |-> row])
         /\ due' = IF row = table[c] THEN due \ {c} ELSE due
         /\ lost' = IF row = table[c] THEN lost \ {c}
                    ELSE IF c \in due THEN lost ELSE lost \cup {c}
         /\ UNCHANGED <<stale, call, older>>
      \/ UNCHANGED feed /\ Unsaid(c)
      \/ UNCHANGED <<due, lost, stale, call, older, feed>>
  BY <1>2 DEF Publish
<1>5. CASE /\ feed' = Append(feed, [chat |-> c, row |-> row])
           /\ due' = IF row = table[c] THEN due \ {c} ELSE due
           /\ lost' = IF row = table[c] THEN lost \ {c}
                      ELSE IF c \in due THEN lost ELSE lost \cup {c}
           /\ UNCHANGED <<stale, call, older>>
  <2>1. /\ Len(feed') = Len(feed) + 1 /\ Len(feed) \in Nat
        /\ DOMAIN feed = 1..Len(feed) /\ DOMAIN feed' = 1..(Len(feed) + 1)
        /\ \A k \in DOMAIN feed : feed'[k] = feed[k]
        /\ feed'[Len(feed) + 1].chat = c /\ feed'[Len(feed) + 1].row = row
    BY <1>3, <1>5
  <2>2. Awaited(c)'
    BY <2>1 DEF Awaited
  <2>3. \A d : Awaited(d) => Awaited(d)'
    <3>1. \A d : d # c => (d \in due <=> d \in due')
      BY <1>5
    <3> QED
      BY <2>1, <2>2, <3>1 DEF Awaited
  <2>4. LastEventIsCurrent'
    <3> SUFFICES ASSUME NEW d \in Chats \ (due' \cup lost'), NEW k \in DOMAIN feed',
                        feed'[k].chat = d,
                        \A m \in DOMAIN feed' : m > k => feed'[m].chat # d
                 PROVE  feed'[k].row = table[d]
      BY <1>1 DEF LastEventIsCurrent
    <3>1. CASE k = Len(feed) + 1
      BY <1>5, <2>1, <3>1
    <3>2. CASE k \in DOMAIN feed
      <4>1. d # c
        BY <2>1, <3>2
      <4>2. d \in Chats \ (due \cup lost)
        BY <1>5, <4>1
      <4>3. feed[k].chat = d /\ \A m \in DOMAIN feed : m > k => feed[m].chat # d
        BY <2>1, <3>2
      <4> QED
        BY <2>1, <3>2, <4>2, <4>3 DEF LastEventIsCurrent
    <3> QED
      BY <2>1, <3>1, <3>2
  <2> QED
    BY <1>1, <1>5, <2>3, <2>4 DEF IndexUnlessAwaited, RepliesUnlessAwaited, ResultsUnlessAwaited
<1>6. CASE UNCHANGED feed /\ Unsaid(c)
  <2>1. /\ due' = due \ {c} /\ lost' = lost \cup {c} /\ stale' = stale \cup {c}
        /\ older' = older \cup ({c} \cap Listed(results)) /\ Since(c)
    BY <1>6 DEF Unsaid, Since
  <2> QED
    BY <1>1, <1>2, <1>6, <2>1, UnsaidIsCurrent, SinceMarksReplies
<1>7. CASE UNCHANGED <<due, lost, stale, call, older, feed>>
  <2>1. \A d : Awaited(d)' <=> Awaited(d)
    BY <1>7 DEF Awaited
  <2> QED
    BY <1>1, <1>7, <2>1
    DEF LastEventIsCurrent, IndexUnlessAwaited, RepliesUnlessAwaited, ResultsUnlessAwaited
<1> QED
  BY <1>4, <1>5, <1>6, <1>7

LEMMA StartIsCurrent ==
    ASSUME SidebarTypeOK, LastEventIsCurrent,
           IndexUnlessAwaited, RepliesUnlessAwaited, ResultsUnlessAwaited,
           NEW i \in Calls, NEW c \in Chats, NEW row \in Rows, NewChat(i, c, row)
    PROVE  /\ LastEventIsCurrent'
           /\ IndexUnlessAwaited' /\ RepliesUnlessAwaited' /\ ResultsUnlessAwaited'
<1>1. UNCHANGED <<feed, index, results>> /\ call \in [Calls -> Call] /\ table \in Table
  BY DEF NewChat, SidebarTypeOK, list
<1>2. /\ Started(c, row).rows[c] = row
      /\ \A d \in Chats : d # c => Started(c, row).rows[d] = NoRow
  BY StartedTypes
<1>3. CASE /\ row = table[c] /\ call' = [call EXCEPT ![i] = Started(c, row)]
           /\ UNCHANGED <<table, due, lost, pub, older, stale>>
  <2>1. \A d : Awaited(d)' <=> Awaited(d)
    BY <1>1, <1>3 DEF Awaited
  <2>2. LastEventIsCurrent' /\ IndexUnlessAwaited' /\ ResultsUnlessAwaited'
    BY <1>1, <1>3, <2>1 DEF LastEventIsCurrent, IndexUnlessAwaited, ResultsUnlessAwaited
  <2> SUFFICES ASSUME NEW k \in Calls, call'[k].at = "read",
                      NEW d \in Listed(call'[k].rows) \ call'[k].since
               PROVE  Awaited(d) \/ call'[k].rows[d] = table[d]
    BY <1>3, <2>1, <2>2 DEF RepliesUnlessAwaited
  <2>3. CASE k = i
    <3>1. call'[k] = Started(c, row)
      BY <1>1, <1>3, <2>3
    <3> QED
      BY <1>2, <1>3, <3>1 DEF Listed
  <2>4. CASE k # i
    <3>1. call'[k] = call[k]
      BY <1>1, <1>3, <2>4
    <3> QED
      BY <3>1 DEF RepliesUnlessAwaited
  <2> QED
    BY <2>3, <2>4
<1>4. CASE /\ table' = [table EXCEPT ![c] = row]
           /\ due' = due \ {c} /\ lost' = lost \cup {c} /\ stale' = stale \cup {c}
           /\ older' = older \cup ({c} \cap Listed(results))
           /\ call' = [[k \in Calls |-> Passed(call[k], c)] EXCEPT ![i] = Started(c, row)]
  <2>1. table'[c] = row /\ \A d \in Chats : d # c => table'[d] = table[d]
    BY <1>1, <1>4 DEF Table
  <2>2. ASSUME NEW k \in Calls, call'[k].at = "read",
               NEW d \in Listed(call'[k].rows) \ call'[k].since
        PROVE  \/ call'[k].rows[d] = table'[d]
               \/ /\ d # c
                  /\ call[k].at = "read" /\ call[k].rows = call'[k].rows
                  /\ d \in Listed(call[k].rows) \ call[k].since
    <3>1. CASE k = i
      <4>1. call'[k] = Started(c, row)
        BY <1>4, <3>1
      <4> QED
        BY <1>2, <2>1, <2>2, <4>1 DEF Listed
    <3>2. CASE k # i
      <4>1. call'[k] = Passed(call[k], c) /\ call[k] \in Call
        BY <1>1, <1>4, <3>2
      <4>2. /\ Passed(call[k], c).at = call[k].at /\ Passed(call[k], c).rows = call[k].rows
            /\ Passed(call[k], c).since = IF c \in Listed(call[k].rows)
                                          THEN call[k].since \cup {c} ELSE call[k].since
        BY <4>1, PassedTypes
      <4> QED
        BY <2>2, <4>1, <4>2
    <3> QED
      BY <3>1, <3>2
  <2> QED
    BY <1>1, <1>4, <2>1, <2>2, UnsaidIsCurrent
<1> QED
  BY <1>3, <1>4 DEF NewChat

\* Who is to publish a row stays about to, until the row is published, told to
\* nobody, or another is to be.
LEMMA DueStep ==
    ASSUME SidebarTypeOK, DueIsPending, [SidebarNext]_sidebarVars
    PROVE  DueIsPending'
<1> USE DEF DueIsPending, WillPublish
<1>1. CASE UNCHANGED daemon
  BY <1>1 DEF daemon
<1>2. ASSUME NEW p \in Writers, NEW c \in Chats, NEW row \in Rows \cup {NoRow},
             WriteRow(p, c, row)
      PROVE  DueIsPending'
  <2>1. /\ pub \in [Writers -> Pub \cup {Quiet}] /\ table \in Table
        /\ pub[p] = Quiet /\ table' = [table EXCEPT ![c] = row] /\ due' = due \cup {c}
        /\ pub' = [pub EXCEPT ![p] = [at |-> IF row = NoRow THEN "read" ELSE "wrote",
                                      chat |-> c, row |-> NoRow]]
    BY <1>2 DEF WriteRow, SidebarTypeOK
  <2>2. pub'[p] # Quiet /\ pub'[p].chat = c /\ table'[c] = row
        /\ pub'[p].at = (IF row = NoRow THEN "read" ELSE "wrote") /\ pub'[p].row = NoRow
    BY <2>1 DEF Quiet, Table
  <2>3. \E q \in Writers : WillPublish(q, c)'
    BY <2>2
  <2>4. ASSUME NEW d \in due, d # c PROVE \E q \in Writers : WillPublish(q, d)'
    <3>1. PICK q \in Writers : WillPublish(q, d)
      OBVIOUS
    <3>2. q # p /\ pub'[q] = pub[q]
      BY <2>1, <3>1
    <3>3. table'[d] = table[d]
      BY <2>1, <2>4 DEF SidebarTypeOK, Table
    <3> QED
      BY <3>1, <3>2, <3>3
  <2> QED
    BY <2>1, <2>3, <2>4
<1>3. ASSUME NEW p \in Writers, ReadRow(p) PROVE DueIsPending'
  <2> DEFINE c == pub[p].chat
  <2>1. /\ pub \in [Writers -> Pub \cup {Quiet}] /\ pub[p].at = "wrote"
        /\ pub[p] \in Pub /\ c \in Chats /\ table' = table
    BY <1>3 DEF ReadRow, SidebarTypeOK, Quiet, Pub
  <2>2. CASE /\ pub' = [pub EXCEPT ![p] = [at |-> "read", chat |-> c, row |-> table[c]]]
             /\ due' = due
    <3>1. pub'[p].at = "read" /\ pub'[p].chat = c /\ pub'[p].row = table[c]
      BY <2>1, <2>2
    <3>2. pub'[p] # Quiet
      BY <3>1 DEF Quiet
    <3>3. \A q \in Writers : q # p => pub'[q] = pub[q]
      BY <2>1, <2>2
    <3> SUFFICES ASSUME NEW d \in due PROVE \E q \in Writers : WillPublish(q, d)'
      BY <2>2
    <3>4. PICK q \in Writers : WillPublish(q, d)
      OBVIOUS
    <3>5. WillPublish(q, d)'
      BY <2>1, <3>1, <3>2, <3>3, <3>4
    <3> QED
      BY <3>5
  <2>3. CASE pub' = [pub EXCEPT ![p] = Quiet] /\ due' \subseteq due
             /\ (table[c] = NoRow \/ c \notin due')
    <3>1. \A q \in Writers : q # p => pub'[q] = pub[q]
      BY <2>1, <2>3
    <3> QED
      BY <2>1, <2>3, <3>1
  <2> QED
    BY <1>3, <2>2, <2>3 DEF ReadRow, Unsaid
<1>4. ASSUME NEW p \in Writers, Publish(p) PROVE DueIsPending'
  <2> DEFINE c == pub[p].chat
  <2>1. /\ pub \in [Writers -> Pub \cup {Quiet}] /\ pub[p].at = "read" /\ table' = table
        /\ pub' = [pub EXCEPT ![p] = Quiet]
    BY <1>4 DEF Publish, SidebarTypeOK
  <2>2. due' \subseteq due /\ (pub[p].row # table[c] \/ c \notin due')
    BY <1>4 DEF Publish, Unsaid
  <2>3. \A q \in Writers : q # p => pub'[q] = pub[q]
    BY <2>1
  <2> QED
    BY <2>1, <2>2, <2>3
<1>5. ASSUME NEW i \in Calls, NEW c \in Chats, NEW row \in Rows, NewChat(i, c, row)
      PROVE  DueIsPending'
  <2>1. /\ pub' = pub
        /\ \/ table' = table /\ due' = due
           \/ table' = [table EXCEPT ![c] = row] /\ due' = due \ {c}
    BY <1>5 DEF NewChat
  <2>2. \A d \in due' : d \in due /\ table'[d] = table[d]
    BY <2>1 DEF SidebarTypeOK, Table
  <2> QED
    BY <2>1, <2>2
<1>6. SidebarNext =>
          \/ UNCHANGED daemon
          \/ \E p \in Writers : PublisherNext(p)
          \/ \E i \in Calls, c \in Chats, row \in Rows : NewChat(i, c, row)
  BY DEF SidebarNext, RebuildTimeout, SetFilter, Read, Fail, OnChats, OnSearch, LoadChats,
         OnEvent, Search, ClearSearch
<1> QED
  BY <1>1, <1>2, <1>3, <1>4, <1>5, <1>6 DEF PublisherNext, sidebarVars, daemon

\* An event that was not lost brings the row of the table.
LEMMA EventIsCurrent ==
    ASSUME SidebarTypeOK, LastEventIsCurrent,
           IndexUnlessAwaited, RepliesUnlessAwaited, ResultsUnlessAwaited, OnEvent
    PROVE  /\ LastEventIsCurrent'
           /\ IndexUnlessAwaited' /\ RepliesUnlessAwaited' /\ ResultsUnlessAwaited'
<1>1. feed # <<>> /\ feed' = Tail(feed) /\ feed \in Seq(ChatEvents)
  BY DEF OnEvent, SidebarTypeOK, ChatEvents
<1>2. PICK c \in Chats, row \in Rows \cup {NoRow} : Head(feed).chat = c /\ Head(feed).row = row
  BY <1>1, NextEvent DEF ChatEvents
<1>3. UNCHANGED <<table, due, lost, results>>
  BY DEF OnEvent, daemon
<1>4. Since(c) /\ stale' = IF c \in lost THEN stale \cup {c} ELSE stale \ {c}
  BY <1>2 DEF OnEvent
<1>5. /\ Len(feed) \in Nat \ {0} /\ DOMAIN feed = 1..Len(feed)
      /\ DOMAIN feed' = 1..(Len(feed) - 1)
      /\ \A k \in 1..(Len(feed) - 1) : feed'[k] = feed[k + 1]
      /\ feed[1] = Head(feed)
  BY <1>1
<1>6. index' = [index EXCEPT ![c] = row]
  <2>1. index \in Table
    BY DEF SidebarTypeOK
  <2>2. CASE row = NoRow
    BY <1>2, <2>2 DEF OnEvent, RemoveChat
  <2>3. CASE row # NoRow
    <3> DEFINE found == [Empty EXCEPT ![c] = row]
    <3>1. index' = [d \in Chats |-> IF found[d] # NoRow THEN found[d] ELSE index[d]]
      BY <1>2, <2>3 DEF OnEvent, Upsert
    <3>2. \A d \in Chats : found[d] = IF d = c THEN row ELSE NoRow
      BY <1>2 DEF Empty
    <3> HIDE DEF found
    <3>3. index' = [d \in Chats |-> IF d = c THEN row ELSE index[d]]
      BY <2>3, <3>1, <3>2
    <3> QED
      BY <2>1, <3>3 DEF Table
  <2> QED
    BY <2>2, <2>3
<1>7. index'[c] = row /\ \A d \in Chats : d # c => index'[d] = index[d]
  BY <1>2, <1>6 DEF SidebarTypeOK, Table
<1>8. feed[1].chat = c /\ feed[1].row = row
  BY <1>2, <1>5
<1>9. \A d : d # c /\ Awaited(d) => Awaited(d)'
  <2> SUFFICES ASSUME NEW d, d # c, NEW k \in DOMAIN feed, feed[k].chat = d PROVE Awaited(d)'
    BY <1>3 DEF Awaited
  <2>1. k # 1
    BY <1>8
  <2>2. k - 1 \in DOMAIN feed' /\ feed'[k - 1] = feed[k]
    BY <1>5, <2>1
  <2> QED
    BY <2>2 DEF Awaited
<1>10. c \notin lost => Awaited(c)' \/ row = table[c]
  <2> SUFFICES ASSUME c \notin lost, ~Awaited(c)' PROVE row = table[c]
    OBVIOUS
  <2>1. \A m \in DOMAIN feed : m > 1 => feed[m].chat # c
    <3> SUFFICES ASSUME NEW m \in DOMAIN feed, m > 1, feed[m].chat = c PROVE FALSE
      OBVIOUS
    <3>1. m - 1 \in DOMAIN feed' /\ feed'[m - 1] = feed[m]
      BY <1>5
    <3> QED
      BY <3>1 DEF Awaited
  <2>2. 1 \in DOMAIN feed /\ c \notin due
    BY <1>3, <1>5 DEF Awaited
  <2> QED
    BY <1>2, <1>8, <2>1, <2>2 DEF LastEventIsCurrent
<1>11. LastEventIsCurrent'
  <2> SUFFICES ASSUME NEW d \in Chats \ (due \cup lost), NEW k \in DOMAIN feed',
                      feed'[k].chat = d,
                      \A m \in DOMAIN feed' : m > k => feed'[m].chat # d
               PROVE  feed'[k].row = table[d]
    BY <1>3 DEF LastEventIsCurrent
  <2>1. k + 1 \in DOMAIN feed /\ feed'[k] = feed[k + 1]
    BY <1>5
  <2>2. \A m \in DOMAIN feed : m > k + 1 => feed[m].chat # d
    <3> SUFFICES ASSUME NEW m \in DOMAIN feed, m > k + 1 PROVE feed[m].chat # d
      OBVIOUS
    <3>1. m - 1 \in DOMAIN feed' /\ m - 1 > k /\ feed'[m - 1] = feed[m]
      BY <1>5
    <3> QED
      BY <3>1
  <2> QED
    BY <2>1, <2>2 DEF LastEventIsCurrent
<1>12. IndexUnlessAwaited'
  <2> SUFFICES ASSUME NEW d \in Chats \ stale' PROVE Awaited(d)' \/ index'[d] = table[d]
    BY <1>3 DEF IndexUnlessAwaited
  <2>1. CASE d = c
    <3>1. c \notin lost
      BY <1>4, <2>1
    <3> QED
      BY <1>7, <1>10, <2>1, <3>1
  <2>2. CASE d # c
    BY <1>4, <1>7, <1>9, <2>2 DEF IndexUnlessAwaited
  <2> QED
    BY <2>1, <2>2
<1>13. RepliesUnlessAwaited'
  <2> SUFFICES ASSUME NEW i \in Calls, call'[i].at = "read",
                      NEW d \in Listed(call'[i].rows) \ call'[i].since
               PROVE  Awaited(d)' \/ call'[i].rows[d] = table[d]
    BY <1>3 DEF RepliesUnlessAwaited
  <2>1. call'[i].at = call[i].at /\ call'[i].rows = call[i].rows
        /\ call'[i].since = IF c \in Listed(call[i].rows) THEN call[i].since \cup {c}
                                                          ELSE call[i].since
    BY <1>2, <1>4, SinceKeepsCalls
  <2>2. d # c /\ d \in Listed(call[i].rows) \ call[i].since
    BY <2>1
  <2> QED
    BY <1>9, <2>1, <2>2 DEF RepliesUnlessAwaited
<1>14. ResultsUnlessAwaited'
  <2>1. older' = older \cup ({c} \cap Listed(results))
    BY <1>4 DEF Since
  <2> QED
    BY <1>3, <1>9, <2>1 DEF ResultsUnlessAwaited
<1> QED
  BY <1>11, <1>12, <1>13, <1>14

\* A reply is as current as it was read.
LEMMA ReplyIsCurrent ==
    ASSUME SidebarTypeOK, LastEventIsCurrent,
           IndexUnlessAwaited, RepliesUnlessAwaited, ResultsUnlessAwaited,
           NEW i \in Calls, OnChats(i)
    PROVE  /\ LastEventIsCurrent'
           /\ IndexUnlessAwaited' /\ RepliesUnlessAwaited' /\ ResultsUnlessAwaited'
<1> DEFINE found == call[i].rows
           told == Listed(found)
<1>1. /\ UNCHANGED <<table, due, lost, feed, results, older>>
      /\ call[i].at = "read" /\ call' = [call EXCEPT ![i] = Free]
      /\ stale' = (stale \ told) \cup (told \cap call[i].since)
      /\ index' = [c \in Chats |-> IF found[c] # NoRow THEN found[c] ELSE index[c]]
  BY DEF OnChats, Upsert, daemon, search
<1>2. \A d : Awaited(d)' <=> Awaited(d)
  BY <1>1 DEF Awaited
<1>3. LastEventIsCurrent' /\ ResultsUnlessAwaited'
  BY <1>1, <1>2 DEF LastEventIsCurrent, ResultsUnlessAwaited
<1>4. IndexUnlessAwaited'
  <2> SUFFICES ASSUME NEW d \in Chats \ stale' PROVE Awaited(d) \/ index'[d] = table[d]
    BY <1>1, <1>2 DEF IndexUnlessAwaited
  <2>1. CASE d \in told
    <3>1. d \in Listed(call[i].rows) \ call[i].since
      BY <1>1, <2>1
    <3>2. index'[d] = call[i].rows[d]
      BY <1>1, <2>1 DEF Listed
    <3> QED
      BY <1>1, <3>1, <3>2 DEF RepliesUnlessAwaited
  <2>2. CASE d \notin told
    <3>1. index'[d] = index[d] /\ d \notin stale
      BY <1>1, <2>2 DEF Listed
    <3> QED
      BY <3>1 DEF IndexUnlessAwaited
  <2> QED
    BY <2>1, <2>2
<1>5. RepliesUnlessAwaited'
  <2>1. \A k \in Calls : call'[k].at = "read" => call'[k] = call[k]
    BY <1>1 DEF SidebarTypeOK, Free
  <2> QED
    BY <1>1, <1>2, <2>1 DEF RepliesUnlessAwaited
<1> QED
  BY <1>3, <1>4, <1>5

\* A search result is written over the index as old as it is.
LEMMA RebuildIsCurrent ==
    ASSUME SidebarTypeOK, LastEventIsCurrent,
           IndexUnlessAwaited, RepliesUnlessAwaited, ResultsUnlessAwaited, Rebuilding
    PROVE  /\ LastEventIsCurrent'
           /\ IndexUnlessAwaited' /\ RepliesUnlessAwaited' /\ ResultsUnlessAwaited'
<1>1. UNCHANGED <<table, due, lost, feed>> /\ Rebuild
  BY DEF Rebuilding, RebuildTimeout, SetFilter, ClearSearch, OnSearch, daemon
<1>2. \A d : Awaited(d)' <=> Awaited(d)
  BY <1>1 DEF Awaited
<1>3. LastEventIsCurrent'
  BY <1>1 DEF LastEventIsCurrent
<1>4. RepliesUnlessAwaited' /\ ResultsUnlessAwaited'
  <2>1. CASE RebuildTimeout \/ \E f \in Filters : SetFilter(f)
    <3>1. UNCHANGED <<call, results, older>>
      BY <2>1 DEF RebuildTimeout, SetFilter, search
    <3> QED
      BY <1>1, <1>2, <3>1 DEF RepliesUnlessAwaited, ResultsUnlessAwaited
  <2>2. CASE ClearSearch
    <3>1. UNCHANGED call /\ Listed(results') = {}
      BY <2>2 DEF ClearSearch, Listed, Empty
    <3> QED
      BY <1>1, <1>2, <3>1 DEF RepliesUnlessAwaited, ResultsUnlessAwaited
  <2>3. ASSUME NEW i \in Calls, OnSearch(i), call[i].kind = query
        PROVE  RepliesUnlessAwaited' /\ ResultsUnlessAwaited'
    <3>1. /\ call[i].at = "read" /\ call' = [call EXCEPT ![i] = Free]
          /\ results' = call[i].rows /\ older' = call[i].since
      BY <2>3 DEF OnSearch
    <3>2. \A k \in Calls : call'[k].at = "read" => call'[k] = call[k]
      BY <3>1 DEF SidebarTypeOK, Free
    <3> QED
      BY <1>1, <1>2, <3>1, <3>2 DEF RepliesUnlessAwaited, ResultsUnlessAwaited
  <2> QED
    BY <2>1, <2>2, <2>3 DEF Rebuilding
<1>5. IndexUnlessAwaited'
  <2>1. CASE query' = NoQuery
    <3>1. UNCHANGED <<index, stale>>
      BY <1>1, <2>1 DEF Rebuild
    <3> QED
      BY <1>1, <1>2, <3>1 DEF IndexUnlessAwaited
  <2>2. CASE query' # NoQuery
    <3> DEFINE shown == Listed(results') \cap Listed(index)
    <3>1. /\ index' = [c \in Chats |-> IF c \in shown THEN results'[c] ELSE index[c]]
          /\ stale' = stale \cup (shown \cap older')
      BY <1>1, <2>2 DEF Rebuild
    <3> SUFFICES ASSUME NEW d \in Chats \ stale' PROVE Awaited(d)' \/ index'[d] = table'[d]
      BY DEF IndexUnlessAwaited
    <3>2. CASE d \in shown
      BY <1>4, <3>1, <3>2 DEF ResultsUnlessAwaited
    <3>3. CASE d \notin shown
      BY <1>1, <1>2, <3>1, <3>3 DEF IndexUnlessAwaited
    <3> QED
      BY <3>2, <3>3
  <2> QED
    BY <2>1, <2>2
<1> QED
  BY <1>3, <1>4, <1>5

\* Reading, failing and asking change no row that was read before.
LEMMA CallsAreCurrent ==
    ASSUME SidebarTypeOK, LastEventIsCurrent,
           IndexUnlessAwaited, RepliesUnlessAwaited, ResultsUnlessAwaited,
           \/ Outrun
           \/ \E i \in Calls : Read(i) \/ Fail(i)
           \/ \E i, j \in Calls : LoadChats(i, j)
           \/ \E i \in Calls, q \in Queries : Search(i, q)
    PROVE  /\ LastEventIsCurrent'
           /\ IndexUnlessAwaited' /\ RepliesUnlessAwaited' /\ ResultsUnlessAwaited'
<1>1. UNCHANGED <<table, due, lost, feed, index, stale, results, older>>
  BY DEF Outrun, OnSearch, Read, Fail, LoadChats, Search, daemon, list, search
<1>2. \A d : Awaited(d)' <=> Awaited(d)
  BY <1>1 DEF Awaited
<1>3. LastEventIsCurrent' /\ IndexUnlessAwaited' /\ ResultsUnlessAwaited'
  BY <1>1, <1>2 DEF LastEventIsCurrent, IndexUnlessAwaited, ResultsUnlessAwaited
<1>4. call \in [Calls -> Call]
  BY DEF SidebarTypeOK
<1>5. ASSUME \A k \in Calls : call'[k].at = "read" => call'[k] = call[k]
      PROVE  RepliesUnlessAwaited'
  BY <1>1, <1>2, <1>5 DEF RepliesUnlessAwaited
<1>6. CASE Outrun \/ \E i \in Calls : Fail(i)
  <2>1. PICK i \in Calls : call' = [call EXCEPT ![i] = Free]
    BY <1>6 DEF Outrun, OnSearch, Fail
  <2>2. \A k \in Calls : call'[k].at = "read" => call'[k] = call[k]
    BY <1>4, <2>1 DEF Free
  <2> QED
    BY <1>3, <1>5, <2>2
<1>7. ASSUME NEW i \in Calls, Read(i) PROVE RepliesUnlessAwaited'
  <2>1. PICK answer \in Table :
            /\ call' = [call EXCEPT ![i].at = "read", ![i].rows = answer]
            /\ \A c \in Listed(answer) : answer[c] = table[c]
    BY <1>7, ReadProperties
  <2>2. call'[i].rows = answer
    BY <1>4, <2>1 DEF Call
  <2>3. \A k \in Calls : k # i => call'[k] = call[k]
    BY <1>4, <2>1
  <2> SUFFICES ASSUME NEW k \in Calls, call'[k].at = "read",
                      NEW d \in Listed(call'[k].rows) \ call'[k].since
               PROVE  Awaited(d) \/ call'[k].rows[d] = table[d]
    BY <1>1, <1>2 DEF RepliesUnlessAwaited
  <2>4. CASE k = i
    BY <2>1, <2>2, <2>4
  <2>5. CASE k # i
    BY <2>3, <2>5 DEF RepliesUnlessAwaited
  <2> QED
    BY <2>4, <2>5
<1>8. CASE \E i, j \in Calls : LoadChats(i, j)
  <2>1. PICK i \in Calls, j \in Calls :
            call' = [call EXCEPT ![i] = Ask("active"), ![j] = Ask("archived")]
    BY <1>8 DEF LoadChats
  <2>2. Ask("active").at = "asked" /\ Ask("archived").at = "asked"
    BY DEF Ask, Free
  <2>3. \A k \in Calls : call'[k].at = "read" => call'[k] = call[k]
    BY <1>4, <2>1, <2>2
  <2> QED
    BY <1>3, <1>5, <2>3
<1>9. CASE \E i \in Calls, q \in Queries : Search(i, q)
  <2>1. PICK i \in Calls, q \in Queries : call' = [call EXCEPT ![i] = Ask(q)]
    BY <1>9 DEF Search
  <2>2. Ask(q).at = "asked"
    BY DEF Ask, Free
  <2>3. \A k \in Calls : call'[k].at = "read" => call'[k] = call[k]
    BY <1>4, <2>1, <2>2
  <2> QED
    BY <1>3, <1>5, <2>3
<1> QED
  BY <1>3, <1>6, <1>7, <1>8, <1>9

LEMMA CurrencyStep ==
    ASSUME SidebarTypeOK, LastEventIsCurrent,
           IndexUnlessAwaited, RepliesUnlessAwaited, ResultsUnlessAwaited,
           [SidebarNext]_sidebarVars
    PROVE  /\ LastEventIsCurrent'
           /\ IndexUnlessAwaited' /\ RepliesUnlessAwaited' /\ ResultsUnlessAwaited'
<1>1. CASE UNCHANGED sidebarVars
  BY <1>1
  DEF LastEventIsCurrent, IndexUnlessAwaited, RepliesUnlessAwaited, ResultsUnlessAwaited,
      Awaited, sidebarVars, daemon, list, search
<1>2. CASE Elsewhere
  BY <1>2, WriteIsCurrent, ReadRowIsCurrent, PublishIsCurrent, StartIsCurrent, CallsAreCurrent
  DEF Elsewhere, PublisherNext
<1>3. CASE Upserting
  BY <1>3, EventIsCurrent, ReplyIsCurrent DEF Upserting
<1>4. CASE Rebuilding \/ Outrun
  BY <1>4, RebuildIsCurrent, CallsAreCurrent
<1> QED
  BY <1>1, <1>2, <1>3, <1>4, SidebarSteps

-----------------------------------------------------------------------------
LEMMA SidebarIInvHolds == SidebarSpec => []SidebarIInv
<1>1. SidebarIInv /\ [SidebarNext]_sidebarVars => SidebarIInv'
  BY ListStep, AnswerStep, DueStep, CurrencyStep DEF SidebarIInv
<1> QED
  BY <1>1, SidebarInitIInv, PTL DEF SidebarSpec

\* The table, the calls in flight, the index and the list model stay well typed
\* (window.go), for any finite set of chats and any number of calls.
THEOREM SidebarTypeCorrectness == SidebarSpec => []SidebarTypeOK
  BY SidebarIInvHolds, PTL DEF SidebarIInv

\* Whatever replies, events, searches and tab switches come in whatever order, a
\* list with no rebuild pending shows exactly the chats of the selected tab, in
\* order (rebuildChatModel and spliceRange, window.go).
THEOREM ModelAlwaysFollowsIndex == SidebarSpec => []ModelFollowsIndex
  BY SidebarIInvHolds, PTL DEF SidebarIInv

\* Once the calls of the current query have come back the list is the results of
\* that query: a slower earlier one never overwrites them (setupSearch, window.go).
THEOREM ListAlwaysAnswersQuery == SidebarSpec => []ListAnswersQuery
<1>1. SidebarIInv => ListAnswersQuery
  BY DEF SidebarIInv, AnswerIsKnown, ModelIsResults, ListAnswersQuery
<1> QED
  BY <1>1, SidebarIInvHolds, PTL

\* Once the goroutines of the daemon have published a chat and the events are
\* handled the index has the row of the table, but for chats that a reply, a
\* result, a lost event or one published late left behind (publishChat,
\* session.go; upsertChat, window.go).
THEOREM IndexAlwaysCurrent == SidebarSpec => []IndexIsCurrent
<1>1. SidebarIInv => IndexIsCurrent
  <2> SUFFICES ASSUME SidebarIInv, feed = <<>>, NEW c \in Chats \ stale,
                      \A p \in Writers : pub[p] # Quiet => pub[p].chat # c
               PROVE  index[c] = table[c]
    BY DEF IndexIsCurrent
  <2>1. c \notin due
    BY DEF SidebarIInv, DueIsPending, WillPublish
  <2> QED
    BY <2>1 DEF SidebarIInv, IndexUnlessAwaited, Awaited
<1> QED
  BY <1>1, SidebarIInvHolds, PTL
=============================================================================
