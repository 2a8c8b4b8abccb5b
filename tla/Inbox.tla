------------------------------- MODULE Inbox --------------------------------
(***************************************************************************)
(* The chats and messages tables (apps/daemon/store/store.go) for one      *)
(* contact that WhatsApp addresses both by its phone number and by a LID,  *)
(* and the goroutines that write them: the event handlers, the history     *)
(* worker, the reconcile passes and the RPCs (apps/daemon/wa/session.go,   *)
(* actions.go, names.go, history.go, apps/daemon/service/service.go).      *)
(*                                                                         *)
(* One SQL statement or transaction is one step: the writer connection is  *)
(* single, but nothing spans the statements of a handler.  A message is    *)
(* its id; ids follow the messages' timestamps.  A statement may fail and  *)
(* the daemon may die between two of them.  Names, updated_at, media and   *)
(* the delivery status (module Delivery) are left out.                     *)
(***************************************************************************)
EXTENDS Integers, FiniteSets

CONSTANTS
    NumMsgs,    \* messages 1..NumMsgs, in timestamp order
    Outgoing,   \* those sent by the user, on this device or on another
    Events,     \* the goroutine of whatsmeow's event handler
    History,    \* the history worker
    Passes,     \* goroutines running reconcileChats
    Flags,      \* the flags an instance varies, of "pinned", "archived", "muted"
    Rpcs,       \* RPC goroutines that may run at once (bound)
    MaxUnread,  \* bound on the unread counter a live message may raise
    MaxBusy     \* goroutines in the middle of a handler at once (bound)

Msgs == 1..NumMsgs
NoText == 0

ASSUME NumMsgsAssumption == NumMsgs \in Nat \ {0}
ASSUME OutgoingAssumption == Outgoing \subseteq Msgs
ASSUME FlagsAssumption == Flags \subseteq {"pinned", "archived", "muted"}
ASSUME MaxUnreadAssumption == MaxUnread \in Nat
ASSUME MaxBusyAssumption == MaxBusy \in Nat
ASSUME ProcsAssumption ==
    /\ Events # History
    /\ {Events, History} \cap (Passes \cup Rpcs) = {}
    /\ Passes \cap Rpcs = {}

VARIABLES
    known,    \* whatsmeow's store maps the LID to the phone number
    rows,     \* addresses with a row in chats
    chat,     \* the row of each address
    home,     \* messages.chat_jid, "absent" when there is no row
    proc,     \* what each goroutine is doing
    untouched \* history: messages of a contact without a row whose handler
              \* ended, by an error or with the daemon, before TouchChat

vars == <<known, rows, chat, home, proc, untouched>>

Addrs == {"pn", "lid"}
Procs == {Events, History} \cup Passes \cup Rpcs
Row == [unread : Nat, flags : SUBSET Flags, preview : Msgs \cup {NoText}]
EmptyRow == [unread |-> 0, flags |-> {}, preview |-> NoText]

\* "insert", "network" and "touch" while a message is handled or sent; "delete"
\* and "refresh" while one is removed; "create", "clear", "sync" and "merge"
\* before the statement of StartChat, GetMessages, the history worker and a
\* reconcile pass.
Pcs == {"idle", "insert", "network", "touch", "delete", "refresh",
        "create", "clear", "sync", "merge"}

TypeOK ==
    /\ known \in BOOLEAN
    /\ rows \subseteq Addrs
    /\ chat \in [Addrs -> Row]
    /\ home \in [Msgs -> Addrs \cup {"absent"}]
    /\ proc \in [Procs -> [pc : Pcs, msg : Msgs, addr : Addrs]]
    /\ untouched \subseteq Msgs

At(p, step) == proc[p].pc = step
Run(p, step, m, a) ==
    /\ Cardinality({q \in Procs : ~At(q, "idle")}) < MaxBusy
    /\ proc' = [proc EXCEPT ![p] = [pc |-> step, msg |-> m, addr |-> a]]
Goto(p, step) == proc' = [proc EXCEPT ![p].pc = step]
Idle == [pc |-> "idle", msg |-> 1, addr |-> "pn"]
Stop(p) == proc' = [proc EXCEPT ![p] = Idle]

\* The row a statement leaves at an address.
Write(a, row) ==
    /\ rows' = rows \cup {a}
    /\ untouched' = {}
    /\ chat' = [chat EXCEPT ![a] = row]

\* canonicalChatJID.
Canonical(a) == IF known THEN "pn" ELSE a

InChat(a, where) == {m \in Msgs : where[m] = a}

\* refreshLastMessageTx: the newest message's text, or what was there.
Refreshed(a, where, preview) ==
    IF InChat(a, where) = {} THEN preview
    ELSE CHOOSE m \in InChat(a, where) : \A n \in InChat(a, where) : n <= m

\* External: whatsmeow learns which phone number the LID stands for.
Learn ==
    /\ ~known
    /\ known' = TRUE
    /\ UNCHANGED <<rows, chat, home, proc, untouched>>

-----------------------------------------------------------------------------
(* Messages: persistMessage for live ones (also those sent from another    *)
(* device, and redeliveries), SendText for the user's.                     *)

LiveMessage(m, a) ==
    /\ At(Events, "idle")
    /\ \A b \in Addrs : chat[b].unread < MaxUnread
    /\ Run(Events, "insert", m, Canonical(a))
    /\ UNCHANGED <<known, rows, chat, home, untouched>>

\* SendText stores under the address the client named, a chat it shows.
SendText(p, m, a) ==
    /\ At(p, "idle")
    /\ m \in Outgoing /\ home[m] = "absent"
    /\ a \in rows
    /\ Run(p, "insert", m, a)
    /\ UNCHANGED <<known, rows, chat, home, untouched>>

\* InsertMessage ignores an id that is already there; the handler goes on.
InsertMessage(p) ==
    /\ At(p, "insert")
    /\ home' = [home EXCEPT ![proc[p].msg] = IF @ = "absent" THEN proc[p].addr ELSE @]
    /\ untouched' = untouched \ {proc[p].msg}
    /\ Goto(p, IF p = Events THEN "touch" ELSE "network")
    /\ UNCHANGED <<known, rows, chat>>

\* External: the send succeeds, or fails and leaves the chat row alone.
SendReturns(p) ==
    /\ At(p, "network")
    /\ Goto(p, "touch") \/ Stop(p)
    /\ UNCHANGED <<known, rows, chat, home, untouched>>

TouchChat(p) ==
    LET m == proc[p].msg
        a == proc[p].addr
        counted == IF p = Events /\ m \notin Outgoing THEN 1 ELSE 0
    IN  /\ At(p, "touch")
        /\ Write(a, [chat[a] EXCEPT !.unread = @ + counted, !.preview = m])
        /\ Stop(p)
        /\ UNCHANGED <<known, home>>

-----------------------------------------------------------------------------
(* Deletion: onRevoke and onDeleteForMe use the address the event carries, *)
(* DeleteMessage the one in the row it read.                               *)

RemoteDelete(m, a) ==
    /\ At(Events, "idle")
    /\ Run(Events, "delete", m, a)
    /\ UNCHANGED <<known, rows, chat, home, untouched>>

LocalDelete(p, m) ==
    /\ At(p, "idle")
    /\ home[m] # "absent"
    /\ Run(p, "delete", m, home[m])
    /\ UNCHANGED <<known, rows, chat, home, untouched>>

DeleteMessage(p) ==
    /\ At(p, "delete")
    /\ home' = [home EXCEPT ![proc[p].msg] = "absent"]
    /\ IF home[proc[p].msg] = "absent" THEN Stop(p) ELSE Goto(p, "refresh")
    /\ UNCHANGED <<known, rows, chat, untouched>>

RefreshLastMessage(p) ==
    LET a == proc[p].addr
    IN  /\ At(p, "refresh")
        /\ IF a \in rows
           THEN Write(a, [chat[a] EXCEPT !.preview = Refreshed(a, home, @)])
           ELSE UNCHANGED <<rows, chat, untouched>>
        /\ Stop(p)
        /\ UNCHANGED <<known, home>>

-----------------------------------------------------------------------------
(* Flags, opening and starting a chat.                                     *)

\* SetChatFlags, for UpdateChat and onAppStateChat: one field, which archiving
\* accompanies with an unpin.
Unpinned(flags) == IF "archived" \in flags THEN flags \ {"pinned"} ELSE flags

SetChatFlags(p, a, flag, on) ==
    /\ At(p, "idle")
    /\ a \in rows
    /\ Write(a, [chat[a] EXCEPT !.flags = IF ~on THEN @ \ {flag}
                                          ELSE IF flag = "archived" THEN Unpinned(@ \cup {flag})
                                          ELSE @ \cup {flag}])
    /\ UNCHANGED <<known, home, proc>>

\* GetMessages of the newest page reads the counter, then clears it.
GetMessages(p, a) ==
    /\ At(p, "idle")
    /\ a \in rows /\ chat[a].unread > 0
    /\ Run(p, "clear", 1, a)
    /\ UNCHANGED <<known, rows, chat, home, untouched>>

ClearUnread(p) ==
    LET a == proc[p].addr
    IN  /\ At(p, "clear")
        /\ IF a \in rows THEN Write(a, [chat[a] EXCEPT !.unread = 0])
                         ELSE UNCHANGED <<rows, chat, untouched>>
        /\ Stop(p)
        /\ UNCHANGED <<known, home>>

\* StartChat finds no row and then upserts an empty one.
StartChat(p, a) ==
    /\ At(p, "idle")
    /\ Canonical(a) \notin rows
    /\ Run(p, "create", 1, Canonical(a))
    /\ UNCHANGED <<known, rows, chat, home, untouched>>

UpsertChat(p) ==
    LET a == proc[p].addr
    IN  /\ At(p, "create")
        /\ Write(a, [EmptyRow EXCEPT !.preview = chat[a].preview])
        /\ Stop(p)
        /\ UNCHANGED <<known, home>>

-----------------------------------------------------------------------------
(* History sync and reconciliation.                                        *)

TakeConversation(a) ==
    /\ At(History, "idle")
    /\ Run(History, "sync", 1, Canonical(a))
    /\ UNCHANGED <<known, rows, chat, home, untouched>>

\* SyncConversation: the row, the batch and the preview in one transaction.
\* The messages' own addresses are resolved after the chat's.
SyncConversation(a, batch, unread, flags) ==
    LET c == proc[History].addr
        where == [m \in Msgs |-> IF m \in batch /\ home[m] = "absent" THEN a ELSE home[m]]
    IN  /\ At(History, "sync")
        /\ a \in {c, Canonical(c)}
        /\ flags = Unpinned(flags)
        /\ home' = where
        /\ Write(c, [unread |-> unread, flags |-> flags,
                     preview |-> Refreshed(c, where, chat[c].preview)])
        /\ Stop(History)
        /\ UNCHANGED known

\* mergeLIDChats lists the rows stored under a LID ...
ScanLIDChats(p) ==
    /\ At(p, "idle")
    /\ "lid" \in rows
    /\ Run(p, "merge", 1, "lid")
    /\ UNCHANGED <<known, rows, chat, home, untouched>>

MutantFoldDropsUnread(from, to) ==
    IF "pn" \notin rows THEN from
    ELSE [unread |-> to.unread, flags |-> to.flags \cup (from.flags \ {"muted"}),
          preview |-> IF to.preview # NoText THEN to.preview ELSE from.preview]

\* ... and folds each one whose number is known, in one transaction.
Folded(from, to) ==
    IF "pn" \notin rows THEN from
    ELSE [unread |-> to.unread + from.unread,
          flags |-> to.flags \cup (from.flags \ {"muted"}),
          preview |-> IF to.preview # NoText THEN to.preview ELSE from.preview]

MutantMergeWithoutTarget(p) ==
    /\ At(p, "merge")
    /\ IF ~known
       THEN UNCHANGED <<rows, chat, home>>
       ELSE /\ home' = [m \in Msgs |-> IF home[m] = "lid" THEN "pn" ELSE home[m]]
            /\ rows' = rows \ {"lid"}
            /\ chat' = [chat EXCEPT !["lid"] = EmptyRow]
    /\ Stop(p)
    /\ UNCHANGED <<known, untouched>>

MergeChat(p) ==
    /\ At(p, "merge")
    /\ IF ~known
       THEN UNCHANGED <<rows, chat, home>>
       ELSE /\ home' = [m \in Msgs |-> IF home[m] = "lid" THEN "pn" ELSE home[m]]
            /\ IF "lid" \in rows
               THEN /\ rows' = {"pn"}
                    /\ chat' = [a \in Addrs |-> IF a = "lid" THEN EmptyRow
                                                ELSE Folded(chat["lid"], chat["pn"])]
               ELSE UNCHANGED <<rows, chat>>
    /\ Stop(p)
    /\ UNCHANGED <<known, untouched>>

-----------------------------------------------------------------------------
(* What goes wrong.                                                        *)

\* The messages that handlers cut short leave without a row.
LeftBy(cut) ==
    IF rows = {} THEN {proc[p].msg : p \in {q \in cut : At(q, "touch")}} ELSE {}

\* A statement that fails changes nothing and ends its handler, whose error is
\* logged or returned: also TouchChat's, after InsertMessage stored the message.
StatementFails(p) ==
    /\ proc[p].pc \notin {"idle", "network"}
    /\ untouched' = untouched \cup LeftBy({p})
    /\ Stop(p)
    /\ UNCHANGED <<known, rows, chat, home>>

\* The daemon dies between two statements: the tables survive.
Crash ==
    /\ \E p \in Procs : ~At(p, "idle")
    /\ untouched' = untouched \cup LeftBy(Procs)
    /\ proc' = [p \in Procs |-> Idle]
    /\ UNCHANGED <<known, rows, chat, home>>

-----------------------------------------------------------------------------
Init ==
    /\ known = FALSE
    /\ rows = {}
    /\ chat = [a \in Addrs |-> EmptyRow]
    /\ home = [m \in Msgs |-> "absent"]
    /\ proc = [p \in Procs |-> Idle]
    /\ untouched = {}

EventNext == \E m \in Msgs, a \in Addrs : LiveMessage(m, a) \/ RemoteDelete(m, a)

HistoryNext ==
    \E a \in Addrs :
        \/ TakeConversation(a)
        \/ \E batch \in SUBSET Msgs, unread \in 0..1, flags \in SUBSET Flags :
               SyncConversation(a, batch, unread, flags)

PassNext(p) == ScanLIDChats(p) \/ MergeChat(p)

RpcNext(p) ==
    \/ \E a \in Addrs : GetMessages(p, a) \/ StartChat(p, a)
    \/ \E m \in Msgs : LocalDelete(p, m) \/ \E a \in Addrs : SendText(p, m, a)
    \/ UpsertChat(p) \/ ClearUnread(p) \/ SendReturns(p)

FlagNext ==
    \E p \in Rpcs \cup {Events}, a \in Addrs, flag \in Flags, on \in BOOLEAN :
        SetChatFlags(p, a, flag, on)

StatementNext(p) ==
    InsertMessage(p) \/ TouchChat(p) \/ DeleteMessage(p) \/ RefreshLastMessage(p)

Next ==
    \/ Learn
    \/ EventNext
    \/ HistoryNext
    \/ FlagNext
    \/ \E p \in Passes : PassNext(p)
    \/ \E p \in Rpcs : RpcNext(p)
    \/ \E p \in Rpcs \cup {Events} : StatementNext(p)
    \/ \E p \in Procs : StatementFails(p)
    \/ Crash

Spec == Init /\ [][Next]_vars

-----------------------------------------------------------------------------
(* Properties.                                                             *)

Stored == {m \in Msgs : home[m] # "absent"}

\* A stored message whose handler was not cut short before TouchChat has its
\* contact in the chat list, or is just being handled: whatever merges,
\* deletions, sends, failing statements and crashes interleave, no conversation
\* drops out of the list (a message is inserted before its chat row is, and a
\* merge removes a row).
ContactListed ==
    \A m \in Stored \ untouched :
        rows # {} \/ (At(Events, "touch") /\ proc[Events].msg = m)

\* The job of module Contact that the next statement of a goroutine does.
Job == [step \in Pcs |->
    CASE step = "insert" -> "store" [] step = "touch" -> "bump"
      [] step = "delete" -> "remove" [] step = "sync" -> "snapshot"
      [] step = "clear" -> "open" [] step = "create" -> "start"
      [] step = "merge" -> "merge" [] OTHER -> "nothing"]

\* Seen as one contact, the two rows keep the promises of module Contact: a
\* merge in particular loses no message, no unread count and no flag, at any
\* point of the handlers it interleaves with, and the badge goes down only
\* because the chat was opened or started.
AsContact == INSTANCE Contact WITH
    Msgs <- Msgs,
    Actors <- Procs,
    doing <- [p \in Procs |-> Job[proc[p].pc]],
    stored <- Stored,
    listed <- rows # {},
    unread <- chat["pn"].unread + chat["lid"].unread,
    flags <- (chat["pn"].flags \cup chat["lid"].flags) \ {"muted"}

ImplementsContact == AsContact!Spec
=============================================================================
