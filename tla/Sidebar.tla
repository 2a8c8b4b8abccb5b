------------------------------ MODULE Sidebar -------------------------------
(***************************************************************************)
(* The desktop's chat list (apps/desktop/window.go): loadChats, the        *)
(* ChatUpdated and ChatDeleted events, the coalesced rebuild, the sidebar  *)
(* filter and the daemon-side search, with spliceRange.                    *)
(*                                                                         *)
(* A goroutine of the daemon that writes a row reads it again and then     *)
(* publishes what it read; others do so in between.  The feed keeps the    *)
(* order in which they published (module EventStream has the rest) and may *)
(* lose an event.  Replies are delivered to the main loop in any order,    *)
(* between any two events.  A list is shorter than a page, and an entry of *)
(* the list model is its chat.                                             *)
(***************************************************************************)
EXTENDS Integers, Sequences, SequencesExt, FiniteSets

CONSTANTS
    Chats,
    Groups,      \* the chats that are groups
    Rows,        \* rows the chats table may hold, of ChatRow
    RowsOf,      \* those a chat takes (bound)
    NoRow,       \* no row
    Filters,     \* the tabs an instance switches between, "direct" first
    StartTables, \* what the table may be when the window opens
    Queries,     \* what the user may search for
    NoQuery,     \* the empty search entry
    Matches,     \* the chats a query matches
    Calls,       \* calls in flight at once (bound)
    Writers,     \* goroutines of the daemon that write and publish
    MaxWrites    \* writes of the chats table and chats started (bound)

\* updated_at, and the flags that order and filter.
ChatRow == [at : Nat, pinned : BOOLEAN, archived : BOOLEAN]

ASSUME ChatsAssumption == IsFiniteSet(Chats) /\ Groups \subseteq Chats
ASSUME RowsAssumption ==
    Rows \subseteq ChatRow /\ NoRow \notin ChatRow /\ RowsOf \in [Chats -> SUBSET Rows]
ASSUME QueriesAssumption ==
    /\ NoQuery \notin Queries /\ {"active", "archived", "start"} \cap Queries = {}
    /\ Matches \in [Queries -> SUBSET Chats]
ASSUME FiltersAssumption == Filters \subseteq {"direct", "groups", "archived"}
ASSUME StartAssumption == StartTables \subseteq [Chats -> Rows \cup {NoRow}]
ASSUME MaxWritesAssumption == MaxWrites \in Nat

Table == [Chats -> Rows \cup {NoRow}]
Empty == [c \in Chats |-> NoRow]
Listed(table) == {c \in Chats : table[c] # NoRow}
VARIABLES
    table,      \* daemon: the chats table
    writes,     \* how often it was written, and chats started
    pub,        \* the daemon's goroutines between a write and its event
    feed,       \* chat events on their way: a chat and its row
    call,       \* GetChats, SearchChats and StartChat calls in flight
    index,      \* window.chatIndex
    order,      \* window.chatOrder
    queued,     \* window.chatRebuildQueued
    filter,     \* window.filter
    query,      \* window.searchQuery
    results,    \* window.searchResults
    model,      \* the list model
    answered,   \* history: the query of results, NoQuery after a failed call
    older,      \* history: chats with an event handled since results was read
    due,        \* history: chats whose present row is still to be published
    lost,       \* history: chats whose present row was published to nobody, or
                \* before an older one
    stale       \* history: chats shown by a reply older than an event, by older
                \* results or with an event lost, and not told of since

daemon == <<table, writes, pub, due, lost>>
list == <<index, order, queued, model>>
search == <<query, results, answered, older>>
sidebarVars == <<daemon, feed, call, list, filter, search, stale>>

\* A call asks for the active or the archived chats, or for a query's, or
\* starts a chat; "since" has the chats with an event handled or lost after the
\* answer was read.
Kinds == {"active", "archived", "start"} \cup Queries
Call == [kind : Kinds, at : {"free", "asked", "read"}, rows : Table, since : SUBSET Chats]
Free == [kind |-> "active", at |-> "free", rows |-> Empty, since |-> {}]
Ask(kind) == [Free EXCEPT !.kind = kind, !.at = "asked"]
Started(c, row) ==
    [kind |-> "start", at |-> "read", rows |-> [Empty EXCEPT ![c] = row], since |-> {}]

\* A goroutine has written the row of a chat, or has read it for its event.
Quiet == [at |-> "idle"]
Pub == [at : {"wrote", "read"}, chat : Chats, row : Rows \cup {NoRow}]

SidebarTypeOK ==
    /\ table \in Table /\ writes \in 0..MaxWrites
    /\ pub \in [Writers -> Pub \cup {Quiet}]
    /\ feed \in Seq([chat : Chats, row : Rows \cup {NoRow}])
    /\ call \in [Calls -> Call]
    /\ index \in Table
    /\ order \in Seq(Chats) /\ model \in Seq(Chats)
    /\ queued \in BOOLEAN
    /\ filter \in Filters \cup {"direct"}
    /\ query \in Queries \cup {NoQuery} /\ answered \in Queries \cup {NoQuery}
    /\ results \in Table
    /\ older \subseteq Chats /\ stale \subseteq Chats
    /\ due \subseteq Chats /\ lost \subseteq Chats

-----------------------------------------------------------------------------
(* The list model.                                                         *)

Before(r, s) == IF r.pinned # s.pinned THEN r.pinned ELSE r.at > s.at

\* The members of a set, each once, in an order given by its pairs.
Arranged(set, inOrder) ==
    CHOOSE seq \in SetToSeqs(set) :
        \A i, j \in DOMAIN seq : i < j => <<seq[i], seq[j]>> \in inOrder

\* ListChats and SearchChats: ORDER BY pinned DESC, updated_at DESC.
Ordered(found) ==
    Arranged(Listed(found),
             {p \in Listed(found) \X Listed(found) : ~Before(found[p[2]], found[p[1]])})

Position(c, seq) == CHOOSE i \in DOMAIN seq : seq[i] = c

\* The entries of a sequence that are in a set, in its order.
Kept(seq, set) ==
    LET kept == Range(seq) \cap set
    IN  Arranged(kept, {p \in kept \X kept : Position(p[1], seq) < Position(p[2], seq)})

\* The stable sort of chatOrder.
Sorted(seq, found) ==
    Arranged(Range(seq),
             {p \in Range(seq) \X Range(seq) :
                 \/ Before(found[p[1]], found[p[2]])
                 \/ /\ ~Before(found[p[2]], found[p[1]])
                    /\ Position(p[1], seq) < Position(p[2], seq)})

\* filterMatches.
FilterMatches(c, f) ==
    IF index[c].archived \/ f = "archived" THEN index[c].archived /\ f = "archived"
    ELSE (c \in Groups) = (f = "groups")

\* spliceRange: the lengths of the head and of the tail that both share.
Largest(set) == CHOOSE n \in set : \A k \in set : k <= n
Lesser(m, n) == IF m < n THEN m ELSE n
SharedHead(current, want) ==
    Largest({n \in 0..Lesser(Len(current), Len(want)) :
                \A i \in 1..n : current[i] = want[i]})

MutantSharedTailOverlaps(current, want) ==
    Largest({n \in 0..Lesser(Len(current), Len(want)) :
                \A i \in 0..(n - 1) : current[Len(current) - i] = want[Len(want) - i]})

SharedTail(current, want) ==
    LET head == SharedHead(current, want)
    IN  Largest({n \in 0..(Lesser(Len(current), Len(want)) - head) :
                    \A i \in 0..(n - 1) : current[Len(current) - i] = want[Len(want) - i]})

\* applyChatModel: the model's entries between them are replaced by the wanted.
ApplyChatModel(current, want) ==
    LET head == SharedHead(current, want)
        tail == SharedTail(current, want)
    IN  SubSeq(current, 1, head)
        \o SubSeq(want, head + 1, Len(want) - tail)
        \o SubSeq(current, Len(current) - tail + 1, Len(current))

\* rebuildChatModel.  A search shows its results, and writes them over the rows
\* the index has of them.
Rebuild ==
    IF query' # NoQuery
    THEN LET shown == Listed(results') \cap Listed(index)
         IN  /\ index' = [c \in Chats |-> IF c \in shown THEN results'[c] ELSE index[c]]
             /\ model' = ApplyChatModel(model, Ordered(results'))
             /\ stale' = stale \cup (shown \cap older')
             /\ UNCHANGED order
    ELSE LET sorted == Sorted(order, index)
             visible == {c \in Range(sorted) : FilterMatches(c, filter')}
         IN  /\ order' = sorted
             /\ model' = ApplyChatModel(model, Kept(sorted, visible))
             /\ UNCHANGED <<index, stale>>

\* The timer of scheduleChatRebuild.
RebuildTimeout ==
    /\ queued
    /\ queued' = FALSE
    /\ UNCHANGED <<daemon, feed, call, filter, search>>
    /\ Rebuild

SetFilter(f) ==
    /\ f # filter
    /\ filter' = f
    /\ UNCHANGED <<daemon, feed, call, queued, search>>
    /\ Rebuild

-----------------------------------------------------------------------------
(* The daemon, and what it tells.                                          *)

\* An event about a chat is handled, or lost: what was read before is older.
Passed(k, c) == IF c \in Listed(k.rows) THEN [k EXCEPT !.since = @ \cup {c}] ELSE k
Since(c) ==
    /\ call' = [i \in Calls |-> Passed(call[i], c)]
    /\ older' = older \cup ({c} \cap Listed(results))

\* The present row of a chat reaches nobody.
Unsaid(c) ==
    /\ due' = due \ {c}
    /\ lost' = lost \cup {c}
    /\ stale' = stale \cup {c}
    /\ Since(c)

\* A row is written, or merged away: then the event needs no row to be read.
WriteRow(p, c, row) ==
    /\ pub[p] = Quiet
    /\ writes < MaxWrites
    /\ row # table[c] /\ row \in RowsOf[c] \cup {NoRow}
    /\ table' = [table EXCEPT ![c] = row]
    /\ writes' = writes + 1
    /\ pub' = [pub EXCEPT ![p] = [at |-> IF row = NoRow THEN "read" ELSE "wrote",
                                  chat |-> c, row |-> NoRow]]
    /\ due' = due \cup {c}
    /\ UNCHANGED <<lost, feed, call, list, filter, search, stale>>

\* publishChat reads the row, which others may have written since; it gives up
\* when there is none left, or when it cannot be read.
ReadRow(p) ==
    LET c == pub[p].chat IN
    /\ pub[p].at = "wrote"
    /\ \/ /\ table[c] # NoRow
          /\ pub' = [pub EXCEPT ![p] = [at |-> "read", chat |-> c, row |-> table[c]]]
          /\ UNCHANGED <<due, lost, stale, call, older>>
       \/ /\ table[c] = NoRow
          /\ pub' = [pub EXCEPT ![p] = Quiet]
          /\ UNCHANGED <<due, lost, stale, call, older>>
       \/ /\ pub' = [pub EXCEPT ![p] = Quiet]
          /\ Unsaid(c)
    /\ UNCHANGED <<table, writes, feed, list, filter, query, results, answered>>

\* The event is published, after the present row's if others overtook it, or it
\* is lost by the broker or the stream.
Publish(p) ==
    LET c == pub[p].chat
        current == pub[p].row = table[c]
    IN
    /\ pub[p].at = "read"
    /\ pub' = [pub EXCEPT ![p] = Quiet]
    /\ \/ /\ feed' = Append(feed, [chat |-> c, row |-> pub[p].row])
          /\ due' = IF current THEN due \ {c} ELSE due
          /\ lost' = IF current THEN lost \ {c}
                     ELSE IF c \in due THEN lost ELSE lost \cup {c}
          /\ UNCHANGED <<stale, call, older>>
       \/ /\ current
          /\ Unsaid(c)
          /\ UNCHANGED feed
       \/ /\ ~current
          /\ UNCHANGED <<due, lost, stale, call, older, feed>>
    /\ UNCHANGED <<table, writes, list, filter, query, results, answered>>

\* newChatDialog: StartChat of a chat there is, or of one it stores without an
\* event, so that only who asked is told, by the reply.  Each counts as a write.
NewChat(i, c, row) ==
    /\ call[i] = Free
    /\ writes < MaxWrites /\ row \in RowsOf[c]
    /\ writes' = writes + 1
    /\ \/ /\ row = table[c]
          /\ call' = [call EXCEPT ![i] = Started(c, row)]
          /\ UNCHANGED <<table, due, lost, pub, older, stale>>
       \/ /\ table[c] = NoRow /\ ~row.pinned /\ ~row.archived
          /\ table' = [table EXCEPT ![c] = row]
          /\ due' = due \ {c} /\ lost' = lost \cup {c} /\ stale' = stale \cup {c}
          /\ older' = older \cup ({c} \cap Listed(results))
          /\ call' = [[k \in Calls |-> Passed(call[k], c)] EXCEPT ![i] = Started(c, row)]
          /\ UNCHANGED pub
    /\ UNCHANGED <<feed, list, filter, query, results, answered>>

\* An answer is read: ListChats of one kind, or what the query matches.
Read(i) ==
    LET kind == call[i].kind
        In(c) == CASE kind = "active" -> ~table[c].archived
                   [] kind = "archived" -> table[c].archived
                   [] OTHER -> c \in Matches[kind]
    IN  /\ call[i].at = "asked"
        /\ call' = [call EXCEPT ![i].at = "read",
                                ![i].rows = [c \in Chats |->
                                    IF table[c] # NoRow /\ In(c) THEN table[c] ELSE NoRow]]
        /\ UNCHANGED <<daemon, feed, list, filter, search, stale>>

\* A call that fails changes nothing in the window, and neither does a started
\* chat whose dialog is gone.
Fail(i) ==
    /\ call[i].at = "asked" \/ call[i].kind = "start"
    /\ call' = [call EXCEPT ![i] = Free]
    /\ answered' = IF call[i].kind = query THEN NoQuery ELSE answered
    /\ UNCHANGED <<daemon, feed, list, filter, query, results, older, stale>>

-----------------------------------------------------------------------------
(* The window.                                                             *)

\* A reconnect, or the end of the sync, asks for both lists.
LoadChats(i, j) ==
    /\ i # j /\ call[i] = Free /\ call[j] = Free
    /\ call' = [call EXCEPT ![i] = Ask("active"), ![j] = Ask("archived")]
    /\ UNCHANGED <<daemon, feed, list, filter, search, stale>>

MutantUpsertKeepsFlags(found) ==
    /\ index' = [c \in Chats |-> IF found[c] = NoRow THEN index[c]
                                 ELSE IF index[c] = NoRow THEN found[c]
                                 ELSE [index[c] EXCEPT !.at = found[c].at]]
    /\ order' = order \o Kept(Ordered(found), Chats \ Listed(index))
    /\ queued' = (queued \/ Listed(found) # {})
    /\ UNCHANGED model

\* upsertChat for each row of a reply, in its order.
Upsert(found) ==
    /\ index' = [c \in Chats |-> IF found[c] # NoRow THEN found[c] ELSE index[c]]
    /\ order' = order \o Kept(Ordered(found), Chats \ Listed(index))
    /\ queued' = (queued \/ Listed(found) # {})
    /\ UNCHANGED model

OnChats(i) ==
    LET told == Listed(call[i].rows)
    IN  /\ call[i].at = "read" /\ call[i].kind \notin Queries
        /\ Upsert(call[i].rows)
        /\ stale' = (stale \ told) \cup (told \cap call[i].since)
        /\ call' = [call EXCEPT ![i] = Free]
        /\ UNCHANGED <<daemon, feed, filter, search>>

RemoveChat(c) ==
    /\ index' = [index EXCEPT ![c] = NoRow]
    /\ order' = Kept(order, Chats \ {c})
    /\ queued' = (queued \/ index[c] # NoRow)
    /\ UNCHANGED model

OnEvent ==
    LET c == Head(feed).chat
        row == Head(feed).row
    IN  /\ feed # <<>>
        /\ feed' = Tail(feed)
        /\ IF row = NoRow THEN RemoveChat(c) ELSE Upsert([Empty EXCEPT ![c] = row])
        /\ stale' = IF c \in lost THEN stale \cup {c} ELSE stale \ {c}
        /\ Since(c)
        /\ UNCHANGED <<daemon, filter, query, results, answered>>

\* setupSearch: a query asks the daemon, an empty one shows the list again.
Search(i, q) ==
    /\ call[i] = Free
    /\ query' = q
    /\ call' = [call EXCEPT ![i] = Ask(q)]
    /\ UNCHANGED <<daemon, feed, list, filter, results, answered, older, stale>>

ClearSearch ==
    /\ query # NoQuery
    /\ query' = NoQuery
    /\ results' = Empty /\ answered' = NoQuery /\ older' = {}
    /\ UNCHANGED <<daemon, feed, call, queued, filter>>
    /\ Rebuild

MutantOnSearchUnguarded(i) ==
    /\ call[i].at = "read" /\ call[i].kind \in Queries
    /\ call' = [call EXCEPT ![i] = Free]
    /\ UNCHANGED <<daemon, feed, queued, filter>>
    /\ IF query # NoQuery
       THEN /\ results' = call[i].rows
            /\ answered' = call[i].kind /\ older' = call[i].since
            /\ UNCHANGED query
            /\ Rebuild
       ELSE UNCHANGED <<index, order, model, search, stale>>

\* "Slower earlier queries must not overwrite the newest results."
OnSearch(i) ==
    /\ call[i].at = "read" /\ call[i].kind \in Queries
    /\ call' = [call EXCEPT ![i] = Free]
    /\ UNCHANGED <<daemon, feed, queued, filter>>
    /\ IF call[i].kind = query
       THEN /\ results' = call[i].rows
            /\ answered' = query /\ older' = call[i].since
            /\ UNCHANGED query
            /\ Rebuild
       ELSE UNCHANGED <<index, order, model, search, stale>>

-----------------------------------------------------------------------------
\* The table has chats before the window loads any.
SidebarInit ==
    /\ table \in StartTables /\ writes = 0
    /\ pub = [p \in Writers |-> Quiet]
    /\ feed = <<>>
    /\ call = [i \in Calls |-> Free]
    /\ index = Empty /\ order = <<>> /\ queued = FALSE /\ model = <<>>
    /\ filter = "direct"
    /\ query = NoQuery /\ results = Empty /\ answered = NoQuery /\ older = {}
    /\ due = {} /\ lost = {} /\ stale = Listed(table)

PublisherNext(p) ==
    \/ \E c \in Chats, row \in Rows \cup {NoRow} : WriteRow(p, c, row)
    \/ ReadRow(p) \/ Publish(p)

SidebarNext ==
    \/ RebuildTimeout
    \/ \E f \in Filters : SetFilter(f)
    \/ \E p \in Writers : PublisherNext(p)
    \/ \E i \in Calls, c \in Chats, row \in Rows : NewChat(i, c, row)
    \/ \E i \in Calls : Read(i) \/ Fail(i) \/ OnChats(i) \/ OnSearch(i)
    \/ \E i, j \in Calls : LoadChats(i, j)
    \/ OnEvent
    \/ \E i \in Calls, q \in Queries : Search(i, q)
    \/ ClearSearch

SidebarSpec == SidebarInit /\ [][SidebarNext]_sidebarVars

-----------------------------------------------------------------------------
(* Properties.                                                             *)

InOrder(seq) == \A i, j \in DOMAIN seq : i < j => ~Before(index[seq[j]], index[seq[i]])

\* With no rebuild pending the list shows exactly the chats of the selected tab,
\* in order: no update, switch or splice leaves it behind the index.
ModelFollowsIndex ==
    ~queued /\ query = NoQuery =>
        /\ IsInjective(model) /\ InOrder(model)
        /\ Range(model) = {c \in Listed(index) : FilterMatches(c, filter)}

Searching == \E i \in Calls : call[i].kind = query /\ call[i].at # "free"

\* When the calls of the current query have come back, or failed, the list is
\* the results of that query and of no earlier one ("Slower earlier queries must
\* not overwrite the newest results", window.go:699).
ListAnswersQuery ==
    query # NoQuery /\ ~Searching /\ answered # NoQuery =>
        /\ answered = query
        /\ ~queued => model = Ordered(results)

\* Once the daemon's goroutines have published a chat and the events are handled,
\* the index has its row of the table, unless a reply or a search result read
\* before an event was written over it, or the row itself was told to nobody or
\* was overtaken by the event of an older one.
IndexIsCurrent ==
    feed = <<>> =>
        \A c \in Chats \ stale :
            (\A p \in Writers : pub[p] # Quiet => pub[p].chat # c) => index[c] = table[c]
=============================================================================
