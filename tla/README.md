# A formal model of zchat

zchat is a WhatsApp client in two processes. A daemon (`apps/daemon`) holds the
WhatsApp session (through the whatsmeow library), the SQLite store and a gRPC
server on a Unix socket; a GTK desktop (`apps/desktop`) talks to it. This
directory has TLA+ modules of the parts whose behaviour depends on what
interleaves with what, TLC configurations that check them on small instances,
and theorems proved with TLAPS for every value of their constants.

## 1. The system

| Part | State it keeps | Operations | What is hard about it |
|---|---|---|---|
| full-sync tracker (`wa/sync.go`, `wa/history.go`) | stage, `active`, `completed`, chunk count, two timers, the persistent flag, the history queue | Load, Begin, Connected, Contacts, Chunk, finish, Reset | timers that fire and cannot be recalled, `finish` unlocking in its middle, logout and crashes anywhere |
| delivery (`wa/session.go`, `send_media.go`, `actions.go`) | status and payload of a message | SendText, SendMedia, ForwardMessage, RetryText, RetryMedia, ReactMessage, onReceipt | a status read in one statement and written in another, failing statements, crashes, retries that race receipts |
| chat and message tables (`store/store.go` and its callers) | rows of `chats` and `messages` | persist, touch, refresh, merge, sync, flags, clear | one contact with two addresses: the rows are merged while handlers that resolved the old address still run |
| event stream (`service/broker.go`, `service.go`, `client/client.go`) | connection state, sync stage, QR code, subscriber channel, the window's page | setState, Publish, StreamEvents, onConnectionState, onSyncState | subscribe-then-snapshot, bounded channels that drop, broken streams, publishing outside the lock |
| daemon lifecycle (`ipc/socket.go`, `main.go`, `daemonctl.go`) | processes, the socket file | Listen, Serve, GracefulStop, clean-up | stale sockets, processes that start, stop and die between two system calls |
| open conversation and find (`window.go`, `find.go`) | open chat, message list, `hasOlder`, `loadingOlder`, matches | openChat, onMessage, loadOlderMessages, runFind, scrollToMessage | replies that arrive after another chat was opened, page walks across callbacks |
| own typing state (`desktop/presence.go`, `wa/presence.go`) | idle timer, the presence tracker | setupTypingNotifier, stopTyping, SetPresence, subscribePresence | every call is a goroutine; a tracker that suppresses what it believes was sent |
| presence of others (`wa/presence.go`, `desktop/presence.go`) | typists, online, last seen, expiry timers | onChatPresence, onPresence, refreshSubtitle | dropped updates, timers, one update type for two meanings |
| chat list (`window.go`) | `chatIndex`, `chatOrder`, the list model, filter, search results | loadChats, upsertChat, removeChat, rebuildChatModel, setupSearch | stale replies, coalesced rebuilds, minimal splices |
| attachments in the conversation (`wa/media.go`, `desktop/media.go`, `image.go`, `viewer.go`) | `media.path`, the media directory, the rows, the image cache | DownloadMedia, bindMedia, downloadInto, loadAnimation, touchAnimCache, onMessage, the viewer | rows recycled while replies and decodes are on their way, events with the row of another moment, a crash between the file and its path |
| pictures and names of people (`wa/avatar.go`, `wa/names.go`, `desktop/avatar.go`) | the caches of the daemon and the window, picture files | ProfilePicture, onPictureChanged, contactName, bindAvatar, setAvatar | lookups that span the change which invalidates them, widgets bound to somebody else, an address learnt late |
| what is about to be sent (`attach.go`, `window.go`, `actions.go`) | text, reply, staged file, preview, the new-chat dialog | stageAttachment, pasteImage, sendAttachment, sendText, openChat, startChat | clipboard reads, decodes, uploads and dialogs that end after the user went elsewhere |
| read receipts, message search, schema, settings, shortcuts, notifications, logging | | | not modelled, see section 8 |

How they interact: whatsmeow calls `handleEvent` from its own goroutine; the
handlers write the store and publish to the broker; `StreamEvents` forwards a
subscriber's channel to the desktop, whose receive loop queues each event on the
GTK main loop. The desktop calls gRPC methods from goroutines of their own, and
their callbacks are queued on the main loop in the order the replies arrive.
The daemon's RPC handlers run concurrently with each other, with the event
handler, the history worker and the tracker's timers; what they share is
protected by short locks and by the store's single writer connection, so **one
critical section or one SQL statement (or transaction) is one step of the
models**, and everything interleaves between two of them.

`PROJECT.json` maps every definition that models code to its lines, and lists
the hazards found in the code with the properties aimed at them.

## 2. The modules

One module per component; `MCx.tla` with `MCx.cfg` is the instance TLC checks and the
`_proofs` modules have the theorems: `Account_proofs` of SyncTracker and Profiles,
`Presence_proofs` of Typists and Composer, `Daemon_proofs` of Lifecycle and EventStream,
`ChatList_proofs` of Inbox and Sidebar, and `Delivery_proofs`, `Conversation_proofs`,
`Media_proofs` and `Draft_proofs` of one module each. Where two modules are proved about
together, the second has its name in its own (`ProfilesSpec`, `ComposerSpec`, `FeedSpec`,
`SidebarSpec`, with `...TypeOK` and `...Next` alike). Definitions keep the names of the Go
functions they translate. A definition `Mutant...` is a wrong variant of the definition
that follows it (a dropped guard, a missing reset, a swapped order); each property is
violated when the variant takes its place, which shows that the property depends on the
code it is about.

**SyncTracker.** `active, stage, completed, chunks, settle, deadline` are the
fields of `syncTracker`; `meta` and `device` are what survives a crash; `pc` are
the goroutines running `finish`, which the model splits where the code unlocks:
`FinishEnter` (first critical section), `FinishReconcile`, `FinishPersist`,
`FinishReport` (second). `life` is the thread of start, pairing, logout and
restart; `queue` and `proc` are the history channel, its worker and the inline
processing when the channel is full. `loose` remembers which kinds of rows are untidied:
written and not counted yet, counted, or `"skipped"` by a reconciliation that gave up on
them because a statement of it failed (`Reconciled`). `finish` releases the page all the
same.

**SyncGate.** The abstract specification of what the tracker promises the rest of the
system: in which phase of the session which stage may be announced, with all stages that
keep a client on the progress page as one (`"GATED"`), and whether a sync is under way or
being tidied up. SyncTracker implements it (`ImplementsGate`: `Session` is the phase in
`life`, `Finishing` that a goroutine is between the two critical sections of `finish`,
`Signal` the stage as `onSyncState` takes it). EventStream, which has of the tracker only
the stage, `active` and `finishing`, follows the same specification (`FollowsGate`), so
the two modules agree on what the tracker may do.

**Delivery.** `status[m]` is the stored status, `shown[m]` the last one
published, `accepted` what the server took. `proc[p]` is a goroutine: an RPC or
the event handler, with a program counter for the network call, the SELECT and
the UPDATE of `UpdateMessageStatus` and the publication. `StatementFails` and
`Crash` may strike at every one of them.

**Contact and Inbox.** `Inbox` has the two rows a contact may own (`"pn"` and `"lid"`),
where each message is stored, and the goroutines of the event handler, the history worker,
reconcile passes and RPCs with the statement they are about to issue and the address they
resolved earlier. Each statement may fail (`StatementFails`), and the daemon may die
between any two (`Crash`); `untouched` remembers the messages that were stored when their
handler was cut off before it touched the chat, as long as the contact has no row.
`Contact` is the abstract specification: one contact with a set of messages, one counter
and one set of flags, which change only by the job a goroutine is at. `ImplementsContact`
is the refinement: `stored`, `listed`, `unread` and `flags` are computed from the two
rows, and `doing` from the goroutines, so a merge has to be a step that changes none of
them. Muting is left out of the refined flags because the code's merge does lose it
(section 7).

**EventStream.** A setter stores the state (`SetState`) and publishes it in a later
step (`PublishState`); the tracker publishes under its lock. `queue` is the
subscriber's channel, `handler` the next thing `StreamEvents` sends, `wire` what
is between it and the main loop. `page`, `connected`, `syncing` are the window. The
tracker's steps are `Begin`, `SyncProceeds`, `FinishEnter`, `FinishReport`, `Reset` and
`StartResets`, as module SyncGate allows them: a `finish` that was overtaken by a logout
reports DONE into the sync of the next pairing, and the next chunk gates the clients again.

**Lifecycle.** `pc[d]` walks through the system calls of `ipc.Listen` and then
`main`; `file` is the process that bound the socket file. Any number of processes may be
starting at once, as nothing serialises them. `orphaned` remembers processes whose socket
another one's shutdown has unlinked, `exposed` those whose start met another one's between
its failed probe and its `os.Remove`.

**Conversation.** The table (`row`), the events on their way and the calls in
flight (`call`, each with its kind, the chat and boundary it was asked with and the
page it read) against the window's fields. A page is read at one step and handled
at a later one. `disturbed` is set where a reply no longer fits the view because an
event or another page overtook it (`Overtakes`, `Overtake`), and where an arrival is
handled after its deletion or after a newer message of the chat (`Late`).

**Composer.** A `SetPresence` call is one goroutine on both sides, walking through
the availability, the subscription and the chat state; the tracker is checked and
set in one step and the node is sent in the next. WhatsApp's side is `sees` and
`subs`, forgotten with the connection. What Composer and Typists share, the chats and the
open one, is in module `Presence`.

**Typists.** What WhatsApp says (`composing`, `present`), the feed, and the
desktop's presence state, timers and subtitle. `Rearms` is an update that arms the expiry
timer of somebody anew.

**Sidebar.** The table and its events against `chatIndex`, `chatOrder`, the list model,
the tab and the search. A goroutine of the daemon writes a row (`WriteRow`), reads it
again (`ReadRow`) and publishes what it read (`Publish`), three steps between which others
write, read and publish (`pub`); `NewChat` is `StartChat`, whose row has no event.
`ApplyChatModel` is the splice computed from the shared head and tail (`spliceRange`).
Lists of chats are what the module says of them (`Sorted`, `Ordered`, `Arranged`: a set of
chats in the order of a comparison; `Kept`: a list without some of its chats), so that
they can be reasoned about. `stale` remembers chats over which a reply or a search result
older than an event was written, or whose present row was told to nobody or before an
older one (`lost`); `due` has the chats whose present row is still to be published.

**Media.** `path` and `file` are the table and the directory; `job[j]` is a call of
`DownloadMedia` or `ReactMessage` with the step it is at, from `Lookup` over
`StartWrite`, `FinishWrite` and `SetMediaPath` to `PublishDownloaded`, and the row that
started it. `feed` are the events with what their row says of the path. `cell[c]` is a
row of the list: `item` the message GTK bound to it, `id` its `boundID`, `offer` what a
click does, `want` the path it waits for, `paint` whose image its picture shows, `ticking`
its animation timer. `cache`, `order` and `waiting` are `animCache`, `animOrder` and
`animPending`, and `TouchAnimCache` is the eviction with its compaction of the list of
uses. `Rebound` is `bindMedia` with the two functions it calls. `outdated` remembers
messages whose last published row said something else than the table, `rewritten` those
whose file was written again.

**Profiles.** `picture`, `contact` and `mapped` are WhatsApp's side and whatsmeow's
tables, `news` the events the daemon has not handled. A lookup is `LookUpCache`,
`AskServer`, `DownloadAvatar` and `PutAvatar` on a goroutine of its own, for an RPC or for
a picture event; `OnPictureChanged` and `PublishPicture` are the two ends of
`onPictureChanged`. `ContactName`, `ReadContacts` and `PutName` are a miss of the name
cache, `DropName` what a contact event does to it; `ReadFails` is a miss whose read of the
mapping or of a contact fails, so that no name, or that of the other address, is put.
`avatars` and `row` are the window's cache and widgets. `overtaken` and `crossed` remember
lookups that spanned a change, `crossed` also those of names that failed.

**Draft.** `text`, `replyTo`, `pending` and `thumb` are the composer and its bars, `job`
the sends, `pasting` and `decoding` what comes back to the main loop, `dialogs`, `shown`
and `opening` the new-chat dialog, its identity and its calls. `Open` is the part of
`openChat` that concerns the composer. `stagedIn` and `during` remember the chat and the
sends of the moment a file was staged.

Otherwise the modules share no variables: each takes from its neighbours only what they may
do to it, and over-approximates that. EventStream shows in which order and with
which losses events reach the window; Conversation, Typists and Sidebar take exactly
that feed (in order, sometimes lost) as their environment. Delivery owns the
status that Inbox and Conversation leave out.

## 3. The runs

| Run | Question | Properties |
|---|---|---|
| `sync` | Can a client be stranded on the progress page, or released from it too early? | `GateHasExit`, `BarNeverRunsBack`, `CountedRowsTidied`, `ProgressPageIsLeft` |
| `delivery` | Does a status tell the truth and come to an end? | `AcknowledgedWasAccepted`, `PendingHasAnOwner`, `NoDowngradeUnlessOvertaken`, `PendingIsResolved` |
| `inbox` | Do two rows behave as one conversation, flags included? | `ContactListed`, `ImplementsContact` |
| `stream` | Is a client that handled everything on the right page, and does it get there? | `DrainedClientIsRight`, `ClientCatchesUp` |
| `lifecycle` | Is a running daemon reachable, whatever died before it and starts beside it, and does one end up serving? | `RunningIsReachable`, `SomebodyServes` |
| `conversation` | Does the view show the open chat, all of it and only it? | `ShownBelongsToActive`, `PagingNotStuck`, `SettledViewIsExact`, `OlderIsOffered` |
| `composer` | Can a typing indicator be left dangling? | `NoDanglingTyping`, `TrackerMatchesServer`, `SubscriptionIsReal`, `TypingIsWithdrawn` |
| `typists` | Does the header tell the truth about the others? | `SubtitleIsCurrent`, `GroupTypistsAreRight`, `OnlineIsTrue`, `IndicatorFades` |
| `sidebar` | Is the list what the index, the tab and the query say, and the index the daemon's? | `ModelFollowsIndex`, `ListAnswersQuery`, `IndexIsCurrent` |
| `media` | Does a recycled row show, offer and wait for what belongs to its own message, and is a recorded file whole? | `SettledRowIsRight`, `RowShowsItsImage`, `RecordedFileIsWhole`, `SpinnerHasCall` |
| `profiles` | Does an older lookup ever win over a newer picture or name? | `SettledPictureIsCurrent`, `WidgetsAgree`, `NameFollowsContact` |
| `draft` | Can an answer that comes late touch a file, a preview or a chat it is not about? | `PreviewIsOfStaged`, `StagedForOpenChat`, `StagedFileIsKept`, `ChatSwitchIsWanted` |

`MCInbox.cfg` switches the deadlock check off: an inbox instance stops when every
message is handled, its counter is at its bound and nothing is left to do, and so does
the real store. All other runs check for deadlock.

Every module states its type invariant, `TypeOK` or `...TypeOK`. Each is a theorem; that of
Media is part of its inductive invariant.

The two refinements of SyncGate are no properties of the runs, as `ImplementsContact` is;
TLC confirmed both on the instances of `sync` and `stream` before they were proved.

## 4. Bounds, and why they are enough

- `sync`: two `finish` goroutines (the settle and the deadline one can overlap, a
  third could only repeat the second), a queue of one and two chunks, so that the
  queue fills and a chunk is processed inline while the worker has another.
- `delivery`: one message, two RPCs and the event goroutine. Messages do not
  interact, a retry needs a second RPC.
- `inbox`: two messages (one incoming, one the user's), one RPC, one pass, the
  event handler and the history worker, and the flag archived. `MaxBusy` lets any two of
  the goroutines be under way at once: a merge interleaves with one handler at a time,
  and what each leaves in the tables is there for the next. Failing
  statements and crashes are not bounded. `MaxUnread` caps what live
  messages add; merges may double it. The proofs have neither bound as a number.
- `stream`: a channel of one and a wire of one, so drops, overtakings between
  subscription and snapshot and cut-off tails all occur.
- `lifecycle`: three processes, whose starts overlap freely: two that race for the path
  while a third runs, stops or has died.
- `conversation`: one chat with two messages and one without, a page of one row, a
  find walk of one page, two calls in flight and two events under way: a page then
  always has a boundary, and replies overtake events and each other. Two messages and
  two events are too few for some of what the properties except (an arrival into a view
  that a deletion has emptied, a redelivery that straddles a deletion); the theorems
  cover every number, and TLC finds `Exact` invariant with three messages of distinct
  timestamps or two of one second (one call), and with three events.
- `composer`: a direct chat and a group, two calls of the user in flight; the idle
  timer may add a third. No violation with three calls either.
- `typists`: a partner and a group of two, one update on its way at a time.
- `sidebar`: two chats, one stored from the start, pinned, or archived with a newer time,
  the other plain and of that time (`RowsOf`); two goroutines that publish, so that one can
  overtake the other; two calls in flight; two writes, started chats included; two queries.
  The theorems have none of these as a number.
- `media`: one row shared by an animated sticker without a thumbnail and an image with
  one, so that it is recycled at every step between them; a cache of one, so that the
  second use evicts; two calls (two downloads of one message, a download and a reaction);
  one event under way and one fault. Documents, several rows and the general cache are
  covered by the proofs.
- `profiles`: one person with both addresses, one widget that is recycled between them,
  two goroutines, two changes and one fault: a lookup, the change it misses (or the read
  that fails) and the event that follows.
- `draft`: two chats, one message to reply to, an image and another file, two sends, two
  dialogs: each late answer then has a successor it could be mistaken for.

Calls, widgets and rows that nothing tells apart are symmetric; symmetry is used only in
runs without liveness properties.

## 5. Fairness

Weak fairness is assumed of what the code's scheduling gives: goroutines that can run
do (`Steps`, `FinishNext`, `HandlerNext`, `PublishState`), the GTK main loop handles
what is queued on it (`OnEvent`, timers), an armed `time.AfterFunc` or
`glib.TimeoutAdd` fires, a call returns (its context has a timeout), and the desktop
dials again. Nothing is assumed of the user, the phone, the server, a client that
holds a stream, or the network: messages need not arrive, a scan need not happen, a
connection need not come back. In `composer` fairness is on the oldest call only: all
others are behind it in a queue that shrinks. In `typists` the timer of a person fires or is
armed anew (`WF(Expire \/ Rearms)`): `glib.TimeoutAdd` promises no more to one who says
again and again that he types, and `IndicatorFades` excepts just him; an update that
withdraws need not come. In `lifecycle` `SomebodyServes` has two premises of its own, as
neither is a matter of scheduling: from some time on nobody is killed, fails or is told to
stop, and a daemon is started again whenever none serves and none is starting.

## 6. What is proved

`tlapm` checks all theorems to the last leaf. Each argument is an inductive
invariant `IInv`, preserved by one lemma per group of actions.

- **Account_proofs, SyncTracker.** `TypeCorrectness`, `GateAlwaysHasExit`,
  `TimersNeverOutliveSync`, `StageAlwaysAgrees`, `BarAlwaysAdvances`,
  `CountedRowsAlwaysTidied`, for any set of finishers, any queue capacity and any number
  of chunks. `GateHasExit` alone is not inductive: it needs to know that an active sync
  has not lost its deadline (`Armed`) and that the daemon that is down has nothing running
  (`Resting`). `CountedRowsAlwaysTidied` rests on `Tidying`: while rows that were counted
  are untidied in FINALIZING, a finish has still to reconcile (what that pass gives up on
  is no longer among them). `TrackerImplementsGate` is the refinement of SyncGate, from
  the same invariant and two more facts: no `finish` is under way in a daemon that is down
  or starting (`Dormant`), and the session that a logout restarts has no device
  (`Unpaired`).
- **Account_proofs, Profiles.** `ProfilesTypeCorrectness`, `SettledPictureAlwaysCurrent`,
  `WidgetsAlwaysAgree`, `NameAlwaysFollowsContact`, for any users, widgets, goroutines and
  bounds on events, changes and faults. `PicturesGood` says of the caches and of every
  lookup under way, at each of its steps, that what it holds of a user is the present
  picture, or that news of a change is still to be handled, or that the lookup spanned one
  (`overtaken`); `NewsGood` says it of the events, `NamesGood` of names and contacts.
- **Delivery_proofs.** `TypeCorrectness`, `AcknowledgementsAreTrue`,
  `PendingAlwaysOwned`, `OnlyOvertakenUpdatesDowngrade`, for any messages and any
  number of RPCs. The invariant says that whoever is about to write an acknowledgement
  knows the message was accepted (`WritersKnow`), that an update which reaches its
  second statement advances what its first one read (`UpdatesAdvance`), and which
  goroutine owns a pending row (`Owned`).
- **ChatList_proofs, Inbox.** `TypeCorrectness`, `ConversationsStayListed` and the
  refinement `InboxImplementsContact`: every step of the tables is a step of `Contact` or
  stutters. The invariant: an address without a row has the empty row (`NoGhostRow`), a
  sender's chat has not vanished (`Anchored`), a message is stored under an address that
  exists, or is about to be touched, or was left behind by a handler that was cut off
  (`untouched`).
- **ChatList_proofs, Sidebar.** `SidebarTypeCorrectness`, `ModelAlwaysFollowsIndex`,
  `ListAlwaysAnswersQuery`, `IndexAlwaysCurrent`, for any finite set of chats and any
  number of calls. The order has every chat of the index once (`OrderIsIndexed`), whatever
  sequence of replies, events and deletions built it; replies and results hold known chats
  only (`AnswerIsKnown`); a list that shows results shows those of the query it claims
  (`ModelIsResults`); and the last event about a chat, until it is handled or unless it
  was lost, has the row of the table (`LastEventIsCurrent`); of a chat whose present row
  is due, a goroutine that will read or publish it is on its way (`DueIsPending`). That
  the splice yields the list asked for, whatever the two lists share at their ends, is
  `SharedEnds` and the lemmas on it; that a finite set can be arranged at all is proved
  from a smallest subset that could not be (the library's `WFMin`).
- **Daemon_proofs, Lifecycle.** `TypeCorrectness`, `RunningAlwaysReachable`,
  `NeverTwoDaemons`, `NeverUnlinksLiveSocket`, for any number of processes that start,
  stop and die at will, with no assumption on how they overlap. `Named` says that whoever
  has bound the path is the one it names, and `Informed` what a process about to remove a
  stale file may rely on: whoever has come up behind the path since its probe, or is
  starting beside it, is `exposed`. Without that exception, and `orphaned`, both
  `RunningIsReachable` and `OneDaemon` are false of the code (section 7).
- **Daemon_proofs, EventStream.** `FeedTypeCorrectness`, `GateNeedsSession`,
  `DrainedClientAlwaysRight` and `FeedAlwaysFollowsGate`, for any size of the channel and
  any number of events in transit. The handler's snapshot, the channel and the wire are one
  pipe, and the invariant says of what the window *will have heard last* when the pipe is
  empty that it fits the daemon: of the gate and its release (`GateHeard`, `ReleaseHeard`),
  of a connection (`ConnectedHeard`) and of a wait for a pairing (`LoggedOutHeard`).
  `Phases` adds which states of session, sync and setters occur together; from it alone
  follow `GateNeedsSession` and the refinement of SyncGate.
- **Presence_proofs, Typists.** `TypeCorrectness`, `HeaderIsCurrent`, `EveryTypistHasTimer`,
  `GroupsShowTheirTypists`, `OnlinePartnersAreOnline`, for any chats, members and feed
  length. The invariant relates the last update about somebody in the feed to what
  WhatsApp last said (`FeedIsRight`).
- **Presence_proofs, Composer.** `ComposerTypeCorrectness`, `NeverDanglingTyping`,
  `TrackerAlwaysMatches`, `SubscriptionAlwaysReal`, for any chats and number of calls. Of
  the calls of a chat in which nothing failed or overtook its opposite, the last one tells
  what the user does now, the one whose node is being sent tells what the tracker
  remembers, and each agrees with the earlier ones (`CallsGood`, `HarmlessGood`); an idle
  timer has room for the call that stops (`RoomToStop`); marks and subscriptions are of
  partners (`MarksReal`, `Partnered`).
- **Conversation_proofs.** `TypeCorrectness`, `ViewIsTheOpenChats`, `PagingNeverStuck`,
  `SettledViewAlwaysExact`, `OlderAlwaysOffered`, for any messages, timestamps, page size,
  calls and find limit. `IInv` says that a page in flight holds messages of the chat it was
  asked for (`CallsGood`). The last two rest on `Exact`, which speaks of views that are not
  settled: what the view lacks is announced by an event under way, what it shows too much
  is withdrawn by one (`ViewRight`); a page that was read and not overtaken holds what lay
  in front of its boundary (`PageRight`); one that was asked for joins the view at that
  boundary, from which on the view has all there is (`WaitRight`).
- **Media_proofs.** `RowsFollowTheTable`, `RowsShowTheirImages`, `RecordedFilesAreWhole`,
  `SpinnersHaveCalls`, `ShownPathsAreRecorded`, `DecodedImagesAreShown`,
  `CacheAlwaysBounded`, for any messages, rows, calls, cache limit, feed and faults. No
  property says enough of the state to be kept by a step. `RowGood` adds that a row's
  buttons, wishes and pictures are those of the message GTK bound to it and follow the
  window's copy of it, and `RowsGood` that no message is in two rows; `Current` that, of a
  message that is not outdated, the last event under way says what the table says, or
  the window knows it already; `RecordingDone` that a file about to be recorded is whole.
  On that invariant stand two more: `PathsKnown`, that an event, a reaction or the viewer
  tells only of recorded paths, and `ImagesGood`, that a row which wants an image shows
  it, waits for it, or wants one that could not be decoded, and that a compaction of the
  list of uses loses no cached image (`CompactionsCover`, from the library's facts on
  cardinalities).
- **Draft_proofs.** `TypeCorrectness`, `PreviewsTheStagedFile`, `StagedInTheOpenChat`,
  `AnswersKeepTheStagedFile`, `ChatsSwitchWhenWanted`, for any chats, messages, files,
  sends and dialogs. `UploadsDue` says that a call in flight uploads the staged file or
  was under way when that one was staged.

The assumptions are the named `ASSUME`s on the constants (disjoint sets, natural
bounds) in the modules; TLC evaluates them in every run.

Every safety invariant and action property of the runs, and the refinement of Contact,
are stated by a theorem. Only model-checked is liveness (`ProgressPageIsLeft`,
`PendingIsResolved`, `ClientCatchesUp`, `SomebodyServes`, `TypingIsWithdrawn`,
`IndicatorFades`), which is beyond this prover.

A proof found one error of the model. `FeedAlwaysFollowsGate` could not be stated of an
EventStream in which a sync ended in one step: DONE, once announced, was never taken back
before the next logout there, while in SyncTracker a late `finish` of an earlier pairing
announces DONE in the middle of a sync, which then gates its clients again.
EventStream now has both sections of `finish` and the chunk after them.

## 7. Known disagreements between the code and what is written of it

The following were met while modelling. They are behaviours of the models too; the
passing properties say exactly which histories they except.

Against what a comment or a document says:

- A status can go back when another update falls between the SELECT and the UPDATE of
  a slower one (`store.go:901-912`, against `store.go:26-28`).
- The event at the end of a send, and a reaction's, carries a status older than the
  stored one if a receipt came first (`session.go:790`, `actions.go:254`).
- A `finish` overtaken by a logout marks the next pairing as synced (`sync.go:211`,
  against the comment at `sync.go:218`).
- The page that such a `finish` releases is gated again by the next chunk of the sync that
  is still active (`sync.go:171`, against the comment at `sync.go:184-185`).
- Rows written after the last reconciliation are shown untidied, and so are rows which it
  could not tidy: `reconcileChats` gives up on an error (`session.go:314-318`, `330-333`,
  `348-352`) and reports none, and `finish` releases the page all the same (`sync.go:205`,
  against `sync.go:184-185`).
- The bar stands at the history ceiling from the eighth chunk on (`sync.go:98-102`,
  against `sync.go:27-29`).
- A handler that resolved its address before the mapping was learnt writes a LID row
  again (`session.go:489`, against `session.go:449-450`).
- Merging loses the mute of the merged row, and can leave a chat both archived and
  pinned (`store.go:540-543`, against `store.go:423`).
- An older message handled later wins the preview (`store.go:568`, against
  `store.go:555`), and a redelivered message is counted as unread again
  (`session.go:561`).
- The connection state of a snapshot arrives before the sync state, so the list is
  shown for a moment before it is gated (`window.go:416`, against `window.go:422-424`).
- A dropped event is never made up for (`broker.go:57`), and two `setState` calls may
  publish in the opposite order (`session.go:214`), against `service.go:397-399`.
- Two daemons started together can both run (`socket.go:34`, against
  `docs/architecture.md:97-98`: "racing spawns are harmless"; `SomebodyServes` is what does
  hold of them), and the late `os.Remove` of a stopping daemon can
  unlink its successor's socket (`main.go:39`).
- A shutdown waits for attached event streams (`main.go:69`), which nothing in the daemon
  ends; its listener is closed by then, so a successor may run on the same database
  meanwhile.
- A reply of `openChat` read before a message arrived drops that message from the view
  (`window.go:888`); a page that fails ends the paging (`window.go:1023`,
  `find.go:168`).
- Opposite typing calls may overtake each other (`wa/presence.go:73-82`); a restarted
  session keeps the tracker's beliefs (`session.go:290`).
- A `GetChats` reply read before an event is written over the event's row, and search
  results are written over newer rows at every rebuild (`window.go:510`,
  `window.go:594-600`).
- A forwarded attachment is stored without its payload, which the retry needs
  (`wa/actions.go:202`, against `store.go:79-81`).
- The partner of a direct chat is never shown typing: a typing update about him passes
  for a presence update without `online`, which clears the typists at once
  (`desktop/presence.go:48-55`, against `CHANGELOG.md:124-125`).
- Between two compactions the image cache holds up to twice its limit less one
  (`image.go`, against `image.go:52`: "caps how many decoded images are kept").

Behaviours worth a decision of the project, which the models have and no text rules out:

- A message whose `TouchChat` failed, or whose daemon died before it, is stored and its
  contact may have no row in the chat list (`session.go:561-563`).
- Two goroutines may publish the rows of one chat in the opposite order of their writes
  (`session.go:728-734`, `service.go:172-175`), so that clients keep the older row until
  the next event.
- The row that `StartChat` stores has no event (`session.go:717`): only the client that
  asked for it knows it, from the reply.
- A read of the mapping or of a contact that fails is taken for one that found nothing, and
  the empty name is cached until the contact changes (`session.go:643-661`).
- A downloaded image without a thumbnail leaves the picture of the row's previous message
  on screen until it is decoded, and for good if it cannot be (`media.go:215`).
- An attachment stays staged while it is uploaded, so Enter twice uploads it twice, and
  the success of an older upload takes down a newer staged file (`attach.go:120`).
- A clipboard image is staged in the chat that is open when the read ends, and the text
  and the reply target go along to the next chat; a reply to a message that was deleted
  or belongs to another chat is rejected by the daemon, and the text is gone.
- A lookup of a picture that fails is remembered by the window as "no picture"; the
  window's pictures are not reset at a logout.
- A name cached under a LID is not dropped when the contact under the phone number
  changes, nor when the mapping between the two is learnt (`session.go:661`).
- Two downloads of one message may write its file at once (`wa/media.go:173`).

## 8. Not modelled, and what is left

- **Read receipts.** `MarkRead` acknowledges the newest messages to WhatsApp after the
  counter was cleared; Inbox has the counter, the acknowledgement changes no state of
  zchat.
- **Names in chat rows.** `backfillChatNames` and group names write what `contactName`
  returns; chat rows in Inbox have no name.
- **Chats and messages** are modelled for one contact with its two addresses. Rows of
  different contacts share no state; reactions, media columns and `updated_at` are left
  out.
- **Message search** reads only. **Schema, migration and meta values** run once before
  anything else. **Settings, shortcuts, notifications, logging, paths** have no state that
  anything else races with. **Generated protobuf code** is the wire format: messages are
  records here. Widgets, wording, pixels and layout are left out everywhere.
- Two session restarts at once (`session.go:291`) are serialised in the models.

What would come next: the composition of Delivery with EventStream and Conversation (what
a client shows of a status); in EventStream, a logout between the
begin of a session and its report, and two restarts of the session at once.
