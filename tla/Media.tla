------------------------------- MODULE Media -------------------------------
(***************************************************************************)
(* The attachments of the open conversation: the recycled rows that show   *)
(* them (apps/desktop/media.go, the list factory of window.go), the image  *)
(* cache they share (image.go), the viewer (viewer.go), and the daemon's   *)
(* DownloadMedia (apps/daemon/wa/media.go), which writes a file and then   *)
(* records its path in the media table.                                    *)
(*                                                                         *)
(* Handlers of the window run one at a time on the GTK main loop.  Each    *)
(* call is a goroutine of the daemon whose statements and file operations  *)
(* are steps of their own; its reply and the events of the stream reach    *)
(* the window in no order.  Decoding an image takes another goroutine.     *)
(* The conversation stays open and loaded (module Conversation).           *)
(***************************************************************************)
EXTENDS Integers, FiniteSets, Sequences

CONSTANTS
    Msgs,       \* the messages of the open conversation
    Cells,      \* the rows of the list, recycled from one message to another
    Jobs,       \* RPC handlers that may run at once (bound)
    None,       \* no message
    Kind,       \* the type of each message
    Thumb,      \* its inline thumbnail: none, one that decodes, one that does not
    Animated,   \* stickers with more than one frame
    CacheLimit, \* animCacheLimit (48 in the code)
    MaxFeed,    \* events on their way at once (bound)
    MaxFaults   \* failures, lost events, redeliveries, removed files, crashes
                \* (bound)

ASSUME NoneAssumption == None \notin Msgs

\* The attachments extractMedia knows; every other message has none.
MediaKinds == {"image", "sticker", "video", "audio", "document"}

ASSUME KindAssumption == Kind \in [Msgs -> MediaKinds \cup {"text"}]
ASSUME ThumbAssumption == Thumb \in [Msgs -> {"none", "good", "bad"}]
ASSUME AnimatedAssumption == Animated \subseteq {m \in Msgs : Kind[m] = "sticker"}
ASSUME CacheLimitAssumption == CacheLimit \in Nat \ {0}
ASSUME MaxFeedAssumption == MaxFeed \in Nat
ASSUME MaxFaultsAssumption == MaxFaults \in Nat

VARIABLES
    path,       \* media.path is set
    file,       \* the file in the media directory: "removed" by the user
    job,        \* the handlers under way
    feed,       \* message events published and not handled, with what their
                \* row says of the path
    local,      \* the window's copy of each message has a path
    cell,       \* the state of each row
    cache,      \* w.animCache
    order,      \* w.animOrder
    waiting,    \* w.animPending: the rows that wait for a decode under way
    viewer,     \* the message open in the viewer
    faults,     \* faults so far
    rewritten,  \* history: messages whose file was written again after it had
                \* been whole, or by two handlers at once
    outdated    \* history: messages of which the last row published says
                \* something else than the table, or was lost

daemonVars == <<path, file, job, rewritten>>
streamVars == <<feed, outdated>>
imageVars == <<cache, order, waiting>>
windowVars == <<local, cell, viewer>>
vars == <<daemonVars, streamVars, imageVars, windowVars, faults>>

-----------------------------------------------------------------------------
HasMedia(m) == Kind[m] \in MediaKinds
IsVisual(m) == Kind[m] \in {"image", "sticker", "video"}
IsDecodable(m) == Kind[m] \in {"image", "sticker"}
IsViewable(m) == Kind[m] \in {"image", "video"}
Downloadable == {m \in Msgs : HasMedia(m)}

JobRecord == [kind : {"none", "download", "react"},
              phase : {"free", "called", "fetching", "writing", "recording", "reading",
                       "sending", "done", "failed"},
              msg : Msgs \cup {None}, cell : Cells \cup {None}, row : BOOLEAN]
Free == [kind |-> "none", phase |-> "free", msg |-> None, cell |-> None, row |-> FALSE]

\* item: the message the list item holds; id: boundID; offer: what a click on
\* the row does; want: previewPaths; paint: the message whose image the picture
\* shows; ticking: the message whose frames a timer advances.
CellRecord == [item : Msgs \cup {None}, id : Msgs \cup {None}, spinning : BOOLEAN,
               offer : {"nothing", "download", "view", "open"},
               want : Msgs \cup {None}, paint : Msgs \cup {None},
               ticking : Msgs \cup {None}]
NewCell == [item |-> None, id |-> None, spinning |-> FALSE, offer |-> "nothing",
            want |-> None, paint |-> None, ticking |-> None]

\* What there is at the destination of a message: mediaPath gives each message
\* one of its own.
Files == {"absent", "partial", "whole", "removed"}

TypeOK ==
    /\ path \in [Msgs -> BOOLEAN] /\ file \in [Msgs -> Files]
    /\ job \in [Jobs -> JobRecord]
    /\ feed \in Seq([msg : Msgs, row : BOOLEAN])
    /\ local \in [Msgs -> BOOLEAN] /\ cell \in [Cells -> CellRecord]
    /\ cache \subseteq Msgs /\ order \in Seq(Msgs)
    /\ waiting \in [Msgs -> SUBSET Cells]
    /\ viewer \in Msgs \cup {None} /\ faults \in 0..MaxFaults
    /\ rewritten \subseteq Msgs /\ outdated \subseteq Msgs

-----------------------------------------------------------------------------
(* DownloadMedia and ReactMessage in the daemon.                           *)

Running(j, kind, phase) == job[j].kind = kind /\ job[j].phase = phase
To(j, phase) == job' = [job EXCEPT ![j].phase = phase]
Writing(m) == {j \in Jobs : Running(j, "download", "writing") /\ job[j].msg = m}

Fault == faults < MaxFaults /\ faults' = faults + 1

\* A path is recorded, and there is a file.
HasFile(m) == path[m] /\ file[m] \in {"partial", "whole"}

\* A file that is there is returned as it is.
Lookup(j) ==
    /\ Running(j, "download", "called")
    /\ To(j, IF HasFile(job[j].msg) THEN "reading" ELSE "fetching")
    /\ UNCHANGED <<path, file, rewritten, streamVars, imageVars, windowVars, faults>>

\* Mutant: the path is recorded before the file is written.
MutantStartWrite(j) ==
    LET m == job[j].msg IN
    /\ Running(j, "download", "fetching")
    /\ file' = [file EXCEPT ![m] = "partial"]
    /\ rewritten' = IF file[m] \in {"whole", "removed"} \/ Writing(m) # {}
                    THEN rewritten \cup {m} ELSE rewritten
    /\ path' = [path EXCEPT ![m] = TRUE]
    /\ To(j, "writing")
    /\ UNCHANGED <<streamVars, imageVars, windowVars, faults>>

\* The attachment has been fetched; os.WriteFile truncates the file first.
StartWrite(j) ==
    LET m == job[j].msg IN
    /\ Running(j, "download", "fetching")
    /\ file' = [file EXCEPT ![m] = "partial"]
    /\ rewritten' = IF file[m] \in {"whole", "removed"} \/ Writing(m) # {}
                    THEN rewritten \cup {m} ELSE rewritten
    /\ To(j, "writing")
    /\ UNCHANGED <<path, streamVars, imageVars, windowVars, faults>>

\* What a file holds that two handlers wrote at once is left open.
FinishWrite(j) ==
    LET m == job[j].msg IN
    /\ Running(j, "download", "writing")
    /\ \E f \in IF m \in rewritten THEN {"whole", "partial"} ELSE {"whole"} :
          file' = [file EXCEPT ![m] = f]
    /\ To(j, "recording")
    /\ UNCHANGED <<path, rewritten, streamVars, imageVars, windowVars, faults>>

SetMediaPath(j) ==
    /\ Running(j, "download", "recording")
    /\ path' = [path EXCEPT ![job[j].msg] = TRUE]
    /\ outdated' = IF path[job[j].msg] THEN outdated ELSE outdated \cup {job[j].msg}
    /\ To(j, "reading")
    /\ UNCHANGED <<file, rewritten, feed, imageVars, windowVars, faults>>

\* toProtoMessage, of a row with or without a path.
MessageEvent(m, row) == [msg |-> m, row |-> row]

\* Publishing: a lost event is the broker's or the stream's (EventStream).
Publish(m, row) ==
    /\ Len(feed) < MaxFeed
    /\ \/ /\ feed' = Append(feed, MessageEvent(m, row))
          /\ outdated' = IF row = path[m] THEN outdated \ {m} ELSE outdated \cup {m}
          /\ UNCHANGED faults
       \/ /\ Fault
          /\ feed' = feed
          /\ outdated' = outdated \cup {m}

\* protoMessage reads the row, which holds the path from now on, and the
\* service publishes it before it replies.
PublishDownloaded(j) ==
    /\ Running(j, "download", "reading")
    /\ Publish(job[j].msg, TRUE)
    /\ To(j, "done")
    /\ UNCHANGED <<path, file, rewritten, imageVars, windowVars>>

\* No client, no payload, a failed transfer, a message deleted meanwhile, a
\* write or a statement that fails: what was done so far stays.
Fail(j) ==
    /\ Fault
    /\ job[j].kind = "download" /\ job[j].phase \notin {"done", "failed"}
    /\ To(j, "failed")
    /\ UNCHANGED <<path, file, rewritten, streamVars, imageVars, windowVars>>

\* ReactMessage publishes the row it read before the network call.
ReadForReaction(j) ==
    /\ Running(j, "react", "called")
    /\ job' = [job EXCEPT ![j].phase = "sending", ![j].row = path[job[j].msg]]
    /\ UNCHANGED <<path, file, rewritten, streamVars, imageVars, windowVars, faults>>

Reacted(j) ==
    /\ Running(j, "react", "sending")
    /\ Publish(job[j].msg, job[j].row)
    /\ job' = [job EXCEPT ![j] = Free]
    /\ UNCHANGED <<path, file, rewritten, imageVars, windowVars>>

\* WhatsApp delivers the message again: the stored row wins, but the one just
\* built, which has no path, is published (persistMessage).
Redeliver(m) ==
    /\ Fault
    /\ Len(feed) < MaxFeed
    /\ feed' = Append(feed, MessageEvent(m, FALSE))
    /\ outdated' = IF path[m] THEN outdated \cup {m} ELSE outdated \ {m}
    /\ UNCHANGED <<daemonVars, imageVars, windowVars>>

\* The user empties the media directory.
RemoveFile(m) ==
    /\ Fault
    /\ file[m] \in {"partial", "whole"} /\ Writing(m) = {}
    /\ file' = [file EXCEPT ![m] = IF @ = "whole" THEN "removed" ELSE "absent"]
    /\ UNCHANGED <<path, job, rewritten, streamVars, imageVars, windowVars>>

\* The daemon dies: every call fails, and the stream ends with its events.
Crash ==
    /\ Fault
    /\ job' = [j \in Jobs |-> IF job[j].kind = "download" /\ job[j].phase # "done"
                             THEN [job[j] EXCEPT !.phase = "failed"]
                             ELSE IF job[j].kind = "download" THEN job[j] ELSE Free]
    /\ feed' = <<>>
    /\ outdated' = outdated \cup {feed[i].msg : i \in DOMAIN feed}
    /\ UNCHANGED <<path, file, rewritten, imageVars, windowVars>>

-----------------------------------------------------------------------------
(* The image cache.                                                        *)

\* A list of uses reduced to the most recent one of each cached path, in order.
Compactions(uses, kept) ==
    LET used == {m \in kept : \E k \in DOMAIN uses : uses[k] = m}
        LaterUse(m, n) == \E k \in DOMAIN uses :
                             uses[k] = m /\ \A l \in k..Len(uses) : uses[l] # n
    IN  {all \in [1..Cardinality(used) -> used] :
            \A i, k \in DOMAIN all : i < k => LaterUse(all[k], all[i])}

\* The entries beyond the limit, those used longest ago.
Excess(all) == IF Len(all) <= CacheLimit THEN 0 ELSE Len(all) - CacheLimit

\* touchAnimCache, after the window has set animCache to kept: entries are
\* evicted only when the list of uses has grown to twice the limit.
TouchAnimCache(kept, m) ==
    LET grown == Append(order, m) IN
    \/ /\ Len(grown) < 2 * CacheLimit
       /\ order' = grown
       /\ cache' = kept
    \/ /\ Len(grown) >= 2 * CacheLimit
       /\ \E all \in Compactions(grown, kept) :
            /\ order' = SubSeq(all, Excess(all) + 1, Len(all))
            /\ cache' = kept \ {all[i] : i \in 1..Excess(all)}

\* The file cannot be read or decoded, or this is its image.
DecodeAnimation(m) == {None, m}

\* stopAnimation, showAnimation.
Shown(row, m) ==
    [row EXCEPT !.paint = m, !.ticking = IF m \in Animated THEN m ELSE None]

\* loadAnimation for a row: a hit is shown at once, other requests share one
\* decode.
LoadAnimation(c, m) ==
    IF m \in cache
    THEN /\ TouchAnimCache(cache, m)
         /\ UNCHANGED waiting
    ELSE /\ waiting' = [waiting EXCEPT ![m] = @ \cup {c}]
         /\ UNCHANGED <<cache, order>>

\* Mutant: the rows that wait are not asked whether they still want the image.
MutantDecoded(m) ==
    /\ waiting[m] # {}
    /\ waiting' = [waiting EXCEPT ![m] = {}]
    /\ \E image \in DecodeAnimation(m) :
          \/ /\ image = m
             /\ TouchAnimCache(cache \cup {m}, m)
             /\ cell' = [c \in Cells |-> IF c \in waiting[m] THEN Shown(cell[c], m)
                                        ELSE cell[c]]
          \/ image = None /\ UNCHANGED <<cache, order, cell>>
    /\ UNCHANGED <<daemonVars, streamVars, local, viewer, faults>>

\* The decode is done, on the main loop: each row that waits is asked whether
\* it still wants the image.
Decoded(m) ==
    /\ waiting[m] # {}
    /\ waiting' = [waiting EXCEPT ![m] = {}]
    /\ \E image \in DecodeAnimation(m) :
          \/ /\ image = m
             /\ TouchAnimCache(cache \cup {m}, m)
             /\ cell' = [c \in Cells |-> IF c \in waiting[m] /\ cell[c].want = m
                                        THEN Shown(cell[c], m) ELSE cell[c]]
          \/ image = None /\ UNCHANGED <<cache, order, cell>>
    /\ UNCHANGED <<daemonVars, streamVars, local, viewer, faults>>

\* The next frame of an animation.
Tick(c) ==
    /\ cell[c].ticking # None
    /\ cell' = [cell EXCEPT ![c].paint = cell[c].ticking]
    /\ UNCHANGED <<daemonVars, streamVars, imageVars, local, viewer, faults>>

-----------------------------------------------------------------------------
(* The window: the rows of the list, the stream and the replies.           *)

StartSpinner(row) == [row EXCEPT !.spinning = TRUE]
StopSpinner(row) == [row EXCEPT !.spinning = FALSE]

\* showThumbnail: a thumbnail that does not decode leaves a placeholder.
Thumbnail(m) == IF Thumb[m] = "good" THEN m ELSE None

\* bindVisualMedia.  A downloaded image without a thumbnail leaves the picture
\* as it was until it is decoded.
BoundVisual(row, m, isLocal) ==
    LET decodes == isLocal /\ IsDecodable(m)
        bound == [row EXCEPT
                   !.want = IF decodes THEN m ELSE None,
                   !.paint = IF Thumb[m] = "none" /\ decodes THEN @ ELSE Thumbnail(m),
                   !.offer = IF ~isLocal THEN "download"
                             ELSE IF IsViewable(m) THEN "view" ELSE "nothing"]
    IN  IF decodes /\ m \in cache THEN Shown(bound, m) ELSE bound

\* bindFileMedia.
BoundFile(row, isLocal) ==
    [row EXCEPT !.offer = IF isLocal THEN "open" ELSE "download"]

\* Mutant: a row that is bound again keeps its spinner.
MutantRebound(row, m, isLocal) ==
    LET reset == [row EXCEPT !.item = m, !.offer = "nothing", !.ticking = None]
        bound == [reset EXCEPT !.id = m]
    IN  IF ~HasMedia(m) THEN reset
        ELSE IF IsVisual(m) THEN BoundVisual(bound, m, isLocal) ELSE BoundFile(bound, isLocal)

\* bindMedia: what the row did for its previous message goes first.
Rebound(row, m, isLocal) ==
    LET reset == [StopSpinner(row) EXCEPT !.item = m, !.offer = "nothing", !.ticking = None]
        bound == [reset EXCEPT !.id = m]
    IN  IF ~HasMedia(m) THEN reset
        ELSE IF IsVisual(m) THEN BoundVisual(bound, m, isLocal) ELSE BoundFile(bound, isLocal)

\* bindMessageRow.
Rebind(rows, c, m, isLocal) ==
    /\ cell' = [rows EXCEPT ![c] = Rebound(rows[c], m, isLocal)]
    /\ IF isLocal /\ IsDecodable(m) THEN LoadAnimation(c, m) ELSE UNCHANGED imageVars

\* Mutant: the message is refreshed and its row is not.
MutantRefresh(rows, m, isLocal) ==
    /\ local' = [local EXCEPT ![m] = isLocal]
    /\ cell' = rows
    /\ UNCHANGED imageVars

\* onMessage: the shown message takes the row's media, and its row is bound
\* again.
Refresh(rows, m, isLocal) ==
    /\ local' = [local EXCEPT ![m] = isLocal]
    /\ \/ \E c \in Cells : rows[c].item = m /\ Rebind(rows, c, m, isLocal)
       \/ /\ \A c \in Cells : rows[c].item # m
          /\ cell' = rows
          /\ UNCHANGED imageVars

HandleEvent ==
    /\ feed # <<>>
    /\ Refresh(cell, Head(feed).msg, Head(feed).row)
    /\ feed' = Tail(feed)
    /\ UNCHANGED <<daemonVars, outdated, viewer, faults>>

\* The callback of downloadInto: a row that has been recycled is left alone.
Answer(j) ==
    LET c == job[j].cell
        m == job[j].msg
        rows == [cell EXCEPT ![c] = StopSpinner(@)]
    IN
    /\ job[j].phase \in {"done", "failed"}
    /\ job' = [job EXCEPT ![j] = Free]
    /\ \/ /\ cell[c].id # m
          /\ UNCHANGED <<local, cell, imageVars>>
       \/ /\ cell[c].id = m /\ job[j].phase = "failed"
          /\ cell' = rows
          /\ UNCHANGED <<local, imageVars>>
       \/ /\ cell[c].id = m /\ job[j].phase = "done"
          /\ Refresh(rows, m, TRUE)
    /\ UNCHANGED <<path, file, rewritten, streamVars, viewer, faults>>

\* The list scrolls: a row is bound to a message that no row shows, or let go.
\* It stays still while the viewer, which is modal, is open (bound).
Bind(c, m) ==
    /\ viewer = None
    /\ cell[c].item = None /\ \A d \in Cells : cell[d].item # m
    /\ Rebind(cell, c, m, local[m])
    /\ UNCHANGED <<daemonVars, streamVars, local, viewer, faults>>

Unbind(c) ==
    /\ viewer = None
    /\ cell[c].item # None
    /\ cell' = [cell EXCEPT ![c].item = None, ![c].want = None, ![c].ticking = None]
    /\ UNCHANGED <<daemonVars, streamVars, imageVars, local, viewer, faults>>

\* What the user does: one reaction at a time (bound).
Call(kind, m, c) ==
    \E j \in Jobs :
        /\ job[j] = Free
        /\ job' = [job EXCEPT ![j] = [kind |-> kind, phase |-> "called", msg |-> m,
                                     cell |-> c, row |-> FALSE]]

Download(c) ==
    /\ viewer = None
    /\ cell[c].item # None /\ cell[c].offer = "download" /\ ~cell[c].spinning
    /\ cell' = [cell EXCEPT ![c] = StartSpinner(@)]
    /\ Call("download", cell[c].item, c)
    /\ UNCHANGED <<path, file, rewritten, streamVars, imageVars, local, viewer, faults>>

React(c) ==
    /\ viewer = None /\ cell[c].item # None
    /\ \A j \in Jobs : job[j].kind # "react"
    /\ Call("react", cell[c].item, None)
    /\ UNCHANGED <<path, file, rewritten, streamVars, imageVars, windowVars, faults>>

ShowMediaViewer(c) ==
    /\ viewer = None
    /\ cell[c].item # None /\ cell[c].offer = "view"
    /\ viewer' = cell[c].item
    /\ UNCHANGED <<daemonVars, streamVars, imageVars, local, cell, faults>>

CloseViewer ==
    /\ viewer # None
    /\ viewer' = None
    /\ UNCHANGED <<daemonVars, streamVars, imageVars, local, cell, faults>>

-----------------------------------------------------------------------------
Init ==
    /\ path \in [Msgs -> BOOLEAN] /\ \A m \in Msgs : path[m] => HasMedia(m)
    /\ file = [m \in Msgs |-> IF path[m] THEN "whole" ELSE "absent"]
    /\ job = [j \in Jobs |-> Free]
    /\ feed = <<>> /\ outdated = {} /\ rewritten = {}
    /\ local = path /\ cell = [c \in Cells |-> NewCell] /\ viewer = None
    /\ faults = 0 /\ cache = {} /\ order = <<>> /\ waiting = [m \in Msgs |-> {}]

JobNext(j) ==
    \/ Lookup(j) \/ StartWrite(j) \/ FinishWrite(j) \/ SetMediaPath(j)
    \/ PublishDownloaded(j) \/ Fail(j) \/ ReadForReaction(j) \/ Reacted(j) \/ Answer(j)

CellNext(c) ==
    \/ \E m \in Msgs : Bind(c, m)
    \/ Unbind(c) \/ Download(c) \/ React(c) \/ ShowMediaViewer(c) \/ Tick(c)

Next ==
    \/ \E j \in Jobs : JobNext(j)
    \/ \E c \in Cells : CellNext(c)
    \/ \E m \in Downloadable : Redeliver(m) \/ RemoveFile(m)
    \/ \E m \in Msgs : Decoded(m)
    \/ HandleEvent \/ CloseViewer \/ Crash

Spec == Init /\ [][Next]_vars

-----------------------------------------------------------------------------
\* When no event of a message is under way and the last one published was
\* neither lost nor of an older row, its row offers to download the attachment
\* exactly when the table has no path for it.
SettledRowIsRight ==
    \A c \in Cells, m \in Downloadable \ outdated :
        /\ cell[c].item = m
        /\ \A i \in DOMAIN feed : feed[i].msg # m
        => (cell[c].offer = "download" <=> ~path[m])

\* However rows are recycled while images decode, a row shows and animates its
\* own image: only a downloaded image without a thumbnail leaves the picture of
\* the row's previous message until it is decoded.
RowShowsItsImage ==
    \A c \in Cells : LET m == cell[c].item IN
        /\ cell[c].ticking \in {m, None}
        /\ (m # None /\ IsVisual(m) /\ ~(local[m] /\ IsDecodable(m) /\ Thumb[m] = "none"))
               => cell[c].paint \in {m, None}

\* A row that wants an image which is decoded shows it: no row that joins a
\* decode under way is forgotten.
DecodedImageIsShown ==
    \A c \in Cells, m \in cache : cell[c].want = m => cell[c].paint = m

\* A recorded path names a file that was written to the end, unless a second
\* download wrote the same file again.
RecordedFileIsWhole ==
    \A m \in Msgs \ rewritten : path[m] => file[m] \in {"whole", "removed"}

\* A row whose spinner turns has a call under way that will stop it.
SpinnerHasCall ==
    \A c \in Cells : cell[c].spinning =>
        \E j \in Jobs : job[j].kind = "download" /\ job[j].cell = c /\ job[j].msg = cell[c].id

\* The window offers to open a file only when its path has been recorded.
ShownPathIsRecorded ==
    /\ \A m \in Msgs : local[m] => path[m]
    /\ viewer # None => path[viewer]

\* The cache stays below twice its limit, and everything in it is in the list
\* of uses, from which it can be evicted.
CacheIsBounded ==
    /\ Len(order) < 2 * CacheLimit
    /\ \A m \in cache : \E i \in DOMAIN order : order[i] = m
=============================================================================
