---------------------------- MODULE Media_proofs ----------------------------
(***************************************************************************)
(* The rows of the conversation show what the daemon's tables hold of      *)
(* their own message, for any messages, rows, calls, faults and cache.     *)
(*                                                                         *)
(* None of the properties is inductive.  A row is right because its        *)
(* buttons follow the window's copy of its message (RowGood), and that     *)
(* copy, once the events are handled, follows the table (Current): of the  *)
(* events of a message that are still under way the last one says what     *)
(* the table says.  A recorded file is whole because one that is about to  *)
(* be recorded is (RecordingDone), and a spinner has its call because the  *)
(* button that starts it belongs to the message bound last (RowGood).      *)
(*                                                                         *)
(* IInv carries these.  Two invariants stand on it: PathsKnown, of the     *)
(* paths that events, reactions and the viewer tell of, and ImagesGood, of *)
(* the cache and the rows that wait for a decode.                          *)
(***************************************************************************)
EXTENDS Media, FiniteSetTheorems, TLAPS

\* A call that names a message and, if it is a download, a row.
JobGood(r) ==
    /\ r \in JobRecord
    /\ r.kind = "none" => r.phase = "free"
    /\ r.kind # "none" => r.msg \in Msgs
    /\ r.kind = "download" => r.cell \in Cells
    /\ r.kind = "react" => r.phase \in {"called", "sending"}
JobsGood == job = [j \in Jobs |-> job[j]] /\ \A j \in Jobs : JobGood(job[j])

\* A row whose wishes, pictures and buttons are those of its own message, when
\* the window's copies have paths as loc says.
RowGood(row, loc) ==
    /\ row \in CellRecord
    /\ row.want \in {row.item, None} /\ row.ticking \in {row.item, None}
    /\ (row.item # None /\ row.offer # "nothing") => row.id = row.item
    /\ (row.item # None /\ IsVisual(row.item)
          /\ ~(loc[row.item] /\ IsDecodable(row.item) /\ Thumb[row.item] = "none"))
            => row.paint \in {row.item, None}
    /\ row.item \in Downloadable => (row.offer = "download" <=> ~loc[row.item])
    /\ row.item \in Msgs \ Downloadable => row.offer = "nothing"

\* No message is in two rows.
RowsGood(rows, loc) ==
    /\ rows = [c \in Cells |-> rows[c]]
    /\ \A c \in Cells : RowGood(rows[c], loc)
    /\ \A c, d \in Cells : rows[c].item = rows[d].item => rows[c].item = None \/ c = d

WindowGood == local \in [Msgs -> BOOLEAN] /\ RowsGood(cell, local)

\* A file that is about to be recorded is whole.
RecordingDone ==
    \A j \in Jobs : (Running(j, "download", "recording") /\ job[j].msg \notin rewritten)
                        => file[job[j].msg] \in {"whole", "removed"}
FilesGood ==
    /\ path \in [Msgs -> BOOLEAN] /\ file \in [Msgs -> Files] /\ rewritten \subseteq Msgs
    /\ RecordedFileIsWhole /\ RecordingDone

\* A call that succeeded, or is about to, has its path recorded.
PathsAnswered ==
    \A j \in Jobs : (job[j].kind = "download" /\ job[j].phase \in {"reading", "done"})
                        => path[job[j].msg]

IsLast(i, m) ==
    /\ feed[i].msg = m
    /\ \A k \in DOMAIN feed : k > i => feed[k].msg # m
Unheard(m) == \A i \in DOMAIN feed : feed[i].msg # m

\* Of a message that is not outdated the window knows, or will have heard at
\* last, what the table says.
Current ==
    \A m \in Msgs \ outdated :
        /\ Unheard(m) => (local[m] <=> path[m])
        /\ \A i \in DOMAIN feed : IsLast(i, m) => (feed[i].row <=> path[m])
StreamTyped == feed \in Seq([msg : Msgs, row : BOOLEAN]) /\ outdated \subseteq Msgs

IInv ==
    /\ JobsGood /\ WindowGood /\ SpinnerHasCall
    /\ FilesGood /\ PathsAnswered /\ StreamTyped /\ Current

-----------------------------------------------------------------------------
(* Binding a row.                                                          *)

\* bindMedia leaves a row that is good for its message, and stops its spinner.
LEMMA ReboundIsGood ==
    ASSUME NEW row \in CellRecord, NEW m \in Msgs, row.item \in {m, None},
           row.want \in {row.item, None}, NEW isLocal \in BOOLEAN,
           NEW loc \in [Msgs -> BOOLEAN], loc[m] <=> isLocal
    PROVE  /\ RowGood(Rebound(row, m, isLocal), loc)
           /\ Rebound(row, m, isLocal).item = m
           /\ ~Rebound(row, m, isLocal).spinning
<1> USE NoneAssumption, KindAssumption, ThumbAssumption
<1> DEFINE reset == [StopSpinner(row) EXCEPT !.item = m, !.offer = "nothing", !.ticking = None]
           bound == [reset EXCEPT !.id = m]
<1>0. m # None
  OBVIOUS
<1>1. /\ reset \in CellRecord /\ reset.item = m /\ reset.offer = "nothing"
      /\ reset.ticking = None /\ reset.want \in {m, None} /\ reset.spinning = FALSE
  BY DEF CellRecord, StopSpinner
<1>2. /\ bound \in CellRecord /\ bound.item = m /\ bound.id = m /\ bound.offer = "nothing"
      /\ bound.ticking = None /\ bound.want \in {m, None} /\ bound.spinning = FALSE
  BY <1>1 DEF CellRecord
<1> HIDE DEF reset, bound
<1>3. HasMedia(m) => m \in Downloadable
  BY DEF Downloadable
<1>4. CASE ~HasMedia(m)
  <2>1. Rebound(row, m, isLocal) = reset
    BY <1>4 DEF Rebound, reset
  <2>2. ~IsVisual(m) /\ m \notin Downloadable
    BY <1>4 DEF HasMedia, IsVisual, Downloadable, MediaKinds
  <2> QED
    BY <1>1, <2>1, <2>2 DEF RowGood
<1>5. CASE HasMedia(m) /\ ~IsVisual(m)
  <2>1. Rebound(row, m, isLocal) = BoundFile(bound, isLocal)
    BY <1>5 DEF Rebound, bound, reset
  <2> DEFINE r == BoundFile(bound, isLocal)
  <2>2. /\ r \in CellRecord /\ r.item = m /\ r.id = m /\ r.ticking = None
        /\ r.want \in {m, None} /\ r.spinning = FALSE
        /\ r.offer = "download" <=> ~isLocal
    BY <1>2 DEF BoundFile, CellRecord
  <2> HIDE DEF r
  <2>3. RowGood(r, loc)
    BY <1>0, <1>5, <1>3, <2>2 DEF RowGood
  <2> QED
    BY <2>1, <2>2, <2>3 DEF r
<1>6. CASE HasMedia(m) /\ IsVisual(m)
  <2>1. Rebound(row, m, isLocal) = BoundVisual(bound, m, isLocal)
    BY <1>6 DEF Rebound, bound, reset
  <2> DEFINE decodes == isLocal /\ IsDecodable(m)
             want == IF decodes THEN m ELSE None
             paint == IF Thumb[m] = "none" /\ decodes THEN bound.paint ELSE Thumbnail(m)
             offer == IF ~isLocal THEN "download"
                      ELSE IF IsViewable(m) THEN "view" ELSE "nothing"
             b == [bound EXCEPT !.want = want, !.paint = paint, !.offer = offer]
  <2>2. Thumbnail(m) \in {m, None}
    BY DEF Thumbnail
  <2>3. /\ b \in CellRecord /\ b.item = m /\ b.id = m /\ b.ticking = None
        /\ b.want \in {m, None} /\ b.spinning = FALSE
        /\ b.offer = "download" <=> ~isLocal
        /\ ~(Thumb[m] = "none" /\ decodes) => b.paint \in {m, None}
    <3>1. want \in {m, None}
      OBVIOUS
    <3>2. paint \in Msgs \cup {None} /\ (~(Thumb[m] = "none" /\ decodes) => paint \in {m, None})
      BY <1>2, <2>2 DEF CellRecord
    <3>3. offer \in {"nothing", "download", "view", "open"} /\ (offer = "download" <=> ~isLocal)
      OBVIOUS
    <3> HIDE DEF want, paint, offer, decodes
    <3> QED
      BY <1>2, <3>1, <3>2, <3>3 DEF CellRecord
  <2>4. BoundVisual(bound, m, isLocal) = IF decodes /\ m \in cache THEN Shown(b, m) ELSE b
    BY DEF BoundVisual
  <2> HIDE DEF b, want, paint, offer
  <2>5. RowGood(b, loc)
    BY <1>0, <1>6, <1>3, <2>3 DEF RowGood
  <2>6. RowGood(Shown(b, m), loc) /\ Shown(b, m).item = m /\ Shown(b, m).spinning = FALSE
    <3>1. /\ Shown(b, m) \in CellRecord /\ Shown(b, m).item = m /\ Shown(b, m).id = m
          /\ Shown(b, m).ticking \in {m, None} /\ Shown(b, m).want = b.want
          /\ Shown(b, m).spinning = FALSE /\ Shown(b, m).offer = b.offer
          /\ Shown(b, m).paint = m
      BY <2>3 DEF Shown, CellRecord
    <3> HIDE DEF Shown
    <3> QED
      BY <1>0, <1>6, <1>3, <2>3, <3>1 DEF RowGood
  <2> HIDE DEF decodes
  <2> QED
    BY <2>1, <2>3, <2>4, <2>5, <2>6
<1> QED
  BY <1>4, <1>5, <1>6

\* What a row says depends only on the copy of its own message.
LEMMA RowGoodElsewhere ==
    ASSUME NEW row, NEW loc, NEW other, RowGood(row, loc),
           row.item # None => (other[row.item] <=> loc[row.item])
    PROVE  RowGood(row, other)
<1>1. row.item \in Downloadable => row.item # None
  BY NoneAssumption DEF Downloadable
<1> QED
  BY <1>1 DEF RowGood

LEMMA StoppedIsGood ==
    ASSUME NEW row, NEW loc, RowGood(row, loc)
    PROVE  /\ RowGood(StopSpinner(row), loc) /\ StopSpinner(row).item = row.item
           /\ StopSpinner(row).id = row.id /\ ~StopSpinner(row).spinning
<1>1. /\ StopSpinner(row) \in CellRecord /\ StopSpinner(row).spinning = FALSE
      /\ StopSpinner(row).item = row.item /\ StopSpinner(row).id = row.id
      /\ StopSpinner(row).want = row.want /\ StopSpinner(row).ticking = row.ticking
      /\ StopSpinner(row).offer = row.offer /\ StopSpinner(row).paint = row.paint
  BY DEF RowGood, CellRecord, StopSpinner
<1> QED
  BY <1>1 DEF RowGood

\* bindMessageRow on a row that holds the message or nothing.
LEMMA RebindIsGood ==
    ASSUME NEW rows, NEW c \in Cells, NEW m \in Msgs, NEW isLocal \in BOOLEAN,
           NEW loc \in [Msgs -> BOOLEAN], NEW new \in [Msgs -> BOOLEAN],
           RowsGood(rows, loc), rows[c].item \in {m, None},
           \A d \in Cells : d # c => rows[d].item # m,
           new[m] <=> isLocal, \A n \in Msgs : n # m => (new[n] <=> loc[n]),
           Rebind(rows, c, m, isLocal)
    PROVE  /\ RowsGood(cell', new)
           /\ \A d \in Cells : cell'[d].spinning =>
                  rows[d].spinning /\ cell'[d].id = rows[d].id
<1> DEFINE r == Rebound(rows[c], m, isLocal)
<1>1. cell' = [rows EXCEPT ![c] = r]
  BY DEF Rebind
<1>2. RowGood(r, new) /\ r.item = m /\ ~r.spinning
  BY ReboundIsGood DEF RowsGood, RowGood
<1> HIDE DEF r
<1>3. cell' = [d \in Cells |-> cell'[d]] /\ cell'[c] = r /\ \A d \in Cells \ {c} : cell'[d] = rows[d]
  BY <1>1 DEF RowsGood
<1>4. ASSUME NEW d \in Cells \ {c} PROVE RowGood(cell'[d], new)
  <2>1. rows[d].item \in Msgs \cup {None} /\ rows[d].item # m
    BY <1>4 DEF RowsGood, RowGood, CellRecord
  <2> QED
    BY <1>3, <2>1, RowGoodElsewhere DEF RowsGood
<1>5. \A d, e \in Cells : cell'[d].item = cell'[e].item => cell'[d].item = None \/ d = e
  BY <1>2, <1>3 DEF RowsGood
<1>6. RowsGood(cell', new)
  BY <1>2, <1>3, <1>4, <1>5 DEF RowsGood
<1> QED
  BY <1>2, <1>3, <1>6

LEMMA RefreshIsGood ==
    ASSUME NEW rows, NEW m \in Msgs, NEW isLocal \in BOOLEAN, local \in [Msgs -> BOOLEAN],
           RowsGood(rows, local), Refresh(rows, m, isLocal)
    PROVE  /\ WindowGood'
           /\ \A d \in Cells : cell'[d].spinning =>
                  rows[d].spinning /\ cell'[d].id = rows[d].id
<1>1. /\ local' \in [Msgs -> BOOLEAN] /\ local'[m] = isLocal
      /\ \A n \in Msgs : n # m => local'[n] = local[n]
  BY DEF Refresh
<1>2. CASE \E c \in Cells : rows[c].item = m /\ Rebind(rows, c, m, isLocal)
  <2>1. PICK c \in Cells : rows[c].item = m /\ Rebind(rows, c, m, isLocal)
    BY <1>2
  <2>2. \A d \in Cells : d # c => rows[d].item # m
    BY <2>1, NoneAssumption DEF RowsGood
  <2> QED
    BY <1>1, <2>1, <2>2, RebindIsGood DEF WindowGood
<1>3. CASE (\A c \in Cells : rows[c].item # m) /\ cell' = rows
  <2>1. ASSUME NEW c \in Cells PROVE RowGood(rows[c], local')
    <3>1. rows[c].item \in Msgs \cup {None} /\ rows[c].item # m
      BY <1>3 DEF RowsGood, RowGood, CellRecord
    <3> QED
      BY <1>1, <3>1, RowGoodElsewhere DEF RowsGood
  <2> QED
    BY <1>1, <1>3, <2>1 DEF RowsGood, WindowGood
<1> QED
  BY <1>2, <1>3 DEF Refresh

-----------------------------------------------------------------------------
(* What most steps keep.                                                   *)

LEMMA SpinnersKept ==
    ASSUME SpinnerHasCall,
           \A c \in Cells : cell'[c].spinning => cell[c].spinning /\ cell'[c].id = cell[c].id,
           \A j \in Jobs : job[j].kind = "download" =>
               /\ job'[j].kind = "download" /\ job'[j].msg = job[j].msg
               /\ job'[j].cell = job[j].cell
    PROVE  SpinnerHasCall'
  BY DEF SpinnerHasCall

LEMMA WindowKept ==
    ASSUME WindowGood, UNCHANGED <<local, cell>>
    PROVE  WindowGood'
  BY DEF WindowGood, RowsGood

LEMMA CurrentKept ==
    ASSUME StreamTyped, Current, UNCHANGED <<local, path, streamVars>>
    PROVE  StreamTyped' /\ Current'
  BY DEF StreamTyped, Current, Unheard, IsLast, streamVars

\* The files are untouched, and no call is newly about to record one.
LEMMA FilesKept ==
    ASSUME FilesGood, UNCHANGED <<path, file, rewritten>>,
           \A j \in Jobs : Running(j, "download", "recording")' =>
               Running(j, "download", "recording") /\ job'[j].msg = job[j].msg
    PROVE  FilesGood'
  BY DEF FilesGood, RecordedFileIsWhole, RecordingDone

\* No call newly claims a path.
LEMMA AnsweredKept ==
    ASSUME PathsAnswered, UNCHANGED path,
           \A j \in Jobs : (job'[j].kind = "download" /\ job'[j].phase \in {"reading", "done"}) =>
               /\ job[j].kind = "download" /\ job[j].phase \in {"reading", "done"}
               /\ job'[j].msg = job[j].msg
    PROVE  PathsAnswered'
  BY DEF PathsAnswered

\* A download goes on.
LEMMA DownloadMoves ==
    ASSUME JobsGood, NEW j \in Jobs, job[j].kind = "download",
           NEW phase \in {"called", "fetching", "writing", "recording", "reading", "done", "failed"},
           To(j, phase)
    PROVE  /\ JobsGood' /\ job'[j].phase = phase /\ job'[j].kind = "download"
           /\ \A i \in Jobs : /\ job'[i].kind = job[i].kind /\ job'[i].msg = job[i].msg
                              /\ job'[i].cell = job[i].cell
                              /\ i # j => job'[i] = job[i]
<1>1. JobGood(job[j]) /\ job[j] \in JobRecord
  BY DEF JobsGood, JobGood
<1> DEFINE r == [job[j] EXCEPT !.phase = phase]
<1>2. /\ r \in JobRecord /\ r.phase = phase /\ r.kind = "download"
      /\ r.msg = job[j].msg /\ r.cell = job[j].cell
  BY <1>1 DEF JobRecord
<1>3. JobGood(r)
  BY <1>1, <1>2 DEF JobGood
<1>4. job' = [job EXCEPT ![j] = r]
  BY DEF To
<1> HIDE DEF r
<1>5. job' = [i \in Jobs |-> job'[i]] /\ job'[j] = r /\ \A i \in Jobs \ {j} : job'[i] = job[i]
  BY <1>4 DEF JobsGood
<1>6. JobsGood'
  BY <1>3, <1>5 DEF JobsGood
<1> QED
  BY <1>2, <1>5, <1>6

LEMMA FreeIsGood == JobGood(Free) /\ Free.kind = "none" /\ Free.phase = "free"
  BY DEF Free, JobGood, JobRecord

\* A call ends.
LEMMA JobEnds ==
    ASSUME JobsGood, NEW j \in Jobs, job' = [job EXCEPT ![j] = Free]
    PROVE  /\ JobsGood' /\ job'[j] = Free
           /\ \A i \in Jobs : i # j => job'[i] = job[i]
<1>1. job' = [i \in Jobs |-> job'[i]] /\ job'[j] = Free /\ \A i \in Jobs \ {j} : job'[i] = job[i]
  BY DEF JobsGood
<1> QED
  BY <1>1, FreeIsGood DEF JobsGood

\* A call begins.
LEMMA JobBegins ==
    ASSUME JobsGood, NEW kind \in {"download", "react"}, NEW m \in Msgs,
           NEW c \in Cells \cup {None}, kind = "download" => c \in Cells, Call(kind, m, c)
    PROVE  \E j \in Jobs :
               /\ JobsGood' /\ job[j] = Free
               /\ job'[j].kind = kind /\ job'[j].msg = m /\ job'[j].cell = c
               /\ job'[j].phase = "called"
               /\ \A i \in Jobs : i # j => job'[i] = job[i]
<1> DEFINE r == [kind |-> kind, phase |-> "called", msg |-> m, cell |-> c, row |-> FALSE]
<1>1. PICK j \in Jobs : job[j] = Free /\ job' = [job EXCEPT ![j] = r]
  BY DEF Call
<1>2. /\ r \in JobRecord /\ r.kind = kind /\ r.msg = m /\ r.cell = c /\ r.phase = "called"
  BY DEF JobRecord
<1>3. JobGood(r)
  BY <1>2 DEF JobGood
<1> HIDE DEF r
<1>4. job' = [i \in Jobs |-> job'[i]] /\ job'[j] = r /\ \A i \in Jobs \ {j} : job'[i] = job[i]
  BY <1>1 DEF JobsGood
<1>5. JobsGood'
  BY <1>3, <1>4 DEF JobsGood
<1> QED
  BY <1>1, <1>2, <1>4, <1>5

-----------------------------------------------------------------------------
(* The stream.                                                             *)

\* A row that is published: the last event says what the table says, or the
\* message is outdated.
LEMMA AppendIsCurrent ==
    ASSUME StreamTyped, Current, path \in [Msgs -> BOOLEAN], NEW m \in Msgs, NEW row \in BOOLEAN,
           feed' = Append(feed, MessageEvent(m, row)),
           outdated' = IF row = path[m] THEN outdated \ {m} ELSE outdated \cup {m},
           UNCHANGED <<local, path>>
    PROVE  StreamTyped' /\ Current'
<1> DEFINE e == MessageEvent(m, row)
           n == Len(feed) + 1
<1>1. e \in [msg : Msgs, row : BOOLEAN] /\ e.msg = m /\ e.row = row
  BY DEF MessageEvent
<1>2. StreamTyped'
  BY <1>1 DEF StreamTyped
<1> HIDE DEF e
<1>3. /\ Len(feed) \in Nat /\ n \in Nat
      /\ DOMAIN feed = 1..Len(feed) /\ DOMAIN feed' = 1..n /\ feed'[n] = e
      /\ \A i \in DOMAIN feed : feed'[i] = feed[i]
  BY <1>1 DEF StreamTyped, e
<1>4. n \in DOMAIN feed' /\ \A i \in DOMAIN feed : i < n /\ i \in DOMAIN feed'
  BY <1>3
<1>5. \A i \in DOMAIN feed' : i = n \/ i \in DOMAIN feed
  BY <1>3
<1> HIDE DEF n
<1>6. ASSUME m \notin outdated'
      PROVE  /\ ~Unheard(m)'
             /\ \A i \in DOMAIN feed' : IsLast(i, m)' => (feed'[i].row <=> path'[m])
  <2>1. row = path[m]
    BY <1>6
  <2>2. ~Unheard(m)'
    BY <1>1, <1>3, <1>4 DEF Unheard
  <2>3. ASSUME NEW i \in DOMAIN feed', IsLast(i, m)' PROVE i = n
    BY <1>1, <1>3, <1>4, <1>5, <2>3 DEF IsLast
  <2>4. feed'[n].row <=> path'[m]
    BY <1>1, <1>3, <2>1
  <2> QED
    BY <2>2, <2>3, <2>4
<1>7. ASSUME NEW x \in Msgs \ outdated', x # m
      PROVE  /\ Unheard(x)' => (local'[x] <=> path'[x])
             /\ \A i \in DOMAIN feed' : IsLast(i, x)' => (feed'[i].row <=> path'[x])
  <2>1. x \notin outdated
    BY <1>7
  <2>2. Unheard(x)' => Unheard(x)
    BY <1>3, <1>4 DEF Unheard
  <2>3. ASSUME NEW i \in DOMAIN feed', IsLast(i, x)'
        PROVE  i \in DOMAIN feed /\ IsLast(i, x)
    <3>1. i # n
      BY <1>1, <1>3, <1>7, <2>3 DEF IsLast
    <3>2. i \in DOMAIN feed
      BY <1>5, <3>1
    <3> QED
      BY <1>3, <1>4, <2>3, <3>2 DEF IsLast
  <2> QED
    BY <1>3, <2>1, <2>2, <2>3 DEF Current
<1>8. Current'
  BY <1>6, <1>7 DEF Current
<1> QED
  BY <1>2, <1>8

LEMMA PublishIsCurrent ==
    ASSUME StreamTyped, Current, path \in [Msgs -> BOOLEAN], NEW m \in Msgs, NEW row \in BOOLEAN,
           Publish(m, row), UNCHANGED <<local, path>>
    PROVE  StreamTyped' /\ Current'
<1>1. CASE feed' = feed /\ outdated' = outdated \cup {m}
  <2>1. StreamTyped'
    BY <1>1 DEF StreamTyped
  <2>2. Current'
    BY <1>1 DEF Current, Unheard, IsLast
  <2> QED
    BY <2>1, <2>2
<1>2. CASE /\ feed' = Append(feed, MessageEvent(m, row))
           /\ outdated' = IF row = path[m] THEN outdated \ {m} ELSE outdated \cup {m}
  BY <1>2, AppendIsCurrent
<1> QED
  BY <1>1, <1>2 DEF Publish

LEMMA ElementsOfSeq ==
    ASSUME NEW S, NEW s \in Seq(S) PROVE \A i \in DOMAIN s : s[i] \in S
  OBVIOUS

\* The head and the tail of a sequence of anything.
LEMMA HeadOfSeq ==
    ASSUME NEW S, NEW s \in Seq(S), s # <<>>
    PROVE  /\ s[1] \in S /\ Head(s) = s[1] /\ Len(s) \in Nat /\ Len(s) >= 1
           /\ DOMAIN s = 1..Len(s)
           /\ Tail(s) \in Seq(S) /\ Len(Tail(s)) = Len(s) - 1
           /\ DOMAIN Tail(s) = 1..(Len(s) - 1)
           /\ \A i \in 1..(Len(s) - 1) : Tail(s)[i] = s[i + 1]
<1>1. Len(s) \in Nat /\ Len(s) >= 1 /\ DOMAIN s = 1..Len(s) /\ Head(s) = s[1]
  OBVIOUS
<1>2. s \in [1..Len(s) -> S]
  OBVIOUS
<1>3. s[1] \in S
  BY <1>1, <1>2
<1>4. /\ Tail(s) \in Seq(S) /\ Len(Tail(s)) = Len(s) - 1
      /\ \A i \in 1..(Len(s) - 1) : Tail(s)[i] = s[i + 1]
  OBVIOUS
<1>5. DOMAIN Tail(s) = 1..(Len(s) - 1)
  BY <1>4
<1> QED
  BY <1>1, <1>3, <1>4, <1>5

\* Handling the oldest event: if it was the last of its message, the window now
\* knows what the table says.
LEMMA HeadIsHandled ==
    ASSUME StreamTyped, Current, local \in [Msgs -> BOOLEAN], feed # <<>>,
           UNCHANGED <<path, outdated>>, feed' = Tail(feed),
           local' = [local EXCEPT ![Head(feed).msg] = Head(feed).row]
    PROVE  StreamTyped' /\ Current'
<1> DEFINE h == Head(feed)
<1>1. /\ h \in [msg : Msgs, row : BOOLEAN] /\ h = feed[1] /\ Len(feed) \in Nat
      /\ DOMAIN feed = 1..Len(feed) /\ Len(feed) >= 1
      /\ feed' \in Seq([msg : Msgs, row : BOOLEAN]) /\ Len(feed') = Len(feed) - 1
      /\ DOMAIN feed' = 1..(Len(feed) - 1)
      /\ \A i \in DOMAIN feed' : feed'[i] = feed[i + 1]
  <2> DEFINE Events == [msg : Msgs, row : BOOLEAN]
  <2>1. feed \in Seq(Events) /\ feed # <<>>
    BY DEF StreamTyped
  <2> HIDE DEF Events
  <2>2. /\ feed[1] \in Events /\ h = feed[1] /\ Len(feed) \in Nat
        /\ DOMAIN feed = 1..Len(feed) /\ Len(feed) >= 1
    BY <2>1, HeadOfSeq
  <2>3. /\ feed' \in Seq(Events) /\ Len(feed') = Len(feed) - 1
        /\ DOMAIN feed' = 1..(Len(feed) - 1)
        /\ \A i \in 1..(Len(feed) - 1) : feed'[i] = feed[i + 1]
    BY <2>1, HeadOfSeq
  <2> QED
    BY <2>2, <2>3 DEF Events
<1>2. 1 \in DOMAIN feed /\ \A i \in DOMAIN feed' : i + 1 \in DOMAIN feed
  BY <1>1
<1>3. \A i \in DOMAIN feed : i = 1 \/ (i - 1 \in DOMAIN feed' /\ feed'[i - 1] = feed[i] /\ i > 1)
  BY <1>1
<1>4. h.msg \in Msgs /\ h.row \in BOOLEAN
  BY <1>1
<1>5. local' = [local EXCEPT ![h.msg] = h.row]
  OBVIOUS
<1> HIDE DEF h
<1>6. local'[h.msg] = h.row /\ \A x \in Msgs : x # h.msg => local'[x] = local[x]
  BY <1>4, <1>5
<1>7. ASSUME NEW x \in Msgs \ outdated', Unheard(x)'
      PROVE  local'[x] <=> path'[x]
  <2>1. CASE x = h.msg
    <3>1. IsLast(1, x)
      BY <1>1, <1>2, <1>3, <1>7, <2>1 DEF IsLast, Unheard
    <3>2. feed[1].row <=> path[x]
      BY <1>2, <1>7, <3>1 DEF Current
    <3> QED
      BY <1>1, <1>6, <2>1, <3>2
  <2>2. CASE x # h.msg
    <3>1. Unheard(x)
      BY <1>1, <1>2, <1>3, <1>7, <2>2 DEF Unheard
    <3> QED
      BY <1>6, <1>7, <2>2, <3>1 DEF Current
  <2> QED
    BY <2>1, <2>2
<1>8. ASSUME NEW x \in Msgs \ outdated', NEW i \in DOMAIN feed', IsLast(i, x)'
      PROVE  feed'[i].row <=> path'[x]
  <2>1. i \in Nat /\ i + 1 \in DOMAIN feed /\ feed'[i] = feed[i + 1]
    BY <1>1, <1>2
  <2>2. ASSUME NEW k \in DOMAIN feed, k > i + 1 PROVE feed[k].msg # x
    <3>1. k - 1 \in DOMAIN feed' /\ feed'[k - 1] = feed[k] /\ k - 1 > i
      BY <1>1, <1>3, <2>1, <2>2
    <3> QED
      BY <1>8, <3>1 DEF IsLast
  <2>3. IsLast(i + 1, x)
    BY <1>8, <2>1, <2>2 DEF IsLast
  <2> QED
    BY <1>8, <2>1, <2>3 DEF Current
<1>9. Current'
  BY <1>7, <1>8 DEF Current
<1> QED
  BY <1>1, <1>9 DEF StreamTyped

-----------------------------------------------------------------------------
(* The daemon's steps.                                                     *)

\* A step of a download leaves the rows and their spinners alone.
LEMMA DownloadKeepsWindow ==
    ASSUME IInv, NEW j \in Jobs, job[j].kind = "download",
           NEW phase \in {"called", "fetching", "writing", "recording", "reading", "done", "failed"},
           To(j, phase), UNCHANGED <<local, cell>>
    PROVE  JobsGood' /\ WindowGood' /\ SpinnerHasCall'
<1>1. /\ JobsGood'
      /\ \A i \in Jobs : /\ job'[i].kind = job[i].kind /\ job'[i].msg = job[i].msg
                         /\ job'[i].cell = job[i].cell
  BY DownloadMoves DEF IInv
<1>2. WindowGood'
  BY WindowKept DEF IInv
<1>3. SpinnerHasCall'
  BY <1>1, SpinnersKept DEF IInv
<1> QED
  BY <1>1, <1>2, <1>3

LEMMA LookupStep ==
    ASSUME IInv, NEW j \in Jobs, Lookup(j) PROVE IInv'
<1> DEFINE phase == IF HasFile(job[j].msg) THEN "reading" ELSE "fetching"
<1>1. /\ job[j].kind = "download" /\ phase \in {"reading", "fetching"} /\ To(j, phase)
      /\ UNCHANGED <<path, file, rewritten, local, cell, streamVars>>
  BY DEF Lookup, Running, windowVars
<1>2. phase = "reading" => path[job[j].msg]
  BY DEF HasFile
<1> HIDE DEF phase
<1>3. JobsGood' /\ WindowGood' /\ SpinnerHasCall'
  BY <1>1, DownloadKeepsWindow
<1>4. /\ job'[j].phase = phase /\ job'[j].msg = job[j].msg
      /\ \A i \in Jobs : i # j => job'[i] = job[i]
  BY <1>1, DownloadMoves DEF IInv
<1>5. FilesGood'
  BY <1>1, <1>4, FilesKept DEF IInv, Running
<1>6. PathsAnswered'
  BY <1>1, <1>2, <1>4 DEF IInv, PathsAnswered
<1>7. StreamTyped' /\ Current'
  BY <1>1, CurrentKept DEF IInv
<1> QED
  BY <1>3, <1>5, <1>6, <1>7 DEF IInv

LEMMA StartWriteStep ==
    ASSUME IInv, NEW j \in Jobs, StartWrite(j) PROVE IInv'
<1> DEFINE m == job[j].msg
<1>1. /\ job[j].kind = "download" /\ job[j].phase = "fetching" /\ To(j, "writing")
      /\ UNCHANGED <<path, local, cell, streamVars>>
  BY DEF StartWrite, Running, windowVars
<1>2. m \in Msgs
  BY <1>1 DEF IInv, JobsGood, JobGood
<1>3. JobsGood' /\ WindowGood' /\ SpinnerHasCall'
  BY <1>1, DownloadKeepsWindow
<1>4. /\ job'[j].phase = "writing"
      /\ \A i \in Jobs : i # j => job'[i] = job[i]
  BY <1>1, DownloadMoves DEF IInv
<1>5. file' = [file EXCEPT ![m] = "partial"]
  BY DEF StartWrite
<1>6. /\ rewritten \subseteq rewritten' /\ rewritten' \subseteq Msgs
      /\ file[m] \in {"whole", "removed"} => m \in rewritten'
  BY <1>2 DEF StartWrite, IInv, FilesGood
<1> HIDE DEF m
<1>7. file' \in [Msgs -> Files] /\ \A n \in Msgs : n # m => file'[n] = file[n]
  BY <1>2, <1>5 DEF IInv, FilesGood, Files
<1>8. RecordedFileIsWhole'
  <2>1. ASSUME NEW n \in Msgs \ rewritten', path'[n] PROVE file'[n] \in {"whole", "removed"}
    <3>1. file[n] \in {"whole", "removed"}
      BY <1>1, <1>6, <2>1 DEF IInv, FilesGood, RecordedFileIsWhole
    <3>2. n # m
      BY <1>6, <2>1, <3>1
    <3> QED
      BY <1>7, <3>1, <3>2
  <2> QED
    BY <2>1 DEF RecordedFileIsWhole
<1>9. RecordingDone'
  <2>1. ASSUME NEW i \in Jobs, Running(i, "download", "recording")', job'[i].msg \notin rewritten'
        PROVE  file'[job'[i].msg] \in {"whole", "removed"}
    <3>1. i # j /\ job'[i] = job[i]
      BY <1>4, <2>1 DEF Running
    <3>2. job[i].msg \in Msgs /\ file[job[i].msg] \in {"whole", "removed"}
      BY <1>6, <2>1, <3>1 DEF Running, IInv, FilesGood, RecordingDone, JobsGood, JobGood
    <3>3. job[i].msg # m
      BY <1>6, <2>1, <3>1, <3>2
    <3> QED
      BY <1>7, <3>1, <3>2, <3>3
  <2> QED
    BY <2>1 DEF RecordingDone
<1>10. PathsAnswered'
  BY <1>1, <1>4, AnsweredKept DEF IInv
<1>11. StreamTyped' /\ Current'
  BY <1>1, CurrentKept DEF IInv
<1>12. FilesGood'
  BY <1>1, <1>6, <1>7, <1>8, <1>9 DEF FilesGood, IInv
<1> QED
  BY <1>3, <1>10, <1>11, <1>12 DEF IInv

LEMMA FinishWriteStep ==
    ASSUME IInv, NEW j \in Jobs, FinishWrite(j) PROVE IInv'
<1> DEFINE m == job[j].msg
<1>1. /\ job[j].kind = "download" /\ To(j, "recording")
      /\ UNCHANGED <<path, rewritten, local, cell, streamVars>>
  BY DEF FinishWrite, Running, windowVars
<1>2. m \in Msgs
  BY <1>1 DEF IInv, JobsGood, JobGood
<1>3. JobsGood' /\ WindowGood' /\ SpinnerHasCall'
  BY <1>1, DownloadKeepsWindow
<1>4. /\ job'[j].phase = "recording" /\ job'[j].msg = m
      /\ \A i \in Jobs : i # j => job'[i] = job[i]
  BY <1>1, DownloadMoves DEF IInv
<1>5. PICK f \in {"whole", "partial"} :
        file' = [file EXCEPT ![m] = f] /\ (m \notin rewritten => f = "whole")
  BY DEF FinishWrite
<1> HIDE DEF m
<1>6. /\ file' \in [Msgs -> Files] /\ file'[m] = f
      /\ \A n \in Msgs : n # m => file'[n] = file[n]
  BY <1>2, <1>5 DEF IInv, FilesGood, Files
<1>7. RecordedFileIsWhole'
  BY <1>1, <1>5, <1>6 DEF IInv, FilesGood, RecordedFileIsWhole
<1>8. RecordingDone'
  <2>1. ASSUME NEW i \in Jobs, Running(i, "download", "recording")', job'[i].msg \notin rewritten'
        PROVE  file'[job'[i].msg] \in {"whole", "removed"}
    <3>1. CASE job'[i].msg = m
      BY <1>1, <1>5, <1>6, <2>1, <3>1
    <3>2. CASE job'[i].msg # m
      <4>1. i # j /\ job'[i] = job[i]
        BY <1>4, <3>2
      <4>2. job[i].msg \in Msgs /\ file[job[i].msg] \in {"whole", "removed"}
        BY <1>1, <2>1, <4>1 DEF Running, IInv, FilesGood, RecordingDone, JobsGood, JobGood
      <4> QED
        BY <1>6, <3>2, <4>1, <4>2
    <3> QED
      BY <3>1, <3>2
  <2> QED
    BY <2>1 DEF RecordingDone
<1>9. PathsAnswered'
  BY <1>1, <1>4, AnsweredKept DEF IInv
<1>10. StreamTyped' /\ Current'
  BY <1>1, CurrentKept DEF IInv
<1>11. FilesGood'
  BY <1>1, <1>6, <1>7, <1>8 DEF FilesGood, IInv
<1> QED
  BY <1>3, <1>9, <1>10, <1>11 DEF IInv

LEMMA SetMediaPathStep ==
    ASSUME IInv, NEW j \in Jobs, SetMediaPath(j) PROVE IInv'
<1> DEFINE m == job[j].msg
<1>1. /\ Running(j, "download", "recording") /\ job[j].kind = "download" /\ To(j, "reading")
      /\ UNCHANGED <<file, rewritten, feed, local, cell>>
      /\ path' = [path EXCEPT ![m] = TRUE]
      /\ outdated' = IF path[m] THEN outdated ELSE outdated \cup {m}
  BY DEF SetMediaPath, Running, windowVars
<1>2. m \in Msgs
  BY <1>1 DEF IInv, JobsGood, JobGood
<1>3. JobsGood' /\ WindowGood' /\ SpinnerHasCall'
  BY <1>1, DownloadKeepsWindow
<1>4. /\ job'[j].phase = "reading" /\ job'[j].msg = m
      /\ \A i \in Jobs : i # j => job'[i] = job[i]
  BY <1>1, DownloadMoves DEF IInv
<1>5. m \notin rewritten => file[m] \in {"whole", "removed"}
  BY <1>1 DEF IInv, FilesGood, RecordingDone
<1> HIDE DEF m
<1>6. /\ path' \in [Msgs -> BOOLEAN] /\ path'[m] = TRUE
      /\ \A n \in Msgs : n # m => path'[n] = path[n]
  BY <1>1, <1>2 DEF IInv, FilesGood
<1>7. RecordedFileIsWhole'
  BY <1>1, <1>5, <1>6 DEF IInv, FilesGood, RecordedFileIsWhole
<1>8. RecordingDone'
  BY <1>1, <1>4 DEF IInv, FilesGood, RecordingDone, Running
<1>9. PathsAnswered'
  <2>1. \A i \in Jobs : job[i].kind = "download" => job[i].msg \in Msgs
    BY DEF IInv, JobsGood, JobGood
  <2> QED
    BY <1>1, <1>4, <1>6, <2>1 DEF IInv, PathsAnswered
<1>10. StreamTyped'
  BY <1>1, <1>2 DEF IInv, StreamTyped
<1>11. Current'
  <2>1. ASSUME NEW n \in Msgs \ outdated' PROVE n \notin outdated /\ (path'[n] <=> path[n])
    BY <1>1, <1>2, <1>6, <2>1
  <2> QED
    BY <1>1, <2>1 DEF IInv, Current, Unheard, IsLast
<1>12. FilesGood'
  BY <1>1, <1>6, <1>7, <1>8 DEF FilesGood, IInv
<1> QED
  BY <1>3, <1>9, <1>10, <1>11, <1>12 DEF IInv

LEMMA PublishDownloadedStep ==
    ASSUME IInv, NEW j \in Jobs, PublishDownloaded(j) PROVE IInv'
<1>1. /\ job[j].kind = "download" /\ job[j].phase = "reading" /\ To(j, "done")
      /\ UNCHANGED <<path, file, rewritten, local, cell>> /\ Publish(job[j].msg, TRUE)
  BY DEF PublishDownloaded, Running, windowVars
<1>2. job[j].msg \in Msgs
  BY <1>1 DEF IInv, JobsGood, JobGood
<1>3. JobsGood' /\ WindowGood' /\ SpinnerHasCall'
  BY <1>1, DownloadKeepsWindow
<1>4. /\ job'[j].phase = "done" /\ job'[j].msg = job[j].msg
      /\ \A i \in Jobs : i # j => job'[i] = job[i]
  BY <1>1, DownloadMoves DEF IInv
<1>5. FilesGood'
  BY <1>1, <1>4, FilesKept DEF IInv, Running
<1>6. PathsAnswered'
  BY <1>1, <1>4, AnsweredKept DEF IInv
<1>7. StreamTyped' /\ Current'
  BY <1>1, <1>2, PublishIsCurrent DEF IInv, FilesGood
<1> QED
  BY <1>3, <1>5, <1>6, <1>7 DEF IInv

LEMMA FailStep ==
    ASSUME IInv, NEW j \in Jobs, Fail(j) PROVE IInv'
<1>1. /\ job[j].kind = "download" /\ To(j, "failed")
      /\ UNCHANGED <<path, file, rewritten, local, cell, streamVars>>
  BY DEF Fail, windowVars
<1>2. JobsGood' /\ WindowGood' /\ SpinnerHasCall'
  BY <1>1, DownloadKeepsWindow
<1>3. /\ job'[j].phase = "failed"
      /\ \A i \in Jobs : i # j => job'[i] = job[i]
  BY <1>1, DownloadMoves DEF IInv
<1>4. FilesGood'
  BY <1>1, <1>3, FilesKept DEF IInv, Running
<1>5. PathsAnswered'
  BY <1>1, <1>3, AnsweredKept DEF IInv
<1>6. StreamTyped' /\ Current'
  BY <1>1, CurrentKept DEF IInv
<1> QED
  BY <1>2, <1>4, <1>5, <1>6 DEF IInv

\* A step that moves no download leaves the files and the answers alone.
LEMMA OthersKeepFiles ==
    ASSUME IInv, UNCHANGED <<path, file, rewritten>>,
           \A i \in Jobs : job'[i].kind = "download" =>
               \/ job'[i] = job[i]
               \/ job'[i].phase \notin {"recording", "reading", "done"}
    PROVE  FilesGood' /\ PathsAnswered'
<1>1. FilesGood'
  BY FilesKept DEF IInv, Running
<1>2. PathsAnswered'
  BY AnsweredKept DEF IInv
<1> QED
  BY <1>1, <1>2

LEMMA ReadForReactionStep ==
    ASSUME IInv, NEW j \in Jobs, ReadForReaction(j) PROVE IInv'
<1> DEFINE r == [job[j] EXCEPT !.phase = "sending", !.row = path[job[j].msg]]
<1>1. /\ job[j].kind = "react" /\ job' = [job EXCEPT ![j] = r]
      /\ UNCHANGED <<path, file, rewritten, local, cell, streamVars>>
  BY DEF ReadForReaction, Running, windowVars
<1>2. job[j] \in JobRecord /\ job[j].msg \in Msgs /\ path[job[j].msg] \in BOOLEAN
  BY <1>1 DEF IInv, JobsGood, JobGood, FilesGood
<1>3. /\ r \in JobRecord /\ r.kind = "react" /\ r.phase = "sending" /\ r.msg = job[j].msg
  BY <1>1, <1>2 DEF JobRecord
<1> HIDE DEF r
<1>4. JobGood(r)
  BY <1>2, <1>3 DEF JobGood
<1>5. job' = [i \in Jobs |-> job'[i]] /\ job'[j] = r /\ \A i \in Jobs \ {j} : job'[i] = job[i]
  BY <1>1 DEF IInv, JobsGood
<1>6. JobsGood'
  BY <1>4, <1>5 DEF IInv, JobsGood
<1>7. WindowGood' /\ SpinnerHasCall'
  BY <1>1, <1>5, WindowKept, SpinnersKept DEF IInv
<1>8. FilesGood' /\ PathsAnswered'
  BY <1>1, <1>3, <1>5, OthersKeepFiles
<1>9. StreamTyped' /\ Current'
  BY <1>1, CurrentKept DEF IInv
<1> QED
  BY <1>6, <1>7, <1>8, <1>9 DEF IInv

LEMMA ReactedStep ==
    ASSUME IInv, NEW j \in Jobs, Reacted(j) PROVE IInv'
<1>1. /\ job[j].kind = "react" /\ job' = [job EXCEPT ![j] = Free]
      /\ UNCHANGED <<path, file, rewritten, local, cell>> /\ Publish(job[j].msg, job[j].row)
  BY DEF Reacted, Running, windowVars
<1>2. job[j].msg \in Msgs /\ job[j].row \in BOOLEAN
  BY <1>1 DEF IInv, JobsGood, JobGood, JobRecord
<1>3. JobsGood' /\ job'[j] = Free /\ \A i \in Jobs : i # j => job'[i] = job[i]
  BY <1>1, JobEnds DEF IInv
<1>4. WindowGood' /\ SpinnerHasCall'
  BY <1>1, <1>3, WindowKept, SpinnersKept DEF IInv
<1>5. FilesGood' /\ PathsAnswered'
  BY <1>1, <1>3, FreeIsGood, OthersKeepFiles
<1>6. StreamTyped' /\ Current'
  BY <1>1, <1>2, PublishIsCurrent DEF IInv, FilesGood
<1> QED
  BY <1>3, <1>4, <1>5, <1>6 DEF IInv

LEMMA RedeliverStep ==
    ASSUME IInv, NEW m \in Msgs, Redeliver(m) PROVE IInv'
<1>1. /\ feed' = Append(feed, MessageEvent(m, FALSE))
      /\ outdated' = IF FALSE = path[m] THEN outdated \ {m} ELSE outdated \cup {m}
      /\ UNCHANGED <<job, path, file, rewritten, local, cell>>
  <2>1. path[m] \in BOOLEAN
    BY DEF IInv, FilesGood
  <2> QED
    BY <2>1 DEF Redeliver, daemonVars, windowVars
<1>2. StreamTyped' /\ Current'
  BY <1>1, AppendIsCurrent DEF IInv, FilesGood
<1>3. WindowGood' /\ SpinnerHasCall'
  BY <1>1, WindowKept, SpinnersKept DEF IInv
<1>4. FilesGood' /\ PathsAnswered'
  BY <1>1, OthersKeepFiles
<1>5. JobsGood'
  BY <1>1 DEF IInv, JobsGood
<1> QED
  BY <1>2, <1>3, <1>4, <1>5 DEF IInv

LEMMA RemoveFileStep ==
    ASSUME IInv, NEW m \in Msgs, RemoveFile(m) PROVE IInv'
<1>1. /\ file' = [file EXCEPT ![m] = IF @ = "whole" THEN "removed" ELSE "absent"]
      /\ file[m] \in {"partial", "whole"}
      /\ UNCHANGED <<job, path, rewritten, local, cell, streamVars>>
  BY DEF RemoveFile, windowVars
<1>2. /\ file' \in [Msgs -> Files]
      /\ \A n \in Msgs : file[n] \in {"whole", "removed"} => file'[n] \in {"whole", "removed"}
  BY <1>1 DEF IInv, FilesGood, Files
<1>3. RecordedFileIsWhole'
  BY <1>1, <1>2 DEF IInv, FilesGood, RecordedFileIsWhole
<1>4. RecordingDone'
  BY <1>1, <1>2 DEF IInv, FilesGood, RecordingDone, Running, JobsGood, JobGood
<1>5. FilesGood'
  BY <1>1, <1>2, <1>3, <1>4 DEF IInv, FilesGood
<1>6. WindowGood' /\ SpinnerHasCall' /\ PathsAnswered'
  BY <1>1, WindowKept, SpinnersKept, AnsweredKept DEF IInv
<1>7. JobsGood'
  BY <1>1 DEF IInv, JobsGood
<1>8. StreamTyped' /\ Current'
  BY <1>1, CurrentKept DEF IInv
<1> QED
  BY <1>5, <1>6, <1>7, <1>8 DEF IInv

LEMMA CrashStep ==
    ASSUME IInv, Crash PROVE IInv'
<1>1. /\ feed' = <<>> /\ outdated' = outdated \cup {feed[i].msg : i \in DOMAIN feed}
      /\ UNCHANGED <<path, file, rewritten, local, cell>>
  BY DEF Crash, windowVars
<1>2. /\ job' = [j \in Jobs |-> job'[j]]
      /\ \A j \in Jobs : job'[j] = IF job[j].kind = "download" /\ job[j].phase # "done"
                                    THEN [job[j] EXCEPT !.phase = "failed"]
                                    ELSE IF job[j].kind = "download" THEN job[j] ELSE Free
  BY DEF Crash
<1>3. ASSUME NEW j \in Jobs
      PROVE  /\ JobGood(job'[j])
             /\ job[j].kind = "download" =>
                    /\ job'[j].kind = "download" /\ job'[j].msg = job[j].msg
                    /\ job'[j].cell = job[j].cell
             /\ job'[j].kind = "download" => job'[j] = job[j] \/ job'[j].phase = "failed"
  <2> DEFINE r == [job[j] EXCEPT !.phase = "failed"]
  <2>1. JobGood(job[j]) /\ job[j] \in JobRecord
    BY DEF IInv, JobsGood, JobGood
  <2>2. CASE job[j].kind = "download" /\ job[j].phase # "done"
    <3>1. /\ r \in JobRecord /\ r.kind = "download" /\ r.phase = "failed"
          /\ r.msg = job[j].msg /\ r.cell = job[j].cell
      BY <2>1, <2>2 DEF JobRecord
    <3>2. job'[j] = r
      BY <1>2, <2>2
    <3> HIDE DEF r
    <3> QED
      BY <2>1, <2>2, <3>1, <3>2 DEF JobGood
  <2>3. CASE job[j].kind = "download" /\ job[j].phase = "done"
    BY <1>2, <2>1, <2>3
  <2>4. CASE job[j].kind # "download"
    <3>1. job'[j] = Free
      BY <1>2, <2>4
    <3> QED
      BY <2>4, <3>1, FreeIsGood
  <2> QED
    BY <2>2, <2>3, <2>4
<1>4. JobsGood'
  BY <1>2, <1>3 DEF JobsGood
<1>5. WindowGood' /\ SpinnerHasCall'
  BY <1>1, <1>3, WindowKept, SpinnersKept DEF IInv
<1>6. FilesGood' /\ PathsAnswered'
  BY <1>1, <1>3, OthersKeepFiles
<1>7. StreamTyped'
  <2> DEFINE Events == [msg : Msgs, row : BOOLEAN]
  <2> HIDE DEF Events
  <2>1. feed \in Seq(Events)
    BY DEF IInv, StreamTyped, Events
  <2>2. \A i \in DOMAIN feed : feed[i] \in Events
    BY <2>1, ElementsOfSeq
  <2>3. \A i \in DOMAIN feed : feed[i].msg \in Msgs
    BY <2>2 DEF Events
  <2> QED
    BY <1>1, <2>3 DEF IInv, StreamTyped
<1>8. Current'
  <2>1. DOMAIN feed' = {}
    BY <1>1
  <2>2. \A n \in Msgs \ outdated' : n \notin outdated /\ Unheard(n)
    BY <1>1 DEF Unheard
  <2> QED
    BY <1>1, <2>1, <2>2 DEF IInv, Current
<1> QED
  BY <1>4, <1>5, <1>6, <1>7, <1>8 DEF IInv

-----------------------------------------------------------------------------
(* The window's steps.                                                     *)

\* A step of the window alone changes rows, and no spinner starts.
LEMMA WindowStep ==
    ASSUME IInv, UNCHANGED daemonVars, UNCHANGED <<local, streamVars>>, RowsGood(cell', local),
           \A c \in Cells : cell'[c].spinning => cell[c].spinning /\ cell'[c].id = cell[c].id
    PROVE  IInv'
<1>1. UNCHANGED <<job, path, file, rewritten>>
  BY DEF daemonVars
<1>2. WindowGood'
  BY DEF IInv, WindowGood, RowsGood
<1>3. SpinnerHasCall'
  BY <1>1, SpinnersKept DEF IInv
<1>4. FilesGood' /\ PathsAnswered'
  BY <1>1, OthersKeepFiles
<1>5. StreamTyped' /\ Current'
  BY <1>1, CurrentKept DEF IInv
<1>6. JobsGood'
  BY <1>1 DEF IInv, JobsGood
<1> QED
  BY <1>2, <1>3, <1>4, <1>5, <1>6 DEF IInv

\* One row changes and holds the message it held, or none.
LEMMA OneRowStep ==
    ASSUME IInv, NEW c \in Cells, NEW r, RowGood(r, local), r.item \in {cell[c].item, None},
           cell' = [cell EXCEPT ![c] = r]
    PROVE  RowsGood(cell', local) /\ cell'[c] = r /\ \A d \in Cells \ {c} : cell'[d] = cell[d]
<1>1. /\ cell' = [d \in Cells |-> cell'[d]] /\ cell'[c] = r
      /\ \A d \in Cells \ {c} : cell'[d] = cell[d]
  BY DEF IInv, WindowGood, RowsGood
<1>2. \A d \in Cells : RowGood(cell'[d], local)
  BY <1>1 DEF IInv, WindowGood, RowsGood
<1>3. \A d, e \in Cells : cell'[d].item = cell'[e].item => cell'[d].item = None \/ d = e
  BY <1>1 DEF IInv, WindowGood, RowsGood
<1> QED
  BY <1>1, <1>2, <1>3 DEF RowsGood

\* Showing the image of the row's own message.
LEMMA ShownIsGood ==
    ASSUME NEW row, NEW loc, NEW m \in Msgs, RowGood(row, loc), row.item = m
    PROVE  /\ RowGood(Shown(row, m), loc) /\ Shown(row, m).item = m
           /\ Shown(row, m).id = row.id /\ Shown(row, m).spinning = row.spinning
<1>1. /\ Shown(row, m) \in CellRecord /\ Shown(row, m).item = m /\ Shown(row, m).id = row.id
      /\ Shown(row, m).ticking \in {m, None} /\ Shown(row, m).want = row.want
      /\ Shown(row, m).spinning = row.spinning /\ Shown(row, m).offer = row.offer
      /\ Shown(row, m).paint = m
  BY DEF Shown, CellRecord, RowGood
<1> HIDE DEF Shown
<1> QED
  BY <1>1 DEF RowGood

LEMMA DecodedStep ==
    ASSUME IInv, NEW m \in Msgs, Decoded(m) PROVE IInv'
<1>1. UNCHANGED daemonVars /\ UNCHANGED <<local, streamVars>>
  BY DEF Decoded
<1>2. CASE UNCHANGED cell
  BY <1>1, <1>2, WindowStep DEF IInv, WindowGood
<1>3. CASE cell' = [c \in Cells |-> IF c \in waiting[m] /\ cell[c].want = m
                                   THEN Shown(cell[c], m) ELSE cell[c]]
  <2>1. ASSUME NEW c \in Cells
        PROVE  /\ RowGood(cell'[c], local) /\ cell'[c].item = cell[c].item
               /\ cell'[c].id = cell[c].id /\ cell'[c].spinning = cell[c].spinning
    <3>1. RowGood(cell[c], local)
      BY DEF IInv, WindowGood, RowsGood
    <3>2. CASE cell[c].want = m /\ cell'[c] = Shown(cell[c], m)
      <4>1. cell[c].item = m
        BY <3>1, <3>2, NoneAssumption DEF RowGood
      <4> QED
        BY <3>1, <3>2, <4>1, ShownIsGood
    <3>3. CASE cell'[c] = cell[c]
      BY <3>1, <3>3
    <3> QED
      BY <1>3, <3>2, <3>3
  <2>2. cell' = [c \in Cells |-> cell'[c]]
    BY <1>3
  <2>3. RowsGood(cell', local)
    BY <2>1, <2>2 DEF IInv, WindowGood, RowsGood
  <2> QED
    BY <1>1, <2>1, <2>3, WindowStep
<1> QED
  BY <1>2, <1>3 DEF Decoded

LEMMA TickStep ==
    ASSUME IInv, NEW c \in Cells, Tick(c) PROVE IInv'
<1> DEFINE r == [cell[c] EXCEPT !.paint = cell[c].ticking]
<1>1. /\ UNCHANGED daemonVars /\ UNCHANGED <<local, streamVars>>
      /\ cell[c].ticking # None /\ cell' = [cell EXCEPT ![c] = r]
  BY DEF Tick
<1>2. RowGood(cell[c], local) /\ cell[c] \in CellRecord
  BY DEF IInv, WindowGood, RowsGood, RowGood
<1>3. cell[c].ticking = cell[c].item
  BY <1>1, <1>2 DEF RowGood
<1>4. /\ r \in CellRecord /\ r.item = cell[c].item /\ r.id = cell[c].id
      /\ r.ticking = cell[c].ticking /\ r.want = cell[c].want /\ r.spinning = cell[c].spinning
      /\ r.offer = cell[c].offer /\ r.paint = cell[c].item
  BY <1>2, <1>3 DEF CellRecord
<1> HIDE DEF r
<1>5. RowGood(r, local)
  BY <1>2, <1>4 DEF RowGood
<1>6. RowsGood(cell', local) /\ cell'[c] = r /\ \A d \in Cells \ {c} : cell'[d] = cell[d]
  BY <1>1, <1>4, <1>5, OneRowStep
<1> QED
  BY <1>1, <1>4, <1>6, WindowStep

LEMMA UnbindStep ==
    ASSUME IInv, NEW c \in Cells, Unbind(c) PROVE IInv'
<1> DEFINE r == [cell[c] EXCEPT !.item = None, !.want = None, !.ticking = None]
<1>1. /\ UNCHANGED daemonVars /\ UNCHANGED <<local, streamVars>>
      /\ cell' = [cell EXCEPT ![c] = r]
  BY DEF Unbind
<1>2. cell[c] \in CellRecord
  BY DEF IInv, WindowGood, RowsGood, RowGood
<1>3. /\ r \in CellRecord /\ r.item = None /\ r.id = cell[c].id
      /\ r.ticking = None /\ r.want = None /\ r.spinning = cell[c].spinning
  BY <1>2 DEF CellRecord
<1> HIDE DEF r
<1>4. RowGood(r, local)
  BY <1>3, NoneAssumption DEF RowGood, Downloadable
<1>5. RowsGood(cell', local) /\ cell'[c] = r /\ \A d \in Cells \ {c} : cell'[d] = cell[d]
  BY <1>1, <1>3, <1>4, OneRowStep
<1> QED
  BY <1>1, <1>3, <1>5, WindowStep

LEMMA BindStep ==
    ASSUME IInv, NEW c \in Cells, NEW m \in Msgs, Bind(c, m) PROVE IInv'
<1>1. /\ UNCHANGED daemonVars /\ UNCHANGED <<local, streamVars>>
      /\ cell[c].item = None /\ \A d \in Cells : cell[d].item # m
      /\ Rebind(cell, c, m, local[m])
  BY DEF Bind
<1>2. local \in [Msgs -> BOOLEAN] /\ local[m] \in BOOLEAN /\ RowsGood(cell, local)
  BY DEF IInv, WindowGood
<1>3. /\ RowsGood(cell', local)
      /\ \A d \in Cells : cell'[d].spinning => cell[d].spinning /\ cell'[d].id = cell[d].id
  BY <1>1, <1>2, RebindIsGood
<1> QED
  BY <1>1, <1>3, WindowStep

LEMMA HandleEventStep ==
    ASSUME IInv, HandleEvent PROVE IInv'
<1> DEFINE Events == [msg : Msgs, row : BOOLEAN]
           h == Head(feed)
<1>1. /\ UNCHANGED <<job, path, file, rewritten, outdated>>
      /\ feed # <<>> /\ Refresh(cell, h.msg, h.row) /\ feed' = Tail(feed)
  BY DEF HandleEvent, daemonVars
<1>2. h.msg \in Msgs /\ h.row \in BOOLEAN
  <2> HIDE DEF Events
  <2>1. feed \in Seq(Events)
    BY DEF IInv, StreamTyped, Events
  <2>2. Head(feed) \in Events
    BY <1>1, <2>1, HeadOfSeq
  <2> QED
    BY <2>2 DEF Events
<1>3. local' = [local EXCEPT ![Head(feed).msg] = Head(feed).row]
  BY <1>1 DEF Refresh
<1>4. StreamTyped' /\ Current'
  BY <1>1, <1>3, HeadIsHandled DEF IInv, WindowGood
<1>5. /\ WindowGood'
      /\ \A d \in Cells : cell'[d].spinning => cell[d].spinning /\ cell'[d].id = cell[d].id
  <2>1. local \in [Msgs -> BOOLEAN] /\ RowsGood(cell, local)
    BY DEF IInv, WindowGood
  <2> HIDE DEF h
  <2> QED
    BY <1>1, <1>2, <2>1, RefreshIsGood
<1>6. SpinnerHasCall'
  BY <1>1, <1>5, SpinnersKept DEF IInv
<1>7. FilesGood' /\ PathsAnswered'
  BY <1>1, OthersKeepFiles
<1>8. JobsGood'
  BY <1>1 DEF IInv, JobsGood
<1> QED
  BY <1>4, <1>5, <1>6, <1>7, <1>8 DEF IInv

\* A reply stops the spinner of its own row only, and the path it brings is
\* the one in the table.
LEMMA AnswerStep ==
    ASSUME IInv, NEW j \in Jobs, Answer(j) PROVE IInv'
<1> DEFINE c == job[j].cell
           m == job[j].msg
           rows == [cell EXCEPT ![c] = StopSpinner(@)]
<1>1. /\ job[j].phase \in {"done", "failed"} /\ job' = [job EXCEPT ![j] = Free]
      /\ UNCHANGED <<path, file, rewritten, streamVars>>
  BY DEF Answer
<1>2. job[j].kind = "download" /\ m \in Msgs /\ c \in Cells
  BY <1>1 DEF IInv, JobsGood, JobGood, JobRecord
<1>3. JobsGood' /\ job'[j] = Free /\ \A i \in Jobs : i # j => job'[i] = job[i]
  BY <1>1, JobEnds DEF IInv
<1>4. FilesGood' /\ PathsAnswered'
  BY <1>1, <1>3, FreeIsGood, OthersKeepFiles
<1>5. /\ rows = [d \in Cells |-> rows[d]] /\ rows[c] = StopSpinner(cell[c])
      /\ \A d \in Cells : d # c => rows[d] = cell[d]
  BY <1>2 DEF IInv, WindowGood, RowsGood
<1>6. local \in [Msgs -> BOOLEAN] /\ RowsGood(cell, local)
  BY DEF IInv, WindowGood
<1>7. /\ \/ cell[c].id # m /\ UNCHANGED <<local, cell>>
         \/ cell[c].id = m /\ cell' = rows /\ UNCHANGED local
         \/ cell[c].id = m /\ job[j].phase = "done" /\ Refresh(rows, m, TRUE)
  BY DEF Answer
<1> HIDE DEF c, m, rows
<1>8. RowsGood(rows, local) /\ \A d \in Cells : rows[d].item = cell[d].item
  <2>1. RowGood(rows[c], local) /\ rows[c].item = cell[c].item
    BY <1>2, <1>5, <1>6, StoppedIsGood DEF RowsGood
  <2>2. \A d \in Cells : RowGood(rows[d], local) /\ rows[d].item = cell[d].item
    BY <1>5, <1>6, <2>1 DEF RowsGood
  <2> QED
    BY <1>5, <1>6, <2>2 DEF RowsGood
<1>9. \A d \in Cells : rows[d].spinning => d # c /\ cell[d].spinning /\ rows[d].id = cell[d].id
  <2>1. ~rows[c].spinning
    BY <1>2, <1>5, <1>6, StoppedIsGood DEF RowsGood
  <2> QED
    BY <1>5, <2>1
<1>10. ASSUME \A d \in Cells : cell'[d].spinning =>
                 /\ cell[d].spinning /\ cell'[d].id = cell[d].id
                 /\ d # c \/ cell[d].id # m
       PROVE  SpinnerHasCall'
  <2>1. ASSUME NEW d \in Cells, cell'[d].spinning
        PROVE  \E i \in Jobs : /\ job'[i].kind = "download" /\ job'[i].cell = d
                              /\ job'[i].msg = cell'[d].id
    <3>1. PICK i \in Jobs : /\ job[i].kind = "download" /\ job[i].cell = d
                           /\ job[i].msg = cell[d].id
      BY <1>10, <2>1 DEF IInv, SpinnerHasCall
    <3>2. i # j
      BY <1>10, <2>1, <3>1 DEF c, m
    <3> QED
      BY <1>3, <1>10, <2>1, <3>1, <3>2
  <2> QED
    BY <2>1 DEF SpinnerHasCall
<1>11. CASE cell[c].id # m /\ UNCHANGED <<local, cell>>
  <2>1. WindowGood' /\ StreamTyped' /\ Current'
    BY <1>1, <1>11, WindowKept, CurrentKept DEF IInv
  <2>2. SpinnerHasCall'
    BY <1>10, <1>11
  <2> QED
    BY <1>3, <1>4, <2>1, <2>2 DEF IInv
<1>12. CASE cell' = rows /\ UNCHANGED local
  <2>1. WindowGood'
    BY <1>6, <1>8, <1>12 DEF WindowGood
  <2>2. StreamTyped' /\ Current'
    BY <1>1, <1>12, CurrentKept DEF IInv
  <2>3. SpinnerHasCall'
    BY <1>9, <1>10, <1>12
  <2> QED
    BY <1>3, <1>4, <2>1, <2>2, <2>3 DEF IInv
<1>13. CASE job[j].phase = "done" /\ Refresh(rows, m, TRUE)
  <2>1. /\ WindowGood'
        /\ \A d \in Cells : cell'[d].spinning => rows[d].spinning /\ cell'[d].id = rows[d].id
    BY <1>2, <1>6, <1>8, <1>13, RefreshIsGood
  <2>2. SpinnerHasCall'
    BY <1>9, <1>10, <2>1
  <2>3. path[m]
    BY <1>2, <1>13 DEF IInv, PathsAnswered, m
  <2>4. local' = [local EXCEPT ![m] = TRUE]
    BY <1>13 DEF Refresh
  <2>5. \A x \in Msgs : (local[x] <=> path[x]) => (local'[x] <=> path'[x])
    BY <1>1, <1>2, <1>6, <2>3, <2>4
  <2>6. StreamTyped' /\ Current'
    BY <1>1, <2>5 DEF IInv, StreamTyped, Current, Unheard, IsLast, streamVars
  <2> QED
    BY <1>3, <1>4, <2>1, <2>2, <2>6 DEF IInv
<1> QED
  BY <1>7, <1>11, <1>12, <1>13

LEMMA DownloadStep ==
    ASSUME IInv, NEW c \in Cells, Download(c) PROVE IInv'
<1> DEFINE m == cell[c].item
           r == StartSpinner(cell[c])
<1>1. /\ m # None /\ cell[c].offer = "download" /\ Call("download", m, c)
      /\ cell' = [cell EXCEPT ![c] = r]
      /\ UNCHANGED <<path, file, rewritten, streamVars, local>>
  BY DEF Download
<1>2. RowGood(cell[c], local) /\ cell[c] \in CellRecord /\ m \in Msgs /\ cell[c].id = m
  BY <1>1 DEF IInv, WindowGood, RowsGood, RowGood, CellRecord
<1>3. /\ r \in CellRecord /\ r.item = m /\ r.id = m /\ r.want = cell[c].want
      /\ r.ticking = cell[c].ticking /\ r.offer = cell[c].offer /\ r.paint = cell[c].paint
  BY <1>2 DEF StartSpinner, CellRecord
<1> HIDE DEF r
<1>4. RowGood(r, local)
  BY <1>2, <1>3 DEF RowGood
<1>5. RowsGood(cell', local) /\ cell'[c] = r /\ \A d \in Cells \ {c} : cell'[d] = cell[d]
  BY <1>1, <1>3, <1>4, OneRowStep
<1>6. PICK j \in Jobs :
          /\ JobsGood' /\ job[j] = Free
          /\ job'[j].kind = "download" /\ job'[j].msg = m /\ job'[j].cell = c
          /\ job'[j].phase = "called"
          /\ \A i \in Jobs : i # j => job'[i] = job[i]
  <2> HIDE DEF m
  <2> QED
    BY <1>1, <1>2, JobBegins DEF IInv
<1>7. SpinnerHasCall'
  <2>1. ASSUME NEW d \in Cells, cell'[d].spinning
        PROVE  \E i \in Jobs : /\ job'[i].kind = "download" /\ job'[i].cell = d
                              /\ job'[i].msg = cell'[d].id
    <3>1. CASE d = c
      BY <1>3, <1>5, <1>6, <3>1
    <3>2. CASE d # c
      <4>1. PICK i \in Jobs : /\ job[i].kind = "download" /\ job[i].cell = d
                             /\ job[i].msg = cell[d].id
        BY <1>5, <2>1, <3>2 DEF IInv, SpinnerHasCall
      <4>2. i # j
        BY <1>6, <4>1, FreeIsGood
      <4> QED
        BY <1>5, <1>6, <3>2, <4>1, <4>2
    <3> QED
      BY <3>1, <3>2
  <2> QED
    BY <2>1 DEF SpinnerHasCall
<1>8. WindowGood'
  BY <1>1, <1>5 DEF IInv, WindowGood, RowsGood
<1>9. FilesGood' /\ PathsAnswered'
  BY <1>1, <1>6, OthersKeepFiles
<1>10. StreamTyped' /\ Current'
  BY <1>1, CurrentKept DEF IInv
<1> QED
  BY <1>6, <1>7, <1>8, <1>9, <1>10 DEF IInv

LEMMA ReactStep ==
    ASSUME IInv, NEW c \in Cells, React(c) PROVE IInv'
<1> DEFINE m == cell[c].item
<1>1. /\ m # None /\ Call("react", m, None)
      /\ UNCHANGED <<path, file, rewritten, streamVars, local, cell>>
  BY DEF React, windowVars
<1>2. m \in Msgs
  BY <1>1 DEF IInv, WindowGood, RowsGood, RowGood, CellRecord
<1> HIDE DEF m
<1>3. PICK j \in Jobs :
          /\ JobsGood' /\ job[j] = Free /\ job'[j].kind = "react"
          /\ \A i \in Jobs : i # j => job'[i] = job[i]
  BY <1>1, <1>2, JobBegins DEF IInv
<1>4. WindowGood' /\ SpinnerHasCall'
  BY <1>1, <1>3, FreeIsGood, WindowKept, SpinnersKept DEF IInv
<1>5. FilesGood' /\ PathsAnswered'
  BY <1>1, <1>3, OthersKeepFiles
<1>6. StreamTyped' /\ Current'
  BY <1>1, CurrentKept DEF IInv
<1> QED
  BY <1>3, <1>4, <1>5, <1>6 DEF IInv

LEMMA ViewerStep ==
    ASSUME IInv, UNCHANGED <<daemonVars, streamVars, local, cell>> PROVE IInv'
<1>1. RowsGood(cell', local)
  BY DEF IInv, WindowGood
<1> QED
  BY <1>1, WindowStep

-----------------------------------------------------------------------------
LEMMA InitIInv == Init => IInv
<1> SUFFICES ASSUME Init PROVE IInv
  OBVIOUS
<1>1. JobsGood
  BY FreeIsGood DEF Init, JobsGood
<1>2. NewCell \in CellRecord /\ NewCell.item = None /\ NewCell.want = None
      /\ NewCell.ticking = None /\ NewCell.spinning = FALSE
  BY DEF NewCell, CellRecord
<1>3. RowGood(NewCell, local)
  BY <1>2, NoneAssumption DEF RowGood, Downloadable
<1>4. WindowGood /\ SpinnerHasCall
  BY <1>2, <1>3 DEF Init, WindowGood, RowsGood, SpinnerHasCall
<1>5. FilesGood
  <2>1. RecordingDone
    BY FreeIsGood DEF Init, RecordingDone, Running
  <2>2. RecordedFileIsWhole
    BY DEF Init, RecordedFileIsWhole
  <2> QED
    BY <2>1, <2>2 DEF Init, FilesGood, Files
<1>6. PathsAnswered
  BY FreeIsGood DEF Init, PathsAnswered
<1>7. StreamTyped /\ Current
  BY DEF Init, StreamTyped, Current, Unheard, IsLast
<1> QED
  BY <1>1, <1>4, <1>5, <1>6, <1>7 DEF IInv

LEMMA NextIInv == IInv /\ [Next]_vars => IInv'
<1> SUFFICES ASSUME IInv, [Next]_vars PROVE IInv'
  OBVIOUS
<1>1. CASE UNCHANGED vars
  BY <1>1, ViewerStep DEF vars, windowVars
<1>2. ASSUME NEW j \in Jobs, JobNext(j) PROVE IInv'
  BY <1>2, LookupStep, StartWriteStep, FinishWriteStep, SetMediaPathStep,
     PublishDownloadedStep, FailStep, ReadForReactionStep, ReactedStep, AnswerStep DEF JobNext
<1>3. ASSUME NEW c \in Cells, CellNext(c) PROVE IInv'
  <2>1. CASE ShowMediaViewer(c)
    BY <2>1, ViewerStep DEF ShowMediaViewer
  <2> QED
    BY <1>3, <2>1, BindStep, UnbindStep, DownloadStep, ReactStep, TickStep DEF CellNext
<1>4. ASSUME NEW m \in Downloadable, Redeliver(m) \/ RemoveFile(m) PROVE IInv'
  BY <1>4, RedeliverStep, RemoveFileStep DEF Downloadable
<1>5. ASSUME NEW m \in Msgs, Decoded(m) PROVE IInv'
  BY <1>5, DecodedStep
<1>6. CASE CloseViewer
  BY <1>6, ViewerStep DEF CloseViewer
<1> QED
  BY <1>1, <1>2, <1>3, <1>4, <1>5, <1>6, HandleEventStep, CrashStep DEF Next

LEMMA Invariance == Spec => []IInv
  BY InitIInv, NextIInv, PTL DEF Spec

\* The row of a message of which no event is under way offers to download its
\* attachment exactly when the table has no path for it.
THEOREM RowsFollowTheTable == Spec => []SettledRowIsRight
<1>1. IInv => SettledRowIsRight
  <2> SUFFICES ASSUME IInv, NEW c \in Cells, NEW m \in Downloadable \ outdated,
                      cell[c].item = m, Unheard(m)
               PROVE  cell[c].offer = "download" <=> ~path[m]
    BY DEF SettledRowIsRight, Unheard
  <2>1. m \in Msgs
    BY DEF Downloadable
  <2>2. local[m] <=> path[m]
    BY <2>1 DEF IInv, Current
  <2>3. cell[c].offer = "download" <=> ~local[m]
    BY DEF IInv, WindowGood, RowsGood, RowGood
  <2> QED
    BY <2>2, <2>3
<1> QED
  BY <1>1, Invariance, PTL

\* A recycled row shows and animates the image of its own message.
THEOREM RowsShowTheirImages == Spec => []RowShowsItsImage
<1>1. IInv => RowShowsItsImage
  BY DEF IInv, WindowGood, RowsGood, RowGood, RowShowsItsImage
<1> QED
  BY <1>1, Invariance, PTL

\* A recorded path names a file that was written to the end.
THEOREM RecordedFilesAreWhole == Spec => []RecordedFileIsWhole
<1>1. IInv => RecordedFileIsWhole
  BY DEF IInv, FilesGood
<1> QED
  BY <1>1, Invariance, PTL

\* No row keeps a spinner that nothing will stop.
THEOREM SpinnersHaveCalls == Spec => []SpinnerHasCall
<1>1. IInv => SpinnerHasCall
  BY DEF IInv
<1> QED
  BY <1>1, Invariance, PTL

-----------------------------------------------------------------------------
(* Paths.  What the window, an event or a reaction says of a path has been  *)
(* recorded, and a path is never taken back.                               *)

PathsOf(loc, events, calls) ==
    /\ \A m \in Msgs : loc[m] => path[m]
    /\ \A i \in DOMAIN events : events[i].row => path[events[i].msg]
    /\ \A j \in Jobs : (calls[j].kind = "react" /\ calls[j].row) => path[calls[j].msg]
PathsKnown == PathsOf(local, feed, job) /\ viewer \in Msgs \cup {None} /\ ShownPathIsRecorded

\* A step that recalls no path and tells nobody of one.
LEMMA PathsKept ==
    ASSUME IInv, PathsKnown, \A m \in Msgs : path[m] => path'[m],
           UNCHANGED <<local, feed>>, viewer' \in {viewer, None},
           \A j \in Jobs : (job'[j].kind = "react" /\ job'[j].row) =>
               job[j].kind = "react" /\ job[j].row /\ job'[j].msg = job[j].msg
    PROVE  PathsKnown'
<1> DEFINE Events == [msg : Msgs, row : BOOLEAN]
<1> HIDE DEF Events
<1>1. feed \in Seq(Events)
  BY DEF IInv, StreamTyped, Events
<1>2. \A i \in DOMAIN feed : feed[i] \in Events
  BY <1>1, ElementsOfSeq
<1>3. \A i \in DOMAIN feed : feed[i].msg \in Msgs
  BY <1>2 DEF Events
<1>4. \A j \in Jobs : job[j].kind = "react" => job[j].msg \in Msgs
  BY DEF IInv, JobsGood, JobGood
<1>5. viewer' # None => viewer' = viewer /\ viewer \in Msgs
  BY DEF PathsKnown
<1> QED
  BY <1>3, <1>4, <1>5 DEF PathsKnown, PathsOf, ShownPathIsRecorded

\* An event that tells of a recorded path, or of none.
LEMMA PathsPublished ==
    ASSUME IInv, PathsKnown, NEW m \in Msgs, NEW row \in BOOLEAN, row => path[m],
           feed' = feed \/ feed' = Append(feed, MessageEvent(m, row)),
           UNCHANGED <<path, local, viewer>>,
           \A j \in Jobs : (job'[j].kind = "react" /\ job'[j].row) => job'[j] = job[j]
    PROVE  PathsKnown'
<1> DEFINE Events == [msg : Msgs, row : BOOLEAN]
           e == MessageEvent(m, row)
<1>1. e \in Events /\ e.msg = m /\ e.row = row
  BY DEF MessageEvent
<1> HIDE DEF Events, e
<1>2. feed \in Seq(Events)
  BY DEF IInv, StreamTyped, Events
<1>3. CASE feed' = Append(feed, e)
  <2>1. \A i \in DOMAIN feed' : feed'[i] = e \/ (i \in DOMAIN feed /\ feed'[i] = feed[i])
    BY <1>1, <1>2, <1>3
  <2>2. \A i \in DOMAIN feed' : feed'[i].row => path'[feed'[i].msg]
    BY <1>1, <2>1 DEF PathsKnown, PathsOf
  <2> QED
    BY <2>2 DEF PathsKnown, PathsOf, ShownPathIsRecorded
<1>4. CASE feed' = feed
  BY <1>4 DEF PathsKnown, PathsOf, ShownPathIsRecorded
<1> QED
  BY <1>3, <1>4 DEF e

LEMMA HandleEventPaths ==
    ASSUME IInv, PathsKnown, HandleEvent PROVE PathsKnown'
<1> DEFINE Events == [msg : Msgs, row : BOOLEAN]
           h == Head(feed)
<1>1. /\ UNCHANGED <<job, path, viewer>> /\ feed # <<>> /\ feed' = Tail(feed)
      /\ local' = [local EXCEPT ![h.msg] = h.row]
  BY DEF HandleEvent, Refresh, daemonVars
<1> HIDE DEF Events
<1>2. feed \in Seq(Events)
  BY DEF IInv, StreamTyped, Events
<1>3. /\ h = feed[1] /\ h \in Events /\ 1 \in DOMAIN feed
      /\ \A i \in DOMAIN feed' : i + 1 \in DOMAIN feed /\ feed'[i] = feed[i + 1]
  <2>1. /\ h = feed[1] /\ h \in Events /\ Len(feed) \in Nat /\ Len(feed) >= 1
        /\ DOMAIN feed = 1..Len(feed) /\ DOMAIN feed' = 1..(Len(feed) - 1)
        /\ \A i \in 1..(Len(feed) - 1) : feed'[i] = feed[i + 1]
    BY <1>1, <1>2, HeadOfSeq
  <2> QED
    BY <2>1
<1>4. h.msg \in Msgs /\ h.row \in BOOLEAN
  BY <1>3 DEF Events
<1>5. h.row => path[h.msg]
  BY <1>3 DEF PathsKnown, PathsOf
<1> HIDE DEF h
<1>6. \A m \in Msgs : local'[m] => path'[m]
  BY <1>1, <1>4, <1>5 DEF IInv, WindowGood, PathsKnown, PathsOf
<1>7. \A i \in DOMAIN feed' : feed'[i].row => path'[feed'[i].msg]
  BY <1>1, <1>3 DEF PathsKnown, PathsOf
<1> QED
  BY <1>1, <1>6, <1>7 DEF PathsKnown, PathsOf, ShownPathIsRecorded

LEMMA AnswerPaths ==
    ASSUME IInv, PathsKnown, NEW j \in Jobs, Answer(j) PROVE PathsKnown'
<1> DEFINE m == job[j].msg
<1>1. /\ job[j].phase \in {"done", "failed"} /\ job' = [job EXCEPT ![j] = Free]
      /\ UNCHANGED <<path, feed, viewer>>
      /\ \/ UNCHANGED local
         \/ job[j].phase = "done" /\ local' = [local EXCEPT ![m] = TRUE]
  BY DEF Answer, Refresh, streamVars
<1>2. job[j].kind = "download" /\ m \in Msgs
  BY <1>1 DEF IInv, JobsGood, JobGood, JobRecord
<1>3. job'[j] = Free /\ \A i \in Jobs : i # j => job'[i] = job[i]
  BY <1>1, JobEnds DEF IInv
<1>4. \A i \in Jobs : (job'[i].kind = "react" /\ job'[i].row) => job'[i] = job[i]
  BY <1>3, FreeIsGood
<1>5. job[j].phase = "done" => path[m]
  BY <1>2 DEF IInv, PathsAnswered
<1> HIDE DEF m
<1>6. \A n \in Msgs : local'[n] => path'[n]
  BY <1>1, <1>2, <1>5 DEF IInv, WindowGood, PathsKnown, PathsOf
<1> QED
  BY <1>1, <1>4, <1>6 DEF PathsKnown, PathsOf, ShownPathIsRecorded

LEMMA InitPaths == Init => PathsKnown
<1> SUFFICES ASSUME Init PROVE PathsKnown
  OBVIOUS
<1>1. \A j \in Jobs : job[j].kind = "none"
  BY FreeIsGood DEF Init
<1>2. DOMAIN feed = {}
  BY DEF Init
<1> QED
  BY <1>1, <1>2 DEF Init, PathsKnown, PathsOf, ShownPathIsRecorded

LEMMA JobPaths ==
    ASSUME IInv, PathsKnown, NEW j \in Jobs, JobNext(j) PROVE PathsKnown'
<1>1. \A m \in Msgs : path[m] \in BOOLEAN
  BY DEF IInv, FilesGood
<1>2. ASSUME job[j].kind = "download", UNCHANGED <<local, feed, viewer>>,
             \A m \in Msgs : path[m] => path'[m],
             NEW phase \in {"fetching", "writing", "recording", "reading", "failed"}, To(j, phase)
      PROVE  PathsKnown'
  <2>1. job'[j].kind = "download" /\ \A i \in Jobs : i # j => job'[i] = job[i]
    BY <1>2, DownloadMoves DEF IInv
  <2> QED
    BY <1>2, <2>1, PathsKept
<1>3. CASE Lookup(j)
  <2>1. \E phase \in {"reading", "fetching"} : To(j, phase)
    BY <1>3 DEF Lookup
  <2> QED
    BY <1>2, <1>3, <2>1 DEF Lookup, Running, streamVars, windowVars
<1>4. CASE StartWrite(j)
  BY <1>2, <1>4 DEF StartWrite, Running, streamVars, windowVars
<1>5. CASE FinishWrite(j)
  BY <1>2, <1>5 DEF FinishWrite, Running, streamVars, windowVars
<1>6. CASE SetMediaPath(j)
  <2>1. path' = [path EXCEPT ![job[j].msg] = TRUE]
    BY <1>6 DEF SetMediaPath
  <2>2. \A m \in Msgs : path[m] => path'[m]
    BY <2>1 DEF IInv, FilesGood
  <2> QED
    BY <1>2, <1>6, <2>2 DEF SetMediaPath, Running, windowVars
<1>7. CASE Fail(j)
  BY <1>2, <1>7 DEF Fail, streamVars, windowVars
<1>8. CASE PublishDownloaded(j)
  <2>1. /\ job[j].kind = "download" /\ job[j].phase = "reading" /\ To(j, "done")
        /\ UNCHANGED <<path, local, viewer>>
        /\ feed' = feed \/ feed' = Append(feed, MessageEvent(job[j].msg, TRUE))
    BY <1>8 DEF PublishDownloaded, Publish, Running, windowVars
  <2>2. job[j].msg \in Msgs /\ path[job[j].msg]
    BY <2>1 DEF IInv, JobsGood, JobGood, PathsAnswered
  <2>3. job'[j].kind = "download" /\ \A i \in Jobs : i # j => job'[i] = job[i]
    BY <2>1, DownloadMoves DEF IInv
  <2> QED
    BY <2>1, <2>2, <2>3, PathsPublished
<1>9. CASE ReadForReaction(j)
  <2> DEFINE r == [job[j] EXCEPT !.phase = "sending", !.row = path[job[j].msg]]
  <2>1. /\ job[j].kind = "react" /\ job' = [job EXCEPT ![j] = r]
        /\ UNCHANGED <<path, local, feed, viewer>>
    BY <1>9 DEF ReadForReaction, Running, streamVars, windowVars
  <2>2. job[j] \in JobRecord
    BY DEF IInv, JobsGood, JobGood
  <2>3. r.msg = job[j].msg /\ r.row = path[job[j].msg]
    BY <2>2 DEF JobRecord
  <2> HIDE DEF r
  <2>4. job'[j] = r /\ \A i \in Jobs : i # j => job'[i] = job[i]
    BY <2>1 DEF IInv, JobsGood
  <2> QED
    BY <2>1, <2>3, <2>4 DEF PathsKnown, PathsOf, ShownPathIsRecorded
<1>10. CASE Reacted(j)
  <2>1. /\ job[j].kind = "react" /\ job' = [job EXCEPT ![j] = Free]
        /\ UNCHANGED <<path, local, viewer>>
        /\ feed' = feed \/ feed' = Append(feed, MessageEvent(job[j].msg, job[j].row))
    BY <1>10 DEF Reacted, Publish, Running, windowVars
  <2>2. job[j].msg \in Msgs /\ job[j].row \in BOOLEAN /\ (job[j].row => path[job[j].msg])
    BY <2>1 DEF IInv, JobsGood, JobGood, JobRecord, PathsKnown, PathsOf
  <2>3. job'[j] = Free /\ \A i \in Jobs : i # j => job'[i] = job[i]
    BY <2>1, JobEnds DEF IInv
  <2> QED
    BY <2>1, <2>2, <2>3, FreeIsGood, PathsPublished
<1> QED
  BY <1>3, <1>4, <1>5, <1>6, <1>7, <1>8, <1>9, <1>10, AnswerPaths DEF JobNext

LEMMA CellPaths ==
    ASSUME IInv, PathsKnown, NEW c \in Cells, CellNext(c) PROVE PathsKnown'
<1>1. ASSUME UNCHANGED <<path, job, local, feed>>, viewer' \in {viewer, None}
      PROVE  PathsKnown'
  BY <1>1, PathsKept
<1>2. ASSUME UNCHANGED <<path, local, feed, viewer>>, NEW kind \in {"download", "react"},
             NEW m, NEW d, Call(kind, m, d)
      PROVE  PathsKnown'
  <2> DEFINE r == [kind |-> kind, phase |-> "called", msg |-> m, cell |-> d, row |-> FALSE]
  <2>1. PICK j \in Jobs : job' = [job EXCEPT ![j] = r]
    BY <1>2 DEF Call
  <2>2. r.row = FALSE
    OBVIOUS
  <2> HIDE DEF r
  <2>3. job'[j] = r /\ \A i \in Jobs : i # j => job'[i] = job[i]
    BY <2>1 DEF IInv, JobsGood
  <2> QED
    BY <1>2, <2>2, <2>3, PathsKept
<1>3. CASE \E m \in Msgs : Bind(c, m)
  BY <1>1, <1>3 DEF Bind, daemonVars, streamVars
<1>4. CASE Unbind(c)
  BY <1>1, <1>4 DEF Unbind, daemonVars, streamVars
<1>5. CASE Download(c)
  BY <1>2, <1>5 DEF Download, streamVars
<1>6. CASE React(c)
  BY <1>2, <1>6 DEF React, streamVars, windowVars
<1>7. CASE Tick(c)
  BY <1>1, <1>7 DEF Tick, daemonVars, streamVars
<1>8. CASE ShowMediaViewer(c)
  <2>1. /\ UNCHANGED <<path, job, local, feed>> /\ viewer' = cell[c].item
        /\ cell[c].item # None /\ cell[c].offer = "view"
    BY <1>8 DEF ShowMediaViewer, daemonVars, streamVars
  <2>2. RowGood(cell[c], local)
    BY DEF IInv, WindowGood, RowsGood
  <2>3. viewer' \in Downloadable /\ viewer' \in Msgs /\ local[viewer']
    BY <2>1, <2>2 DEF RowGood, CellRecord
  <2> QED
    BY <2>1, <2>3 DEF PathsKnown, PathsOf, ShownPathIsRecorded
<1> QED
  BY <1>3, <1>4, <1>5, <1>6, <1>7, <1>8 DEF CellNext

LEMMA NextPaths == IInv /\ PathsKnown /\ [Next]_vars => PathsKnown'
<1> SUFFICES ASSUME IInv, PathsKnown, [Next]_vars PROVE PathsKnown'
  OBVIOUS
<1>1. ASSUME UNCHANGED <<path, job, local, feed>>, viewer' \in {viewer, None}
      PROVE  PathsKnown'
  BY <1>1, PathsKept
<1>2. CASE UNCHANGED vars
  BY <1>1, <1>2 DEF vars, daemonVars, streamVars, windowVars
<1>3. ASSUME NEW m \in Downloadable, Redeliver(m) PROVE PathsKnown'
  <2>1. /\ feed' = Append(feed, MessageEvent(m, FALSE)) /\ m \in Msgs
        /\ UNCHANGED <<path, job, local, viewer>>
    BY <1>3 DEF Redeliver, daemonVars, windowVars, Downloadable
  <2> QED
    BY <2>1, PathsPublished
<1>4. ASSUME NEW m \in Downloadable, RemoveFile(m) PROVE PathsKnown'
  BY <1>1, <1>4 DEF RemoveFile, streamVars, windowVars
<1>5. ASSUME NEW m \in Msgs, Decoded(m) PROVE PathsKnown'
  BY <1>1, <1>5 DEF Decoded, daemonVars, streamVars
<1>6. CASE CloseViewer
  BY <1>1, <1>6 DEF CloseViewer, daemonVars, streamVars
<1>7. CASE Crash
  <2>1. DOMAIN feed' = {} /\ UNCHANGED <<path, local, viewer>>
    BY <1>7 DEF Crash, windowVars
  <2>2. \A j \in Jobs : job'[j].kind # "react"
    <3>1. ASSUME NEW j \in Jobs, job[j].kind = "download" PROVE job'[j].kind # "react"
      <4>1. job[j] \in JobRecord
        BY DEF IInv, JobsGood, JobGood
      <4>2. [job[j] EXCEPT !.phase = "failed"].kind = "download"
        BY <3>1, <4>1 DEF JobRecord
      <4> QED
        BY <1>7, <3>1, <4>2 DEF Crash
    <3>2. ASSUME NEW j \in Jobs, job[j].kind # "download" PROVE job'[j].kind # "react"
      BY <1>7, <3>2, FreeIsGood DEF Crash
    <3> QED
      BY <3>1, <3>2
  <2> QED
    BY <2>1, <2>2 DEF PathsKnown, PathsOf, ShownPathIsRecorded
<1> QED
  BY <1>2, <1>3, <1>4, <1>5, <1>6, <1>7, JobPaths, CellPaths, HandleEventPaths DEF Next

\* The window offers to open a file, and the viewer shows one, only when its
\* path has been recorded, whatever events are lost, late or redelivered.
THEOREM ShownPathsAreRecorded == Spec => []ShownPathIsRecorded
<1>1. PathsKnown => ShownPathIsRecorded
  BY DEF PathsKnown
<1>2. Spec => []PathsKnown
  BY Invariance, InitPaths, NextPaths, PTL DEF Spec
<1> QED
  BY <1>1, <1>2, PTL

-----------------------------------------------------------------------------
(* Images.  A row that wants an image shows it, waits for its decode, or   *)
(* wants one that could not be decoded; what is being decoded is not in    *)
(* the cache.                                                              *)

Wants(rows, wait, kept) ==
    /\ \A c \in Cells, m \in Msgs : rows[c].want = m =>
          /\ IsDecodable(m)
          /\ rows[c].paint = m \/ c \in wait[m] \/ (wait[m] = {} /\ m \notin kept)
    /\ \A m \in Msgs : wait[m] # {} => m \notin kept

\* The cache of a list of uses: everything in it can be evicted.
Tracked(kept, uses) ==
    /\ uses \in Seq(Msgs) /\ kept \subseteq Msgs
    /\ Len(uses) < 2 * CacheLimit
    /\ \A m \in kept : \E i \in DOMAIN uses : uses[i] = m

ImagesGood == waiting \in [Msgs -> SUBSET Cells] /\ Wants(cell, waiting, cache) /\ Tracked(cache, order)

\* A row that was bound again wants its message's image, if it can be shown.
LEMMA ReboundWants ==
    ASSUME NEW row \in CellRecord, NEW m \in Msgs, NEW isLocal \in BOOLEAN,
           row.want \in {m, None}, row.want = m => IsDecodable(m)
    PROVE  LET r == Rebound(row, m, isLocal) IN
           /\ r.want \in {m, None}
           /\ r.want = m => isLocal /\ IsDecodable(m) /\ (m \in cache => r.paint = m)
<1> USE NoneAssumption
<1> DEFINE reset == [StopSpinner(row) EXCEPT !.item = m, !.offer = "nothing", !.ticking = None]
           bound == [reset EXCEPT !.id = m]
<1>1. reset \in CellRecord /\ reset.want = row.want
  BY DEF CellRecord, StopSpinner
<1>2. bound \in CellRecord /\ bound.want = row.want
  BY <1>1 DEF CellRecord
<1>3. IsDecodable(m) => IsVisual(m) /\ HasMedia(m)
  BY DEF IsDecodable, IsVisual, HasMedia, MediaKinds
<1> HIDE DEF reset, bound
<1>4. CASE ~HasMedia(m)
  <2>1. Rebound(row, m, isLocal) = reset
    BY <1>4 DEF Rebound, reset
  <2> QED
    BY <1>1, <1>3, <1>4, <2>1
<1>5. CASE HasMedia(m) /\ ~IsVisual(m)
  <2>1. Rebound(row, m, isLocal) = BoundFile(bound, isLocal)
    BY <1>5 DEF Rebound, bound, reset
  <2>2. BoundFile(bound, isLocal).want = row.want
    BY <1>2 DEF BoundFile, CellRecord
  <2> QED
    BY <1>3, <1>5, <2>1, <2>2
<1>6. CASE HasMedia(m) /\ IsVisual(m)
  <2>1. Rebound(row, m, isLocal) = BoundVisual(bound, m, isLocal)
    BY <1>6 DEF Rebound, bound, reset
  <2> DEFINE decodes == isLocal /\ IsDecodable(m)
             want == IF decodes THEN m ELSE None
             paint == IF Thumb[m] = "none" /\ decodes THEN bound.paint ELSE Thumbnail(m)
             offer == IF ~isLocal THEN "download"
                      ELSE IF IsViewable(m) THEN "view" ELSE "nothing"
             b == [bound EXCEPT !.want = want, !.paint = paint, !.offer = offer]
  <2>2. BoundVisual(bound, m, isLocal) = IF decodes /\ m \in cache THEN Shown(b, m) ELSE b
    BY DEF BoundVisual
  <2>3. (want = m <=> decodes) /\ want \in {m, None}
    OBVIOUS
  <2> HIDE DEF want, paint, offer, decodes
  <2>4. b.want = want
    BY <1>2 DEF CellRecord
  <2>5. Shown(b, m).want = b.want /\ Shown(b, m).paint = m
    BY <1>2 DEF Shown, CellRecord
  <2> HIDE DEF b, Shown
  <2>6. decodes <=> isLocal /\ IsDecodable(m)
    BY DEF decodes
  <2> QED
    BY <2>1, <2>2, <2>3, <2>4, <2>5, <2>6
<1> QED
  BY <1>4, <1>5, <1>6

\* Compacting the list of uses keeps the cached paths, each once.
LEMMA CompactionsCover ==
    ASSUME NEW uses \in Seq(Msgs), NEW kept \in SUBSET Msgs,
           \A m \in kept : \E i \in DOMAIN uses : uses[i] = m,
           NEW all \in Compactions(uses, kept)
    PROVE  /\ all \in Seq(Msgs) /\ DOMAIN all = 1..Len(all) /\ Len(all) \in Nat
           /\ \A m \in kept : \E i \in 1..Len(all) : all[i] = m
<1> DEFINE n == Cardinality(kept)
           K == {k \in DOMAIN uses : uses[k] \in kept}
           f == [k \in K |-> uses[k]]
<1>1. {m \in kept : \E k \in DOMAIN uses : uses[k] = m} = kept
  OBVIOUS
<1>2. IsFiniteSet(kept)
  <2>1. Len(uses) \in Nat /\ DOMAIN uses = 1..Len(uses)
    OBVIOUS
  <2>2. IsFiniteSet(DOMAIN uses)
    BY <2>1, FS_Interval
  <2>3. IsFiniteSet(K)
    BY <2>2, FS_Subset
  <2>4. f \in [K -> kept] /\ \A m \in kept : \E k \in K : f[k] = m
    OBVIOUS
  <2> HIDE DEF f, K
  <2>5. f \in Surjection(K, kept)
    BY <2>4 DEF Surjection
  <2> QED
    BY <2>3, <2>5, FS_Surjection
<1>3. n \in Nat
  BY <1>2, FS_CardinalityType
<1>4. /\ all \in [1..n -> kept]
      /\ \A i, k \in DOMAIN all : i < k =>
            \E u \in DOMAIN uses : uses[u] = all[k] /\ \A l \in u..Len(uses) : uses[l] # all[i]
  BY <1>1 DEF Compactions
<1>5. \A i, k \in 1..n : i < k => all[i] # all[k]
  <2> SUFFICES ASSUME NEW i \in 1..n, NEW k \in 1..n, i < k PROVE all[i] # all[k]
    OBVIOUS
  <2>1. PICK u \in DOMAIN uses : uses[u] = all[k] /\ \A l \in u..Len(uses) : uses[l] # all[i]
    BY <1>4
  <2>2. u \in u..Len(uses)
    OBVIOUS
  <2> QED
    BY <2>1, <2>2
<1> HIDE DEF n
<1>6. all \in Injection(1..n, kept)
  BY <1>3, <1>4, <1>5 DEF Injection, IsInjective
<1>7. IsFiniteSet(1..n) /\ Cardinality(1..n) = n
  BY <1>3, FS_Interval
<1>8. all \in Surjection(1..n, kept)
  BY <1>2, <1>6, <1>7, FS_Injection DEF n
<1>9. \A m \in kept : \E i \in 1..n : all[i] = m
  BY <1>8 DEF Surjection
<1>10. all \in Seq(Msgs) /\ Len(all) = n /\ DOMAIN all = 1..n
  BY <1>3, <1>4
<1> QED
  BY <1>3, <1>9, <1>10

\* touchAnimCache keeps the cache within its limit.
LEMMA TouchIsTracked ==
    ASSUME order \in Seq(Msgs), NEW kept \in SUBSET Msgs, NEW m \in Msgs,
           \A x \in kept \ {m} : \E i \in DOMAIN order : order[i] = x,
           TouchAnimCache(kept, m)
    PROVE  Tracked(cache', order') /\ cache' \subseteq kept
<1> USE CacheLimitAssumption
<1> DEFINE grown == Append(order, m)
<1>1. /\ grown \in Seq(Msgs) /\ Len(grown) \in Nat /\ DOMAIN grown = 1..Len(grown)
      /\ grown[Len(grown)] = m /\ Len(grown) \in DOMAIN grown
      /\ \A i \in DOMAIN order : i \in DOMAIN grown /\ grown[i] = order[i]
  OBVIOUS
<1>2. \A x \in kept : \E i \in DOMAIN grown : grown[i] = x
  BY <1>1
<1> HIDE DEF grown
<1>3. CASE Len(grown) < 2 * CacheLimit /\ order' = grown /\ cache' = kept
  BY <1>1, <1>2, <1>3 DEF Tracked
<1>4. CASE \E all \in Compactions(grown, kept) :
             /\ order' = SubSeq(all, Excess(all) + 1, Len(all))
             /\ cache' = kept \ {all[i] : i \in 1..Excess(all)}
  <2>1. PICK all \in Compactions(grown, kept) :
             /\ order' = SubSeq(all, Excess(all) + 1, Len(all))
             /\ cache' = kept \ {all[i] : i \in 1..Excess(all)}
    BY <1>4
  <2>2. /\ all \in Seq(Msgs) /\ DOMAIN all = 1..Len(all) /\ Len(all) \in Nat
        /\ \A x \in kept : \E i \in 1..Len(all) : all[i] = x
    BY <1>1, <1>2, CompactionsCover
  <2> DEFINE e == Excess(all)
  <2>3. e \in 0..Len(all) /\ Len(all) - e <= CacheLimit
    BY <2>2 DEF Excess
  <2> HIDE DEF e
  <2>4. /\ order' \in Seq(Msgs) /\ Len(order') = Len(all) - e
        /\ DOMAIN order' = 1..(Len(all) - e)
        /\ \A i \in 1..(Len(all) - e) : order'[i] = all[e + i]
    BY <2>1, <2>2, <2>3 DEF e
  <2>5. ASSUME NEW x \in cache' PROVE \E i \in DOMAIN order' : order'[i] = x
    <3>1. PICK i \in 1..Len(all) : all[i] = x
      BY <2>1, <2>2
    <3>2. i \notin 1..e
      BY <2>1, <3>1 DEF e
    <3>3. i - e \in 1..(Len(all) - e) /\ e + (i - e) = i
      BY <2>2, <2>3, <3>2
    <3> QED
      BY <2>4, <3>1, <3>3
  <2>6. cache' \subseteq kept
    BY <2>1
  <2>7. Len(order') < 2 * CacheLimit
    BY <2>2, <2>3, <2>4
  <2> QED
    BY <2>4, <2>5, <2>6, <2>7 DEF Tracked
<1> QED
  BY <1>3, <1>4 DEF TouchAnimCache, grown

LEMMA RebindImages ==
    ASSUME ImagesGood, NEW rows, NEW c \in Cells, NEW m \in Msgs, NEW isLocal \in BOOLEAN,
           NEW loc, RowsGood(rows, loc), rows[c].item \in {m, None},
           \A d \in Cells : d # c => rows[d].item # m,
           Wants(rows, waiting, cache), Rebind(rows, c, m, isLocal)
    PROVE  ImagesGood'
<1> DEFINE r == Rebound(rows[c], m, isLocal)
<1>1. /\ rows = [d \in Cells |-> rows[d]] /\ \A d \in Cells : RowGood(rows[d], loc)
  BY DEF RowsGood
<1>2. rows[c] \in CellRecord /\ rows[c].want \in {m, None}
  BY <1>1 DEF RowGood
<1>3. rows[c].want = m => IsDecodable(m)
  BY DEF Wants
<1>4. /\ r.want \in {m, None}
      /\ r.want = m => isLocal /\ IsDecodable(m) /\ (m \in cache => r.paint = m)
  BY <1>2, <1>3, ReboundWants
<1>5. cell' = [rows EXCEPT ![c] = r]
  BY DEF Rebind
<1> HIDE DEF r
<1>6. cell'[c] = r /\ \A d \in Cells : d # c => cell'[d] = rows[d]
  BY <1>1, <1>5
<1>7. \A d \in Cells : d # c => rows[d].want # m
  <2> SUFFICES ASSUME NEW d \in Cells, d # c, rows[d].want = m PROVE FALSE
    OBVIOUS
  <2>1. rows[d].want \in {rows[d].item, None}
    BY <1>1 DEF RowGood
  <2> QED
    BY <2>1, NoneAssumption
<1>8. CASE ~(isLocal /\ IsDecodable(m))
  <2>1. UNCHANGED <<cache, order, waiting>>
    BY <1>8 DEF Rebind, imageVars
  <2>2. cell'[c].want = None
    BY <1>4, <1>6, <1>8
  <2>3. Wants(cell', waiting', cache')
    BY <1>6, <2>1, <2>2, NoneAssumption DEF Wants
  <2> QED
    BY <2>1, <2>3 DEF ImagesGood
<1>9. CASE isLocal /\ IsDecodable(m) /\ m \in cache
  <2>1. TouchAnimCache(cache, m) /\ UNCHANGED waiting
    BY <1>9 DEF Rebind, LoadAnimation
  <2>2. Tracked(cache', order') /\ cache' \subseteq cache
    BY <2>1, TouchIsTracked DEF ImagesGood, Tracked
  <2>3. Wants(cell', waiting', cache')
    <3>1. ASSUME NEW d \in Cells, NEW x \in Msgs, cell'[d].want = x
          PROVE  /\ IsDecodable(x)
                 /\ cell'[d].paint = x \/ d \in waiting'[x] \/ (waiting'[x] = {} /\ x \notin cache')
      <4>1. CASE d = c
        BY <1>4, <1>6, <1>9, <3>1, <4>1, NoneAssumption
      <4>2. CASE d # c
        BY <1>6, <2>1, <2>2, <3>1, <4>2 DEF Wants
      <4> QED
        BY <4>1, <4>2
    <3> QED
      BY <2>1, <2>2, <3>1 DEF Wants
  <2> QED
    BY <2>1, <2>2, <2>3 DEF ImagesGood
<1>10. CASE isLocal /\ IsDecodable(m) /\ m \notin cache
  <2>1. waiting' = [waiting EXCEPT ![m] = @ \cup {c}] /\ UNCHANGED <<cache, order>>
    BY <1>10 DEF Rebind, LoadAnimation
  <2>2. /\ waiting' \in [Msgs -> SUBSET Cells] /\ waiting'[m] = waiting[m] \cup {c}
        /\ \A x \in Msgs : x # m => waiting'[x] = waiting[x]
    BY <2>1 DEF ImagesGood
  <2>3. Wants(cell', waiting', cache')
    <3>1. ASSUME NEW d \in Cells, NEW x \in Msgs, cell'[d].want = x
          PROVE  /\ IsDecodable(x)
                 /\ cell'[d].paint = x \/ d \in waiting'[x] \/ (waiting'[x] = {} /\ x \notin cache')
      <4>1. CASE d = c
        BY <1>4, <1>6, <1>10, <2>2, <3>1, <4>1, NoneAssumption
      <4>2. CASE d # c
        BY <1>6, <1>7, <2>1, <2>2, <3>1, <4>2 DEF Wants
      <4> QED
        BY <4>1, <4>2
    <3>2. ASSUME NEW x \in Msgs, waiting'[x] # {} PROVE x \notin cache'
      BY <1>10, <2>1, <2>2, <3>2 DEF Wants
    <3> QED
      BY <3>1, <3>2 DEF Wants
  <2> QED
    BY <2>1, <2>2, <2>3 DEF ImagesGood
<1> QED
  BY <1>8, <1>9, <1>10

\* Rows that want and show what they did.
LEMMA ImagesKept ==
    ASSUME ImagesGood, UNCHANGED imageVars,
           \A c \in Cells : cell'[c].want \in {cell[c].want, None} /\ cell'[c].paint = cell[c].paint
    PROVE  ImagesGood'
<1>1. UNCHANGED <<cache, order, waiting>>
  BY DEF imageVars
<1>2. Wants(cell', waiting', cache')
  BY <1>1, NoneAssumption DEF ImagesGood, Wants
<1> QED
  BY <1>1, <1>2 DEF ImagesGood

LEMMA RefreshImages ==
    ASSUME ImagesGood, NEW rows, NEW m \in Msgs, NEW isLocal \in BOOLEAN, NEW loc,
           RowsGood(rows, loc), Wants(rows, waiting, cache), Refresh(rows, m, isLocal)
    PROVE  ImagesGood'
<1>1. CASE \E c \in Cells : rows[c].item = m /\ Rebind(rows, c, m, isLocal)
  <2>1. PICK c \in Cells : rows[c].item = m /\ Rebind(rows, c, m, isLocal)
    BY <1>1
  <2>2. \A d \in Cells : d # c => rows[d].item # m
    BY <2>1, NoneAssumption DEF RowsGood
  <2> QED
    BY <2>1, <2>2, RebindImages
<1>2. CASE cell' = rows /\ UNCHANGED imageVars
  BY <1>2 DEF ImagesGood, imageVars
<1> QED
  BY <1>1, <1>2 DEF Refresh

LEMMA DecodedImages ==
    ASSUME IInv, ImagesGood, NEW m \in Msgs, Decoded(m) PROVE ImagesGood'
<1>1. waiting[m] # {} /\ m \notin cache /\ waiting' = [waiting EXCEPT ![m] = {}]
  BY DEF Decoded, ImagesGood, Wants
<1>2. /\ waiting' \in [Msgs -> SUBSET Cells] /\ waiting'[m] = {}
      /\ \A x \in Msgs : x # m => waiting'[x] = waiting[x]
  BY <1>1 DEF ImagesGood
<1>3. CASE UNCHANGED <<cache, order, cell>>
  <2>1. ASSUME NEW c \in Cells, NEW x \in Msgs, cell'[c].want = x
        PROVE  /\ IsDecodable(x)
               /\ cell'[c].paint = x \/ c \in waiting'[x] \/ (waiting'[x] = {} /\ x \notin cache')
    <3>1. /\ IsDecodable(x)
          /\ cell[c].paint = x \/ c \in waiting[x] \/ (waiting[x] = {} /\ x \notin cache)
      BY <1>3, <2>1 DEF ImagesGood, Wants
    <3> QED
      BY <1>1, <1>2, <1>3, <3>1
  <2>2. Wants(cell', waiting', cache')
    BY <1>2, <1>3, <2>1 DEF ImagesGood, Wants
  <2> QED
    BY <1>2, <1>3, <2>2 DEF ImagesGood
<1>4. CASE /\ TouchAnimCache(cache \cup {m}, m)
           /\ cell' = [c \in Cells |-> IF c \in waiting[m] /\ cell[c].want = m
                                      THEN Shown(cell[c], m) ELSE cell[c]]
  <2>1. Tracked(cache', order') /\ cache' \subseteq cache \cup {m}
    BY <1>4, TouchIsTracked DEF ImagesGood, Tracked
  <2>2. ASSUME NEW c \in Cells, NEW x \in Msgs, cell'[c].want = x
        PROVE  /\ IsDecodable(x)
               /\ cell'[c].paint = x \/ c \in waiting'[x] \/ (waiting'[x] = {} /\ x \notin cache')
    <3>1. cell[c] \in CellRecord
      BY DEF IInv, WindowGood, RowsGood, RowGood
    <3>2. CASE c \in waiting[m] /\ cell[c].want = m
      <4>1. cell'[c].want = m /\ cell'[c].paint = m
        BY <1>4, <3>1, <3>2 DEF Shown, CellRecord
      <4> QED
        BY <2>2, <3>2, <4>1 DEF ImagesGood, Wants
    <3>3. CASE ~(c \in waiting[m] /\ cell[c].want = m)
      <4>1. cell'[c] = cell[c]
        BY <1>4, <3>3
      <4>2. /\ IsDecodable(x)
            /\ cell[c].paint = x \/ c \in waiting[x] \/ (waiting[x] = {} /\ x \notin cache)
        BY <2>2, <4>1 DEF ImagesGood, Wants
      <4>3. CASE x = m
        BY <1>1, <2>2, <3>3, <4>1, <4>2, <4>3
      <4>4. CASE x # m
        BY <1>2, <2>1, <4>1, <4>2, <4>4
      <4> QED
        BY <4>3, <4>4
    <3> QED
      BY <3>2, <3>3
  <2>3. Wants(cell', waiting', cache')
    BY <1>2, <2>1, <2>2 DEF ImagesGood, Wants
  <2> QED
    BY <1>2, <2>1, <2>3 DEF ImagesGood
<1> QED
  BY <1>3, <1>4 DEF Decoded

LEMMA AnswerImages ==
    ASSUME IInv, ImagesGood, NEW j \in Jobs, Answer(j) PROVE ImagesGood'
<1> DEFINE c == job[j].cell
           m == job[j].msg
           rows == [cell EXCEPT ![c] = StopSpinner(@)]
<1>1. /\ job[j].phase \in {"done", "failed"}
      /\ \/ UNCHANGED <<cell, imageVars>>
         \/ cell' = rows /\ UNCHANGED imageVars
         \/ Refresh(rows, m, TRUE)
  BY DEF Answer
<1>2. m \in Msgs /\ c \in Cells
  BY <1>1 DEF IInv, JobsGood, JobGood, JobRecord
<1>3. RowsGood(cell, local)
  BY DEF IInv, WindowGood
<1>4. /\ rows = [d \in Cells |-> rows[d]] /\ rows[c] = StopSpinner(cell[c])
      /\ \A d \in Cells : d # c => rows[d] = cell[d]
  BY <1>2, <1>3 DEF RowsGood
<1> HIDE DEF c, m, rows
<1>5. \A d \in Cells : /\ RowGood(rows[d], local) /\ rows[d].item = cell[d].item
                       /\ rows[d].want = cell[d].want /\ rows[d].paint = cell[d].paint
  <2>1. RowGood(rows[c], local) /\ rows[c].item = cell[c].item
    BY <1>2, <1>3, <1>4, StoppedIsGood DEF RowsGood
  <2>2. cell[c] \in CellRecord
    BY <1>2, <1>3 DEF RowsGood, RowGood
  <2>3. rows[c].want = cell[c].want /\ rows[c].paint = cell[c].paint
    BY <1>4, <2>2 DEF StopSpinner, CellRecord
  <2> QED
    BY <1>3, <1>4, <2>1, <2>3 DEF RowsGood
<1>6. RowsGood(rows, local) /\ Wants(rows, waiting, cache)
  BY <1>3, <1>4, <1>5 DEF RowsGood, ImagesGood, Wants
<1>7. CASE Refresh(rows, m, TRUE)
  BY <1>2, <1>6, <1>7, RefreshImages
<1>8. CASE (cell' = rows \/ cell' = cell) /\ UNCHANGED imageVars
  BY <1>5, <1>8, ImagesKept
<1> QED
  BY <1>1, <1>7, <1>8

LEMMA CellImages ==
    ASSUME IInv, ImagesGood, NEW c \in Cells, CellNext(c) PROVE ImagesGood'
<1>1. /\ RowsGood(cell, local) /\ cell = [d \in Cells |-> cell[d]]
      /\ cell[c] \in CellRecord /\ RowGood(cell[c], local)
  BY DEF IInv, WindowGood, RowsGood, RowGood
<1>2. ASSUME UNCHANGED imageVars, NEW r, cell' = [cell EXCEPT ![c] = r],
             r.want \in {cell[c].want, None}, r.paint = cell[c].paint
      PROVE  ImagesGood'
  <2>1. cell'[c] = r /\ \A d \in Cells : d # c => cell'[d] = cell[d]
    BY <1>1, <1>2
  <2> QED
    BY <1>2, <2>1, ImagesKept
<1>3. ASSUME NEW m \in Msgs, Bind(c, m) PROVE ImagesGood'
  <2>1. /\ cell[c].item = None /\ \A d \in Cells : cell[d].item # m
        /\ Rebind(cell, c, m, local[m])
    BY <1>3 DEF Bind
  <2>2. local[m] \in BOOLEAN /\ Wants(cell, waiting, cache)
    BY DEF IInv, WindowGood, ImagesGood
  <2> QED
    BY <1>1, <2>1, <2>2, RebindImages
<1>4. CASE Unbind(c)
  <2> DEFINE r == [cell[c] EXCEPT !.item = None, !.want = None, !.ticking = None]
  <2>1. cell' = [cell EXCEPT ![c] = r] /\ UNCHANGED imageVars
    BY <1>4 DEF Unbind
  <2>2. r.want = None /\ r.paint = cell[c].paint
    BY <1>1 DEF CellRecord
  <2> HIDE DEF r
  <2> QED
    BY <1>2, <2>1, <2>2
<1>5. CASE Download(c)
  <2> DEFINE r == StartSpinner(cell[c])
  <2>1. cell' = [cell EXCEPT ![c] = r] /\ UNCHANGED imageVars
    BY <1>5 DEF Download
  <2>2. r.want = cell[c].want /\ r.paint = cell[c].paint
    BY <1>1 DEF CellRecord, StartSpinner
  <2> HIDE DEF r
  <2> QED
    BY <1>2, <2>1, <2>2
<1>6. CASE Tick(c)
  <2> DEFINE r == [cell[c] EXCEPT !.paint = cell[c].ticking]
  <2>1. cell' = [cell EXCEPT ![c] = r] /\ UNCHANGED imageVars /\ cell[c].ticking # None
    BY <1>6 DEF Tick
  <2>2. r.want = cell[c].want /\ r.paint = cell[c].ticking
    BY <1>1 DEF CellRecord
  <2> HIDE DEF r
  <2>3. r.want # None => r.paint = r.want
    BY <1>1, <2>1, <2>2 DEF RowGood
  <2>4. cell'[c] = r /\ \A d \in Cells : d # c => cell'[d] = cell[d]
    BY <1>1, <2>1
  <2>5. UNCHANGED <<cache, order, waiting>>
    BY <2>1 DEF imageVars
  <2>6. Wants(cell', waiting', cache')
    BY <2>2, <2>3, <2>4, <2>5, NoneAssumption DEF ImagesGood, Wants
  <2> QED
    BY <2>5, <2>6 DEF ImagesGood
<1>7. CASE React(c) \/ ShowMediaViewer(c)
  BY <1>7, ImagesKept DEF React, ShowMediaViewer, windowVars
<1> QED
  BY <1>3, <1>4, <1>5, <1>6, <1>7 DEF CellNext

LEMMA HandleEventImages ==
    ASSUME IInv, ImagesGood, HandleEvent PROVE ImagesGood'
<1> DEFINE Events == [msg : Msgs, row : BOOLEAN]
           h == Head(feed)
<1>1. feed # <<>> /\ Refresh(cell, h.msg, h.row)
  BY DEF HandleEvent
<1> HIDE DEF Events
<1>2. feed \in Seq(Events)
  BY DEF IInv, StreamTyped, Events
<1>3. h \in Events
  BY <1>1, <1>2, HeadOfSeq
<1>4. h.msg \in Msgs /\ h.row \in BOOLEAN
  BY <1>3 DEF Events
<1>5. RowsGood(cell, local) /\ Wants(cell, waiting, cache)
  BY DEF IInv, WindowGood, ImagesGood
<1> HIDE DEF h
<1> QED
  BY <1>1, <1>4, <1>5, RefreshImages

LEMMA InitImages == Init => ImagesGood
<1> SUFFICES ASSUME Init PROVE ImagesGood
  OBVIOUS
<1>1. NewCell.want = None
  BY DEF NewCell
<1>2. Wants(cell, waiting, cache)
  BY <1>1, NoneAssumption DEF Init, Wants
<1>3. Tracked(cache, order)
  BY CacheLimitAssumption DEF Init, Tracked
<1> QED
  BY <1>2, <1>3 DEF Init, ImagesGood

LEMMA NextImages == IInv /\ ImagesGood /\ [Next]_vars => ImagesGood'
<1> SUFFICES ASSUME IInv, ImagesGood, [Next]_vars PROVE ImagesGood'
  OBVIOUS
<1>1. ASSUME UNCHANGED <<cell, imageVars>> PROVE ImagesGood'
  BY <1>1, ImagesKept
<1>2. CASE UNCHANGED vars
  BY <1>1, <1>2 DEF vars, windowVars
<1>3. ASSUME NEW j \in Jobs, JobNext(j) PROVE ImagesGood'
  <2>1. CASE Answer(j)
    BY <2>1, AnswerImages
  <2>2. CASE Lookup(j) \/ StartWrite(j) \/ FinishWrite(j) \/ SetMediaPath(j)
    BY <1>1, <2>2 DEF Lookup, StartWrite, FinishWrite, SetMediaPath, windowVars
  <2>3. CASE PublishDownloaded(j) \/ Fail(j) \/ ReadForReaction(j) \/ Reacted(j)
    BY <1>1, <2>3 DEF PublishDownloaded, Fail, ReadForReaction, Reacted, windowVars
  <2> QED
    BY <1>3, <2>1, <2>2, <2>3 DEF JobNext
<1>4. ASSUME NEW m \in Downloadable, Redeliver(m) \/ RemoveFile(m) PROVE ImagesGood'
  BY <1>1, <1>4 DEF Redeliver, RemoveFile, windowVars
<1>5. CASE CloseViewer \/ Crash
  BY <1>1, <1>5 DEF CloseViewer, Crash, windowVars
<1> QED
  BY <1>2, <1>3, <1>4, <1>5, CellImages, DecodedImages, HandleEventImages DEF Next

LEMMA ImagesInvariance == Spec => []ImagesGood
  BY Invariance, InitImages, NextImages, PTL DEF Spec

\* No row that joins a decode under way is forgotten: once the image is in the
\* cache, the row that wants it shows it.
THEOREM DecodedImagesAreShown == Spec => []DecodedImageIsShown
<1>1. ImagesGood => DecodedImageIsShown
  BY DEF ImagesGood, Wants, Tracked, DecodedImageIsShown
<1> QED
  BY <1>1, ImagesInvariance, PTL

\* The list of uses never reaches twice the limit, for any limit, and every
\* cached image is in it, so that none stays for good.
THEOREM CacheAlwaysBounded == Spec => []CacheIsBounded
<1>1. ImagesGood => CacheIsBounded
  BY DEF ImagesGood, Tracked, CacheIsBounded
<1> QED
  BY <1>1, ImagesInvariance, PTL
=============================================================================
