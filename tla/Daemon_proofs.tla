---------------------------- MODULE Daemon_proofs ----------------------------
(***************************************************************************)
(* The daemon seen from a desktop: that it is there to be found            *)
(* (Lifecycle), and that what it streams is what the window shows          *)
(* (EventStream).                                                          *)
(*                                                                         *)
(* Lifecycle.  However many processes start, serve, stop and die, a daemon *)
(* that runs is the one the socket names, unless a shutdown has unlinked   *)
(* its socket or its start met another's between its probe and its         *)
(* os.Remove: what a start learnt of the path is void then, and only then. *)
(*                                                                         *)
(* EventStream.  The channel, the handler's snapshot, the wire and the     *)
(* window are one pipe.  The invariant says what the window will have      *)
(* heard last once the pipe is empty, for each thing the page depends on:  *)
(* the gate, its release, a connection, a wait for a pairing.              *)
(***************************************************************************)
EXTENDS Lifecycle, EventStream, FiniteSetTheorems, TLAPS

-----------------------------------------------------------------------------
(* Lifecycle.                                                              *)

\* A process past bind is named by the path; what a start has learnt about the
\* path is still true when it acts on it; and who starts meanwhile is known.
Bound(d) == pc[d] \in {"listen", "opening", "serving"}
Named == \A d \in Daemons \ (orphaned \cup exposed) : Bound(d) => file = d
Informed ==
    \A d, e \in Daemons :
        pc[d] = "remove" =>
            /\ Bound(e) /\ file = e => e \in exposed
            /\ e \in Starting /\ e # d => e \in exposed

IInv == TypeOK /\ Named /\ Informed

-----------------------------------------------------------------------------
LEMMA InitIInv == Init => IInv
  BY DEF Init, IInv, TypeOK, Pcs, Named, Informed, Bound

\* Listen's steps, and the ones that end it.
LEMMA ListenKeepsIInv ==
    ASSUME IInv, NEW d \in Daemons,
           Spawn(d) \/ Stat(d) \/ Dial(d) \/ Remove(d) \/ Bind(d) \/ Listen(d)
    PROVE  IInv'
<1> USE NoFileAssumption
    DEF IInv, TypeOK, Pcs, Named, Informed, Bound, Starting, Goto, Exit, UnlinkPath
<1>1. CASE Spawn(d)
  BY <1>1 DEF Spawn, Removing
<1>2. CASE Stat(d)
  BY <1>2 DEF Stat
<1>3. CASE Dial(d)
  BY <1>3 DEF Dial, SocketAnswers, Answers
<1>4. CASE Remove(d)
  BY <1>4 DEF Remove
<1>5. CASE Bind(d)
  BY <1>5 DEF Bind
<1>6. CASE Listen(d)
  BY <1>6 DEF Listen
<1> QED
  BY <1>1, <1>2, <1>3, <1>4, <1>5, <1>6

\* main's steps, the clients' and the death of a process.
LEMMA MainKeepsIInv ==
    ASSUME IInv, NEW d \in Daemons,
           \/ Open(d) \/ Drained(d) \/ Cleanup(d)
           \/ Attach(d) \/ Detach(d) \/ Terminate(d) \/ Crash(d)
    PROVE  IInv'
<1> USE NoFileAssumption
    DEF IInv, TypeOK, Pcs, Named, Informed, Bound, Starting, Goto, Exit, UnlinkPath
<1>1. CASE Open(d)
  BY <1>1 DEF Open
<1>2. CASE Drained(d) \/ Cleanup(d) \/ Terminate(d)
  BY <1>2 DEF Drained, Cleanup, Terminate
<1>3. CASE Attach(d) \/ Detach(d)
  BY <1>3 DEF Attach, Detach
<1>4. CASE Crash(d)
  BY <1>4 DEF Crash
<1> QED
  BY <1>1, <1>2, <1>3, <1>4

LEMMA StepKeepsIInv ==
    ASSUME IInv, [Next]_vars
    PROVE  IInv'
<1>1. CASE Next
  BY <1>1, ListenKeepsIInv, MainKeepsIInv DEF Next, Steps
<1>2. CASE UNCHANGED vars
  BY <1>2 DEF IInv, TypeOK, Named, Informed, Bound, Starting, vars
<1> QED
  BY <1>1, <1>2

LEMMA IInvHolds == Spec => []IInv
<1>1. IInv /\ [Next]_vars => IInv'
  BY StepKeepsIInv
<1> QED
  BY <1>1, InitIInv, PTL DEF Spec

-----------------------------------------------------------------------------
\* Each process is at one of its system calls (main.go:25-130, socket.go:24-48),
\* the socket file names a process or is gone, and a client's stream is attached
\* to a process that serves or drains only, whoever crashes meanwhile.
THEOREM TypeCorrectness == Spec => []TypeOK
  BY IInvHolds, PTL DEF IInv

\* A running daemon can be found through the socket, however many starts overlap
\* its own, unless one of them was between its probe and its os.Remove then, or a
\* shutdown has unlinked its socket since (socket.go:24-48).
THEOREM RunningAlwaysReachable == Spec => []RunningIsReachable
<1>1. IInv => RunningIsReachable
  BY DEF IInv, Named, Bound, Live, RunningIsReachable
<1> QED
  BY <1>1, IInvHolds, PTL

\* Of two daemons that take calls for one database and one WhatsApp session, one
\* has lost its socket in one of those two ways (main.go:25-77).
THEOREM NeverTwoDaemons == Spec => []OneDaemon
<1>1. IInv => OneDaemon
  BY DEF IInv, Named, Bound, Live, OneDaemon
<1> QED
  BY <1>1, IInvHolds, PTL

\* A start that unlinks a socket that is answered on unlinks that of a daemon whose
\* own start met the window between the probe and the os.Remove (socket.go:29-36).
THEOREM NeverUnlinksLiveSocket == Spec => RemovesOnlyDeadSocket
<1>1. IInv /\ [Next]_vars =>
        [\A d \in Daemons :
            pc[d] = "remove" /\ pc'[d] = "bind" => ~SocketAnswers \/ file \in exposed]_vars
  BY DEF IInv, TypeOK, Informed, Bound, SocketAnswers, Answers
<1> QED
  BY <1>1, IInvHolds, PTL DEF Spec, RemovesOnlyDeadSocket

-----------------------------------------------------------------------------
(* EventStream.                                                            *)

USE DEF syncVars

\* Something of A is in s and nothing of B comes after it; nothing of B is in s.
Ends(s, A, B) == \E i \in DOMAIN s : s[i] \in A /\ \A k \in DOMAIN s : k > i => s[k] \notin B
Clear(s, B) == \A i \in DOMAIN s : s[i] \notin B

\* The last thing of A or B the window will have heard is of A: it is in the
\* channel, the handler is still to send it (H), it is on the wire, or the
\* window has heard it (w).
Heard(q, h, s, A, B, H, w) ==
    \/ Ends(q, A, B)
    \/ Clear(q, B) /\ (h \in H \/ Ends(s, A, B) \/ (Clear(s, B) /\ w))

Snapshot == {"conn", "qr", "sync"}
Attached == handler # "none" /\ ~dropped
Settled == \A p \in Setters : Idle(p)

\* The sync gate is up, and the last thing the window hears of it.
Ungating == {"LOGGED_OUT", "QR", "IDLE", "DONE"}
GateHeard ==
    Attached /\ sync = "GATED" =>
        Heard(queue, handler, wire, {"GATED"}, Ungating, Snapshot, page = "sync" /\ syncing)

\* It is not.
ReleaseHeard ==
    Attached /\ sync # "GATED" =>
        Heard(queue, handler, wire, {"IDLE", "DONE"}, {"GATED"}, Snapshot, ~syncing)

\* The session is connected.
ConnectedHeard ==
    Attached /\ Settled /\ pairing = "linked" /\ conn = "CONNECTED" /\ told = conn =>
        Heard(queue, handler, wire, {"CONNECTED"}, {"OFFLINE", "LOGGED_OUT", "QR"}, {"conn"},
              connected /\ (~syncing => page = "chat"))

\* It waits for a pairing.
LoggedOutHeard ==
    Attached /\ Settled /\ pairing = "waiting" /\ told = conn =>
        Heard(queue, handler, wire, {"LOGGED_OUT"}, {"CONNECTED", "GATED"}, {"conn"},
              page = "qr" /\ ~connected)

\* What the daemon's own state allows in each phase of the session.
Phases ==
    /\ pairing = "boot" => Settled
    /\ pairing \in {"boot", "starting"} => conn = "OFFLINE"
    /\ pairing = "waiting" => conn = "LOGGED_OUT"
    /\ pairing \in {"scanned"} => Idle("session")
    /\ pairing \in {"waiting", "scanned"} => setting["events"] # "LOGGED_OUT"
    /\ pairing \in {"starting", "begun", "linked"} => \A p \in Setters : setting[p] # "LOGGED_OUT"
    /\ pairing = "linked" => conn # "LOGGED_OUT"
    /\ active \/ sync = "GATED" => pairing \in {"starting", "begun", "linked"}
    /\ sync = "GATED" => active \/ finishing
    /\ pairing = "boot" => ~finishing
    /\ qr => pairing \in {"waiting", "scanned", "lost", "out"}

FeedIInv == FeedTypeOK /\ Phases /\ GateHeard /\ ReleaseHeard /\ ConnectedHeard /\ LoggedOutHeard

-----------------------------------------------------------------------------
(* What is heard when an event joins, moves on or is handled.              *)

LEMMA EmptyIsClear == \A B : Clear(<<>>, B)
<1>1. DOMAIN <<>> = {}
  OBVIOUS
<1> QED
  BY <1>1 DEF Clear

LEMMA EventAppended ==
    ASSUME NEW s \in Seq(Events), NEW e \in Events, NEW A, NEW B
    PROVE  /\ e \in A => Ends(Append(s, e), A, B)
           /\ e \notin B /\ Ends(s, A, B) => Ends(Append(s, e), A, B)
           /\ e \notin B /\ Clear(s, B) => Clear(Append(s, e), B)
<1> DEFINE n == Append(s, e)
<1>1. /\ DOMAIN n = 1..(Len(s) + 1) /\ DOMAIN s = 1..Len(s) /\ Len(s) \in Nat
      /\ \A i \in DOMAIN s : n[i] = s[i]
      /\ n[Len(s) + 1] = e
  OBVIOUS
<1>2. /\ \A i \in DOMAIN n : i \in DOMAIN s \/ i = Len(s) + 1
      /\ Len(s) + 1 \in DOMAIN n /\ \A k \in DOMAIN n : ~(k > Len(s) + 1)
      /\ \A i \in DOMAIN s : i \in DOMAIN n
  BY <1>1
<1> HIDE DEF n
<1>3. e \in A => Ends(n, A, B)
  BY <1>1, <1>2 DEF Ends
<1>4. e \notin B /\ Ends(s, A, B) => Ends(n, A, B)
  BY <1>1, <1>2 DEF Ends
<1>5. e \notin B /\ Clear(s, B) => Clear(n, B)
  BY <1>1, <1>2 DEF Clear
<1> QED
  BY <1>3, <1>4, <1>5 DEF n

LEMMA EventTaken ==
    ASSUME NEW s \in Seq(Events), s # <<>>, NEW A, NEW B
    PROVE  /\ Head(s) \in Events /\ Tail(s) \in Seq(Events) /\ Len(Tail(s)) = Len(s) - 1
           /\ Ends(s, A, B) => Ends(Tail(s), A, B) \/ (Head(s) \in A /\ Clear(Tail(s), B))
           /\ Clear(s, B) => Clear(Tail(s), B) /\ Head(s) \notin B
<1> DEFINE n == Tail(s)
<1>1. /\ DOMAIN n = 1..(Len(s) - 1) /\ DOMAIN s = 1..Len(s) /\ Len(s) \in Nat /\ Len(s) > 0
      /\ \A i \in 1..(Len(s) - 1) : n[i] = s[i + 1]
      /\ Head(s) = s[1] /\ Head(s) \in Events
      /\ n \in Seq(Events) /\ Len(n) = Len(s) - 1
  OBVIOUS
<1>2. /\ 1 \in DOMAIN s
      /\ \A i \in DOMAIN n : i + 1 \in DOMAIN s /\ n[i] = s[i + 1] /\ i + 1 > 1
      /\ \A i \in DOMAIN s : i = 1 \/ (i - 1 \in DOMAIN n /\ n[i - 1] = s[i])
  BY <1>1
<1>3. \A i \in DOMAIN s, k \in DOMAIN n : k > i - 1 => k + 1 > i
  BY <1>1
<1> HIDE DEF n
<1>4. Ends(s, A, B) => Ends(n, A, B) \/ (Head(s) \in A /\ Clear(n, B))
  <2> SUFFICES ASSUME NEW i \in DOMAIN s, s[i] \in A, \A k \in DOMAIN s : k > i => s[k] \notin B
               PROVE  Ends(n, A, B) \/ (Head(s) \in A /\ Clear(n, B))
    BY DEF Ends
  <2>1. CASE i = 1
    BY <1>1, <1>2, <2>1 DEF Clear
  <2>2. CASE i # 1
    <3>1. i - 1 \in DOMAIN n /\ n[i - 1] \in A
      BY <1>2, <2>2
    <3>2. \A k \in DOMAIN n : k > i - 1 => n[k] \notin B
      BY <1>2, <1>3
    <3> QED
      BY <3>1, <3>2 DEF Ends
  <2> QED
    BY <2>1, <2>2
<1>5. Clear(s, B) => Clear(n, B) /\ Head(s) \notin B
  BY <1>1, <1>2 DEF Clear
<1> QED
  BY <1>1, <1>4, <1>5 DEF n

\* An event is published.
LEMMA HeardPublished ==
    ASSUME NEW q \in Seq(Events), NEW s \in Seq(Events), NEW h, NEW e \in Events,
           NEW A, NEW B, NEW H, NEW w \in BOOLEAN,
           e \in A \/ (e \notin B /\ Heard(q, h, s, A, B, H, w))
    PROVE  Heard(Append(q, e), h, s, A, B, H, w)
  BY EventAppended DEF Heard

\* The handler takes an event from the channel and sends it.
LEMMA HeardPumped ==
    ASSUME NEW q \in Seq(Events), NEW s \in Seq(Events), q # <<>>, NEW h,
           NEW A, NEW B, NEW H, h \notin H, NEW w \in BOOLEAN,
           Heard(q, h, s, A, B, H, w)
    PROVE  Heard(Tail(q), h, Append(s, Head(q)), A, B, H, w)
<1>1. /\ Head(q) \in Events
      /\ Ends(q, A, B) => Ends(Tail(q), A, B) \/ (Head(q) \in A /\ Clear(Tail(q), B))
      /\ Clear(q, B) => Clear(Tail(q), B) /\ Head(q) \notin B
  BY EventTaken
<1>2. /\ Head(q) \in A => Ends(Append(s, Head(q)), A, B)
      /\ Head(q) \notin B /\ Ends(s, A, B) => Ends(Append(s, Head(q)), A, B)
      /\ Head(q) \notin B /\ Clear(s, B) => Clear(Append(s, Head(q)), B)
  BY <1>1, EventAppended
<1> QED
  BY <1>1, <1>2 DEF Heard

\* The handler sends a part of its snapshot.
LEMMA HeardSent ==
    ASSUME NEW q \in Seq(Events), NEW s \in Seq(Events), NEW h, NEW n, NEW e \in Events,
           NEW A, NEW B, NEW H, NEW w \in BOOLEAN,
           Heard(q, h, s, A, B, H, w),
           n \in H \/ e \in A \/ (h \notin H /\ e \notin B)
    PROVE  Heard(q, n, Append(s, e), A, B, H, w)
  BY EventAppended DEF Heard

\* The window handles an event.
LEMMA HeardHandled ==
    ASSUME NEW q \in Seq(Events), NEW s \in Seq(Events), s # <<>>, NEW h,
           NEW A, NEW B, NEW H, NEW w \in BOOLEAN, NEW v \in BOOLEAN,
           Heard(q, h, s, A, B, H, w),
           Head(s) \in A => v,
           Head(s) \notin B /\ w => v
    PROVE  Heard(q, h, Tail(s), A, B, H, v)
<1>1. /\ Ends(s, A, B) => Ends(Tail(s), A, B) \/ (Head(s) \in A /\ Clear(Tail(s), B))
      /\ Clear(s, B) => Clear(Tail(s), B) /\ Head(s) \notin B
  BY EventTaken
<1> QED
  BY <1>1 DEF Heard

-----------------------------------------------------------------------------
(* Every variable keeps its type.                                          *)

LEMMA InitTypeOK == FeedInit => FeedTypeOK
<1> SUFFICES ASSUME FeedInit PROVE FeedTypeOK
  OBVIOUS
<1>1. queue \in Seq(Events) /\ Len(queue) = 0 /\ wire \in Seq(Events) /\ Len(wire) = 0
  BY DEF FeedInit
<1>2. Len(queue) <= Buffer /\ Len(wire) <= Window
  BY <1>1, BufferAssumption, WindowAssumption
<1> QED
  BY <1>1, <1>2 DEF FeedInit, FeedTypeOK, Conns, Syncs, Pages, Setters

LEMMA PublishTypeOK ==
    ASSUME FeedTypeOK, NEW e \in Events, Publish(e)
    PROVE  queue' \in Seq(Events) /\ Len(queue') <= Buffer /\ dropped' \in BOOLEAN
<1>1. queue \in Seq(Events) /\ Len(queue) \in Nat /\ Buffer \in Nat /\ Len(queue) <= Buffer
      /\ dropped \in BOOLEAN
  BY BufferAssumption DEF FeedTypeOK
<1>2. CASE queue' = Append(queue, e) /\ dropped' = dropped /\ Len(queue) < Buffer
  <2>1. Append(queue, e) \in Seq(Events) /\ Len(Append(queue, e)) = Len(queue) + 1
    BY <1>1
  <2> QED
    BY <1>1, <1>2, <2>1
<1>3. CASE queue' = queue /\ dropped' \in BOOLEAN
  BY <1>1, <1>3
<1> QED
  BY <1>1, <1>2, <1>3 DEF Publish, brokerVars

LEMMA LoseTailTypeOK ==
    ASSUME FeedTypeOK, LoseTail
    PROVE  wire' \in Seq(Events) /\ Len(wire') <= Window
<1>1. wire \in Seq(Events) /\ Len(wire) \in Nat /\ Len(wire) <= Window /\ Window \in Nat
  BY WindowAssumption DEF FeedTypeOK
<1>2. PICK n \in 0..Len(wire) : wire' = SubSeq(wire, 1, n)
  BY DEF LoseTail
<1>3. SubSeq(wire, 1, n) \in Seq(Events) /\ Len(SubSeq(wire, 1, n)) = n
  BY <1>1
<1> QED
  BY <1>1, <1>2, <1>3

LEMMA SessionTypeOK == FeedTypeOK /\ SessionNext => FeedTypeOK'
<1> SUFFICES ASSUME FeedTypeOK, SessionNext PROVE FeedTypeOK'
  OBVIOUS
<1>1. UNCHANGED <<streamVars, windowVars>>
  BY DEF SessionNext, OnConnected, OnDisconnected, Reset, OnLoggedOut, AwaitPairing, StartResets,
         ShowCode, CodeExpires, Scan, Begin, ReportConnecting, SyncProceeds, FinishEnter, FinishReport, PublishState,
         SetState, SetStage, streamVars, windowVars
<1>2. UNCHANGED brokerVars \/ \E e \in Events : Publish(e)
  BY DEF SessionNext, OnConnected, OnDisconnected, Reset, OnLoggedOut, AwaitPairing, StartResets,
         ShowCode, CodeExpires, Scan, Begin, ReportConnecting, SyncProceeds, FinishEnter, FinishReport, PublishState,
         SetState, SetStage, Idle, FeedTypeOK, Events, Syncs
<1>3. queue' \in Seq(Events) /\ Len(queue') <= Buffer /\ dropped' \in BOOLEAN
  BY <1>2, PublishTypeOK DEF FeedTypeOK, brokerVars
<1>4. conn' \in Conns /\ told' \in Conns /\ setting' \in [Setters -> Conns \cup {"none"}]
  <2>1. CASE UNCHANGED <<conn, told, setting>>
    BY <2>1 DEF FeedTypeOK
  <2>2. ASSUME NEW p \in Setters, NEW status \in Conns, SetState(p, status)
        PROVE  conn' \in Conns /\ told' \in Conns /\ setting' \in [Setters -> Conns \cup {"none"}]
    BY <2>2 DEF SetState, FeedTypeOK
  <2>3. ASSUME NEW p \in Setters, PublishState(p)
        PROVE  conn' \in Conns /\ told' \in Conns /\ setting' \in [Setters -> Conns \cup {"none"}]
    BY <2>3 DEF PublishState, Idle, FeedTypeOK
  <2>4. \/ UNCHANGED <<conn, told, setting>>
        \/ \E p \in Setters, status \in Conns : SetState(p, status)
        \/ \E p \in Setters : PublishState(p)
    BY DEF SessionNext, OnConnected, OnDisconnected, Reset, OnLoggedOut, AwaitPairing, StartResets,
           ShowCode, CodeExpires, Scan, Begin, ReportConnecting, SyncProceeds, FinishEnter, FinishReport, SetStage, Conns, Setters
  <2> QED
    BY <2>1, <2>2, <2>3, <2>4
<1>5. sync' \in Syncs /\ active' \in BOOLEAN /\ finishing' \in BOOLEAN /\ qr' \in BOOLEAN
      /\ pairing' \in {"boot", "lost", "out", "waiting", "starting", "scanned", "begun", "linked"}
  <2> USE DEF FeedTypeOK
  <2>1. CASE OnConnected \/ OnDisconnected \/ Reset \/ OnLoggedOut \/ AwaitPairing
    BY <2>1 DEF OnConnected, OnDisconnected, Reset, OnLoggedOut, AwaitPairing, SetState, SetStage, Syncs
  <2>2. CASE StartResets \/ ShowCode \/ CodeExpires \/ Scan
    BY <2>2 DEF StartResets, ShowCode, CodeExpires, Scan, SetStage, Syncs
  <2>3. CASE Begin \/ ReportConnecting \/ SyncProceeds \/ FinishEnter \/ FinishReport
    BY <2>3 DEF Begin, ReportConnecting, SyncProceeds, FinishEnter, FinishReport, SetState, SetStage, Syncs
  <2>4. CASE \E p \in Setters : PublishState(p)
    BY <2>4 DEF PublishState
  <2> QED
    BY <2>1, <2>2, <2>3, <2>4 DEF SessionNext
<1> QED
  BY <1>1, <1>3, <1>4, <1>5 DEF FeedTypeOK, streamVars, windowVars

LEMMA SendTypeOK ==
    ASSUME FeedTypeOK, NEW e \in Events, NEW n, Send(e, n)
    PROVE  wire' \in Seq(Events) /\ Len(wire') <= Window
<1>1. wire \in Seq(Events) /\ Len(wire) \in Nat /\ Window \in Nat /\ Len(wire) < Window
  BY WindowAssumption DEF FeedTypeOK, Send
<1>2. Append(wire, e) \in Seq(Events) /\ Len(Append(wire, e)) = Len(wire) + 1
  BY <1>1
<1> QED
  BY <1>1, <1>2 DEF Send

LEMMA StreamTypeOK == FeedTypeOK /\ (Subscribe \/ HandlerNext \/ Cut \/ Restart \/ OnEvent) => FeedTypeOK'
<1> SUFFICES ASSUME FeedTypeOK, Subscribe \/ HandlerNext \/ Cut \/ Restart \/ OnEvent PROVE FeedTypeOK'
  OBVIOUS
<1>1. <<>> \in Seq(Events) /\ Len(<<>>) <= Buffer
  BY BufferAssumption
<1>2. CASE Subscribe
  BY <1>1, <1>2 DEF Subscribe, FeedTypeOK, daemonVars, windowVars
<1>3. CASE SendConn \/ SendSync \/ SendQR
  <2>1. conn \in Events /\ sync \in Events /\ "QR" \in Events
    BY DEF FeedTypeOK, Events
  <2>2. wire' \in Seq(Events) /\ Len(wire') <= Window
    BY <1>3, <2>1, SendTypeOK DEF SendConn, SendSync, SendQR, FeedTypeOK
  <2>3. UNCHANGED <<daemonVars, brokerVars, windowVars>> /\ handler' \in {"qr", "sync", "pump"}
    BY <1>3 DEF SendConn, SendSync, SendQR, Send, daemonVars, windowVars
  <2> QED
    BY <2>2, <2>3 DEF FeedTypeOK, daemonVars, brokerVars, windowVars
<1>4. CASE Pump
  <2>1. queue \in Seq(Events) /\ queue # <<>> /\ Len(queue) \in Nat /\ Len(queue) <= Buffer /\ Buffer \in Nat
    BY <1>4, BufferAssumption DEF Pump, FeedTypeOK
  <2>2. Head(queue) \in Events /\ Tail(queue) \in Seq(Events) /\ Len(Tail(queue)) = Len(queue) - 1
    BY <2>1, EventTaken
  <2>3. Len(Tail(queue)) <= Buffer
    BY <2>1, <2>2
  <2>4. wire' \in Seq(Events) /\ Len(wire') <= Window
    BY <1>4, <2>2, SendTypeOK DEF Pump
  <2>5. UNCHANGED <<daemonVars, windowVars, dropped>> /\ handler' = "pump" /\ queue' = Tail(queue)
    BY <1>4 DEF Pump, Send
  <2> QED
    BY <2>2, <2>3, <2>4, <2>5 DEF FeedTypeOK, daemonVars, windowVars
<1>5. CASE Cut \/ Restart
  <2>1. LoseTail /\ queue' = <<>> /\ handler' = "none" /\ UNCHANGED windowVars
    BY <1>5 DEF Cut, Restart
  <2>2. wire' \in Seq(Events) /\ Len(wire') <= Window
    BY <2>1, LoseTailTypeOK
  <2>3. /\ dropped' \in BOOLEAN /\ conn' \in Conns /\ told' \in Conns /\ sync' \in Syncs /\ qr' \in BOOLEAN
        /\ active' \in BOOLEAN /\ finishing' \in BOOLEAN
        /\ pairing' \in {"boot", "lost", "out", "waiting", "starting", "scanned", "begun", "linked"}
        /\ setting' \in [Setters -> Conns \cup {"none"}]
    BY <1>5 DEF Cut, Restart, FeedTypeOK, daemonVars, Conns, Syncs
  <2> QED
    BY <1>1, <2>1, <2>2, <2>3 DEF FeedTypeOK, windowVars
<1>6. CASE OnEvent
  <2>1. wire \in Seq(Events) /\ wire # <<>> /\ Len(wire) \in Nat /\ Len(wire) <= Window /\ Window \in Nat
    BY <1>6, WindowAssumption DEF OnEvent, FeedTypeOK
  <2>2. Tail(wire) \in Seq(Events) /\ Len(Tail(wire)) = Len(wire) - 1
    BY <2>1, EventTaken
  <2>3. Len(Tail(wire)) <= Window
    BY <2>1, <2>2
  <2>4. page' \in Pages /\ connected' \in BOOLEAN /\ syncing' \in BOOLEAN
    BY <1>6 DEF OnEvent, OnConnectionState, OnSyncState, ShowQR, FeedTypeOK, Pages
  <2>5. UNCHANGED <<daemonVars, brokerVars, handler>> /\ wire' = Tail(wire)
    BY <1>6 DEF OnEvent
  <2> QED
    BY <2>2, <2>3, <2>4, <2>5 DEF FeedTypeOK, daemonVars, brokerVars
<1> QED
  BY <1>2, <1>3, <1>4, <1>5, <1>6 DEF HandlerNext

LEMMA FeedNextTypeOK == FeedTypeOK /\ [FeedNext]_feedVars => FeedTypeOK'
<1>1. FeedTypeOK /\ UNCHANGED feedVars => FeedTypeOK'
  BY DEF FeedTypeOK, feedVars, daemonVars, brokerVars, streamVars, windowVars
<1> QED
  BY <1>1, SessionTypeOK, StreamTypeOK DEF FeedNext

-----------------------------------------------------------------------------
(* The phases of the session.                                              *)

LEMMA InitPhases == FeedInit => Phases
  BY DEF FeedInit, Phases, Settled, Idle

\* One of the two setters stores a status.
LEMMA StoredStatus ==
    ASSUME FeedTypeOK, NEW p \in Setters, NEW status \in Conns, SetState(p, status)
    PROVE  /\ conn' = status /\ setting'[p] = status /\ Idle(p)
           /\ \A q \in Setters \ {p} : setting'[q] = setting[q]
           /\ UNCHANGED <<told, syncVars, brokerVars, streamVars, windowVars>>
  BY DEF SetState, FeedTypeOK

LEMMA PublishedStatus ==
    ASSUME FeedTypeOK, NEW p \in Setters, PublishState(p)
    PROVE  /\ Publish(setting[p]) /\ told' = setting[p] /\ setting[p] \in Conns
           /\ setting'[p] = "none"
           /\ \A q \in Setters \ {p} : setting'[q] = setting[q]
           /\ pairing' = IF p = "session" /\ pairing = "starting" THEN "linked" ELSE pairing
           /\ UNCHANGED <<conn, syncVars, qr, streamVars, windowVars>>
  BY DEF PublishState, FeedTypeOK, Idle

LEMMA SessionPhases == FeedTypeOK /\ Phases /\ SessionNext => Phases'
<1> SUFFICES ASSUME FeedTypeOK, Phases, SessionNext PROVE Phases'
  OBVIOUS
<1> USE DEF Phases, Settled, Idle
<1>0. "session" \in Setters /\ "events" \in Setters
      /\ (\A p \in Setters : p = "session" \/ p = "events")
      /\ "CONNECTED" \in Conns /\ "OFFLINE" \in Conns /\ "LOGGED_OUT" \in Conns
  BY DEF Setters, Conns
<1>1. CASE OnConnected
  <2>1. SetState("events", "CONNECTED") /\ UNCHANGED <<qr, pairing>>
        /\ pairing \in {"scanned", "begun", "linked"}
    BY <1>1 DEF OnConnected
  <2> QED
    BY <1>0, <2>1, StoredStatus
<1>2. CASE OnDisconnected
  <2>1. SetState("events", "OFFLINE") /\ UNCHANGED <<qr, pairing>> /\ conn = "CONNECTED"
    BY <1>2 DEF OnDisconnected
  <2> QED
    BY <1>0, <2>1, StoredStatus
<1>3. CASE Reset
  BY <1>0, <1>3 DEF Reset, SetStage
<1>4. CASE OnLoggedOut
  <2>1. SetState("events", "LOGGED_OUT") /\ pairing' = "out" /\ qr' = qr /\ pairing = "lost"
    BY <1>4 DEF OnLoggedOut
  <2> QED
    BY <1>0, <2>1, StoredStatus
<1>5. CASE AwaitPairing
  <2>1. SetState("session", "LOGGED_OUT") /\ pairing' = "waiting" /\ qr' = qr
        /\ pairing \in {"boot", "out", "waiting"} /\ setting["events"] # "LOGGED_OUT"
    BY <1>5 DEF AwaitPairing
  <2> QED
    BY <1>0, <2>1, StoredStatus
<1>6. CASE StartResets \/ ShowCode \/ CodeExpires \/ Scan
  BY <1>0, <1>6 DEF StartResets, ShowCode, CodeExpires, Scan, SetStage
<1>7. CASE Begin
  BY <1>0, <1>7 DEF Begin, SetStage
<1>8. CASE ReportConnecting
  <2>1. SetState("session", "OFFLINE") /\ qr' = qr /\ pairing \in {"starting", "begun"}
        /\ pairing' = IF pairing = "begun" THEN "linked" ELSE pairing
    BY <1>8 DEF ReportConnecting
  <2> QED
    BY <1>0, <2>1, StoredStatus
<1>9. CASE SyncProceeds \/ FinishEnter \/ FinishReport
  BY <1>9 DEF SyncProceeds, FinishEnter, FinishReport, SetStage
<1>10. ASSUME NEW p \in Setters, PublishState(p) PROVE Phases'
  BY <1>0, <1>10, PublishedStatus
<1> QED
  BY <1>1, <1>2, <1>3, <1>4, <1>5, <1>6, <1>7, <1>8, <1>9, <1>10 DEF SessionNext

LEMMA NextPhases == FeedTypeOK /\ Phases /\ [FeedNext]_feedVars => Phases'
<1> SUFFICES ASSUME FeedTypeOK, Phases, [FeedNext]_feedVars PROVE Phases'
  OBVIOUS
<1>1. CASE UNCHANGED daemonVars
  BY <1>1 DEF Phases, Settled, Idle, daemonVars
<1>2. CASE Restart
  BY <1>2 DEF Restart, Phases, Settled, Idle
<1>3. CASE ~SessionNext /\ ~Restart
  <2>1. UNCHANGED daemonVars
    BY <1>3 DEF FeedNext, Subscribe, HandlerNext, SendConn, SendQR, SendSync, Pump, Send, Cut, OnEvent,
                feedVars, daemonVars
  <2> QED
    BY <1>1, <2>1
<1> QED
  BY <1>2, <1>3, SessionPhases

-----------------------------------------------------------------------------
(* What the daemon says and what the window hears.                         *)

\* The daemon's step says nothing, or one event.
LEMMA SaidInSession ==
    ASSUME FeedTypeOK, Attached', NEW e \in Events, Publish(e), UNCHANGED <<handler, wire>>,
           NEW A, NEW B, NEW H, NEW w \in BOOLEAN,
           e \in A \/ (e \notin B /\ Heard(queue, handler, wire, A, B, H, w))
    PROVE  Heard(queue', handler', wire', A, B, H, w)
<1>1. queue' = Append(queue, e)
  BY DEF Attached, Publish, brokerVars
<1>2. queue \in Seq(Events) /\ wire \in Seq(Events)
  BY DEF FeedTypeOK
<1> QED
  BY <1>1, <1>2, HeardPublished

LEMMA AttachedBefore ==
    ASSUME Attached', handler' = handler, NEW e, Publish(e) \/ UNCHANGED brokerVars
    PROVE  Attached
  BY DEF Attached, Publish, brokerVars

\* The window attaches: the handler is still to send its snapshot.
LEMMA HeardOnSubscribe ==
    ASSUME Subscribe, NEW A, NEW B, NEW H, "conn" \in H, NEW w
    PROVE  Heard(queue', handler', wire', A, B, H, w)
  BY EmptyIsClear DEF Subscribe, Heard

\* The three parts of the snapshot; claims whose last word is in the first
\* part (H is {"conn"}) and those that wait for the last.
LEMMA HeardInSnapshot ==
    ASSUME FeedTypeOK, SendConn \/ SendQR \/ SendSync,
           NEW A, NEW B, NEW H, NEW w \in BOOLEAN, Heard(queue, handler, wire, A, B, H, w),
           \/ H = Snapshot /\ (handler = "sync" => sync \in A)
           \/ /\ H = {"conn"} /\ (handler = "conn" => conn \in A)
              /\ handler = "qr" => "QR" \notin B \/ ~qr
              /\ handler = "sync" => sync \notin B
    PROVE  Heard(queue', handler', wire', A, B, H, w)
<1>0. queue \in Seq(Events) /\ wire \in Seq(Events) /\ conn \in Events /\ sync \in Events /\ "QR" \in Events
  BY DEF FeedTypeOK, Events
<1>1. queue' = queue
  BY DEF SendConn, SendQR, SendSync, brokerVars
<1>2. CASE SendConn
  <2>1. handler = "conn" /\ handler' = "qr" /\ wire' = Append(wire, conn)
    BY <1>2 DEF SendConn, Send
  <2>2. "qr" \in H \/ conn \in A
    BY <2>1 DEF Snapshot
  <2> QED
    BY <1>0, <1>1, <2>1, <2>2, HeardSent
<1>3. CASE SendQR /\ qr
  <2>1. handler = "qr" /\ handler' = "sync" /\ wire' = Append(wire, "QR")
    BY <1>3 DEF SendQR, Send
  <2>2. "sync" \in H \/ ("qr" \notin H /\ "QR" \notin B)
    BY <1>3, <2>1 DEF Snapshot
  <2> QED
    BY <1>0, <1>1, <2>1, <2>2, HeardSent
<1>4. CASE SendQR /\ ~qr
  <2>1. handler = "qr" /\ handler' = "sync" /\ wire' = wire
    BY <1>4 DEF SendQR
  <2>2. "sync" \in H \/ "qr" \notin H
    BY DEF Snapshot
  <2> QED
    BY <1>1, <2>1, <2>2 DEF Heard
<1>5. CASE SendSync
  <2>1. handler = "sync" /\ handler' = "pump" /\ wire' = Append(wire, sync)
    BY <1>5 DEF SendSync, Send
  <2>2. sync \in A \/ ("sync" \notin H /\ sync \notin B)
    BY <2>1 DEF Snapshot
  <2> QED
    BY <1>0, <1>1, <2>1, <2>2, HeardSent
<1> QED
  BY <1>2, <1>3, <1>4, <1>5

LEMMA HeardInPump ==
    ASSUME FeedTypeOK, Pump, NEW A, NEW B, NEW H, "pump" \notin H, NEW w \in BOOLEAN,
           Heard(queue, handler, wire, A, B, H, w)
    PROVE  Heard(queue', handler', wire', A, B, H, w)
<1>1. queue \in Seq(Events) /\ wire \in Seq(Events) /\ queue # <<>> /\ handler = "pump"
      /\ queue' = Tail(queue) /\ handler' = "pump" /\ wire' = Append(wire, Head(queue))
  BY DEF Pump, Send, FeedTypeOK
<1> QED
  BY <1>1, HeardPumped

LEMMA HeardInWindow ==
    ASSUME FeedTypeOK, OnEvent, NEW A, NEW B, NEW H, NEW w \in BOOLEAN, NEW v \in BOOLEAN,
           Heard(queue, handler, wire, A, B, H, w),
           Head(wire) \in A => v, Head(wire) \notin B /\ w => v
    PROVE  Heard(queue', handler', wire', A, B, H, v)
<1>1. queue \in Seq(Events) /\ wire \in Seq(Events) /\ wire # <<>> /\ wire' = Tail(wire)
      /\ queue' = queue /\ handler' = handler
  BY DEF OnEvent, FeedTypeOK, brokerVars
<1> QED
  BY <1>1, HeardHandled

\* What the window does with an event.
LEMMA WindowHears ==
    ASSUME FeedTypeOK, OnEvent
    PROVE  LET e == Head(wire)
           IN  /\ e \in Events
               /\ e \in Conns => /\ connected' = (e = "CONNECTED") /\ syncing' = syncing
                                 /\ page' = IF e = "LOGGED_OUT" THEN "qr"
                                            ELSE IF e = "CONNECTED" /\ ~syncing THEN "chat" ELSE page
               /\ e \in Syncs => /\ syncing' = (e = "GATED") /\ connected' = connected
                                 /\ page' = IF e = "GATED" THEN "sync"
                                            ELSE IF syncing /\ connected THEN "chat" ELSE page
               /\ e = "QR" => page' = "qr" /\ connected' = connected /\ syncing' = syncing
<1>1. Head(wire) \in Events
  BY EventTaken DEF OnEvent, FeedTypeOK
<1> QED
  BY <1>1 DEF OnEvent, OnConnectionState, OnSyncState, ShowQR, Conns, Syncs, Events

\* What a step of the session says: nothing, its stage, a code, a status.
LEMMA SessionSays ==
    ASSUME FeedTypeOK, SessionNext
    PROVE  /\ UNCHANGED <<handler, wire, windowVars>>
           /\ \/ UNCHANGED <<sync, brokerVars>>
              \/ Publish(sync') /\ UNCHANGED <<conn, told, setting>>
              \/ Publish("QR") /\ pairing = "waiting" /\ UNCHANGED <<sync, conn, told, setting, pairing>>
              \/ \E p \in Setters : PublishState(p)
<1> USE DEF SetState, SetStage, streamVars
<1>1. CASE OnConnected \/ OnDisconnected \/ OnLoggedOut \/ AwaitPairing \/ ReportConnecting
  BY <1>1 DEF OnConnected, OnDisconnected, OnLoggedOut, AwaitPairing, ReportConnecting
<1>2. CASE Reset \/ StartResets \/ SyncProceeds \/ FinishEnter \/ FinishReport
  BY <1>2 DEF Reset, StartResets, SyncProceeds, FinishEnter, FinishReport
<1>3. CASE ShowCode
  BY <1>3 DEF ShowCode
<1>4. CASE CodeExpires \/ Scan
  BY <1>4 DEF CodeExpires, Scan
<1>5. CASE Begin
  BY <1>5 DEF Begin
<1>6. CASE \E p \in Setters : PublishState(p)
  BY <1>6 DEF PublishState
<1> QED
  BY <1>1, <1>2, <1>3, <1>4, <1>5, <1>6 DEF SessionNext

LEMMA OtherSteps ==
    ASSUME [FeedNext]_feedVars
    PROVE  \/ SessionNext
           \/ Subscribe /\ UNCHANGED <<daemonVars, windowVars>>
           \/ (SendConn \/ SendQR \/ SendSync) /\ handler \in Snapshot
                 /\ UNCHANGED <<daemonVars, windowVars, dropped>>
           \/ Pump /\ UNCHANGED <<daemonVars, windowVars, dropped>> /\ handler = "pump"
           \/ OnEvent /\ UNCHANGED <<daemonVars, handler, dropped>>
           \/ handler' = "none"
           \/ UNCHANGED feedVars
<1>1. CASE HandlerNext
  BY <1>1 DEF HandlerNext, SendConn, SendQR, SendSync, Pump, Send, Snapshot, brokerVars, daemonVars, windowVars
<1>2. CASE Cut \/ Restart
  BY <1>2 DEF Cut, Restart
<1>3. CASE OnEvent
  BY <1>3 DEF OnEvent, brokerVars
<1>4. CASE Subscribe
  BY <1>4 DEF Subscribe
<1> QED
  BY <1>1, <1>2, <1>3, <1>4 DEF FeedNext

-----------------------------------------------------------------------------
(* The sync stage.                                                         *)

LEMMA NextGate == FeedTypeOK /\ Phases /\ GateHeard /\ [FeedNext]_feedVars => GateHeard'
<1> DEFINE A == {"GATED"}
           w == page = "sync" /\ syncing
<1> SUFFICES ASSUME FeedTypeOK, Phases, GateHeard, [FeedNext]_feedVars, Attached', sync' = "GATED"
             PROVE  Heard(queue', handler', wire', A, Ungating, Snapshot, w')
  BY DEF GateHeard
<1>0. w \in BOOLEAN /\ (UNCHANGED windowVars => w' = w)
  BY DEF FeedTypeOK, windowVars
<1>1. Attached /\ sync = "GATED" => Heard(queue, handler, wire, A, Ungating, Snapshot, w)
  BY DEF GateHeard
<1>2. "GATED" \in A /\ \A x : x \in A <=> x = "GATED"
  OBVIOUS
<1>3. \A x : x \in Ungating <=> x \in {"LOGGED_OUT", "QR", "IDLE", "DONE"}
  BY DEF Ungating
<1>w. w <=> page = "sync" /\ syncing
  OBVIOUS
<1>v. w' <=> page' = "sync" /\ syncing'
  OBVIOUS
<1> HIDE DEF A, w
<1>4. CASE SessionNext
  <2>1. UNCHANGED <<handler, wire, windowVars>> /\ w' = w
    BY <1>0, <1>4, SessionSays
  <2>2. CASE UNCHANGED <<sync, brokerVars>>
    <3>1. Attached /\ sync = "GATED" /\ queue' = queue
      BY <2>1, <2>2 DEF Attached, brokerVars
    <3> QED
      BY <1>1, <2>1, <3>1
  <2>3. CASE Publish(sync')
    <3>1. Publish("GATED") /\ "GATED" \in Events
      BY <2>3 DEF Events, Syncs
    <3> QED
      BY <1>0, <1>2, <2>1, <3>1, SaidInSession
  <2>4. CASE Publish("QR") /\ pairing = "waiting" /\ UNCHANGED sync
    BY <2>4 DEF Phases
  <2>5. ASSUME NEW p \in Setters, PublishState(p)
        PROVE  Heard(queue', handler', wire', A, Ungating, Snapshot, w')
    <3>1. Publish(setting[p]) /\ setting[p] \in Conns /\ sync = "GATED"
      BY <2>5, PublishedStatus
    <3>2. setting[p] # "LOGGED_OUT"
      BY <3>1 DEF Phases
    <3>3. setting[p] \notin Ungating /\ setting[p] \in Events
      BY <1>3, <3>1, <3>2 DEF Conns, Events
    <3>4. Attached
      BY <2>1, <3>1, AttachedBefore
    <3> QED
      BY <1>0, <1>1, <2>1, <3>1, <3>3, <3>4, SaidInSession
  <2> QED
    BY <1>4, <2>2, <2>3, <2>4, <2>5, SessionSays
<1>5. CASE Subscribe
  BY <1>5, HeardOnSubscribe DEF Snapshot
<1>6. CASE (SendConn \/ SendQR \/ SendSync) /\ handler \in Snapshot /\ UNCHANGED <<daemonVars, windowVars, dropped>>
  <2>1. Attached /\ sync = "GATED" /\ w' = w
    BY <1>0, <1>6 DEF Attached, Snapshot, daemonVars
  <2> QED
    BY <1>0, <1>1, <1>2, <1>6, <2>1, HeardInSnapshot
<1>7. CASE Pump /\ UNCHANGED <<daemonVars, windowVars, dropped>> /\ handler = "pump"
  <2>1. Attached /\ sync = "GATED" /\ w' = w
    BY <1>0, <1>7 DEF Attached, daemonVars
  <2>2. "pump" \notin Snapshot
    BY DEF Snapshot
  <2> QED
    BY <1>0, <1>1, <1>7, <2>1, <2>2, HeardInPump
<1>8. CASE OnEvent /\ UNCHANGED <<daemonVars, handler, dropped>>
  <2>1. Attached /\ sync = "GATED"
    BY <1>8 DEF Attached, daemonVars
  <2>2. w' \in BOOLEAN
    BY <1>v
  <2>3. Head(wire) \in A => w'
    BY <1>2, <1>8, <1>v, WindowHears DEF Syncs
  <2>4. Head(wire) \notin Ungating /\ w => w'
    BY <1>3, <1>8, <1>v, <1>w, WindowHears DEF Syncs, Conns, Events
  <2> QED
    BY <1>0, <1>1, <1>8, <2>1, <2>2, <2>3, <2>4, HeardInWindow
<1>9. CASE UNCHANGED feedVars
  <2>1. Attached /\ sync = "GATED" /\ w' = w /\ UNCHANGED <<queue, handler, wire>>
    BY <1>0, <1>9 DEF Attached, feedVars, daemonVars, brokerVars, streamVars
  <2> QED
    BY <1>1, <2>1
<1>10. handler' # "none"
  BY DEF Attached
<1> QED
  BY <1>4, <1>5, <1>6, <1>7, <1>8, <1>9, <1>10, OtherSteps

LEMMA NextRelease == FeedTypeOK /\ Phases /\ ReleaseHeard /\ [FeedNext]_feedVars => ReleaseHeard'
<1> DEFINE A == {"IDLE", "DONE"}
           B == {"GATED"}
           w == ~syncing
<1> SUFFICES ASSUME FeedTypeOK, Phases, ReleaseHeard, [FeedNext]_feedVars, Attached', sync' # "GATED"
             PROVE  Heard(queue', handler', wire', A, B, Snapshot, w')
  BY DEF ReleaseHeard
<1>0. w \in BOOLEAN /\ (UNCHANGED windowVars => w' = w)
  BY DEF FeedTypeOK, windowVars
<1>1. Attached /\ sync # "GATED" => Heard(queue, handler, wire, A, B, Snapshot, w)
  BY DEF ReleaseHeard
<1>2. /\ \A x : x \in A <=> x \in {"IDLE", "DONE"}
      /\ \A x : x \in B <=> x = "GATED"
  OBVIOUS
<1>w. w <=> ~syncing
  OBVIOUS
<1>v. w' <=> ~syncing'
  OBVIOUS
<1>3. sync \in Syncs /\ sync' \in Syncs
  BY FeedNextTypeOK DEF FeedTypeOK
<1>4. sync' \in A /\ (sync # "GATED" => sync \in A)
  BY <1>2, <1>3 DEF Syncs
<1> HIDE DEF A, B, w
<1>5. CASE SessionNext
  <2>1. UNCHANGED <<handler, wire, windowVars>> /\ w' = w
    BY <1>0, <1>5, SessionSays
  <2>2. CASE UNCHANGED <<sync, brokerVars>>
    <3>1. Attached /\ sync # "GATED" /\ queue' = queue
      BY <2>1, <2>2 DEF Attached, brokerVars
    <3> QED
      BY <1>1, <2>1, <3>1
  <2>3. CASE Publish(sync')
    <3>1. sync' \in Events
      BY <1>3 DEF Events
    <3> QED
      BY <1>0, <1>4, <2>1, <2>3, <3>1, SaidInSession
  <2>4. ASSUME NEW e \in Events, e # "GATED", Publish(e), sync' = sync
        PROVE  Heard(queue', handler', wire', A, B, Snapshot, w')
    <3>1. Attached
      BY <2>1, <2>4, AttachedBefore
    <3>2. e \notin B /\ Heard(queue, handler, wire, A, B, Snapshot, w)
      BY <1>1, <1>2, <2>4, <3>1
    <3> QED
      BY <1>0, <2>1, <2>4, <3>2, SaidInSession
  <2>5. CASE Publish("QR") /\ UNCHANGED sync
    <3>1. "QR" \in Events
      BY DEF Events
    <3> QED
      BY <2>4, <2>5, <3>1
  <2>6. ASSUME NEW p \in Setters, PublishState(p)
        PROVE  Heard(queue', handler', wire', A, B, Snapshot, w')
    <3>1. Publish(setting[p]) /\ setting[p] \in Conns /\ sync' = sync
      BY <2>6, PublishedStatus
    <3>2. setting[p] # "GATED" /\ setting[p] \in Events
      BY <3>1 DEF Conns, Events
    <3> QED
      BY <2>4, <3>1, <3>2
  <2> QED
    BY <1>5, <2>2, <2>3, <2>5, <2>6, SessionSays
<1>6. CASE Subscribe
  BY <1>6, HeardOnSubscribe DEF Snapshot
<1>7. CASE (SendConn \/ SendQR \/ SendSync) /\ handler \in Snapshot /\ UNCHANGED <<daemonVars, windowVars, dropped>>
  <2>1. Attached /\ sync # "GATED" /\ w' = w
    BY <1>0, <1>7 DEF Attached, Snapshot, daemonVars
  <2> QED
    BY <1>0, <1>1, <1>4, <1>7, <2>1, HeardInSnapshot
<1>8. CASE Pump /\ UNCHANGED <<daemonVars, windowVars, dropped>> /\ handler = "pump"
  <2>1. Attached /\ sync # "GATED" /\ w' = w
    BY <1>0, <1>8 DEF Attached, daemonVars
  <2>2. "pump" \notin Snapshot
    BY DEF Snapshot
  <2> QED
    BY <1>0, <1>1, <1>8, <2>1, <2>2, HeardInPump
<1>9. CASE OnEvent /\ UNCHANGED <<daemonVars, handler, dropped>>
  <2>1. Attached /\ sync # "GATED"
    BY <1>9 DEF Attached, daemonVars
  <2>2. w' \in BOOLEAN
    BY <1>v
  <2>3. Head(wire) \in A => w'
    BY <1>2, <1>9, <1>v, WindowHears DEF Syncs
  <2>4. Head(wire) \notin B /\ w => w'
    BY <1>2, <1>9, <1>v, <1>w, WindowHears DEF Syncs, Conns, Events
  <2> QED
    BY <1>0, <1>1, <1>9, <2>1, <2>2, <2>3, <2>4, HeardInWindow
<1>10. CASE UNCHANGED feedVars
  <2>1. Attached /\ sync # "GATED" /\ w' = w /\ UNCHANGED <<queue, handler, wire>>
    BY <1>0, <1>10 DEF Attached, feedVars, daemonVars, brokerVars, streamVars
  <2> QED
    BY <1>1, <2>1
<1>11. handler' # "none"
  BY DEF Attached
<1> QED
  BY <1>5, <1>6, <1>7, <1>8, <1>9, <1>10, <1>11, OtherSteps

-----------------------------------------------------------------------------
(* The connection status.                                                  *)

\* A session whose statuses are all published has just published one, or says
\* of its connection what it said before.
LEMMA SettledSession ==
    ASSUME FeedTypeOK, SessionNext, Settled'
    PROVE  \/ \E p \in Setters : PublishState(p)
           \/ /\ Settled /\ UNCHANGED <<conn, told>>
              /\ pairing' \in {"linked", "waiting"} => pairing' = pairing
<1>1. ASSUME NEW p \in Setters, NEW status \in Conns, SetState(p, status) PROVE FALSE
  <2>1. setting'[p] = status /\ setting'[p] = "none"
    BY <1>1, StoredStatus DEF Settled, Idle
  <2> QED
    BY <2>1 DEF Conns
<1>2. ~(OnConnected \/ OnDisconnected \/ OnLoggedOut \/ AwaitPairing \/ ReportConnecting)
  BY <1>1 DEF OnConnected, OnDisconnected, OnLoggedOut, AwaitPairing, ReportConnecting, Setters, Conns
<1>3. CASE Reset \/ StartResets \/ SyncProceeds \/ FinishEnter \/ FinishReport
  BY <1>3 DEF Reset, StartResets, SyncProceeds, FinishEnter, FinishReport, SetStage, Settled, Idle
<1>4. CASE ShowCode \/ CodeExpires \/ Scan
  BY <1>4 DEF ShowCode, CodeExpires, Scan, Settled, Idle
<1>5. CASE Begin
  BY <1>5 DEF Begin, SetStage, Settled, Idle
<1> QED
  BY <1>2, <1>3, <1>4, <1>5 DEF SessionNext

LEMMA NextConnected == FeedTypeOK /\ Phases /\ ConnectedHeard /\ [FeedNext]_feedVars => ConnectedHeard'
<1> DEFINE A == {"CONNECTED"}
           B == {"OFFLINE", "LOGGED_OUT", "QR"}
           H == {"conn"}
           w == connected /\ (~syncing => page = "chat")
           Said == Settled /\ pairing = "linked" /\ conn = "CONNECTED" /\ told = "CONNECTED"
<1> SUFFICES ASSUME FeedTypeOK, Phases, ConnectedHeard, [FeedNext]_feedVars, Attached', Said'
             PROVE  Heard(queue', handler', wire', A, B, H, w')
  BY DEF ConnectedHeard
<1>0. w \in BOOLEAN /\ (UNCHANGED windowVars => w' = w)
  BY DEF FeedTypeOK, windowVars
<1>1. Attached /\ Said => Heard(queue, handler, wire, A, B, H, w)
  BY DEF ConnectedHeard
<1>2. /\ \A x : x \in A <=> x = "CONNECTED"
      /\ \A x : x \in B <=> x \in {"OFFLINE", "LOGGED_OUT", "QR"}
      /\ "conn" \in H /\ "pump" \notin H /\ H = {"conn"}
  OBVIOUS
<1>w. w <=> connected /\ (~syncing => page = "chat")
  OBVIOUS
<1>v. w' <=> connected' /\ (~syncing' => page' = "chat")
  OBVIOUS
<1>3. sync \in Syncs /\ sync' \in Syncs /\ \A x \in Syncs : x \notin B /\ x \in Events
  BY FeedNextTypeOK DEF FeedTypeOK, Syncs, Events
<1>4. UNCHANGED daemonVars => Said
  BY DEF daemonVars, Settled, Idle
<1>5. Settled' /\ pairing' = "linked" /\ conn' = "CONNECTED" /\ told' = "CONNECTED"
  OBVIOUS
<1>6. Said => ~qr /\ conn = "CONNECTED" /\ pairing # "waiting"
  BY DEF Phases
<1> HIDE DEF A, B, H, w
<1>7. CASE SessionNext
  <2>1. UNCHANGED <<handler, wire, windowVars>> /\ w' = w
    BY <1>0, <1>7, SessionSays
  <2>2. ASSUME NEW p \in Setters, PublishState(p)
        PROVE  Heard(queue', handler', wire', A, B, H, w')
    <3>1. Publish(setting[p]) /\ setting[p] = "CONNECTED"
      BY <1>5, <2>2, PublishedStatus
    <3>2. "CONNECTED" \in Events /\ Publish("CONNECTED")
      BY <3>1 DEF Conns, Events
    <3> QED
      BY <1>0, <1>2, <2>1, <3>2, SaidInSession
  <2>3. CASE ~\E p \in Setters : PublishState(p)
    <3>1. Said
      BY <1>5, <1>7, <2>3, SettledSession
    <3>2. CASE UNCHANGED brokerVars
      <4>1. Attached /\ queue' = queue
        BY <2>1, <3>2 DEF Attached, brokerVars
      <4> QED
        BY <1>1, <2>1, <3>1, <4>1
    <3>3. CASE Publish(sync')
      <4>1. Attached
        BY <2>1, <3>3, AttachedBefore
      <4> QED
        BY <1>0, <1>1, <1>3, <2>1, <3>1, <3>3, <4>1, SaidInSession
    <3> QED
      BY <1>6, <1>7, <2>3, <3>1, <3>2, <3>3, SessionSays
  <2> QED
    BY <2>2, <2>3
<1>8. CASE Subscribe
  BY <1>2, <1>8, HeardOnSubscribe
<1>9. CASE (SendConn \/ SendQR \/ SendSync) /\ handler \in Snapshot /\ UNCHANGED <<daemonVars, windowVars, dropped>>
  <2>1. Attached /\ Said /\ w' = w
    BY <1>0, <1>4, <1>9 DEF Attached, Snapshot
  <2> QED
    BY <1>0, <1>1, <1>2, <1>3, <1>6, <1>9, <2>1, HeardInSnapshot
<1>10. CASE Pump /\ UNCHANGED <<daemonVars, windowVars, dropped>> /\ handler = "pump"
  <2>1. Attached /\ Said /\ w' = w
    BY <1>0, <1>4, <1>10 DEF Attached
  <2> QED
    BY <1>0, <1>1, <1>2, <1>10, <2>1, HeardInPump
<1>11. CASE OnEvent /\ UNCHANGED <<daemonVars, handler, dropped>>
  <2>1. Attached /\ Said
    BY <1>4, <1>11 DEF Attached
  <2>2. w' \in BOOLEAN
    BY <1>v
  <2>3. Head(wire) \in A => w'
    <3> SUFFICES ASSUME Head(wire) = "CONNECTED" PROVE w'
      BY <1>2
    <3>1. connected' /\ syncing' = syncing /\ page' = IF ~syncing THEN "chat" ELSE page
      BY <1>11, WindowHears DEF Conns
    <3> QED
      BY <1>v, <3>1
  <2>4. Head(wire) \notin B /\ w => w'
    BY <1>2, <1>11, <1>v, <1>w, WindowHears DEF Syncs, Conns, Events
  <2> QED
    BY <1>0, <1>1, <1>11, <2>1, <2>2, <2>3, <2>4, HeardInWindow
<1>12. CASE UNCHANGED feedVars
  <2>1. Attached /\ Said /\ w' = w /\ UNCHANGED <<queue, handler, wire>>
    BY <1>0, <1>4, <1>12 DEF Attached, feedVars, brokerVars, streamVars
  <2> QED
    BY <1>1, <2>1
<1>13. handler' # "none"
  BY DEF Attached
<1> QED
  BY <1>7, <1>8, <1>9, <1>10, <1>11, <1>12, <1>13, OtherSteps

LEMMA NextLoggedOut == FeedTypeOK /\ Phases /\ LoggedOutHeard /\ [FeedNext]_feedVars => LoggedOutHeard'
<1> DEFINE A == {"LOGGED_OUT"}
           B == {"CONNECTED", "GATED"}
           H == {"conn"}
           w == page = "qr" /\ ~connected
           Said == Settled /\ pairing = "waiting" /\ told = conn
<1> SUFFICES ASSUME FeedTypeOK, Phases, LoggedOutHeard, [FeedNext]_feedVars, Attached', Said'
             PROVE  Heard(queue', handler', wire', A, B, H, w')
  BY DEF LoggedOutHeard
<1>0. w \in BOOLEAN /\ (UNCHANGED windowVars => w' = w)
  BY DEF FeedTypeOK, windowVars
<1>1. Attached /\ Said => Heard(queue, handler, wire, A, B, H, w)
  BY DEF LoggedOutHeard
<1>2. /\ \A x : x \in A <=> x = "LOGGED_OUT"
      /\ \A x : x \in B <=> x \in {"CONNECTED", "GATED"}
      /\ "conn" \in H /\ "pump" \notin H /\ H = {"conn"}
  OBVIOUS
<1>w. w <=> page = "qr" /\ ~connected
  OBVIOUS
<1>v. w' <=> page' = "qr" /\ ~connected'
  OBVIOUS
<1>3. Phases' /\ sync \in Syncs /\ sync' \in Syncs
  BY NextPhases, FeedNextTypeOK DEF FeedTypeOK
<1>4. UNCHANGED daemonVars => Said
  BY DEF daemonVars, Settled, Idle
<1>5. Settled' /\ pairing' = "waiting" /\ told' = conn' /\ conn' = "LOGGED_OUT" /\ sync' # "GATED"
  BY <1>3 DEF Phases
<1>6. Said => conn = "LOGGED_OUT" /\ sync # "GATED"
  BY DEF Phases
<1>7. sync' \notin B /\ sync' \in Events /\ "QR" \notin B /\ "QR" \in Events /\ (Said => sync \notin B)
  BY <1>2, <1>3, <1>5, <1>6 DEF Events, Syncs
<1> HIDE DEF A, B, H, w
<1>8. CASE SessionNext
  <2>1. UNCHANGED <<handler, wire, windowVars>> /\ w' = w
    BY <1>0, <1>8, SessionSays
  <2>2. ASSUME NEW p \in Setters, PublishState(p)
        PROVE  Heard(queue', handler', wire', A, B, H, w')
    <3>1. Publish(setting[p]) /\ setting[p] = "LOGGED_OUT"
      BY <1>5, <2>2, PublishedStatus
    <3>2. "LOGGED_OUT" \in Events /\ Publish("LOGGED_OUT")
      BY <3>1 DEF Conns, Events
    <3> QED
      BY <1>0, <1>2, <2>1, <3>2, SaidInSession
  <2>3. CASE ~\E p \in Setters : PublishState(p)
    <3>1. Said
      BY <1>5, <1>8, <2>3, SettledSession
    <3>2. CASE UNCHANGED brokerVars
      <4>1. Attached /\ queue' = queue
        BY <2>1, <3>2 DEF Attached, brokerVars
      <4> QED
        BY <1>1, <2>1, <3>1, <4>1
    <3>3. CASE Publish(sync')
      <4>1. Attached
        BY <2>1, <3>3, AttachedBefore
      <4> QED
        BY <1>0, <1>1, <1>7, <2>1, <3>1, <3>3, <4>1, SaidInSession
    <3>4. CASE Publish("QR")
      <4>1. Attached
        BY <2>1, <3>4, AttachedBefore
      <4> QED
        BY <1>0, <1>1, <1>7, <2>1, <3>1, <3>4, <4>1, SaidInSession
    <3> QED
      BY <1>8, <2>3, <3>2, <3>3, <3>4, SessionSays
  <2> QED
    BY <2>2, <2>3
<1>9. CASE Subscribe
  BY <1>2, <1>9, HeardOnSubscribe
<1>10. CASE (SendConn \/ SendQR \/ SendSync) /\ handler \in Snapshot /\ UNCHANGED <<daemonVars, windowVars, dropped>>
  <2>1. Attached /\ Said /\ w' = w
    BY <1>0, <1>4, <1>10 DEF Attached, Snapshot
  <2> QED
    BY <1>0, <1>1, <1>2, <1>6, <1>7, <1>10, <2>1, HeardInSnapshot
<1>11. CASE Pump /\ UNCHANGED <<daemonVars, windowVars, dropped>> /\ handler = "pump"
  <2>1. Attached /\ Said /\ w' = w
    BY <1>0, <1>4, <1>11 DEF Attached
  <2> QED
    BY <1>0, <1>1, <1>2, <1>11, <2>1, HeardInPump
<1>12. CASE OnEvent /\ UNCHANGED <<daemonVars, handler, dropped>>
  <2>1. Attached /\ Said
    BY <1>4, <1>12 DEF Attached
  <2>2. w' \in BOOLEAN
    BY <1>v
  <2>3. Head(wire) \in A => w'
    BY <1>2, <1>12, <1>v, WindowHears DEF Conns
  <2>4. Head(wire) \notin B /\ w => w'
    BY <1>2, <1>12, <1>v, <1>w, WindowHears DEF Syncs, Conns, Events
  <2> QED
    BY <1>0, <1>1, <1>12, <2>1, <2>2, <2>3, <2>4, HeardInWindow
<1>13. CASE UNCHANGED feedVars
  <2>1. Attached /\ Said /\ w' = w /\ UNCHANGED <<queue, handler, wire>>
    BY <1>0, <1>4, <1>13 DEF Attached, feedVars, brokerVars, streamVars
  <2> QED
    BY <1>1, <2>1
<1>14. handler' # "none"
  BY DEF Attached
<1> QED
  BY <1>8, <1>9, <1>10, <1>11, <1>12, <1>13, <1>14, OtherSteps

-----------------------------------------------------------------------------
(* The theorems.                                                           *)

LEMMA FeedInitIInv == FeedInit => FeedIInv
<1>1. FeedInit => GateHeard /\ ReleaseHeard /\ ConnectedHeard /\ LoggedOutHeard
  BY DEF FeedInit, GateHeard, ReleaseHeard, ConnectedHeard, LoggedOutHeard, Attached
<1> QED
  BY <1>1, InitTypeOK, InitPhases DEF FeedIInv

LEMMA Invariance == FeedSpec => []FeedIInv
<1>1. FeedIInv /\ [FeedNext]_feedVars => FeedIInv'
  BY FeedNextTypeOK, NextPhases, NextGate, NextRelease, NextConnected, NextLoggedOut DEF FeedIInv
<1> QED
  BY <1>1, FeedInitIInv, PTL DEF FeedSpec

\* The daemon's state, the channel, the wire and the window stay well typed.
THEOREM FeedTypeCorrectness == FeedSpec => []FeedTypeOK
<1>1. FeedIInv => FeedTypeOK
  BY DEF FeedIInv
<1> QED
  BY <1>1, Invariance, PTL

\* The sync gate is up only in a session that has begun, and while a sync is
\* under way or being tidied up: a logout, a wait for a pairing and a restart of
\* the daemon all find it released (session.go, sync.go).
THEOREM GateNeedsSession ==
    FeedSpec => [](sync = "GATED" => /\ pairing \in {"starting", "begun", "linked"}
                                     /\ active \/ finishing)
<1>1. FeedIInv => (sync = "GATED" => /\ pairing \in {"starting", "begun", "linked"}
                                     /\ active \/ finishing)
  BY DEF FeedIInv, Phases
<1> QED
  BY <1>1, Invariance, PTL

\* A window that has handled all it was sent shows the page of the daemon's
\* state.
THEOREM DrainedClientAlwaysRight == FeedSpec => []DrainedClientIsRight
<1>1. FeedIInv => DrainedClientIsRight
  <2> SUFFICES ASSUME FeedIInv, ClientDrained, ~dropped, conn = told PROVE RightPage
    BY DEF DrainedClientIsRight
  <2>1. Attached /\ Settled
    BY DEF ClientDrained, Attached, Settled
  <2>2. handler = "pump" /\ queue = <<>> /\ wire = <<>> /\ pairing \in {"waiting", "linked"}
    BY DEF ClientDrained
  <2>3. \A A, B, H, w : "pump" \notin H /\ Heard(queue, handler, wire, A, B, H, w) => w
    <3>1. DOMAIN <<>> = {}
      OBVIOUS
    <3>2. \A A, B : ~Ends(<<>>, A, B)
      BY <3>1 DEF Ends
    <3> QED
      BY <2>2, <3>2 DEF Heard
  <2>4. CASE conn = "CONNECTED"
    <3>1. pairing = "linked"
      BY <2>2, <2>4 DEF FeedIInv, Phases
    <3>2. connected /\ (~syncing => page = "chat")
      BY <2>1, <2>3, <2>4, <3>1 DEF FeedIInv, ConnectedHeard
    <3>3. sync = "GATED" => page = "sync"
      BY <2>1, <2>3 DEF FeedIInv, GateHeard, Snapshot
    <3>4. sync # "GATED" => ~syncing
      BY <2>1, <2>3 DEF FeedIInv, ReleaseHeard, Snapshot
    <3> QED
      BY <2>4, <3>2, <3>3, <3>4 DEF RightPage
  <2>5. CASE conn = "LOGGED_OUT"
    <3>1. pairing = "waiting"
      BY <2>2, <2>5 DEF FeedIInv, Phases
    <3>2. page = "qr"
      BY <2>1, <2>3, <3>1 DEF FeedIInv, LoggedOutHeard
    <3> QED
      BY <2>5, <3>2 DEF RightPage
  <2> QED
    BY <2>4, <2>5 DEF RightPage
<1> QED
  BY <1>1, Invariance, PTL

-----------------------------------------------------------------------------
(* The stage that the feed announces.                                      *)

LEMMA FeedStepIsGated ==
    ASSUME [FeedNext]_feedVars
    PROVE  [FeedGate!Next]_(FeedGate!vars)
<1> USE DEF Phase, FeedGate!Next, FeedGate!vars
<1>1. CASE Reset
  BY <1>1 DEF Reset, SetStage, FeedGate!LogOut
<1>2. CASE StartResets
  BY <1>2 DEF StartResets, SetStage, FeedGate!Await
<1>3. CASE AwaitPairing
  BY <1>3 DEF AwaitPairing, SetState, FeedGate!Await
<1>4. CASE Scan
  BY <1>4 DEF Scan, FeedGate!Scan
<1>5. CASE Begin
  BY <1>5 DEF Begin, SetStage, FeedGate!Begin
<1>6. CASE SyncProceeds \/ FinishEnter \/ FinishReport
  BY <1>6 DEF SyncProceeds, FinishEnter, FinishReport, SetStage,
              FeedGate!Proceed, FeedGate!Finish, FeedGate!Report
<1>7. CASE Restart
  BY <1>7 DEF Restart, FeedGate!Restart
<1>8. CASE OnConnected \/ OnDisconnected \/ ShowCode \/ CodeExpires
  BY <1>8 DEF OnConnected, OnDisconnected, ShowCode, CodeExpires, SetState
<1>9. CASE OnLoggedOut \/ ReportConnecting \/ \E p \in Setters : PublishState(p)
  BY <1>9 DEF OnLoggedOut, ReportConnecting, PublishState, SetState
<1>10. CASE Subscribe \/ HandlerNext \/ Cut \/ OnEvent \/ UNCHANGED feedVars
  <2>1. UNCHANGED daemonVars
    BY <1>10 DEF Subscribe, HandlerNext, SendConn, SendQR, SendSync, Pump, Send, Cut, OnEvent, feedVars,
                 daemonVars
  <2> QED
    BY <2>1 DEF daemonVars
<1> QED
  BY <1>1, <1>2, <1>3, <1>4, <1>5, <1>6, <1>7, <1>8, <1>9, <1>10 DEF FeedNext, SessionNext

\* What the feed says of the sync is what module SyncGate promises, the module
\* that the tracker of sync.go implements.
THEOREM FeedAlwaysFollowsGate == FeedSpec => FollowsGate
<1>1. FeedInit => FeedGate!Init
  BY DEF FeedInit, FeedGate!Init, Phase
<1> QED
  BY <1>1, FeedStepIsGated, PTL DEF FeedSpec, FollowsGate, FeedGate!Spec
=============================================================================
