---------------------------- MODULE EventStream -----------------------------
(***************************************************************************)
(* The live feed between the daemon and one desktop client: the connection *)
(* state, the sync stage and the QR code of the session                    *)
(* (apps/daemon/wa/session.go), the broker's bounded channel               *)
(* (service/broker.go), the StreamEvents handler with its opening snapshot *)
(* (service/service.go), the client's receive loop                         *)
(* (apps/desktop/client/client.go) and the page the window shows           *)
(* (apps/desktop/window.go).                                               *)
(*                                                                         *)
(* setState stores under the lock and publishes after releasing it; the    *)
(* sync tracker publishes under its lock, so a stage and its event are one *)
(* step.  An event is the value it carries.                                *)
(***************************************************************************)
EXTENDS Integers, Sequences

CONSTANTS
    Buffer,    \* subscriberBuffer (256 in the code)
    Window     \* events the transport and the main loop hold between
               \* stream.Send and the handler of the window (bound)

ASSUME BufferAssumption == Buffer \in Nat
ASSUME WindowAssumption == Window \in Nat \ {0}

\* CONNECTING and DISCONNECTED are one value: the window treats them alike.
Conns == {"OFFLINE", "CONNECTED", "LOGGED_OUT"}
\* GATED stands for CONNECTING, CONTACTS, HISTORY and FINALIZING.
Syncs == {"IDLE", "GATED", "DONE"}
Events == Conns \cup Syncs \cup {"QR"}
Pages == {"qr", "sync", "chat"}

\* The goroutines that call setState: Start and then consumeQR; handleEvent.
Setters == {"session", "events"}

VARIABLES
    conn,      \* s.state's status
    told,      \* the connection status last published
    sync,      \* t.stage
    active,    \* t.active
    finishing, \* a finish is between its two critical sections
    qr,        \* s.qr holds an unexpired code
    pairing,   \* where the device and the session goroutine are: "boot" or
               \* "out" (Start is to run, with or without a device), "lost"
               \* (its LoggedOut event is being handled), "waiting" for a
               \* scan, "scanned", "starting" or "begun" (the sync has begun,
               \* Start or consumeQR reports CONNECTING; Start dials only
               \* then), "linked"
    setting,   \* what a setter has stored and not yet published
    queue,     \* the subscriber's channel
    dropped,   \* the broker dropped an event of this subscription
    handler,   \* StreamEvents: the next thing it sends, or "none"
    wire,      \* events sent and not yet handled by the window
    page, connected, syncing    \* the window

syncVars == <<sync, active, finishing>>
daemonVars == <<conn, told, syncVars, qr, pairing, setting>>
brokerVars == <<queue, dropped>>
streamVars == <<handler, wire>>
windowVars == <<page, connected, syncing>>
feedVars == <<daemonVars, brokerVars, streamVars, windowVars>>

FeedTypeOK ==
    /\ conn \in Conns /\ told \in Conns
    /\ sync \in Syncs /\ active \in BOOLEAN /\ finishing \in BOOLEAN
    /\ qr \in BOOLEAN
    /\ pairing \in {"boot", "lost", "out", "waiting", "starting", "scanned",
                   "begun", "linked"}
    /\ setting \in [Setters -> Conns \cup {"none"}]
    /\ queue \in Seq(Events) /\ Len(queue) <= Buffer
    /\ dropped \in BOOLEAN
    /\ handler \in {"none", "conn", "qr", "sync", "pump"}
    /\ wire \in Seq(Events) /\ Len(wire) <= Window
    /\ page \in Pages /\ connected \in BOOLEAN /\ syncing \in BOOLEAN

-----------------------------------------------------------------------------
(* Broker.                                                                 *)

\* Publish never blocks: a full channel loses the event.
Publish(e) ==
    IF handler = "none" THEN UNCHANGED brokerVars
    ELSE IF Len(queue) < Buffer
    THEN queue' = Append(queue, e) /\ UNCHANGED dropped
    ELSE dropped' = TRUE /\ UNCHANGED queue

-----------------------------------------------------------------------------
(* Session.                                                                *)

Idle(p) == setting[p] = "none"

SetState(p, status) ==
    /\ Idle(p)
    /\ conn' = status
    /\ setting' = [setting EXCEPT ![p] = status]
    /\ UNCHANGED <<told, syncVars, brokerVars, streamVars, windowVars>>

PublishState(p) ==
    /\ ~Idle(p)
    /\ Publish(setting[p])
    /\ told' = setting[p]
    /\ setting' = [setting EXCEPT ![p] = "none"]
    /\ pairing' = IF p = "session" /\ pairing = "starting" THEN "linked" ELSE pairing
    /\ UNCHANGED <<conn, syncVars, qr, streamVars, windowVars>>

SetStage(stage) ==
    /\ sync' = stage
    /\ Publish(stage)
    /\ UNCHANGED <<conn, told, setting, streamVars, windowVars>>

\* handleEvent: Connected, Disconnected.
OnConnected ==
    /\ pairing \in {"scanned", "begun", "linked"}
    /\ SetState("events", "CONNECTED")
    /\ UNCHANGED <<qr, pairing>>

OnDisconnected ==
    /\ conn = "CONNECTED"
    /\ SetState("events", "OFFLINE")
    /\ UNCHANGED <<qr, pairing>>

\* Logout and the LoggedOut event reset the sync and restart the session; the
\* event handler reports the loss in between.
Reset ==
    /\ pairing \in {"scanned", "linked"} /\ Idle("session")
    /\ pairing' \in {"lost", "out"}
    /\ active' = FALSE
    /\ SetStage("IDLE")
    /\ UNCHANGED <<finishing, qr>>

OnLoggedOut ==
    /\ pairing = "lost"
    /\ SetState("events", "LOGGED_OUT")
    /\ pairing' = "out"
    /\ UNCHANGED qr

\* Start without a device, and a QR channel that ends without a pairing; Start
\* then resets the sync.
AwaitPairing ==
    /\ pairing \in {"boot", "out", "waiting"}
    /\ setting["events"] # "LOGGED_OUT"
    /\ SetState("session", "LOGGED_OUT")
    /\ pairing' = "waiting"
    /\ UNCHANGED qr

StartResets ==
    /\ pairing = "waiting"
    /\ active' = FALSE
    /\ SetStage("IDLE")
    /\ UNCHANGED <<finishing, qr, pairing>>

\* consumeQR: a code is stored and published, it expires, the phone scans it.
ShowCode ==
    /\ pairing = "waiting" /\ Idle("session")
    /\ qr' = TRUE
    /\ Publish("QR")
    /\ UNCHANGED <<conn, told, syncVars, pairing, setting, streamVars, windowVars>>

CodeExpires ==
    /\ qr
    /\ qr' = FALSE
    /\ UNCHANGED <<conn, told, syncVars, pairing, setting, brokerVars, streamVars, windowVars>>

Scan ==
    /\ pairing = "waiting" /\ Idle("session")
    /\ pairing' = "scanned"
    /\ UNCHANGED <<conn, told, syncVars, qr, setting, brokerVars, streamVars, windowVars>>

\* Pairing success clears the code and begins the sync, Start with a device
\* begins it; either then reports CONNECTING.
Begin ==
    /\ pairing \in {"boot", "scanned"}
    /\ pairing' = IF pairing = "boot" THEN "starting" ELSE "begun"
    /\ qr' = FALSE
    /\ IF sync = "IDLE" THEN active' = TRUE /\ SetStage("GATED")
       ELSE UNCHANGED <<conn, told, active, sync, setting, brokerVars, streamVars, windowVars>>
    /\ UNCHANGED finishing

ReportConnecting ==
    /\ pairing \in {"starting", "begun"}
    /\ SetState("session", "OFFLINE")
    /\ pairing' = IF pairing = "begun" THEN "linked" ELSE pairing
    /\ UNCHANGED qr

\* Connected, Contacts and Chunk of an active sync, which may have been told DONE
\* by a finish that a Reset had overtaken.
SyncProceeds ==
    /\ active
    /\ SetStage("GATED")
    /\ UNCHANGED <<active, finishing, qr, pairing>>

\* finish: it gates with FINALIZING, and later reports DONE, whatever a Reset or
\* another pairing has done since.
FinishEnter ==
    /\ active
    /\ active' = FALSE /\ finishing' = TRUE
    /\ SetStage("GATED")
    /\ UNCHANGED <<qr, pairing>>

FinishReport ==
    /\ finishing
    /\ finishing' \in BOOLEAN
    /\ SetStage("DONE")
    /\ UNCHANGED <<active, qr, pairing>>

-----------------------------------------------------------------------------
(* StreamEvents.                                                           *)

\* The window (re)attaches; subscribing comes before the snapshot.
Subscribe ==
    /\ handler = "none"
    /\ handler' = "conn"
    /\ queue' = <<>>
    /\ dropped' = FALSE
    /\ UNCHANGED <<daemonVars, wire, windowVars>>

Send(e, next) ==
    /\ Len(wire) < Window
    /\ wire' = Append(wire, e)
    /\ handler' = next
    /\ UNCHANGED <<daemonVars, windowVars>>

SendConn == handler = "conn" /\ Send(conn, "qr") /\ UNCHANGED brokerVars
SendQR ==
    /\ handler = "qr"
    /\ IF qr THEN Send("QR", "sync")
             ELSE handler' = "sync" /\ UNCHANGED <<wire, daemonVars, windowVars>>
    /\ UNCHANGED brokerVars
MutantSendSyncSkipped ==
    /\ handler = "sync"
    /\ handler' = "pump"
    /\ UNCHANGED <<wire, daemonVars, windowVars, brokerVars>>

SendSync == handler = "sync" /\ Send(sync, "pump") /\ UNCHANGED brokerVars

Pump ==
    /\ handler = "pump"
    /\ queue # <<>>
    /\ Send(Head(queue), "pump")
    /\ queue' = Tail(queue)
    /\ UNCHANGED dropped

\* What was received before a stream broke still runs in the main loop.
LoseTail == wire' \in {SubSeq(wire, 1, n) : n \in 0..Len(wire)}

\* The stream breaks: the handler returns and unsubscribes, the window keeps
\* what it shows and dials again later.
Cut ==
    /\ handler # "none"
    /\ handler' = "none"
    /\ LoseTail
    /\ queue' = <<>>
    /\ UNCHANGED <<dropped, daemonVars, windowVars>>

\* The daemon is restarted, which cuts the stream too.
Restart ==
    /\ conn' = "OFFLINE" /\ told' = "OFFLINE"
    /\ sync' \in {"IDLE", "DONE"} /\ active' = FALSE /\ finishing' = FALSE
    /\ qr' = FALSE /\ pairing' = "boot"
    /\ setting' = [p \in Setters |-> "none"]
    /\ handler' = "none" /\ LoseTail /\ queue' = <<>> /\ dropped' = FALSE
    /\ UNCHANGED windowVars

-----------------------------------------------------------------------------
(* The window.                                                             *)

OnConnectionState(status) ==
    /\ connected' = (status = "CONNECTED")
    /\ page' = IF status = "LOGGED_OUT" THEN "qr"
               ELSE IF status = "CONNECTED" /\ ~syncing THEN "chat"
               ELSE page
    /\ UNCHANGED syncing

MutantStageKeepsSyncing(stage) ==
    /\ syncing' = (syncing \/ stage = "GATED")
    /\ page' = IF stage = "GATED" THEN "sync"
               ELSE IF syncing /\ connected THEN "chat"
               ELSE page
    /\ UNCHANGED connected

OnSyncState(stage) ==
    /\ syncing' = (stage = "GATED")
    /\ page' = IF stage = "GATED" THEN "sync"
               ELSE IF syncing /\ connected THEN "chat"
               ELSE page
    /\ UNCHANGED connected

ShowQR == page' = "qr" /\ UNCHANGED <<connected, syncing>>

\* receiveLoop hands each event to the main loop, in order.
OnEvent ==
    /\ wire # <<>>
    /\ wire' = Tail(wire)
    /\ LET e == Head(wire)
       IN  \/ e \in Conns /\ OnConnectionState(e)
           \/ e \in Syncs /\ OnSyncState(e)
           \/ e = "QR" /\ ShowQR
    /\ UNCHANGED <<daemonVars, brokerVars, handler>>

-----------------------------------------------------------------------------
FeedInit ==
    /\ conn = "OFFLINE" /\ told = "OFFLINE"
    /\ sync \in {"IDLE", "DONE"} /\ active = FALSE /\ finishing = FALSE
    /\ qr = FALSE /\ pairing = "boot"
    /\ setting = [p \in Setters |-> "none"]
    /\ queue = <<>> /\ dropped = FALSE
    /\ handler = "none" /\ wire = <<>>
    /\ page = "qr" /\ connected = FALSE /\ syncing = FALSE

SessionNext ==
    \/ OnConnected \/ OnDisconnected \/ Reset \/ OnLoggedOut
    \/ AwaitPairing \/ StartResets \/ ShowCode \/ CodeExpires \/ Scan
    \/ Begin \/ ReportConnecting \/ SyncProceeds \/ FinishEnter \/ FinishReport
    \/ \E p \in Setters : PublishState(p)

HandlerNext == SendConn \/ SendQR \/ SendSync \/ Pump

FeedNext ==
    \/ SessionNext
    \/ Subscribe \/ HandlerNext \/ Cut \/ Restart
    \/ OnEvent

(***************************************************************************)
(* Fairness: goroutines and the GTK main loop keep running, the client     *)
(* dials again.  Nothing is assumed of the phone, the user or the network. *)
(***************************************************************************)
Fairness ==
    /\ WF_feedVars(Subscribe)
    /\ WF_feedVars(HandlerNext)
    /\ WF_feedVars(OnEvent)
    /\ \A p \in Setters : WF_feedVars(PublishState(p))
    /\ WF_feedVars(Begin) /\ WF_feedVars(ReportConnecting)

FeedSpec == FeedInit /\ [][FeedNext]_feedVars /\ Fairness

-----------------------------------------------------------------------------
(* Properties.                                                             *)

\* The page a client should be on, where the daemon's state decides it.
RightPage ==
    /\ conn = "CONNECTED" /\ sync = "GATED" => page = "sync"
    /\ conn = "CONNECTED" /\ sync # "GATED" => page = "chat"
    /\ conn = "LOGGED_OUT" /\ sync # "GATED" => page = "qr"

ClientDrained ==
    /\ handler = "pump" /\ queue = <<>> /\ wire = <<>>
    /\ \A p \in Setters : Idle(p)
    /\ pairing \in {"waiting", "linked"}

\* A client that has handled all it was sent is on the right page, whenever it
\* attached and whatever reached its channel between its subscription and its
\* snapshot, unless an event was dropped or two setStates published in the
\* opposite of the order they stored in.
DrainedClientIsRight == ClientDrained /\ ~dropped /\ conn = told => RightPage

\* ... and it does get there: if the session stays up and the subscription
\* loses nothing, the window ends up on the page for it and stays there.
ClientCatchesUp ==
    <>[](/\ pairing = "linked" /\ conn = "CONNECTED" /\ told = conn /\ sync = "DONE"
         /\ handler = "pump" /\ ~dropped)
        => <>[](page = "chat")

\* The phase of the session, as module SyncGate has it.
Phase ==
    CASE pairing \in {"lost", "out"} -> "out"
      [] pairing \in {"starting", "begun", "linked"} -> "linked"
      [] OTHER -> pairing

\* The stage that the feed announces is the one module SyncGate promises, which
\* module SyncTracker implements: the two agree on what the tracker may do.
FeedGate == INSTANCE SyncGate WITH session <- Phase

FollowsGate == FeedGate!Spec
=============================================================================
