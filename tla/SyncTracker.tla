---------------------------- MODULE SyncTracker ----------------------------
(***************************************************************************)
(* The full-sync tracker of the daemon (apps/daemon/wa/sync.go) with the   *)
(* callers that drive it: Session.Start, consumeQR, handleEvent, Logout    *)
(* and the history worker (session.go, history.go).                        *)
(*                                                                         *)
(* Every method of the tracker holds its mutex for its whole body, so it   *)
(* is one step, except finish and Reset: finish unlocks to reconcile the   *)
(* chats and to persist the flag and locks again, Reset persists the flag  *)
(* after unlocking.  A timer that fires spawns a goroutine that calls      *)
(* finish; Timer.Stop does not recall it once it has been spawned.         *)
(***************************************************************************)
EXTENDS Integers, FiniteSets

CONSTANTS
    Finishers,   \* identities of the goroutines the two timers spawn
    QueueCap,    \* capacity of Session.historyCh (8 in the code)
    MaxChunks    \* bound: no history chunk arrives once this many are counted

ASSUME FinishersAssumption == Finishers # {}
ASSUME QueueCapAssumption == QueueCap \in Nat
ASSUME MaxChunksAssumption == MaxChunks \in Nat

VARIABLES
    life,       \* where the session's start/pair/logout thread is
    device,     \* whether whatsmeow's store holds a paired device (persistent)
    meta,       \* the store's full_sync_completed flag is "1" (persistent)
    active,     \* t.active
    stage,      \* t.stage, what every client is shown
    completed,  \* t.completed
    chunks,     \* t.chunks
    settle,     \* t.settle is armed and has not fired
    deadline,   \* t.deadline is armed and has not fired
    pc,         \* the goroutines running finish
    queue,      \* history chunks waiting in historyCh
    proc,       \* processHistorySync in the worker and inline in handleEvent
    loose       \* chat rows to tidy: "written" by a chunk still in progress
                \* or ignored, "counted" by the tracker, and "skipped" by a
                \* reconcileChats that met an error on them

lifeVars == <<life, device, meta>>
trackerVars == <<active, stage, completed, chunks, settle, deadline>>
historyVars == <<queue, proc, loose>>
vars == <<lifeVars, trackerVars, pc, historyVars>>

Stages == {"IDLE", "CONNECTING", "CONTACTS", "HISTORY", "FINALIZING", "DONE"}
Lives == {"down", "starting", "pairing", "scanned", "linked",
          "clearing", "restarting", "rearming", "failed"}
Procs == {"worker", "inline"}

\* The stages during which the desktop client shows the progress page.
Gating == {"CONNECTING", "CONTACTS", "HISTORY", "FINALIZING"}

\* finish between its two critical sections: still to reconcile, to persist
\* the flag, to report DONE.
FinishTail == {"reconcile", "persist", "report"}

TypeOK ==
    /\ life \in Lives
    /\ device \in BOOLEAN /\ meta \in BOOLEAN
    /\ active \in BOOLEAN /\ completed \in BOOLEAN
    /\ stage \in Stages
    /\ chunks \in Nat
    /\ settle \in BOOLEAN /\ deadline \in BOOLEAN
    /\ pc \in [Finishers -> {"idle", "fired"} \cup FinishTail]
    /\ queue \in 0..QueueCap
    /\ proc \in [Procs -> {"idle", "busy", "wrote"}]
    /\ loose \subseteq {"written", "counted", "skipped"}

-----------------------------------------------------------------------------
(* Progress shown for each stage, in 1/800ths so that it stays integral.   *)
ExpectedChunks == 8
ProgressContacts == 80
ProgressHistory == 680
ProgressFinalizing == 760

Progress(s, n) ==
    LET counted == IF n > ExpectedChunks THEN ExpectedChunks ELSE n
    IN  CASE s = "CONTACTS" -> ProgressContacts
          [] s = "HISTORY" -> ProgressContacts
                 + ((ProgressHistory - ProgressContacts) * counted) \div ExpectedChunks
          [] s = "FINALIZING" -> ProgressFinalizing
          [] s = "DONE" -> 800
          [] OTHER -> 0

-----------------------------------------------------------------------------
(* The tracker's methods, as they change the tracker's own variables.      *)

MutantBeginWithoutDeadline ==
    IF completed \/ active
    THEN UNCHANGED trackerVars
    ELSE active' = TRUE /\ stage' = "CONNECTING" /\ UNCHANGED <<completed, chunks, settle, deadline>>

Begin ==
    IF completed \/ active
    THEN UNCHANGED trackerVars
    ELSE /\ active' = TRUE
         /\ stage' = "CONNECTING"
         /\ deadline' = TRUE
         /\ UNCHANGED <<completed, chunks, settle>>

Connected ==
    IF active /\ stage = "CONNECTING"
    THEN /\ stage' = "CONTACTS"
         /\ settle' = TRUE
         /\ UNCHANGED <<active, completed, chunks, deadline>>
    ELSE UNCHANGED trackerVars

MutantContactsAnyStage ==
    IF active
    THEN stage' = "CONTACTS" /\ settle' = TRUE /\ UNCHANGED <<active, completed, chunks, deadline>>
    ELSE UNCHANGED trackerVars

Contacts ==
    IF active
    THEN /\ stage' = IF stage \in {"CONNECTING", "CONTACTS"} THEN "CONTACTS" ELSE stage
         /\ settle' = TRUE
         /\ UNCHANGED <<active, completed, chunks, deadline>>
    ELSE UNCHANGED trackerVars

Chunk ==
    IF active
    THEN /\ chunks' = chunks + 1
         /\ stage' = "HISTORY"
         /\ settle' = TRUE
         /\ UNCHANGED <<active, completed, deadline>>
    ELSE UNCHANGED trackerVars

ResetLocked ==
    /\ active' = FALSE
    /\ completed' = FALSE
    /\ stage' = "IDLE"
    /\ chunks' = 0
    /\ settle' = FALSE
    /\ deadline' = FALSE

FinishLocked ==
    /\ active' = FALSE
    /\ stage' = "FINALIZING"
    /\ settle' = FALSE
    /\ deadline' = FALSE
    /\ UNCHANGED <<completed, chunks>>

MutantReportKeepsStage ==
    completed' = TRUE /\ UNCHANGED <<active, stage, chunks, settle, deadline>>

ReportLocked ==
    /\ completed' = TRUE
    /\ stage' = "DONE"
    /\ UNCHANGED <<active, chunks, settle, deadline>>

\* reconcileChats returns nothing.  It tidies every row there is, unless a
\* statement of its own fails: the list of LID chats cannot be read, a chat
\* cannot be merged, the list of chats without a name cannot be read.  What it
\* did not tidy then waits for the next reconciliation.
Reconciled == {{}, IF loose = {} THEN {} ELSE {"skipped"}}

\* Store.SetMeta of the flag; an error is logged and nothing else happens.
SetMeta(value) == meta' \in {meta, value}

-----------------------------------------------------------------------------
(* The daemon's life: start, pairing, logout, crash.                       *)

\* newSyncTracker and Load, called by New; a failed read leaves the flag down.
Load ==
    /\ life = "down"
    /\ life' = "starting"
    /\ completed' \in {meta, FALSE}
    /\ stage' = IF completed' THEN "DONE" ELSE "IDLE"
    /\ UNCHANGED <<device, meta, active, chunks, settle, deadline, pc, historyVars>>

\* Start with a stored device arms the sync.
StartPaired ==
    /\ life \in {"starting", "restarting"}
    /\ device
    /\ life' = "linked"
    /\ Begin
    /\ UNCHANGED <<device, meta, pc, historyVars>>

\* Start without a device: Reset under the lock, then the flag, then consumeQR.
StartUnpaired ==
    /\ life \in {"starting", "restarting"}
    /\ ~device
    /\ life' = "rearming"
    /\ ResetLocked
    /\ UNCHANGED <<device, meta, pc, historyVars>>

\* Start gives up (no device readable, no QR channel, no connection) before
\* it touches the tracker; the error is logged and the daemon keeps serving.
StartFails ==
    /\ life \in {"starting", "restarting"}
    /\ life' = "failed"
    /\ UNCHANGED <<device, meta, trackerVars, pc, historyVars>>

StartClearsFlag ==
    /\ life = "rearming"
    /\ life' = "pairing"
    /\ SetMeta(FALSE)
    /\ UNCHANGED <<device, trackerVars, pc, historyVars>>

\* External: the phone scans the code and whatsmeow stores the device.  It
\* may reconnect and deliver events before consumeQR handles the item.
ScanQR ==
    /\ life = "pairing"
    /\ life' = "scanned"
    /\ device' = TRUE
    /\ UNCHANGED <<meta, trackerVars, pc, historyVars>>

QRSuccess ==
    /\ life = "scanned"
    /\ life' = "linked"
    /\ Begin
    /\ UNCHANGED <<device, meta, pc, historyVars>>

\* Logout RPC or a LoggedOut event: whatsmeow has dropped the device.
LoggedOut ==
    /\ life \in {"scanned", "linked"}
    /\ life' = "clearing"
    /\ device' = FALSE
    /\ ResetLocked
    /\ UNCHANGED <<meta, pc, historyVars>>

LogoutClearsFlag ==
    /\ life = "clearing"
    /\ life' = "restarting"
    /\ SetMeta(FALSE)
    /\ UNCHANGED <<device, trackerVars, pc, historyVars>>

\* The daemon dies: only the device and the flag survive.
Crash ==
    /\ life # "down"
    /\ life' = "down"
    /\ active' = FALSE /\ completed' = FALSE /\ stage' = "IDLE" /\ chunks' = 0
    /\ settle' = FALSE /\ deadline' = FALSE
    /\ pc' = [f \in Finishers |-> "idle"]
    /\ queue' = 0
    /\ proc' = [p \in Procs |-> "idle"]
    /\ UNCHANGED <<device, meta, loose>>

-----------------------------------------------------------------------------
(* Events of the WhatsApp connection, handled one at a time by handleEvent *)
(* (a chunk processed inline keeps the next one waiting).                  *)

EventLoopFree == life \in {"scanned", "linked"} /\ proc["inline"] = "idle"

\* Connected also starts a reconcileChats of its own, which may not come to
\* its end before the daemon does.
OnConnected ==
    /\ EventLoopFree
    /\ Connected
    /\ loose' \in {loose} \cup Reconciled
    /\ UNCHANGED <<lifeVars, pc, queue, proc>>

OnAppStateSyncComplete ==
    /\ EventLoopFree
    /\ Contacts
    /\ UNCHANGED <<lifeVars, pc, historyVars>>

\* The chunk is queued, or processed inline when the queue is full.
OnHistorySync ==
    /\ EventLoopFree
    /\ chunks < MaxChunks
    /\ IF queue < QueueCap
       THEN queue' = queue + 1 /\ UNCHANGED proc
       ELSE proc' = [proc EXCEPT !["inline"] = "busy"] /\ UNCHANGED queue
    /\ UNCHANGED <<lifeVars, trackerVars, pc, loose>>

WorkerTakes ==
    /\ life # "down"
    /\ proc["worker"] = "idle"
    /\ queue > 0
    /\ queue' = queue - 1
    /\ proc' = [proc EXCEPT !["worker"] = "busy"]
    /\ UNCHANGED <<lifeVars, trackerVars, pc, loose>>

\* processHistorySync commits the conversations of the chunk ...
WriteConversations(p) ==
    /\ proc[p] = "busy"
    /\ proc' = [proc EXCEPT ![p] = "wrote"]
    /\ loose' = loose \cup {"written"}
    /\ UNCHANGED <<lifeVars, trackerVars, pc, queue>>

\* ... and only then reports it to the tracker.
ReportChunk(p) ==
    /\ proc[p] = "wrote"
    /\ proc' = [proc EXCEPT ![p] = "idle"]
    /\ Chunk
    /\ loose' = IF active /\ "written" \in loose
                THEN (loose \ {"written"}) \cup {"counted"} ELSE loose
    /\ UNCHANGED <<lifeVars, pc, queue>>

-----------------------------------------------------------------------------
(* The timers and the goroutines they spawn.                               *)

FireSettle(f) ==
    /\ settle /\ pc[f] = "idle"
    /\ settle' = FALSE
    /\ pc' = [pc EXCEPT ![f] = "fired"]
    /\ UNCHANGED <<lifeVars, active, stage, completed, chunks, deadline, historyVars>>

FireDeadline(f) ==
    /\ deadline /\ pc[f] = "idle"
    /\ deadline' = FALSE
    /\ pc' = [pc EXCEPT ![f] = "fired"]
    /\ UNCHANGED <<lifeVars, active, stage, completed, chunks, settle, historyVars>>

MutantFinishSkipsReconcile(f) ==
    /\ pc[f] = "fired"
    /\ IF active
       THEN pc' = [pc EXCEPT ![f] = "persist"] /\ FinishLocked
       ELSE pc' = [pc EXCEPT ![f] = "idle"] /\ UNCHANGED trackerVars
    /\ UNCHANGED <<lifeVars, historyVars>>

FinishEnter(f) ==
    /\ pc[f] = "fired"
    /\ IF active
       THEN pc' = [pc EXCEPT ![f] = "reconcile"] /\ FinishLocked
       ELSE pc' = [pc EXCEPT ![f] = "idle"] /\ UNCHANGED trackerVars
    /\ UNCHANGED <<lifeVars, historyVars>>

\* finish learns nothing of what reconcileChats could not do, and goes on.
FinishReconcile(f) ==
    /\ pc[f] = "reconcile"
    /\ pc' = [pc EXCEPT ![f] = "persist"]
    /\ loose' \in Reconciled
    /\ UNCHANGED <<lifeVars, trackerVars, queue, proc>>

FinishPersist(f) ==
    /\ pc[f] = "persist"
    /\ pc' = [pc EXCEPT ![f] = "report"]
    /\ SetMeta(TRUE)
    /\ UNCHANGED <<life, device, trackerVars, historyVars>>

FinishReport(f) ==
    /\ pc[f] = "report"
    /\ pc' = [pc EXCEPT ![f] = "idle"]
    /\ ReportLocked
    /\ UNCHANGED <<lifeVars, historyVars>>

-----------------------------------------------------------------------------
Init ==
    /\ life = "down" /\ device = FALSE /\ meta = FALSE
    /\ active = FALSE /\ stage = "IDLE" /\ completed = FALSE /\ chunks = 0
    /\ settle = FALSE /\ deadline = FALSE
    /\ pc = [f \in Finishers |-> "idle"]
    /\ queue = 0
    /\ proc = [p \in Procs |-> "idle"]
    /\ loose = {}

LifeNext ==
    \/ Load \/ StartPaired \/ StartUnpaired \/ StartClearsFlag \/ StartFails
    \/ ScanQR \/ QRSuccess \/ LoggedOut \/ LogoutClearsFlag

EventNext == OnConnected \/ OnAppStateSyncComplete \/ OnHistorySync

HistoryNext ==
    \/ WorkerTakes
    \/ \E p \in Procs : WriteConversations(p) \/ ReportChunk(p)

FinishNext(f) ==
    \/ FinishEnter(f) \/ FinishReconcile(f) \/ FinishPersist(f) \/ FinishReport(f)

Next ==
    \/ LifeNext
    \/ Crash
    \/ EventNext
    \/ HistoryNext
    \/ \E f \in Finishers : FireSettle(f) \/ FireDeadline(f) \/ FinishNext(f)

(***************************************************************************)
(* Fairness: a goroutine that can run runs, and time passes, so an armed   *)
(* deadline fires.  Nothing is assumed of the phone, the user or the       *)
(* settle timer (whose firing only shortens the sync).                     *)
(***************************************************************************)
Fairness ==
    /\ WF_vars(\E f \in Finishers : FireDeadline(f))
    /\ \A f \in Finishers : WF_vars(FinishNext(f))

Spec == Init /\ [][Next]_vars /\ Fairness

-----------------------------------------------------------------------------
(* Properties.                                                             *)

Gated == stage \in Gating

\* Whoever shows the progress page can still be released: while a stage gates
\* the client, the sync is armed with its deadline (or a finish it spawned) or
\* a finish is between its two critical sections ("must not strand the user on
\* the progress screen forever", sync.go:22-24).
GateHasExit ==
    /\ stage \in {"CONNECTING", "CONTACTS", "HISTORY"} =>
          active /\ (deadline \/ \E f \in Finishers : pc[f] = "fired")
    /\ stage = "FINALIZING" => \E f \in Finishers : pc[f] \in FinishTail

\* A timer never outlives the sync it was armed for: whatever order Reset,
\* finish and the callbacks run in, an armed timer belongs to an active sync.
TimersBelongToActiveSync == settle \/ deadline => active

\* A client told DONE is told so because the tracker will not gate it again
\* (Begin is a no-op once completed), and an idle tracker owes a full sync to
\* the next pairing: the stage and the flag agree although they are written by
\* Load, finish and Reset in any order.
StageAgreesWithFlag ==
    /\ stage = "DONE" => completed
    /\ stage = "IDLE" => ~completed

\* The progress bar never runs backwards while the progress page is up: a late
\* app-state event or a chunk that overtakes it does not undo a stage.
BarNeverRunsBack ==
    [][Gated /\ Gated' => Progress(stage', chunks') >= Progress(stage, chunks)]_vars

\* The page is released only after a reconciliation that began once every
\* counted chunk was counted: what it could not tidy for an error of its own it
\* gave up on ("skipped"), and no counted row is left that none has seen, as
\* long as no logout left an older finish running (finish, sync.go:184-185).
CountedRowsTidied ==
    [][(stage = "FINALIZING" /\ stage' = "DONE"
          /\ \E f \in Finishers : \A g \in Finishers : pc[g] \in FinishTail => g = f)
       => "counted" \notin loose]_vars

\* The progress page is always left: the sync completes, is reset or the
\* daemon goes away.
ProgressPageIsLeft == Gated ~> ~Gated

\* The phase of the session, as module SyncGate has it.
Session ==
    CASE life \in {"down", "starting"} -> "boot"
      [] life \in {"clearing", "restarting", "failed"} -> "out"
      [] life \in {"rearming", "pairing"} -> "waiting"
      [] OTHER -> life

\* A finish is between its critical sections; the stage as clients take it.
Finishing == \E f \in Finishers : pc[f] \in FinishTail
Signal == IF Gated THEN "GATED" ELSE stage

\* With its timers, its two critical sections and its goroutines, the tracker
\* gates clients as module SyncGate promises: never outside a linked session,
\* and not again once a sync was announced as done, unless one is active.
AsGate == INSTANCE SyncGate WITH session <- Session, finishing <- Finishing, sync <- Signal

ImplementsGate == AsGate!Spec
=============================================================================
