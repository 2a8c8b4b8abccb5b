--------------------------- MODULE Account_proofs ---------------------------
(***************************************************************************)
(* Proofs about what the daemon follows of the account: the full sync that *)
(* fills it, and the pictures and names of the people in it.               *)
(*                                                                         *)
(* SyncTracker, for every number of finishers, any queue capacity and any  *)
(* number of history chunks.  The invariants the runs check are not        *)
(* inductive as they stand: a chunk that arrives while a stale finish has  *)
(* just reported DONE raises a gate, so every active sync must be known to *)
(* have an exit, gated or not (Armed); and Begin must be known to start    *)
(* from a stage that shows no progress (Resting). The release needs to     *)
(* know that, while rows that were counted are untidied in FINALIZING, a   *)
(* finish has still to reconcile (Tidying).  From the same invariant the   *)
(* tracker implements module SyncGate.                                     *)
(*                                                                         *)
(* Profiles, for any users, widgets, number of goroutines and bounds: what *)
(* is remembered of people is right.                                       *)
(***************************************************************************)
EXTENDS SyncTracker, Profiles, TLAPS

-----------------------------------------------------------------------------
(* The full sync.                                                          *)

\* An active sync has its deadline, or a goroutine the deadline or the settle
\* timer has spawned and that will find it active.
Armed == active => deadline \/ \E f \in Finishers : pc[f] = "fired"

\* Outside a linked session no sync is active and none is shown; and a sync
\* that is being finished is not active.
Resting ==
    /\ life # "linked" => ~active /\ stage \in {"IDLE", "DONE"}
    /\ stage = "FINALIZING" => ~active

\* The two halves of TypeOK, which need different provers.
FlagsOK ==
    /\ device \in BOOLEAN /\ meta \in BOOLEAN
    /\ active \in BOOLEAN /\ completed \in BOOLEAN
    /\ settle \in BOOLEAN /\ deadline \in BOOLEAN

ValuesOK ==
    /\ life \in Lives
    /\ stage \in Stages
    /\ chunks \in Nat
    /\ pc \in [Finishers -> {"idle", "fired"} \cup FinishTail]
    /\ queue \in 0..QueueCap
    /\ proc \in [Procs -> {"idle", "busy", "wrote"}]
    /\ loose \subseteq {"written", "counted", "skipped"}

IInv ==
    /\ TypeOK
    /\ GateHasExit
    /\ TimersBelongToActiveSync
    /\ StageAgreesWithFlag
    /\ Armed
    /\ Resting

-----------------------------------------------------------------------------
(* Initially.                                                              *)

LEMMA InitIInv == Init => IInv
<1> SUFFICES ASSUME Init PROVE IInv
  OBVIOUS
<1>1. TypeOK
  <2>1. FlagsOK
    BY DEF Init, FlagsOK
  <2>2. ValuesOK
    BY QueueCapAssumption DEF Init, ValuesOK, Stages, Lives
  <2> QED
    BY <2>1, <2>2 DEF TypeOK, FlagsOK, ValuesOK
<1>2. GateHasExit /\ TimersBelongToActiveSync /\ StageAgreesWithFlag /\ Armed /\ Resting
  BY DEF Init, GateHasExit, TimersBelongToActiveSync, StageAgreesWithFlag, Armed, Resting
<1> QED
  BY <1>1, <1>2 DEF IInv

-----------------------------------------------------------------------------
(* Steps.  The groups are those of Next.                                   *)

\* Start, pairing and logout keep the invariant.
LEMMA LifeKeepsIInv == IInv /\ LifeNext => IInv'
<1> SUFFICES ASSUME IInv, LifeNext PROVE IInv'
  OBVIOUS
<1> USE DEF IInv, TypeOK, GateHasExit, TimersBelongToActiveSync, StageAgreesWithFlag,
            Armed, Resting, Stages, Lives, historyVars
<1>1. CASE Load
  BY <1>1 DEF Load
<1>2. CASE StartPaired
  BY <1>2 DEF StartPaired, Begin, trackerVars
<1>3. CASE StartUnpaired
  BY <1>3 DEF StartUnpaired, ResetLocked
<1>4. CASE StartClearsFlag
  BY <1>4 DEF StartClearsFlag, SetMeta, trackerVars
<1>5. CASE StartFails
  BY <1>5 DEF StartFails, trackerVars
<1>6. CASE ScanQR
  BY <1>6 DEF ScanQR, trackerVars
<1>7. CASE QRSuccess
  BY <1>7 DEF QRSuccess, Begin, trackerVars
<1>8. CASE LoggedOut
  BY <1>8 DEF LoggedOut, ResetLocked
<1>9. CASE LogoutClearsFlag
  BY <1>9 DEF LogoutClearsFlag, SetMeta, trackerVars
<1> QED
  BY <1>1, <1>2, <1>3, <1>4, <1>5, <1>6, <1>7, <1>8, <1>9 DEF LifeNext

\* So does the death of the daemon.
LEMMA CrashKeepsIInv == IInv /\ Crash => IInv'
<1> SUFFICES ASSUME IInv, Crash PROVE IInv'
  OBVIOUS
<1>1. TypeOK'
  <2>1. FlagsOK'
    BY DEF IInv, TypeOK, Crash, FlagsOK
  <2>2. ValuesOK'
    BY QueueCapAssumption DEF IInv, TypeOK, Crash, ValuesOK, Stages, Lives
  <2> QED
    BY <2>1, <2>2 DEF TypeOK, FlagsOK, ValuesOK
<1>2. (GateHasExit /\ TimersBelongToActiveSync /\ StageAgreesWithFlag /\ Armed /\ Resting)'
  BY DEF Crash, GateHasExit, TimersBelongToActiveSync, StageAgreesWithFlag, Armed, Resting
<1> QED
  BY <1>1, <1>2 DEF IInv

\* The events of the connection; only the two that speak to the tracker change
\* a stage.
LEMMA EventKeepsIInv == IInv /\ EventNext => IInv'
<1> SUFFICES ASSUME IInv, EventNext PROVE IInv'
  OBVIOUS
<1> USE DEF IInv, TypeOK, GateHasExit, TimersBelongToActiveSync, StageAgreesWithFlag,
            Armed, Resting, Stages, Procs, lifeVars, trackerVars
<1>1. CASE OnConnected
  BY <1>1 DEF OnConnected, Connected, Reconciled
<1>2. CASE OnAppStateSyncComplete
  BY <1>2 DEF OnAppStateSyncComplete, Contacts, historyVars
<1>3. CASE OnHistorySync
  BY <1>3, QueueCapAssumption DEF OnHistorySync
<1> QED
  BY <1>1, <1>2, <1>3 DEF EventNext

\* The history worker and the inline path.
LEMMA HistoryKeepsIInv == IInv /\ HistoryNext => IInv'
<1> SUFFICES ASSUME IInv, HistoryNext PROVE IInv'
  OBVIOUS
<1> USE DEF IInv, TypeOK, GateHasExit, TimersBelongToActiveSync, StageAgreesWithFlag,
            Armed, Resting, Stages, Procs, lifeVars, trackerVars
<1>1. CASE WorkerTakes
  BY <1>1, QueueCapAssumption DEF WorkerTakes
<1>2. ASSUME NEW p \in Procs, WriteConversations(p) PROVE IInv'
  BY <1>2 DEF WriteConversations
<1>3. ASSUME NEW p \in Procs, ReportChunk(p) PROVE IInv'
  <2>1. TypeOK'
    <3>1. FlagsOK'
      BY <1>3 DEF ReportChunk, Chunk, FlagsOK
    <3>2. ValuesOK'
      BY <1>3 DEF ReportChunk, Chunk, ValuesOK
    <3> QED
      BY <3>1, <3>2 DEF FlagsOK, ValuesOK
  <2>2. (GateHasExit /\ TimersBelongToActiveSync /\ StageAgreesWithFlag /\ Armed /\ Resting)'
    BY <1>3 DEF ReportChunk, Chunk
  <2> QED
    BY <2>1, <2>2
<1> QED
  BY <1>1, <1>2, <1>3 DEF HistoryNext

\* A timer fires.
LEMMA FireKeepsIInv ==
    ASSUME IInv, NEW f \in Finishers, FireSettle(f) \/ FireDeadline(f)
    PROVE  IInv'
<1> USE DEF IInv, TypeOK, GateHasExit, TimersBelongToActiveSync, StageAgreesWithFlag,
            Armed, Resting, Stages, FinishTail, lifeVars, historyVars
<1>1. CASE FireSettle(f)
  BY <1>1 DEF FireSettle
<1>2. CASE FireDeadline(f)
  BY <1>2 DEF FireDeadline
<1> QED
  BY <1>1, <1>2

\* finish, one step at a time.
LEMMA FinishKeepsIInv ==
    ASSUME IInv, NEW f \in Finishers, FinishNext(f)
    PROVE  IInv'
<1> USE DEF IInv, TypeOK, GateHasExit, TimersBelongToActiveSync, StageAgreesWithFlag,
            Armed, Resting, Stages, FinishTail, lifeVars, trackerVars, historyVars
<1>1. CASE FinishEnter(f)
  BY <1>1 DEF FinishEnter, FinishLocked
<1>2. CASE FinishReconcile(f)
  BY <1>2 DEF FinishReconcile, Reconciled
<1>3. CASE FinishPersist(f)
  BY <1>3 DEF FinishPersist, SetMeta
<1>4. CASE FinishReport(f)
  BY <1>4 DEF FinishReport, ReportLocked
<1> QED
  BY <1>1, <1>2, <1>3, <1>4 DEF FinishNext

LEMMA StepKeepsIInv == IInv /\ [Next]_vars => IInv'
<1> SUFFICES ASSUME IInv, [Next]_vars PROVE IInv'
  OBVIOUS
<1>1. CASE Next
  BY <1>1, LifeKeepsIInv, CrashKeepsIInv, EventKeepsIInv, HistoryKeepsIInv,
     FireKeepsIInv, FinishKeepsIInv
  DEF Next
<1>2. CASE UNCHANGED vars
  BY <1>2
  DEF IInv, TypeOK, GateHasExit, TimersBelongToActiveSync, StageAgreesWithFlag, Armed,
      Resting, vars, lifeVars, trackerVars, historyVars
<1> QED
  BY <1>1, <1>2

LEMMA IInvHolds == Spec => []IInv
  BY InitIInv, StepKeepsIInv, PTL DEF Spec

-----------------------------------------------------------------------------
(* The progress bar.                                                       *)

\* What the bar shows for a gating stage, and that a further chunk raises it.
LEMMA ProgressBounds ==
    ASSUME NEW s \in Gating, NEW n \in Nat
    PROVE  /\ Progress(s, n) \in 0..760
           /\ s = "CONNECTING" => Progress(s, n) = 0
           /\ s = "CONTACTS" => Progress(s, n) = 80
           /\ s = "FINALIZING" => Progress(s, n) = 760
           /\ s # "FINALIZING" => Progress("HISTORY", n + 1) >= Progress(s, n)
  BY DEF Gating, Progress, ExpectedChunks, ProgressContacts, ProgressHistory,
         ProgressFinalizing

\* A step that leaves the page up leaves the stage alone or moves it forward.
LEMMA StepMovesForward ==
    ASSUME IInv, [Next]_vars, Gated, Gated'
    PROVE  \/ stage' = stage /\ chunks' = chunks
           \/ stage = "CONNECTING" /\ stage' = "CONTACTS"
           \/ stage' = "HISTORY" /\ stage \in {"CONNECTING", "CONTACTS", "HISTORY"}
                  /\ chunks' = chunks + 1
           \/ stage' = "FINALIZING"
<1> USE DEF Gated, Gating, IInv, Resting, trackerVars
<1>1. CASE LifeNext
  BY <1>1
  DEF LifeNext, Load, StartPaired, StartUnpaired, StartClearsFlag, StartFails, ScanQR,
      QRSuccess, LoggedOut, LogoutClearsFlag, Begin, ResetLocked
<1>2. CASE Crash
  BY <1>2 DEF Crash
<1>3. CASE EventNext
  BY <1>3
  DEF EventNext, OnConnected, OnAppStateSyncComplete, OnHistorySync, Connected, Contacts, Reconciled
<1>4. CASE HistoryNext
  BY <1>4 DEF HistoryNext, WorkerTakes, WriteConversations, ReportChunk, Chunk
<1>5. ASSUME NEW f \in Finishers, FireSettle(f) \/ FireDeadline(f) \/ FinishNext(f)
      PROVE  \/ stage' = stage /\ chunks' = chunks
             \/ stage' = "FINALIZING"
  BY <1>5
  DEF FireSettle, FireDeadline, FinishNext, FinishEnter, FinishReconcile, FinishPersist,
      FinishReport, FinishLocked, ReportLocked
<1>6. CASE UNCHANGED vars
  BY <1>6 DEF vars
<1> QED
  BY <1>1, <1>2, <1>3, <1>4, <1>5, <1>6 DEF Next

LEMMA StepKeepsBar ==
    ASSUME IInv, [Next]_vars, Gated, Gated'
    PROVE  Progress(stage', chunks') >= Progress(stage, chunks)
<1>1. chunks \in Nat
  BY DEF IInv, TypeOK
<1>2. stage \in Gating
  BY DEF Gated
<1>3. stage' \in Gating /\ chunks' \in Nat
  BY StepKeepsIInv DEF IInv, TypeOK, Gated
<1>4. CASE stage' = stage /\ chunks' = chunks
  <2>1. Progress(stage', chunks') = Progress(stage, chunks)
    BY <1>4
  <2>2. Progress(stage, chunks) \in Int
    BY <1>1, <1>2, ProgressBounds
  <2> QED
    BY <2>1, <2>2
<1>5. CASE stage = "CONNECTING" /\ stage' = "CONTACTS"
  BY <1>1, <1>2, <1>3, <1>5, ProgressBounds
<1>6. CASE /\ stage' = "HISTORY" /\ stage \in {"CONNECTING", "CONTACTS", "HISTORY"}
           /\ chunks' = chunks + 1
  <2>1. Progress(stage', chunks') = Progress("HISTORY", chunks + 1)
    BY <1>6
  <2>2. Progress("HISTORY", chunks + 1) >= Progress(stage, chunks)
    BY <1>1, <1>2, <1>6, ProgressBounds
  <2> QED
    BY <2>1, <2>2
<1>7. CASE stage' = "FINALIZING"
  <2>1. Progress(stage', chunks') = 760
    BY <1>3, <1>7, ProgressBounds
  <2>2. Progress(stage, chunks) \in 0..760
    BY <1>1, <1>2, ProgressBounds
  <2> QED
    BY <2>1, <2>2
<1>8. \/ stage' = stage /\ chunks' = chunks
      \/ stage = "CONNECTING" /\ stage' = "CONTACTS"
      \/ stage' = "HISTORY" /\ stage \in {"CONNECTING", "CONTACTS", "HISTORY"}
             /\ chunks' = chunks + 1
      \/ stage' = "FINALIZING"
  BY StepMovesForward
<1> QED
  BY <1>4, <1>5, <1>6, <1>7, <1>8

-----------------------------------------------------------------------------
(* The reconciliation.                                                     *)

\* While rows that were counted are untidied, the finish that put the tracker
\* into FINALIZING has still to reconcile them.
Tidying == (stage = "FINALIZING" /\ "counted" \in loose) => \E f \in Finishers : pc[f] = "reconcile"

LEMMA StepKeepsTidying == IInv /\ Tidying /\ [Next]_vars => Tidying'
<1> SUFFICES ASSUME IInv, Tidying, [Next]_vars PROVE Tidying'
  OBVIOUS
<1> USE DEF Tidying, IInv, Resting, trackerVars, historyVars
<1>1. CASE LifeNext
  BY <1>1
  DEF LifeNext, Load, StartPaired, StartUnpaired, StartClearsFlag, StartFails, ScanQR,
      QRSuccess, LoggedOut, LogoutClearsFlag, Begin, ResetLocked
<1>2. CASE Crash
  BY <1>2 DEF Crash
<1>3. CASE EventNext
  BY <1>3
  DEF EventNext, OnConnected, OnAppStateSyncComplete, OnHistorySync, Connected, Contacts, Reconciled
<1>4. CASE HistoryNext
  BY <1>4 DEF HistoryNext, WorkerTakes, WriteConversations, ReportChunk, Chunk
<1>5. ASSUME NEW f \in Finishers, FireSettle(f) \/ FireDeadline(f) \/ FinishReconcile(f)
      PROVE  Tidying'
  BY <1>5 DEF FireSettle, FireDeadline, FinishReconcile, Reconciled, TypeOK
<1>6. ASSUME NEW f \in Finishers, FinishEnter(f) PROVE Tidying'
  BY <1>6 DEF FinishEnter, FinishLocked, TypeOK
<1>7. ASSUME NEW f \in Finishers, FinishPersist(f) \/ FinishReport(f) PROVE Tidying'
  BY <1>7 DEF FinishPersist, FinishReport, ReportLocked, TypeOK
<1>8. CASE UNCHANGED vars
  BY <1>8 DEF vars
<1> QED
  BY <1>1, <1>2, <1>3, <1>4, <1>5, <1>6, <1>7, <1>8 DEF Next, FinishNext

\* Only a finish that reports takes the tracker from FINALIZING to DONE.
LEMMA ReleaseIsReport ==
    ASSUME IInv, [Next]_vars, stage = "FINALIZING", stage' = "DONE"
    PROVE  \E f \in Finishers : pc[f] = "report"
<1> USE DEF IInv, Resting, trackerVars
<1>1. ~LifeNext
  BY DEF LifeNext, Load, StartPaired, StartUnpaired, StartClearsFlag, StartFails, ScanQR,
         QRSuccess, LoggedOut, LogoutClearsFlag, Begin, ResetLocked
<1>2. ~Crash /\ ~EventNext /\ ~HistoryNext /\ vars' # vars
  BY DEF Crash, EventNext, OnConnected, OnAppStateSyncComplete, OnHistorySync, Connected,
         Contacts, HistoryNext, WorkerTakes, WriteConversations, ReportChunk, Chunk, vars
<1>3. ASSUME NEW f \in Finishers, FireSettle(f) \/ FireDeadline(f) \/ FinishNext(f)
      PROVE  pc[f] = "report"
  BY <1>3
  DEF FireSettle, FireDeadline, FinishNext, FinishEnter, FinishReconcile, FinishPersist,
      FinishReport, FinishLocked
<1> QED
  BY <1>1, <1>2, <1>3 DEF Next

-----------------------------------------------------------------------------
(* The tracker implements module SyncGate.                                 *)

\* A daemon that has not started its session runs no finish; a session that was
\* logged out has no device when it restarts.
Dormant == life \in {"down", "starting"} => ~Finishing
Unpaired == life \in {"clearing", "restarting"} => ~device

LEMMA LifeIsGated ==
    ASSUME IInv, Dormant, Unpaired, LifeNext
    PROVE  Dormant' /\ Unpaired' /\ [AsGate!Next]_(AsGate!vars)
<1> USE DEF Dormant, Unpaired, Session, Signal, Gated, Gating, IInv, Resting, StageAgreesWithFlag,
            trackerVars
<1>1. pc' = pc /\ Finishing' = Finishing
  BY DEF LifeNext, Load, StartPaired, StartUnpaired, StartClearsFlag, StartFails, ScanQR, QRSuccess,
         LoggedOut, LogoutClearsFlag, Finishing
<1> USE DEF AsGate!Next, AsGate!vars
<1>2. CASE Load
  BY <1>1, <1>2 DEF Load, AsGate!Restart
<1>3. CASE StartPaired
  BY <1>1, <1>3 DEF StartPaired, Begin, AsGate!Begin
<1>4. CASE StartUnpaired
  BY <1>1, <1>4 DEF StartUnpaired, ResetLocked, AsGate!Await
<1>5. CASE StartFails
  BY <1>1, <1>5 DEF StartFails, AsGate!GiveUp
<1>6. CASE StartClearsFlag \/ LogoutClearsFlag
  <2>1. /\ UNCHANGED <<device, active, stage>>
        /\ \/ life = "rearming" /\ life' = "pairing"
           \/ life = "clearing" /\ life' = "restarting"
    BY <1>6 DEF StartClearsFlag, LogoutClearsFlag
  <2>2. Session' = Session /\ Signal' = Signal
    BY <2>1
  <2> QED
    BY <1>1, <2>1, <2>2
<1>7. CASE ScanQR
  BY <1>1, <1>7 DEF ScanQR, AsGate!Scan
<1>8. CASE QRSuccess
  BY <1>1, <1>8 DEF QRSuccess, Begin, AsGate!Begin
<1>9. CASE LoggedOut
  BY <1>1, <1>9 DEF LoggedOut, ResetLocked, AsGate!LogOut
<1> QED
  BY <1>2, <1>3, <1>4, <1>5, <1>6, <1>7, <1>8, <1>9 DEF LifeNext

LEMMA EventsAreGated ==
    ASSUME IInv, Dormant, Unpaired, EventNext \/ HistoryNext
    PROVE  Dormant' /\ Unpaired' /\ [AsGate!Next]_(AsGate!vars)
<1> USE DEF IInv, Resting, trackerVars, historyVars, lifeVars
<1>1. UNCHANGED <<life, device, pc>>
  BY DEF EventNext, OnConnected, OnAppStateSyncComplete, OnHistorySync, Connected, Contacts,
         HistoryNext, WorkerTakes, WriteConversations, ReportChunk, Chunk
<1>2. Session' = Session /\ Finishing' = Finishing /\ Dormant' /\ Unpaired'
  BY <1>1 DEF Session, Finishing, Dormant, Unpaired
<1>3. \/ UNCHANGED <<active, stage>>
      \/ active /\ active' = active /\ stage \in Gating /\ stage' \in Gating
      \/ active /\ active' = active /\ stage' \in Gating
  BY DEF EventNext, OnConnected, OnAppStateSyncComplete, OnHistorySync, Connected, Contacts,
         HistoryNext, WorkerTakes, WriteConversations, ReportChunk, Chunk, Gating
<1>4. CASE UNCHANGED <<active, stage>>
  BY <1>2, <1>4 DEF Signal, Gated, AsGate!vars
<1>5. CASE active /\ active' = active /\ stage' \in Gating
  BY <1>2, <1>5 DEF Signal, Gated, AsGate!Next, AsGate!Proceed
<1> QED
  BY <1>2, <1>3, <1>4, <1>5

LEMMA FinishIsGated ==
    ASSUME IInv, Dormant, Unpaired, NEW f \in Finishers,
           FireSettle(f) \/ FireDeadline(f) \/ FinishNext(f)
    PROVE  Dormant' /\ Unpaired' /\ [AsGate!Next]_(AsGate!vars)
<1> USE DEF IInv, lifeVars
<1>1. UNCHANGED <<life, device>> /\ Session' = Session
  BY DEF FireSettle, FireDeadline, FinishNext, FinishEnter, FinishReconcile, FinishPersist,
         FinishReport, Session
<1>2. Unpaired'
  BY <1>1 DEF Unpaired
<1>3. life \in {"down", "starting"} => ~active /\ ~settle /\ ~deadline
  BY DEF Resting, TimersBelongToActiveSync
<1>4. pc \in [Finishers -> {"idle", "fired"} \cup FinishTail]
  BY DEF TypeOK
<1>5. CASE FireSettle(f) \/ FireDeadline(f)
  <2>1. pc' = [pc EXCEPT ![f] = "fired"] /\ pc[f] = "idle" /\ UNCHANGED <<active, stage>>
        /\ (settle \/ deadline)
    BY <1>5 DEF FireSettle, FireDeadline
  <2>2. Finishing' <=> Finishing
    BY <1>4, <2>1 DEF Finishing, FinishTail
  <2> QED
    BY <1>1, <1>2, <2>1, <2>2 DEF Dormant, Signal, Gated, AsGate!vars, Finishing
<1>6. CASE FinishEnter(f) /\ ~active
  <2>1. pc' = [pc EXCEPT ![f] = "idle"] /\ pc[f] = "fired" /\ UNCHANGED <<active, stage>>
    BY <1>6 DEF FinishEnter, trackerVars
  <2>2. Finishing' <=> Finishing
    BY <1>4, <2>1 DEF Finishing, FinishTail
  <2> QED
    BY <1>1, <1>2, <2>1, <2>2 DEF Dormant, Signal, Gated, AsGate!vars, Finishing
<1>7. CASE FinishEnter(f) /\ active
  <2>1. pc' = [pc EXCEPT ![f] = "reconcile"] /\ active' = FALSE /\ stage' = "FINALIZING"
    BY <1>7 DEF FinishEnter, FinishLocked
  <2>2. Finishing'
    BY <1>4, <2>1 DEF Finishing, FinishTail
  <2>3. Signal' = "GATED" /\ life \notin {"down", "starting"}
    BY <1>3, <1>7, <2>1 DEF Signal, Gated, Gating
  <2> QED
    BY <1>1, <1>2, <1>7, <2>1, <2>2, <2>3 DEF Dormant, AsGate!Next, AsGate!Finish, Finishing
<1>8. CASE FinishReconcile(f) \/ FinishPersist(f)
  <2>1. /\ UNCHANGED <<active, stage>> /\ pc[f] \in FinishTail
        /\ pc' = [pc EXCEPT ![f] = "persist"] \/ pc' = [pc EXCEPT ![f] = "report"]
    BY <1>8 DEF FinishReconcile, FinishPersist, trackerVars, FinishTail
  <2>2. Finishing' /\ Finishing
    BY <1>4, <2>1 DEF Finishing, FinishTail
  <2> QED
    BY <1>1, <1>2, <2>1, <2>2 DEF Dormant, Signal, Gated, AsGate!vars, Finishing
<1>9. CASE FinishReport(f)
  <2>1. pc[f] = "report" /\ active' = active /\ stage' = "DONE"
    BY <1>9 DEF FinishReport, ReportLocked
  <2>2. Finishing /\ Finishing' \in BOOLEAN
    BY <2>1 DEF Finishing, FinishTail
  <2>3. Signal' = "DONE" /\ Dormant'
    BY <1>1, <2>1, <2>2 DEF Signal, Gated, Gating, Dormant
  <2> QED
    BY <1>1, <1>2, <2>1, <2>2, <2>3 DEF AsGate!Next, AsGate!Report
<1> QED
  BY <1>5, <1>6, <1>7, <1>8, <1>9 DEF FinishNext

LEMMA StepIsGated ==
    ASSUME IInv, Dormant, Unpaired, [Next]_vars
    PROVE  Dormant' /\ Unpaired' /\ [AsGate!Next]_(AsGate!vars)
<1>1. CASE Crash
  <2>1. ~Finishing' /\ Session' = "boot" /\ Signal' = "IDLE" /\ active' = FALSE /\ life' = "down"
    BY <1>1 DEF Crash, Finishing, FinishTail, Session, Signal, Gated, Gating
  <2>2. Finishing' = FALSE
    BY <2>1 DEF Finishing
  <2> QED
    BY <2>1, <2>2 DEF Dormant, Unpaired, AsGate!Next, AsGate!Restart
<1>2. CASE UNCHANGED vars
  BY <1>2 DEF vars, lifeVars, trackerVars, Dormant, Unpaired, Finishing, Session, Signal, Gated, AsGate!vars
<1> QED
  BY <1>1, <1>2, LifeIsGated, EventsAreGated, FinishIsGated DEF Next

-----------------------------------------------------------------------------
(* Theorems.                                                               *)

\* Every variable keeps its type: in particular the history queue never exceeds
\* its capacity, whatever the capacity (session.go:264-270).
THEOREM TypeCorrectness == Spec => []TypeOK
  BY IInvHolds, PTL DEF IInv

\* The client is never left on the progress page by a tracker with no way out
\* (sync.go:22-24).
THEOREM GateAlwaysHasExit == Spec => []GateHasExit
  BY IInvHolds, PTL DEF IInv

\* No timer of an earlier sync survives into a later one or into none
\* (finish, Reset: sync.go:186-239).
THEOREM TimersNeverOutliveSync == Spec => []TimersBelongToActiveSync
  BY IInvHolds, PTL DEF IInv

\* The stage shown and the completion flag never contradict each other.
THEOREM StageAlwaysAgrees == Spec => []StageAgreesWithFlag
  BY IInvHolds, PTL DEF IInv

\* The progress bar never runs backwards, whatever the number of chunks and the
\* order of the events (sync.go:83-98).
THEOREM BarAlwaysAdvances == Spec => BarNeverRunsBack
<1>1. IInv /\ [Next]_vars =>
        [Gated /\ Gated' => Progress(stage', chunks') >= Progress(stage, chunks)]_vars
  BY StepKeepsBar
<1> QED
  BY <1>1, IInvHolds, PTL DEF Spec, BarNeverRunsBack

\* The page is not released over counted rows that no reconciliation has seen
\* (sync.go:184-185), for any number of finishers.
THEOREM CountedRowsAlwaysTidied == Spec => CountedRowsTidied
<1>1. Init => Tidying
  BY DEF Init, Tidying
<1>2. Spec => []Tidying
  BY <1>1, IInvHolds, StepKeepsTidying, PTL DEF Spec
<1>3. IInv /\ Tidying /\ [Next]_vars =>
        [(stage = "FINALIZING" /\ stage' = "DONE"
             /\ \E f \in Finishers : \A g \in Finishers : pc[g] \in FinishTail => g = f)
          => "counted" \notin loose]_vars
  BY ReleaseIsReport DEF Tidying, FinishTail
<1> QED
  BY <1>2, <1>3, IInvHolds, PTL DEF Spec, CountedRowsTidied

\* Whatever timers fire, finishes overtake logouts and crashes strike, the tracker
\* gates its clients as module SyncGate promises (sync.go).
THEOREM TrackerImplementsGate == Spec => ImplementsGate
<1>1. Init => Dormant /\ Unpaired /\ AsGate!Init
  <2> SUFFICES ASSUME Init PROVE Dormant /\ Unpaired /\ AsGate!Init
    OBVIOUS
  <2>1. ~Finishing /\ (Finishing = FALSE)
    BY DEF Init, Finishing, FinishTail
  <2> QED
    BY <2>1 DEF Init, Dormant, Unpaired, Session, Signal, Gated, Gating, AsGate!Init
<1>2. IInv /\ Dormant /\ Unpaired /\ [Next]_vars => Dormant' /\ Unpaired' /\ [AsGate!Next]_(AsGate!vars)
  BY StepIsGated
<1> QED
  BY <1>1, <1>2, IInvHolds, PTL DEF Spec, ImplementsGate, AsGate!Spec

-----------------------------------------------------------------------------
(* Pictures and names.                                                     *)
(*                                                                         *)
(* None of the properties is inductive: they speak of the moment when      *)
(* nothing is under way.  PictureGood says what holds of a user before     *)
(* that moment.  Once no picture event of the user waits, every lookup     *)
(* that is under way began after the last change was handled, so it has    *)
(* the present picture, and what the last event for the window says is     *)
(* true.  NameGood is the same of the lookups of a name.                   *)

Lookups == {"rpc", "event"}

\* A goroutine that is not free works for a user.
JobsTyped ==
    /\ job \in [Jobs -> JobRecord]
    /\ \A j \in Jobs : job[j].kind # "free" => job[j].user \in Users

\* A picture event of u waits; a contact event of u waits.
IsPicture(e, u) == e.user = u /\ e.type # "contact"
IsContact(e, u) == e.user = u /\ e.type = "contact"
PictureNews(s, u) == \E i \in DOMAIN s : IsPicture(s[i], u)
ContactNews(s, u) == \E i \in DOMAIN s : IsContact(s[i], u)

\* The last picture event of a user says whether there is a picture.
LastPictureTold(s, u, pic) ==
    \A i \in DOMAIN s :
        (/\ IsPicture(s[i], u)
         /\ \A k \in DOMAIN s : k > i => ~IsPicture(s[k], u))
        => (s[i].type = "removed" <=> pic = 0)
NewsGood == \A u \in Users : LastPictureTold(news, u, picture[u])

FileGood(file, pic) == file \in {0, pic}
EntryGood(entry, file, pic) ==
    /\ entry = "none" => pic = 0
    /\ entry = "file" => FileGood(file, pic)

LookupOf(r, kinds, u) == r.kind \in kinds /\ r.user = u
InLookup(jobs, kinds, u) == \E j \in Jobs : LookupOf(jobs[j], kinds, u)

\* A lookup that has learnt the picture has learnt the present one.
LookupGood(r, u, file, pic) ==
    LookupOf(r, Lookups, u) =>
        /\ r.phase # "failed"
        /\ r.phase \in {"loading", "putting", "done"} => r.got = pic
        /\ (r.phase = "putting" \/ (r.phase = "done" /\ r.got # 0)) => FileGood(file, pic)

\* The last event for the window says what the file or its absence says.
FeedGood(s, u, file, pic) ==
    \A i \in DOMAIN s :
        (/\ s[i].user = u
         /\ \A k \in DOMAIN s : k > i => s[k].user # u)
        => IF s[i].path THEN FileGood(file, pic) ELSE pic = 0

InFeed(s, u) == \E i \in DOMAIN s : s[i].user = u

PictureGood(u) ==
    /\ EntryGood(entries[u], disk[u], picture[u])
    /\ \A j \in Jobs : LookupGood(job[j], u, disk[u], picture[u])
    /\ InLookup(job, {"event"}, u) \/ FeedGood(feed, u, disk[u], picture[u])
    /\ InLookup(job, Lookups, u) \/ InFeed(feed, u) \/ avatars[u] \in {Unknown, picture[u]}

PicturesGood == \A u \in Users \ overtaken : PictureNews(news, u) \/ PictureGood(u)

\* A name that is remembered, or about to be, is the present one.
NameGood(u) ==
    /\ names[u] \in {Unknown, contact[u]}
    /\ \A j \in Jobs : (Running(j, {"name"}, "putting") /\ job[j].user = u) => job[j].got = contact[u]
NamesGood ==
    \A u \in Users \ crossed : contact[u] = 0 \/ ContactNews(news, u) \/ NameGood(u)

ProfilesIInv ==
    /\ ProfilesTypeOK /\ JobsTyped
    /\ WidgetsAgree
    /\ NewsGood /\ PicturesGood
    /\ NamesGood

-----------------------------------------------------------------------------
(* Every variable keeps its type, and a goroutine its user.                *)

Typed == ProfilesTypeOK /\ JobsTyped

News == [type : {"picture", "removed", "contact"}, user : Users]
FeedEvent == [user : Users, path : BOOLEAN]

LEMMA ZeroIsVersion == 0 \in Versions /\ 0 \in 0..MaxFaults
  BY MaxChangesAssumption, MaxFaultsAssumption DEF Versions

LEMMA FreeTyped == Free \in JobRecord
  BY ZeroIsVersion DEF Free, JobRecord

LEMMA InitTyped == ProfilesInit => Typed
<1> SUFFICES ASSUME ProfilesInit PROVE Typed
  OBVIOUS
<1>1. /\ picture \in [Users -> Versions] /\ contact \in [Users -> Versions]
      /\ disk \in [Users -> Versions]
      /\ names \in [Users -> Versions \cup {Unknown}]
      /\ avatars \in [Users -> Versions \cup {Unknown}]
      /\ row \in [Rows -> [user : Users \cup {None}, image : Versions]]
  BY ZeroIsVersion DEF ProfilesInit
<1>2. job \in [Jobs -> JobRecord] /\ \A j \in Jobs : job[j].kind = "free"
  BY FreeTyped DEF ProfilesInit, Free
<1>3. changes \in 0..MaxChanges /\ faults \in 0..MaxFaults
  BY ZeroIsVersion DEF ProfilesInit, Versions
<1>4. news = <<>> /\ feed = <<>> /\ entries \in [Users -> {"miss", "none", "file"}]
  BY DEF ProfilesInit
<1>5. overtaken = {} /\ crossed = {} /\ mapped \in BOOLEAN
  BY DEF ProfilesInit
<1> QED
  BY <1>1, <1>2, <1>3, <1>4, <1>5 DEF Typed, ProfilesTypeOK, JobsTyped

\* One goroutine takes a step.
LEMMA JobStep ==
    ASSUME JobsTyped, NEW j \in Jobs, NEW r \in JobRecord,
           r.kind # "free" => r.user \in Users,
           job' = [job EXCEPT ![j] = r]
    PROVE  JobsTyped'
  BY DEF JobsTyped

LEMMA JobEnds ==
    ASSUME JobsTyped, NEW j \in Jobs, job' = [job EXCEPT ![j] = Free]
    PROVE  JobsTyped'
<1>1. Free.kind = "free"
  BY DEF Free
<1> QED
  BY <1>1, FreeTyped, JobStep

LEMMA JobStarts ==
    ASSUME JobsTyped, NEW u \in Users, NEW kind \in {"rpc", "event", "name"},
           NEW phase \in {"start", "done"}, Start(kind, u, phase)
    PROVE  JobsTyped'
<1>1. PICK j \in Jobs :
        job' = [job EXCEPT ![j] = [kind |-> kind, phase |-> phase, user |-> u, got |-> 0]]
  BY DEF Start
<1>2. [kind |-> kind, phase |-> phase, user |-> u, got |-> 0] \in JobRecord
  BY ZeroIsVersion DEF JobRecord
<1> QED
  BY <1>1, <1>2, JobStep

LEMMA FaultTyped == ProfilesTypeOK /\ Fault => changes' \in 0..MaxChanges /\ faults' \in 0..MaxFaults
  BY MaxFaultsAssumption DEF ProfilesTypeOK, Fault

LEMMA ChangeTyped ==
    ProfilesTypeOK /\ Change => /\ changes' \in 0..MaxChanges /\ faults' \in 0..MaxFaults
                        /\ changes + 1 \in Versions
  BY MaxChangesAssumption DEF ProfilesTypeOK, Change, Versions

LEMMA LookupTyped ==
    ASSUME Typed, NEW j \in Jobs,
           \/ LookUpCache(j) \/ AskServer(j) \/ DownloadAvatar(j) \/ PutAvatar(j)
           \/ LookupFails(j) \/ PublishPicture(j) \/ ReadContacts(j) \/ ReadFails(j) \/ PutName(j)
    PROVE  Typed'
<1> USE AltAssumption
    DEF Typed, ProfilesTypeOK, Running, To, serverVars, cacheVars, windowVars, history, bounds
<1>0. job[j] \in JobRecord /\ (job[j].kind # "free" => job[j].user \in Users)
  BY DEF JobsTyped
<1>1. CASE LookUpCache(j)
  <2> DEFINE u == job[j].user
             known == entries[u] = "none" \/ (entries[u] = "file" /\ disk[u] # 0)
             r == [job[j] EXCEPT !.phase = IF known THEN "done" ELSE "asking",
                                 !.got = IF entries[u] = "file" THEN disk[u] ELSE 0]
  <2>1. u \in Users
    BY <1>0, <1>1 DEF LookUpCache
  <2>2. r \in JobRecord /\ r.user = u
    BY <1>0, <2>1, ZeroIsVersion DEF JobRecord
  <2>3. JobsTyped'
    <3>1. job' = [job EXCEPT ![j] = r]
      BY <1>1 DEF LookUpCache, JobsTyped
    <3> QED
      BY <2>1, <2>2, <3>1, JobStep
  <2> QED
    BY <1>1, <2>1, <2>3 DEF LookUpCache, JobsTyped
<1>2. CASE AskServer(j)
  <2> DEFINE u == job[j].user
             r == [job[j] EXCEPT !.phase = IF picture[u] = 0 THEN "done" ELSE "loading",
                                 !.got = picture[u]]
  <2>1. u \in Users
    BY <1>0, <1>2 DEF AskServer
  <2>2. r \in JobRecord /\ r.user = u
    BY <1>0, <2>1 DEF JobRecord
  <2>3. JobsTyped'
    <3>1. job' = [job EXCEPT ![j] = r]
      BY <1>2 DEF AskServer, JobsTyped
    <3> QED
      BY <2>1, <2>2, <3>1, JobStep
  <2> QED
    BY <1>2, <2>1, <2>3 DEF AskServer, JobsTyped
<1>3. CASE DownloadAvatar(j) \/ PutAvatar(j)
  <2> DEFINE r(phase) == [job[j] EXCEPT !.phase = phase]
  <2>1. job[j].user \in Users
    BY <1>0, <1>3 DEF DownloadAvatar, PutAvatar
  <2>2. \A phase \in {"putting", "done"} : r(phase) \in JobRecord /\ r(phase).user = job[j].user
    BY <1>0 DEF JobRecord
  <2>3. JobsTyped'
    <3>1. \E phase \in {"putting", "done"} : job' = [job EXCEPT ![j] = r(phase)]
      BY <1>3 DEF DownloadAvatar, PutAvatar, JobsTyped
    <3> QED
      BY <2>1, <2>2, <3>1, JobStep
  <2>4. job[j].got \in Versions
    BY <1>0 DEF JobRecord
  <2> QED
    BY <1>3, <2>1, <2>3, <2>4 DEF DownloadAvatar, PutAvatar, JobsTyped
<1>4. CASE LookupFails(j)
  <2>1. job[j].user \in Users
    BY <1>0, <1>4 DEF LookupFails
  <2>2. JobsTyped'
    <3>1. CASE job[j].kind = "rpc"
      <4> DEFINE r == [job[j] EXCEPT !.phase = "failed"]
      <4>1. r \in JobRecord /\ r.user = job[j].user
        BY <1>0 DEF JobRecord
      <4>2. job' = [job EXCEPT ![j] = r]
        BY <1>4, <3>1 DEF LookupFails, JobsTyped
      <4> QED
        BY <2>1, <4>1, <4>2, JobStep
    <3>2. CASE job[j].kind # "rpc"
      BY <1>4, <3>2, JobEnds DEF LookupFails
    <3> QED
      BY <3>1, <3>2
  <2> QED
    BY <1>4, <2>1, <2>2, FaultTyped DEF LookupFails, JobsTyped
<1>5. CASE PublishPicture(j)
  <2>1. job[j].user \in Users
    BY <1>0, <1>5 DEF PublishPicture
  <2>2. JobsTyped'
    BY <1>5, JobEnds DEF PublishPicture
  <2>3. Append(feed, [user |-> job[j].user, path |-> job[j].got # 0]) \in Seq(FeedEvent)
    BY <2>1 DEF FeedEvent
  <2> QED
    BY <1>5, <2>1, <2>2, <2>3, FaultTyped DEF PublishPicture, JobsTyped, FeedEvent
<1>6. CASE ReadContacts(j) \/ ReadFails(j)
  <2>1. job[j].user \in Users
    BY <1>0, <1>6 DEF ReadContacts, ReadFails
  <2>2. PICK name \in Versions : job' = [job EXCEPT ![j].phase = "putting", ![j].got = name]
    BY <1>6, <2>1, ZeroIsVersion DEF ReadContacts, ReadFails, Resolved
  <2> DEFINE r == [job[j] EXCEPT !.phase = "putting", !.got = name]
  <2>3. r \in JobRecord /\ r.user = job[j].user
    BY <1>0, <2>1 DEF JobRecord
  <2>4. JobsTyped'
    <3>1. job' = [job EXCEPT ![j] = r]
      BY <2>2 DEF JobsTyped
    <3> QED
      BY <2>1, <2>3, <3>1, JobStep
  <2> QED
    BY <1>6, <2>1, <2>4, FaultTyped DEF ReadContacts, ReadFails, JobsTyped
<1>7. CASE PutName(j)
  <2>1. job[j].user \in Users /\ job[j].got \in Versions
    BY <1>0, <1>7 DEF PutName, JobRecord
  <2>2. JobsTyped'
    BY <1>7, JobEnds DEF PutName
  <2> QED
    BY <1>7, <2>1, <2>2 DEF PutName, JobsTyped
<1> QED
  BY <1>1, <1>2, <1>3, <1>4, <1>5, <1>6, <1>7

LEMMA EventTyped ==
    ASSUME Typed,
           \/ OnPictureChanged \/ DropName \/ ResetNames \/ Restart \/ LearnMapping
           \/ \E u \in Users :
                 PictureChanges(u) \/ ContactChanges(u) \/ ContactName(u) \/ RemoveFile(u)
    PROVE  Typed'
<1> USE DEF Typed, ProfilesTypeOK, serverVars, cacheVars, windowVars, history, bounds
<1>0. /\ news # <<>> => Head(news).user \in Users /\ Tail(news) \in Seq(News)
      /\ <<>> \in Seq(News) /\ <<>> \in Seq(FeedEvent)
  <2>1. news \in Seq(News)
    BY DEF News
  <2>2. news # <<>> => Head(news) \in News /\ Tail(news) \in Seq(News)
    BY <2>1
  <2> QED
    BY <2>2 DEF News
<1>1. CASE OnPictureChanged
  <2> DEFINE u == Head(news).user
  <2>1. JobsTyped'
    BY <1>0, <1>1, JobStarts DEF OnPictureChanged
  <2>2. entries' \in [Users -> {"miss", "none", "file"}] /\ overtaken' \subseteq Users
    BY <1>0, <1>1 DEF OnPictureChanged
  <2> QED
    BY <1>0, <1>1, <2>1, <2>2 DEF OnPictureChanged, JobsTyped, News
<1>2. CASE DropName
  <2>1. names' \in [Users -> Versions \cup {Unknown}] /\ crossed' \subseteq Users
    BY <1>0, <1>2 DEF DropName
  <2> QED
    BY <1>0, <1>2, <2>1 DEF DropName, JobsTyped, News
<1>3. CASE ResetNames
  BY <1>3, FaultTyped DEF ResetNames, JobsTyped
<1>4. CASE Restart
  <2>1. JobsTyped'
    <3>1. ASSUME NEW j \in Jobs
          PROVE  job'[j] \in JobRecord /\ (job'[j].kind # "free" => job'[j].user \in Users)
      <4>1. job[j] \in JobRecord /\ (job[j].kind # "free" => job[j].user \in Users)
        BY DEF JobsTyped
      <4>2. CASE job[j].kind = "rpc"
        <5>1. job'[j] = [job[j] EXCEPT !.phase = "failed"]
          BY <1>4, <4>2 DEF Restart
        <5> QED
          BY <4>1, <4>2, <5>1 DEF JobRecord
      <4>3. CASE job[j].kind # "rpc"
        <5>1. job'[j] = Free /\ Free.kind = "free"
          BY <1>4, <4>3 DEF Restart, Free
        <5> QED
          BY <5>1, FreeTyped
      <4> QED
        BY <4>2, <4>3
    <3>2. job' = [j \in Jobs |-> job'[j]]
      BY <1>4 DEF Restart
    <3> QED
      BY <3>1, <3>2 DEF JobsTyped
  <2>2. /\ entries' \in [Users -> {"miss", "none", "file"}]
        /\ names' \in [Users -> Versions \cup {Unknown}]
    BY <1>4 DEF Restart
  <2> QED
    BY <1>0, <1>4, <2>1, <2>2, FaultTyped DEF Restart, JobsTyped, News, FeedEvent
<1>5. CASE LearnMapping
  BY <1>5, ChangeTyped DEF LearnMapping, JobsTyped
<1>6. ASSUME NEW u \in Users, PictureChanges(u) PROVE Typed'
  <2>1. PICK v \in {0, changes + 1} :
          /\ picture' = [picture EXCEPT ![u] = v]
          /\ news' = Append(news, [type |-> IF v = 0 THEN "removed" ELSE "picture", user |-> u])
    BY <1>6 DEF PictureChanges
  <2>2. picture' \in [Users -> Versions]
    BY <1>6, <2>1, ZeroIsVersion, ChangeTyped DEF PictureChanges
  <2>3. news' \in Seq(News)
    BY <2>1 DEF News
  <2> QED
    BY <1>6, <2>2, <2>3, ChangeTyped DEF PictureChanges, JobsTyped, News
<1>7. ASSUME NEW u \in Users, ContactChanges(u) PROVE Typed'
  <2>1. news' \in Seq(News)
    BY <1>7 DEF ContactChanges, News
  <2>2. contact' \in [Users -> Versions]
    BY <1>7, ChangeTyped DEF ContactChanges
  <2> QED
    BY <1>7, <2>1, <2>2, ChangeTyped DEF ContactChanges, JobsTyped, News
<1>8. ASSUME NEW u \in Users, ContactName(u) PROVE Typed'
  <2>1. JobsTyped'
    BY <1>8, JobStarts DEF ContactName
  <2> QED
    BY <1>8, <2>1 DEF ContactName, JobsTyped
<1>9. ASSUME NEW u \in Users, RemoveFile(u) PROVE Typed'
  BY <1>9, ZeroIsVersion, FaultTyped DEF RemoveFile, JobsTyped
<1> QED
  BY <1>1, <1>2, <1>3, <1>4, <1>5, <1>6, <1>7, <1>8, <1>9

LEMMA WindowTyped ==
    ASSUME Typed,
           \/ \E j \in Jobs : OnReply(j)
           \/ \E r \in Rows : UnbindAvatar(r) \/ \E u \in Users : BindAvatar(r, u)
           \/ OnProfilePictureUpdated
    PROVE  Typed'
<1> USE DEF Typed, ProfilesTypeOK, serverVars, cacheVars, windowVars, history, bounds
<1>0. ASSUME NEW u \in Users, NEW hasPath \in BOOLEAN, SetAvatar(u, hasPath)
      PROVE  /\ avatars' \in [Users -> Versions \cup {Unknown}]
             /\ row' \in [Rows -> [user : Users \cup {None}, image : Versions]]
             /\ overtaken' \subseteq Users
  BY <1>0, ZeroIsVersion DEF SetAvatar
<1>1. ASSUME NEW j \in Jobs, OnReply(j) PROVE Typed'
  <2>1. job[j].user \in Users
    BY <1>1 DEF OnReply, JobsTyped
  <2>2. JobsTyped'
    BY <1>1, JobEnds DEF OnReply
  <2>3. SetAvatar(job[j].user, job[j].phase = "done" /\ job[j].got # 0)
    BY <1>1 DEF OnReply
  <2> QED
    BY <1>0, <1>1, <2>1, <2>2, <2>3 DEF OnReply, JobsTyped
<1>2. ASSUME NEW r \in Rows, UnbindAvatar(r) PROVE Typed'
  BY <1>2, ZeroIsVersion DEF UnbindAvatar, JobsTyped
<1>3. ASSUME NEW r \in Rows, NEW u \in Users, BindAvatar(r, u) PROVE Typed'
  <2>1. JobsTyped'
    <3>1. CASE UNCHANGED job
      BY <3>1 DEF JobsTyped
    <3>2. CASE Start("rpc", u, "start")
      BY <3>2, JobStarts
    <3> QED
      BY <1>3, <3>1, <3>2 DEF BindAvatar
  <2>2. /\ avatars' \in [Users -> Versions \cup {Unknown}]
        /\ row' \in [Rows -> [user : Users \cup {None}, image : Versions]]
    BY <1>3, ZeroIsVersion DEF BindAvatar
  <2> QED
    BY <1>3, <2>1, <2>2 DEF BindAvatar, JobsTyped
<1>4. CASE OnProfilePictureUpdated
  <2>1. Head(feed) \in FeedEvent /\ Tail(feed) \in Seq(FeedEvent)
    <3>1. feed \in Seq(FeedEvent) /\ feed # <<>>
      BY <1>4 DEF FeedEvent, OnProfilePictureUpdated
    <3> QED
      BY <3>1
  <2>2. Head(feed).user \in Users /\ Head(feed).path \in BOOLEAN
    BY <2>1 DEF FeedEvent
  <2>3. SetAvatar(Head(feed).user, Head(feed).path)
    BY <1>4 DEF OnProfilePictureUpdated
  <2> QED
    BY <1>0, <1>4, <2>1, <2>2, <2>3 DEF OnProfilePictureUpdated, JobsTyped, FeedEvent
<1> QED
  BY <1>1, <1>2, <1>3, <1>4

LEMMA NextTyped == Typed /\ [ProfilesNext]_profilesVars => Typed'
<1> SUFFICES ASSUME Typed, [ProfilesNext]_profilesVars PROVE Typed'
  OBVIOUS
<1>1. CASE UNCHANGED profilesVars
  BY <1>1 DEF Typed, ProfilesTypeOK, JobsTyped, profilesVars, serverVars, cacheVars, windowVars, history, bounds
<1>2. CASE ProfilesNext
  BY <1>2, LookupTyped, EventTyped, WindowTyped DEF ProfilesNext, JobNext, UserNext
<1> QED
  BY <1>1, <1>2

-----------------------------------------------------------------------------
(* What is known of a user's events when one is added or handled.          *)

LEMMA NewsAppended ==
    ASSUME NEW s \in Seq(News), NEW e \in News, NEW u \in Users
    PROVE  /\ PictureNews(Append(s, e), u) <=> PictureNews(s, u) \/ IsPicture(e, u)
           /\ ContactNews(Append(s, e), u) <=> ContactNews(s, u) \/ IsContact(e, u)
<1>1. /\ DOMAIN Append(s, e) = 1..(Len(s) + 1) /\ DOMAIN s = 1..Len(s) /\ Len(s) \in Nat
      /\ \A i \in DOMAIN s : Append(s, e)[i] = s[i]
      /\ Append(s, e)[Len(s) + 1] = e
  OBVIOUS
<1>2. \A i \in 1..(Len(s) + 1) : i \in 1..Len(s) \/ i = Len(s) + 1
  BY <1>1
<1>3. Len(s) + 1 \in 1..(Len(s) + 1) /\ \A i \in 1..Len(s) : i \in 1..(Len(s) + 1)
  BY <1>1
<1> QED
  BY <1>1, <1>2, <1>3 DEF PictureNews, ContactNews

LEMMA NewsHandled ==
    ASSUME NEW s \in Seq(News), s # <<>>, NEW u \in Users
    PROVE  /\ PictureNews(s, u) <=> IsPicture(Head(s), u) \/ PictureNews(Tail(s), u)
           /\ ContactNews(s, u) <=> IsContact(Head(s), u) \/ ContactNews(Tail(s), u)
<1>1. /\ DOMAIN s = 1..Len(s) /\ DOMAIN Tail(s) = 1..(Len(s) - 1) /\ Len(s) \in Nat \ {0}
      /\ \A i \in DOMAIN Tail(s) : Tail(s)[i] = s[i + 1]
      /\ Head(s) = s[1]
  OBVIOUS
<1>2. \A i \in 1..Len(s) : i = 1 \/ (i - 1 \in 1..(Len(s) - 1) /\ s[i] = s[(i - 1) + 1])
  BY <1>1
<1>3. 1 \in 1..Len(s) /\ \A i \in 1..(Len(s) - 1) : i + 1 \in 1..Len(s)
  BY <1>1
<1>4. \A i \in 1..Len(s) : i = 1 \/ (i - 1 \in DOMAIN Tail(s) /\ s[i] = Tail(s)[i - 1])
  BY <1>1, <1>2
<1> QED
  BY <1>1, <1>3, <1>4 DEF PictureNews, ContactNews

LEMMA LastPictureAppended ==
    ASSUME NEW s \in Seq(News), NEW e \in News, NEW u \in Users, NEW pic,
           IF IsPicture(e, u) THEN e.type = "removed" <=> pic = 0 ELSE LastPictureTold(s, u, pic)
    PROVE  LastPictureTold(Append(s, e), u, pic)
<1>1. /\ DOMAIN Append(s, e) = 1..(Len(s) + 1) /\ DOMAIN s = 1..Len(s) /\ Len(s) \in Nat
      /\ \A i \in DOMAIN s : Append(s, e)[i] = s[i]
      /\ Append(s, e)[Len(s) + 1] = e
  OBVIOUS
<1> DEFINE t == Append(s, e)
<1> SUFFICES ASSUME NEW i \in DOMAIN t, IsPicture(t[i], u),
                    \A k \in DOMAIN t : k > i => ~IsPicture(t[k], u)
             PROVE  t[i].type = "removed" <=> pic = 0
  BY DEF LastPictureTold
<1>2. CASE i = Len(s) + 1
  BY <1>1, <1>2
<1>3. CASE i # Len(s) + 1
  <2>1. i \in DOMAIN s /\ t[i] = s[i] /\ Len(s) + 1 \in DOMAIN t /\ Len(s) + 1 > i
    BY <1>1, <1>3
  <2>2. ~IsPicture(e, u)
    BY <1>1, <2>1
  <2>3. \A k \in DOMAIN s : k > i => ~IsPicture(s[k], u)
    BY <1>1, <2>1
  <2> QED
    BY <2>1, <2>2, <2>3 DEF LastPictureTold
<1> QED
  BY <1>2, <1>3

LEMMA LastPictureHandled ==
    ASSUME NEW s \in Seq(News), s # <<>>, NEW u \in Users, NEW pic, LastPictureTold(s, u, pic)
    PROVE  /\ LastPictureTold(Tail(s), u, pic)
           /\ IsPicture(Head(s), u) /\ ~PictureNews(Tail(s), u)
                => (Head(s).type = "removed" <=> pic = 0)
<1>1. /\ DOMAIN s = 1..Len(s) /\ DOMAIN Tail(s) = 1..(Len(s) - 1) /\ Len(s) \in Nat \ {0}
      /\ \A i \in DOMAIN Tail(s) : Tail(s)[i] = s[i + 1]
      /\ Head(s) = s[1]
  OBVIOUS
<1>2. \A k \in DOMAIN s : k > 1 => k - 1 \in DOMAIN Tail(s) /\ s[k] = Tail(s)[k - 1]
  <2> TAKE k \in DOMAIN s
  <2> HAVE k > 1
  <2>1. k - 1 \in 1..(Len(s) - 1) /\ (k - 1) + 1 = k
    BY <1>1
  <2> QED
    BY <1>1, <2>1
<1>3. LastPictureTold(Tail(s), u, pic)
  <2> SUFFICES ASSUME NEW i \in DOMAIN Tail(s), IsPicture(Tail(s)[i], u),
                      \A k \in DOMAIN Tail(s) : k > i => ~IsPicture(Tail(s)[k], u)
               PROVE  Tail(s)[i].type = "removed" <=> pic = 0
    BY DEF LastPictureTold
  <2>1. i + 1 \in DOMAIN s /\ s[i + 1] = Tail(s)[i]
    BY <1>1
  <2>2. ASSUME NEW k \in DOMAIN s, k > i + 1 PROVE ~IsPicture(s[k], u)
    <3>1. k > 1 /\ k - 1 > i
      BY <1>1, <2>2
    <3> QED
      BY <1>2, <3>1
  <2> QED
    BY <2>1, <2>2 DEF LastPictureTold
<1>4. ASSUME IsPicture(Head(s), u), ~PictureNews(Tail(s), u)
      PROVE  Head(s).type = "removed" <=> pic = 0
  <2>1. 1 \in DOMAIN s /\ s[1] = Head(s)
    BY <1>1
  <2>2. \A k \in DOMAIN s : k > 1 => ~IsPicture(s[k], u)
    BY <1>2, <1>4 DEF PictureNews
  <2> QED
    BY <1>4, <2>1, <2>2 DEF LastPictureTold
<1> QED
  BY <1>3, <1>4

LEMMA FeedAppended ==
    ASSUME NEW s \in Seq(FeedEvent), NEW e \in FeedEvent, NEW u \in Users, NEW file, NEW pic,
           e.user = u => IF e.path THEN FileGood(file, pic) ELSE pic = 0,
           e.user = u \/ FeedGood(s, u, file, pic)
    PROVE  /\ FeedGood(Append(s, e), u, file, pic)
           /\ InFeed(Append(s, e), u) <=> InFeed(s, u) \/ e.user = u
<1>1. /\ DOMAIN Append(s, e) = 1..(Len(s) + 1) /\ DOMAIN s = 1..Len(s) /\ Len(s) \in Nat
      /\ \A i \in DOMAIN s : Append(s, e)[i] = s[i]
      /\ Append(s, e)[Len(s) + 1] = e
  OBVIOUS
<1> DEFINE t == Append(s, e)
<1>2. ASSUME NEW i \in DOMAIN t, t[i].user = u, \A k \in DOMAIN t : k > i => t[k].user # u
      PROVE  IF t[i].path THEN FileGood(file, pic) ELSE pic = 0
  <2>1. CASE i = Len(s) + 1
    BY <1>1, <1>2, <2>1
  <2>2. CASE i # Len(s) + 1
    <3>1. i \in DOMAIN s /\ t[i] = s[i] /\ Len(s) + 1 \in DOMAIN t /\ Len(s) + 1 > i
      BY <1>1, <2>2
    <3>2. e.user # u
      BY <1>1, <1>2, <3>1
    <3>3. \A k \in DOMAIN s : k > i => s[k].user # u
      BY <1>1, <1>2, <3>1
    <3> QED
      BY <1>2, <3>1, <3>2, <3>3 DEF FeedGood
  <2> QED
    BY <2>1, <2>2
<1>3. /\ \A i \in 1..(Len(s) + 1) : i \in 1..Len(s) \/ i = Len(s) + 1
      /\ Len(s) + 1 \in 1..(Len(s) + 1) /\ \A i \in 1..Len(s) : i \in 1..(Len(s) + 1)
  BY <1>1
<1> QED
  BY <1>1, <1>2, <1>3 DEF FeedGood, InFeed

LEMMA FeedHandled ==
    ASSUME NEW s \in Seq(FeedEvent), s # <<>>, NEW u \in Users, NEW file, NEW pic
    PROVE  /\ InFeed(s, u) <=> Head(s).user = u \/ InFeed(Tail(s), u)
           /\ FeedGood(s, u, file, pic) => FeedGood(Tail(s), u, file, pic)
           /\ (FeedGood(s, u, file, pic) /\ Head(s).user = u /\ ~InFeed(Tail(s), u))
                => IF Head(s).path THEN FileGood(file, pic) ELSE pic = 0
<1>1. /\ DOMAIN s = 1..Len(s) /\ DOMAIN Tail(s) = 1..(Len(s) - 1) /\ Len(s) \in Nat \ {0}
      /\ \A i \in DOMAIN Tail(s) : Tail(s)[i] = s[i + 1]
      /\ Head(s) = s[1]
  OBVIOUS
<1>2. \A k \in DOMAIN s : k > 1 => k - 1 \in DOMAIN Tail(s) /\ s[k] = Tail(s)[k - 1]
  <2> TAKE k \in DOMAIN s
  <2> HAVE k > 1
  <2>1. k - 1 \in 1..(Len(s) - 1) /\ (k - 1) + 1 = k
    BY <1>1
  <2> QED
    BY <1>1, <2>1
<1>3. 1 \in DOMAIN s /\ \A i \in DOMAIN Tail(s) : i + 1 \in DOMAIN s
  BY <1>1
<1>4. \A k \in DOMAIN s : k = 1 \/ k > 1
  BY <1>1
<1>5. InFeed(s, u) <=> Head(s).user = u \/ InFeed(Tail(s), u)
  BY <1>1, <1>2, <1>3, <1>4 DEF InFeed
<1>6. ASSUME FeedGood(s, u, file, pic) PROVE FeedGood(Tail(s), u, file, pic)
  <2> SUFFICES ASSUME NEW i \in DOMAIN Tail(s), Tail(s)[i].user = u,
                      \A k \in DOMAIN Tail(s) : k > i => Tail(s)[k].user # u
               PROVE  IF Tail(s)[i].path THEN FileGood(file, pic) ELSE pic = 0
    BY DEF FeedGood
  <2>1. i + 1 \in DOMAIN s /\ s[i + 1] = Tail(s)[i]
    BY <1>1
  <2>2. ASSUME NEW k \in DOMAIN s, k > i + 1 PROVE s[k].user # u
    <3>1. k > 1 /\ k - 1 > i
      BY <1>1, <2>2
    <3> QED
      BY <1>2, <3>1
  <2> QED
    BY <1>6, <2>1, <2>2 DEF FeedGood
<1>7. ASSUME FeedGood(s, u, file, pic), Head(s).user = u, ~InFeed(Tail(s), u)
      PROVE  IF Head(s).path THEN FileGood(file, pic) ELSE pic = 0
  <2>1. \A k \in DOMAIN s : k > 1 => s[k].user # u
    BY <1>2, <1>7 DEF InFeed
  <2> QED
    BY <1>1, <1>3, <1>7, <2>1 DEF FeedGood
<1> QED
  BY <1>5, <1>6, <1>7

-----------------------------------------------------------------------------
(* The widgets.                                                            *)

LEMMA SetAvatarKeepsWidgets ==
    ASSUME Typed, WidgetsAgree, NEW u \in Users, NEW hasPath \in BOOLEAN, SetAvatar(u, hasPath)
    PROVE  WidgetsAgree'
<1> DEFINE image == IF hasPath THEN disk[u] ELSE 0
<1>1. image \in Versions /\ image # Unknown
  BY ZeroIsVersion DEF Typed, ProfilesTypeOK, Versions, Unknown
<1>2. avatars' = [avatars EXCEPT ![u] = image] /\ avatars \in [Users -> Versions \cup {Unknown}]
  BY DEF SetAvatar, Typed, ProfilesTypeOK
<1> SUFFICES ASSUME NEW r \in Rows, row'[r].user # None
             PROVE  row'[r].image = (IF avatars'[row'[r].user] = Unknown THEN 0
                                     ELSE avatars'[row'[r].user])
  BY DEF WidgetsAgree
<1>3. row[r] \in [user : Users \cup {None}, image : Versions]
  BY DEF Typed, ProfilesTypeOK
<1>4. CASE row[r].user = u
  <2>1. row'[r] = [row[r] EXCEPT !.image = image]
    BY <1>4 DEF SetAvatar
  <2>2. row'[r].user = u /\ row'[r].image = image
    BY <1>3, <1>4, <2>1
  <2> QED
    BY <1>1, <1>2, <2>2
<1>5. CASE row[r].user # u
  <2>1. row'[r] = row[r]
    BY <1>5 DEF SetAvatar
  <2>2. row[r].user \in Users /\ avatars'[row[r].user] = avatars[row[r].user]
    BY <1>2, <1>3, <1>5, <2>1
  <2> QED
    BY <2>1, <2>2 DEF WidgetsAgree
<1> QED
  BY <1>4, <1>5

LEMMA NextWidgets == Typed /\ WidgetsAgree /\ [ProfilesNext]_profilesVars => WidgetsAgree'
<1> SUFFICES ASSUME Typed, WidgetsAgree, [ProfilesNext]_profilesVars PROVE WidgetsAgree'
  OBVIOUS
<1>1. CASE UNCHANGED windowVars
  BY <1>1 DEF WidgetsAgree, windowVars
<1>2. ASSUME NEW r \in Rows, NEW u \in Users, BindAvatar(r, u) PROVE WidgetsAgree'
  <2>1. /\ avatars \in [Users -> Versions \cup {Unknown}]
        /\ row \in [Rows -> [user : Users \cup {None}, image : Versions]]
        /\ 0 # Unknown
    BY DEF Typed, ProfilesTypeOK, Unknown
  <2>2. \A v \in Users : (IF avatars'[v] = Unknown THEN 0 ELSE avatars'[v])
                         = (IF avatars[v] = Unknown THEN 0 ELSE avatars[v])
    BY <1>2, <2>1 DEF BindAvatar
  <2>3. row' = [row EXCEPT ![r] = [user |-> u, image |-> IF avatars[u] = Unknown THEN 0 ELSE avatars[u]]]
    BY <1>2 DEF BindAvatar
  <2> QED
    BY <2>1, <2>2, <2>3 DEF WidgetsAgree
<1>3. ASSUME NEW r \in Rows, UnbindAvatar(r) PROVE WidgetsAgree'
  BY <1>3 DEF UnbindAvatar, WidgetsAgree, Typed, ProfilesTypeOK
<1>4. ASSUME NEW j \in Jobs, OnReply(j) PROVE WidgetsAgree'
  <2>1. job[j].user \in Users
    BY <1>4 DEF OnReply, Typed, JobsTyped
  <2>2. SetAvatar(job[j].user, job[j].phase = "done" /\ job[j].got # 0)
    BY <1>4 DEF OnReply
  <2> QED
    BY <2>1, <2>2, SetAvatarKeepsWidgets
<1>5. CASE OnProfilePictureUpdated
  <2>1. Head(feed) \in FeedEvent
    <3>1. feed \in Seq(FeedEvent) /\ feed # <<>>
      BY <1>5 DEF FeedEvent, OnProfilePictureUpdated, Typed, ProfilesTypeOK
    <3> QED
      BY <3>1
  <2>2. SetAvatar(Head(feed).user, Head(feed).path)
    BY <1>5 DEF OnProfilePictureUpdated
  <2> QED
    BY <2>1, <2>2, SetAvatarKeepsWidgets DEF FeedEvent
<1>6. ASSUME NEW j \in Jobs, JobNext(j), ~OnReply(j) PROVE UNCHANGED windowVars
  BY <1>6 DEF JobNext, LookUpCache, AskServer, DownloadAvatar, PutAvatar, LookupFails,
              PublishPicture, ReadContacts, ReadFails, PutName
<1>7. ASSUME NEW u \in Users,
             PictureChanges(u) \/ ContactChanges(u) \/ ContactName(u) \/ RemoveFile(u)
      PROVE  UNCHANGED windowVars
  BY <1>7 DEF PictureChanges, ContactChanges, ContactName, RemoveFile
<1>8. CASE LearnMapping \/ OnPictureChanged \/ DropName \/ ResetNames \/ Restart
  BY <1>1, <1>8 DEF LearnMapping, OnPictureChanged, DropName, ResetNames, Restart
<1> QED
  BY <1>1, <1>2, <1>3, <1>4, <1>5, <1>6, <1>7, <1>8 DEF ProfilesNext, UserNext, profilesVars

-----------------------------------------------------------------------------
(* The events under way.                                                   *)

LEMMA NextNews == Typed /\ NewsGood /\ [ProfilesNext]_profilesVars => NewsGood'
<1> SUFFICES ASSUME Typed, NewsGood, [ProfilesNext]_profilesVars PROVE NewsGood'
  OBVIOUS
<1>0. news \in Seq(News) /\ picture \in [Users -> Versions]
  BY DEF Typed, ProfilesTypeOK, News
<1>1. CASE UNCHANGED <<news, picture>>
  BY <1>1 DEF NewsGood
<1>2. ASSUME NEW u \in Users, PictureChanges(u) PROVE NewsGood'
  <2>1. PICK v \in {0, changes + 1} :
          /\ picture' = [picture EXCEPT ![u] = v]
          /\ news' = Append(news, [type |-> IF v = 0 THEN "removed" ELSE "picture", user |-> u])
    BY <1>2 DEF PictureChanges
  <2> DEFINE e == [type |-> IF v = 0 THEN "removed" ELSE "picture", user |-> u]
  <2>2. e \in News /\ IsPicture(e, u) /\ (e.type = "removed" <=> v = 0)
        /\ \A w \in Users \ {u} : ~IsPicture(e, w)
    BY DEF News, IsPicture
  <2> HIDE DEF e
  <2> SUFFICES ASSUME NEW w \in Users PROVE LastPictureTold(Append(news, e), w, picture'[w])
    BY <2>1 DEF NewsGood, e
  <2>3. CASE w = u
    BY <1>0, <2>1, <2>2, <2>3, LastPictureAppended
  <2>4. CASE w # u
    BY <1>0, <2>1, <2>2, <2>4, LastPictureAppended DEF NewsGood
  <2> QED
    BY <2>3, <2>4
<1>3. ASSUME NEW u \in Users, ContactChanges(u) PROVE NewsGood'
  <2> DEFINE e == [type |-> "contact", user |-> u]
  <2>1. e \in News /\ \A w \in Users : ~IsPicture(e, w)
    BY DEF News, IsPicture
  <2>2. news' = Append(news, e) /\ picture' = picture
    BY <1>3 DEF ContactChanges
  <2> HIDE DEF e
  <2> QED
    BY <1>0, <2>1, <2>2, LastPictureAppended DEF NewsGood
<1>4. CASE OnPictureChanged \/ DropName
  <2>1. news # <<>> /\ news' = Tail(news) /\ picture' = picture
    BY <1>4 DEF OnPictureChanged, DropName, serverVars
  <2> QED
    BY <1>0, <2>1, LastPictureHandled DEF NewsGood
<1>5. CASE Restart
  <2>1. news' = <<>>
    BY <1>5 DEF Restart
  <2> QED
    BY <2>1 DEF NewsGood, LastPictureTold
<1>6. ASSUME NEW j \in Jobs, JobNext(j) PROVE UNCHANGED <<news, picture>>
  BY <1>6 DEF JobNext, LookUpCache, AskServer, DownloadAvatar, PutAvatar, LookupFails,
              PublishPicture, ReadContacts, ReadFails, PutName, OnReply, serverVars
<1>7. ASSUME NEW u \in Users,
             ContactName(u) \/ RemoveFile(u) \/ \E r \in Rows : BindAvatar(r, u)
      PROVE  UNCHANGED <<news, picture>>
  BY <1>7 DEF ContactName, RemoveFile, BindAvatar, serverVars
<1>8. CASE LearnMapping \/ ResetNames \/ OnProfilePictureUpdated \/ \E r \in Rows : UnbindAvatar(r)
  BY <1>1, <1>8 DEF LearnMapping, ResetNames, OnProfilePictureUpdated, UnbindAvatar, serverVars
<1>9. CASE UNCHANGED profilesVars
  BY <1>1, <1>9 DEF profilesVars, serverVars
<1> QED
  BY <1>1, <1>2, <1>3, <1>4, <1>5, <1>6, <1>7, <1>8, <1>9 DEF ProfilesNext, UserNext

-----------------------------------------------------------------------------
(* The names.                                                              *)

\* What does not touch the contacts, the remembered names, the waiting contact
\* events and a name about to be put keeps them good.
NameJobsKept == \A j \in Jobs : (job'[j].kind = "name" /\ job'[j].phase = "putting") => job'[j] = job[j]

LEMMA NamesKept ==
    ASSUME NamesGood, NameJobsKept, UNCHANGED <<contact, names, crossed>>,
           \A u \in Users : ContactNews(news, u) => ContactNews(news', u)
    PROVE  NamesGood'
  BY DEF NamesGood, NameJobsKept, NameGood, Running

\* A goroutine that starts has put no name.
LEMMA StartKeepsNameJobs ==
    ASSUME Typed, NEW u \in Users, NEW kind, NEW phase \in {"start", "done"}, Start(kind, u, phase)
    PROVE  NameJobsKept
  BY DEF NameJobsKept, Start, Typed, JobsTyped

LEMMA JobKeepsNames ==
    ASSUME Typed, NamesGood, NEW j \in Jobs, JobNext(j)
    PROVE  NamesGood'
<1> USE DEF Running, To, serverVars, cacheVars, windowVars, history, bounds
<1>0. job \in [Jobs -> JobRecord]
  BY DEF Typed, JobsTyped
<1>1. CASE LookUpCache(j) \/ AskServer(j) \/ DownloadAvatar(j) \/ PutAvatar(j)
  <2>1. job[j].kind \in Lookups /\ \A i \in Jobs \ {j} : job'[i] = job[i]
    BY <1>0, <1>1 DEF LookUpCache, AskServer, DownloadAvatar, PutAvatar, Lookups
  <2>2. job'[j].kind = job[j].kind
    BY <1>0, <1>1 DEF LookUpCache, AskServer, DownloadAvatar, PutAvatar, JobRecord
  <2>3. NameJobsKept
    BY <2>1, <2>2 DEF NameJobsKept, Lookups
  <2> QED
    BY <1>1, <2>3, NamesKept DEF LookUpCache, AskServer, DownloadAvatar, PutAvatar
<1>2. CASE LookupFails(j) \/ PublishPicture(j) \/ OnReply(j)
  <2>1. job[j].kind \in Lookups /\ \A i \in Jobs \ {j} : job'[i] = job[i]
    BY <1>0, <1>2 DEF LookupFails, PublishPicture, OnReply, Lookups
  <2>2. job'[j].kind # "name"
    BY <1>0, <1>2 DEF LookupFails, PublishPicture, OnReply, JobRecord, Free
  <2>3. NameJobsKept
    BY <2>1, <2>2 DEF NameJobsKept, Lookups
  <2> QED
    BY <1>2, <2>3, NamesKept DEF LookupFails, PublishPicture, OnReply
<1>3. CASE ReadContacts(j)
  <2>1. \A i \in Jobs \ {j} : job'[i] = job[i]
    BY <1>0, <1>3 DEF ReadContacts
  <2>2. job'[j].user = job[j].user /\ job'[j].got = Resolved(job[j].user)
    BY <1>0, <1>3 DEF ReadContacts, JobRecord
  <2> SUFFICES ASSUME NEW u \in Users \ crossed, contact[u] # 0, ~ContactNews(news, u)
               PROVE  NameGood(u)'
    BY <1>3 DEF NamesGood, ReadContacts
  <2>3. NameGood(u)
    BY DEF NamesGood
  <2>4. Resolved(u) = contact[u]
    BY DEF Resolved
  <2>5. names' = names /\ contact' = contact
    BY <1>3 DEF ReadContacts
  <2>6. \A i \in Jobs : (job'[i].kind = "name" /\ job'[i].phase = "putting" /\ job'[i].user = u)
                            => job'[i].got = contact[u]
    <3> TAKE i \in Jobs
    <3>1. CASE i = j
      BY <2>2, <2>4, <3>1
    <3>2. CASE i # j
      BY <2>1, <2>3, <3>2 DEF NameGood
    <3> QED
      BY <3>1, <3>2
  <2> QED
    BY <2>3, <2>5, <2>6 DEF NameGood
<1>4. CASE PutName(j)
  <2>1. job' = [job EXCEPT ![j] = Free] /\ Free.kind = "free"
    BY <1>4 DEF PutName, Free
  <2>2. names' = [names EXCEPT ![job[j].user] = job[j].got] /\ names \in [Users -> Versions \cup {Unknown}]
    BY <1>4 DEF PutName, Typed, ProfilesTypeOK
  <2> SUFFICES ASSUME NEW u \in Users \ crossed, contact[u] # 0, ~ContactNews(news, u)
               PROVE  NameGood(u)'
    BY <1>4 DEF NamesGood, PutName
  <2>3. NameGood(u)
    BY DEF NamesGood
  <2>4. names'[u] \in {Unknown, contact[u]}
    BY <1>4, <2>2, <2>3 DEF NameGood, PutName
  <2> QED
    BY <1>0, <1>4, <2>1, <2>3, <2>4 DEF NameGood, PutName
<1>5. CASE ReadFails(j)
  <2>1. \A i \in Jobs \ {j} : job'[i] = job[i]
    BY <1>0, <1>5 DEF ReadFails
  <2>2. job'[j].user = job[j].user
    BY <1>0, <1>5 DEF ReadFails, JobRecord
  <2>3. crossed' = crossed \cup {job[j].user} /\ UNCHANGED <<news, names, contact>>
    BY <1>5 DEF ReadFails
  <2> SUFFICES ASSUME NEW u \in Users \ crossed', contact[u] # 0, ~ContactNews(news, u)
               PROVE  NameGood(u)'
    BY <2>3 DEF NamesGood
  <2>4. NameGood(u) /\ u # job[j].user
    BY <2>3 DEF NamesGood
  <2> QED
    BY <2>1, <2>2, <2>3, <2>4 DEF NameGood
<1> QED
  BY <1>1, <1>2, <1>3, <1>4, <1>5 DEF JobNext

LEMMA NextNames == Typed /\ NamesGood /\ [ProfilesNext]_profilesVars => NamesGood'
<1> SUFFICES ASSUME Typed, NamesGood, [ProfilesNext]_profilesVars PROVE NamesGood'
  OBVIOUS
<1> USE DEF serverVars, cacheVars, windowVars, history, bounds
<1>0. news \in Seq(News) /\ job \in [Jobs -> JobRecord]
  BY DEF Typed, ProfilesTypeOK, News
<1>1. ASSUME NEW u \in Users, PictureChanges(u) PROVE NamesGood'
  <2>1. PICK e \in News : news' = Append(news, e)
    BY <1>1 DEF PictureChanges, News
  <2>2. NameJobsKept
    BY <1>1 DEF PictureChanges, NameJobsKept
  <2> QED
    BY <1>0, <1>1, <2>1, <2>2, NewsAppended, NamesKept DEF PictureChanges
<1>2. ASSUME NEW u \in Users, ContactChanges(u) PROVE NamesGood'
  <2> DEFINE e == [type |-> "contact", user |-> u]
  <2>1. e \in News /\ IsContact(e, u) /\ news' = Append(news, e)
    BY <1>2 DEF ContactChanges, News, IsContact
  <2>2. contact \in [Users -> Versions] /\ UNCHANGED <<names, job, crossed>>
    BY <1>2 DEF Typed, ProfilesTypeOK, ContactChanges
  <2> HIDE DEF e
  <2>3. \A w \in Users : ContactNews(news', w) <=> ContactNews(news, w) \/ IsContact(e, w)
    BY <1>0, <2>1, NewsAppended
  <2> SUFFICES ASSUME NEW w \in Users \ crossed, contact'[w] # 0, ~ContactNews(news', w)
               PROVE  NameGood(w)'
    BY <2>2 DEF NamesGood
  <2>4. w # u /\ contact'[w] = contact[w]
    BY <1>2, <2>1, <2>2, <2>3 DEF ContactChanges
  <2>5. NameGood(w)
    BY <2>3, <2>4 DEF NamesGood
  <2> QED
    BY <2>2, <2>4, <2>5 DEF NameGood, Running
<1>3. ASSUME NEW u \in Users, ContactName(u) PROVE NamesGood'
  BY <1>3, StartKeepsNameJobs, NamesKept DEF ContactName
<1>4. ASSUME NEW u \in Users, RemoveFile(u) PROVE NamesGood'
  BY <1>4, NamesKept DEF RemoveFile, NameJobsKept
<1>5. ASSUME NEW u \in Users, NEW r \in Rows, BindAvatar(r, u) PROVE NamesGood'
  <2>1. NameJobsKept
    BY <1>5, StartKeepsNameJobs DEF BindAvatar, NameJobsKept
  <2> QED
    BY <1>5, <2>1, NamesKept DEF BindAvatar
<1>6. ASSUME NEW r \in Rows, UnbindAvatar(r) PROVE NamesGood'
  BY <1>6, NamesKept DEF UnbindAvatar, NameJobsKept
<1>7. CASE LearnMapping
  BY <1>7, NamesKept DEF LearnMapping, NameJobsKept
<1>8. CASE OnProfilePictureUpdated
  BY <1>8, NamesKept DEF OnProfilePictureUpdated, NameJobsKept
<1>9. CASE OnPictureChanged
  <2>1. Head(news) \in News
    BY <1>0, <1>9 DEF OnPictureChanged
  <2>2. Head(news).user \in Users /\ \A u \in Users : ~IsContact(Head(news), u)
    BY <1>9, <2>1 DEF OnPictureChanged, IsContact, News
  <2>3. NameJobsKept
    BY <1>9, <2>2, StartKeepsNameJobs DEF OnPictureChanged
  <2> QED
    BY <1>0, <1>9, <2>2, <2>3, NewsHandled, NamesKept DEF OnPictureChanged
<1>10. CASE DropName
  <2> DEFINE u == Head(news).user
  <2>1. news # <<>> /\ news' = Tail(news) /\ UNCHANGED <<contact, job>>
        /\ names' = [names EXCEPT ![u] = Unknown]
        /\ crossed' = IF InFlight("name", u) THEN crossed \cup {u} ELSE crossed \ {u}
    BY <1>10 DEF DropName
  <2>2. names \in [Users -> Versions \cup {Unknown}]
    BY DEF Typed, ProfilesTypeOK
  <2> SUFFICES ASSUME NEW w \in Users \ crossed', contact[w] # 0, ~ContactNews(Tail(news), w)
               PROVE  NameGood(w)'
    BY <2>1 DEF NamesGood
  <2>3. CASE w = u
    <3>1. ~InFlight("name", w) /\ names'[w] = Unknown
      BY <2>1, <2>2, <2>3
    <3> QED
      BY <2>1, <3>1 DEF NameGood, InFlight, Running
  <2>4. CASE w # u
    <3>1. w \notin crossed /\ names'[w] = names[w]
      BY <2>1, <2>2, <2>4
    <3>2. ~ContactNews(news, w)
      BY <1>0, <2>1, <2>4, NewsHandled DEF IsContact
    <3> QED
      BY <2>1, <3>1, <3>2 DEF NamesGood, NameGood, Running
  <2> QED
    BY <2>3, <2>4
<1>11. CASE ResetNames
  BY <1>11 DEF ResetNames, NamesGood, NameGood, Running
<1>12. CASE Restart
  <2>1. \A j \in Jobs : job'[j].kind # "name"
    <3> TAKE j \in Jobs
    <3>1. CASE job[j].kind = "rpc"
      BY <1>0, <1>12, <3>1 DEF Restart, JobRecord
    <3>2. CASE job[j].kind # "rpc"
      BY <1>12, <3>2 DEF Restart, Free
    <3> QED
      BY <3>1, <3>2
  <2>2. \A u \in Users : names'[u] = Unknown
    BY <1>12 DEF Restart
  <2> QED
    BY <2>1, <2>2 DEF NamesGood, NameGood, Running
<1>13. CASE UNCHANGED profilesVars
  BY <1>13, NamesKept DEF profilesVars, NameJobsKept
<1> QED
  BY <1>1, <1>2, <1>3, <1>4, <1>5, <1>6, <1>7, <1>8, <1>9, <1>10, <1>11, <1>12, <1>13, JobKeepsNames
     DEF ProfilesNext, UserNext

-----------------------------------------------------------------------------
(* The pictures.                                                           *)

\* A step that leaves a user's picture, entry, file, image, events and lookups
\* alone keeps them good.
LookupsKept(u) ==
    \A j \in Jobs : LookupOf(job[j], Lookups, u) \/ LookupOf(job'[j], Lookups, u)
                        => job'[j] = job[j]

LEMMA LookupsKeptIn ==
    ASSUME NEW u, LookupsKept(u)
    PROVE  /\ InLookup(job', Lookups, u) <=> InLookup(job, Lookups, u)
           /\ InLookup(job', {"event"}, u) <=> InLookup(job, {"event"}, u)
  BY DEF LookupsKept, InLookup, LookupOf, Lookups

LEMMA PictureKept ==
    ASSUME NEW u \in Users, PictureGood(u), LookupsKept(u),
           entries'[u] = entries[u], disk'[u] = disk[u], picture'[u] = picture[u],
           avatars'[u] = avatars[u], feed' = feed
    PROVE  PictureGood(u)'
<1>1. \A j \in Jobs : LookupGood(job'[j], u, disk'[u], picture'[u])
  BY DEF LookupsKept, PictureGood, LookupGood
<1> QED
  BY <1>1, LookupsKeptIn DEF PictureGood

\* A lookup of a user makes progress.
LEMMA LookupMoves ==
    ASSUME NEW u \in Users, PictureGood(u), JobsTyped, NEW j \in Jobs, NEW r,
           job' = [job EXCEPT ![j] = r],
           LookupOf(job[j], Lookups, u), r.user = u, r.kind = job[j].kind,
           EntryGood(entries'[u], disk'[u], picture[u]),
           LookupGood(r, u, disk'[u], picture[u]),
           disk'[u] = disk[u] \/ FileGood(disk'[u], picture[u]),
           picture'[u] = picture[u], avatars'[u] = avatars[u], feed' = feed
    PROVE  PictureGood(u)'
<1>1. \A i \in Jobs : LookupGood(job'[i], u, disk'[u], picture'[u])
  <2> TAKE i \in Jobs
  <2>1. CASE i = j
    BY <2>1 DEF JobsTyped
  <2>2. CASE i # j
    <3>1. job'[i] = job[i] /\ LookupGood(job[i], u, disk[u], picture[u])
      BY <2>2 DEF JobsTyped, PictureGood
    <3> QED
      BY <3>1 DEF LookupGood
  <2> QED
    BY <2>1, <2>2
<1>2. \A kinds : InLookup(job, kinds, u) => InLookup(job', kinds, u)
  BY DEF InLookup, LookupOf, JobsTyped
<1>3. FeedGood(feed, u, disk[u], picture[u]) => FeedGood(feed', u, disk'[u], picture'[u])
  BY DEF FeedGood
<1> QED
  BY <1>1, <1>2, <1>3 DEF PictureGood

\* A lookup of a user ends.
LEMMA LookupEnds ==
    ASSUME NEW u \in Users, PictureGood(u), JobsTyped, NEW j \in Jobs,
           job' = [job EXCEPT ![j] = Free]
    PROVE  /\ \A i \in Jobs : LookupGood(job'[i], u, disk[u], picture[u])
           /\ InLookup(job', Lookups, u) => InLookup(job, Lookups, u)
           /\ InLookup(job', {"event"}, u) => InLookup(job, {"event"}, u)
           /\ job[j].kind # "event" => (InLookup(job', {"event"}, u) <=> InLookup(job, {"event"}, u))
<1>1. Free.kind = "free"
  BY DEF Free
<1>2. \A i \in Jobs : job'[i] = IF i = j THEN Free ELSE job[i]
  BY DEF JobsTyped
<1>3. \A i \in Jobs : LookupGood(job'[i], u, disk[u], picture[u])
  BY <1>1, <1>2 DEF PictureGood, LookupGood, LookupOf, Lookups
<1> QED
  BY <1>1, <1>2, <1>3 DEF InLookup, LookupOf, Lookups

\* The state of the daemon's cache and the lookups in a step of one of them.
LEMMA CacheStepKeepsPictures ==
    ASSUME Typed, PicturesGood, NEW j \in Jobs,
           LookUpCache(j) \/ AskServer(j) \/ DownloadAvatar(j) \/ PutAvatar(j)
    PROVE  PicturesGood'
<1> USE DEF Running, To, serverVars, cacheVars, windowVars, history, bounds
<1> DEFINE v == job[j].user
<1>0. job \in [Jobs -> JobRecord] /\ job[j].kind \in Lookups /\ v \in Users
  BY DEF Typed, JobsTyped, LookUpCache, AskServer, DownloadAvatar, PutAvatar, Lookups
<1>1. entries \in [Users -> {"miss", "none", "file"}] /\ disk \in [Users -> Versions]
      /\ picture \in [Users -> Versions]
  BY DEF Typed, ProfilesTypeOK
<1>2. UNCHANGED <<picture, news, feed, avatars, overtaken>>
  BY DEF LookUpCache, AskServer, DownloadAvatar, PutAvatar
<1> SUFFICES ASSUME NEW u \in Users \ overtaken, ~PictureNews(news, u)
             PROVE  PictureGood(u)'
  BY <1>2 DEF PicturesGood
<1>3. PictureGood(u)
  BY DEF PicturesGood
<1>4. CASE u # v
  <2>1. \A i \in Jobs \ {j} : job'[i] = job[i]
    BY <1>0 DEF LookUpCache, AskServer, DownloadAvatar, PutAvatar
  <2>2. job'[j].user = v
    BY <1>0 DEF LookUpCache, AskServer, DownloadAvatar, PutAvatar, JobRecord
  <2>3. LookupsKept(u)
    BY <1>4, <2>1, <2>2 DEF LookupsKept, LookupOf
  <2>4. entries'[u] = entries[u] /\ disk'[u] = disk[u]
    BY <1>1, <1>4 DEF LookUpCache, AskServer, DownloadAvatar, PutAvatar
  <2> QED
    BY <1>2, <1>3, <2>3, <2>4, PictureKept
<1>5. CASE u = v
  <2>0. /\ LookupOf(job[j], Lookups, u)
        /\ EntryGood(entries[u], disk[u], picture[u])
        /\ LookupGood(job[j], u, disk[u], picture[u])
    BY <1>0, <1>3, <1>5 DEF LookupOf, PictureGood
  <2>1. CASE LookUpCache(j)
    <3> DEFINE known == entries[u] = "none" \/ (entries[u] = "file" /\ disk[u] # 0)
               r == [job[j] EXCEPT !.phase = IF known THEN "done" ELSE "asking",
                                   !.got = IF entries[u] = "file" THEN disk[u] ELSE 0]
    <3>1. job' = [job EXCEPT ![j] = r] /\ disk' = disk
          /\ entries'[u] = IF known THEN entries[u] ELSE "miss"
      BY <1>0, <1>1, <1>5, <2>1 DEF LookUpCache
    <3>2. r.user = u /\ r.kind = job[j].kind
          /\ r.phase = (IF known THEN "done" ELSE "asking")
          /\ r.got = (IF entries[u] = "file" THEN disk[u] ELSE 0)
      BY <1>0, <1>5 DEF JobRecord
    <3>3. EntryGood(entries'[u], disk'[u], picture[u])
      BY <2>0, <3>1 DEF EntryGood
    <3>4. LookupGood(r, u, disk'[u], picture[u])
      BY <2>0, <3>1, <3>2 DEF LookupGood, EntryGood, FileGood
    <3> HIDE DEF r
    <3> QED
      BY <1>2, <1>3, <2>0, <3>1, <3>2, <3>3, <3>4, LookupMoves DEF Typed
  <2>2. CASE AskServer(j)
    <3> DEFINE r == [job[j] EXCEPT !.phase = IF picture[u] = 0 THEN "done" ELSE "loading",
                                   !.got = picture[u]]
    <3>1. job' = [job EXCEPT ![j] = r] /\ disk' = disk
          /\ entries'[u] = IF picture[u] = 0 THEN "none" ELSE entries[u]
      BY <1>0, <1>1, <1>5, <2>2 DEF AskServer
    <3>2. r.user = u /\ r.kind = job[j].kind
          /\ r.phase = (IF picture[u] = 0 THEN "done" ELSE "loading")
          /\ r.got = picture[u]
      BY <1>0, <1>5 DEF JobRecord
    <3>3. EntryGood(entries'[u], disk'[u], picture[u])
      BY <2>0, <3>1 DEF EntryGood
    <3>4. LookupGood(r, u, disk'[u], picture[u])
      BY <3>1, <3>2 DEF LookupGood
    <3> HIDE DEF r
    <3> QED
      BY <1>2, <1>3, <2>0, <3>1, <3>2, <3>3, <3>4, LookupMoves DEF Typed
  <2>3. CASE DownloadAvatar(j)
    <3> DEFINE r == [job[j] EXCEPT !.phase = "putting"]
    <3>1. job' = [job EXCEPT ![j] = r] /\ disk'[u] = job[j].got /\ entries' = entries
          /\ job[j].phase = "loading"
      BY <1>0, <1>1, <1>5, <2>3 DEF DownloadAvatar
    <3>2. r.user = u /\ r.kind = job[j].kind /\ r.phase = "putting" /\ r.got = job[j].got
      BY <1>0, <1>5 DEF JobRecord
    <3>3. FileGood(disk'[u], picture[u]) /\ job[j].got = picture[u]
      BY <2>0, <3>1 DEF LookupGood, FileGood
    <3>4. EntryGood(entries'[u], disk'[u], picture[u])
      BY <2>0, <3>1, <3>3 DEF EntryGood
    <3>5. LookupGood(r, u, disk'[u], picture[u])
      BY <3>2, <3>3 DEF LookupGood
    <3> HIDE DEF r
    <3> QED
      BY <1>2, <1>3, <2>0, <3>1, <3>2, <3>3, <3>4, <3>5, LookupMoves DEF Typed
  <2>4. CASE PutAvatar(j)
    <3> DEFINE r == [job[j] EXCEPT !.phase = "done"]
    <3>1. job' = [job EXCEPT ![j] = r] /\ disk' = disk /\ entries'[u] = "file"
          /\ job[j].phase = "putting"
      BY <1>0, <1>1, <1>5, <2>4 DEF PutAvatar
    <3>2. r.user = u /\ r.kind = job[j].kind /\ r.phase = "done" /\ r.got = job[j].got
      BY <1>0, <1>5 DEF JobRecord
    <3>3. FileGood(disk'[u], picture[u]) /\ job[j].got = picture[u]
      BY <2>0, <3>1 DEF LookupGood
    <3>4. EntryGood(entries'[u], disk'[u], picture[u])
      BY <3>1, <3>3 DEF EntryGood
    <3>5. LookupGood(r, u, disk'[u], picture[u])
      BY <3>2, <3>3 DEF LookupGood
    <3> HIDE DEF r
    <3> QED
      BY <1>2, <1>3, <2>0, <3>1, <3>2, <3>3, <3>4, <3>5, LookupMoves DEF Typed
  <2> QED
    BY <2>1, <2>2, <2>3, <2>4
<1> QED
  BY <1>4, <1>5

LEMMA AnswerKeepsPictures ==
    ASSUME Typed, PicturesGood, NEW j \in Jobs,
           LookupFails(j) \/ PublishPicture(j) \/ ReadContacts(j) \/ ReadFails(j) \/ PutName(j)
    PROVE  PicturesGood'
<1> USE DEF Running, To, serverVars, cacheVars, windowVars, history, bounds
<1> DEFINE v == job[j].user
<1>0. job \in [Jobs -> JobRecord] /\ v \in Users /\ JobsTyped
  BY DEF Typed, JobsTyped, LookupFails, PublishPicture, ReadContacts, ReadFails, PutName
<1>1. UNCHANGED <<picture, news, entries, disk, avatars>>
  BY DEF LookupFails, PublishPicture, ReadContacts, ReadFails, PutName
<1>2. \A i \in Jobs \ {j} : job'[i] = job[i]
  BY <1>0 DEF LookupFails, PublishPicture, ReadContacts, ReadFails, PutName
<1>3. job'[j].kind \notin Lookups \/ job'[j].user = v
  BY <1>0 DEF LookupFails, PublishPicture, ReadContacts, ReadFails, PutName, JobRecord, Free, Lookups
<1>4. overtaken \subseteq overtaken'
  BY DEF LookupFails, PublishPicture, ReadContacts, ReadFails, PutName
<1> SUFFICES ASSUME NEW u \in Users \ overtaken', ~PictureNews(news, u)
             PROVE  PictureGood(u)'
  BY <1>1 DEF PicturesGood
<1>5. PictureGood(u)
  BY <1>4 DEF PicturesGood
<1>6. CASE ReadContacts(j) \/ ReadFails(j) \/ PutName(j)
  <2>1. job[j].kind \notin Lookups /\ job'[j].kind \notin Lookups
    BY <1>0, <1>6 DEF ReadContacts, ReadFails, PutName, JobRecord, Free, Lookups
  <2>2. LookupsKept(u) /\ feed' = feed
    BY <1>2, <1>6, <2>1 DEF LookupsKept, LookupOf, ReadContacts, ReadFails, PutName
  <2> QED
    BY <1>1, <1>5, <2>2, PictureKept
<1>7. CASE LookupFails(j)
  <2>1. u # v /\ feed' = feed
    BY <1>7 DEF LookupFails
  <2>2. LookupsKept(u)
    BY <1>2, <1>3, <2>1 DEF LookupsKept, LookupOf
  <2> QED
    BY <1>1, <1>5, <2>1, <2>2, PictureKept
<1>8. CASE PublishPicture(j)
  <2> DEFINE e == [user |-> v, path |-> job[j].got # 0]
  <2>1. job' = [job EXCEPT ![j] = Free] /\ (feed' = feed \/ feed' = Append(feed, e))
        /\ (v \notin overtaken' => feed' = Append(feed, e))
    BY <1>8 DEF PublishPicture
  <2>2. e \in FeedEvent /\ e.user = v /\ (e.path <=> job[j].got # 0) /\ feed \in Seq(FeedEvent)
    BY <1>0 DEF FeedEvent, Typed, ProfilesTypeOK
  <2> HIDE DEF e
  <2>3. /\ \A i \in Jobs : LookupGood(job'[i], u, disk[u], picture[u])
        /\ InLookup(job', Lookups, u) => InLookup(job, Lookups, u)
        /\ InLookup(job', {"event"}, u) => InLookup(job, {"event"}, u)
    BY <1>0, <1>5, <2>1, LookupEnds
  <2>4. CASE u = v
    <3>1. LookupGood(job[j], u, disk[u], picture[u]) /\ LookupOf(job[j], Lookups, u)
          /\ job[j].phase = "done"
      BY <1>5, <1>8, <2>4 DEF PictureGood, PublishPicture, LookupOf, Lookups
    <3>2. IF e.path THEN FileGood(disk[u], picture[u]) ELSE picture[u] = 0
      BY <2>2, <3>1 DEF LookupGood
    <3>3. FeedGood(feed', u, disk[u], picture[u]) /\ InFeed(feed', u)
      <4>1. feed' = Append(feed, e) /\ e.user = u /\ u \in Users
        BY <2>1, <2>2, <2>4
      <4>2. e.user = u => IF e.path THEN FileGood(disk[u], picture[u]) ELSE picture[u] = 0
        BY <3>2
      <4> QED
        BY <2>2, <4>1, <4>2, FeedAppended
    <3> QED
      BY <1>1, <1>5, <2>3, <3>3 DEF PictureGood
  <2>5. CASE u # v
    <3>1. LookupsKept(u)
      BY <1>2, <1>3, <2>5 DEF LookupsKept, LookupOf
    <3>2. \/ feed' = feed
          \/ /\ feed' = Append(feed, e)
             /\ FeedGood(feed, u, disk[u], picture[u]) => FeedGood(feed', u, disk[u], picture[u])
             /\ InFeed(feed, u) => InFeed(feed', u)
      <4>1. e.user # u
        BY <2>2, <2>5
      <4>2. \A i \in DOMAIN feed : i \in DOMAIN Append(feed, e) /\ Append(feed, e)[i] = feed[i]
        BY <2>2
      <4>3. InFeed(feed, u) => InFeed(Append(feed, e), u)
        BY <4>2 DEF InFeed
      <4> QED
        BY <2>1, <2>2, <4>1, <4>3, FeedAppended
    <3> QED
      BY <1>1, <1>5, <2>3, <3>1, <3>2, LookupsKeptIn DEF PictureGood
  <2> QED
    BY <2>4, <2>5
<1> QED
  BY <1>6, <1>7, <1>8

\* The picture events, and what makes them.
LEMMA EventKeepsPictures ==
    ASSUME Typed, NewsGood, PicturesGood,
           OnPictureChanged \/ \E v \in Users : PictureChanges(v) \/ ContactChanges(v)
    PROVE  PicturesGood'
<1> USE DEF serverVars, cacheVars, windowVars, history, bounds
<1>0. /\ job \in [Jobs -> JobRecord] /\ news \in Seq(News)
      /\ entries \in [Users -> {"miss", "none", "file"}] /\ picture \in [Users -> Versions]
  BY DEF Typed, ProfilesTypeOK, News
<1>1. ASSUME NEW v \in Users, PictureChanges(v) PROVE PicturesGood'
  <2>1. PICK e \in News : news' = Append(news, e) /\ IsPicture(e, v)
    <3>1. PICK x \in {0, changes + 1} :
            news' = Append(news, [type |-> IF x = 0 THEN "removed" ELSE "picture", user |-> v])
      BY <1>1 DEF PictureChanges
    <3>2. [type |-> IF x = 0 THEN "removed" ELSE "picture", user |-> v] \in News
          /\ IsPicture([type |-> IF x = 0 THEN "removed" ELSE "picture", user |-> v], v)
      BY DEF News, IsPicture
    <3> QED
      BY <3>1, <3>2
  <2>2. UNCHANGED <<entries, disk, job, feed, avatars, overtaken>>
        /\ \A u \in Users \ {v} : picture'[u] = picture[u]
    BY <1>0, <1>1 DEF PictureChanges
  <2> SUFFICES ASSUME NEW u \in Users \ overtaken, ~PictureNews(news', u)
               PROVE  PictureGood(u)'
    BY <2>2 DEF PicturesGood
  <2>3. u # v /\ PictureGood(u)
    BY <1>0, <2>1, NewsAppended DEF PicturesGood
  <2> QED
    BY <2>2, <2>3, PictureKept DEF LookupsKept
<1>2. ASSUME NEW v \in Users, ContactChanges(v) PROVE PicturesGood'
  <2> DEFINE e == [type |-> "contact", user |-> v]
  <2>1. news' = Append(news, e) /\ e \in News
    BY <1>2 DEF ContactChanges, News
  <2>2. UNCHANGED <<picture, entries, disk, job, feed, avatars, overtaken>>
    BY <1>2 DEF ContactChanges
  <2> HIDE DEF e
  <2> SUFFICES ASSUME NEW u \in Users \ overtaken, ~PictureNews(news', u)
               PROVE  PictureGood(u)'
    BY <2>2 DEF PicturesGood
  <2>3. PictureGood(u)
    BY <1>0, <2>1, NewsAppended DEF PicturesGood
  <2> QED
    BY <2>2, <2>3, PictureKept DEF LookupsKept
<1>3. CASE OnPictureChanged
  <2> DEFINE v == Head(news).user
             gone == Head(news).type = "removed"
  <2>0. Head(news) \in News /\ news # <<>> /\ news' = Tail(news)
    BY <1>0, <1>3 DEF OnPictureChanged
  <2>1. v \in Users /\ IsPicture(Head(news), v)
        /\ \A u \in Users \ {v} : ~IsPicture(Head(news), u)
    BY <1>3, <2>0 DEF OnPictureChanged, News, IsPicture
  <2>2. /\ \A j \in Jobs : job[j].kind # "event"
        /\ entries' = [entries EXCEPT ![v] = IF gone THEN "none" ELSE "miss"]
        /\ Start("event", v, IF gone THEN "done" ELSE "start")
        /\ overtaken' = IF InFlight("rpc", v) THEN overtaken \cup {v} ELSE overtaken \ {v}
        /\ UNCHANGED <<picture, disk, feed, avatars>>
    BY <1>3 DEF OnPictureChanged
  <2>3. PICK j \in Jobs :
          /\ job[j] = Free
          /\ job' = [job EXCEPT ![j] = [kind |-> "event", phase |-> IF gone THEN "done" ELSE "start",
                                        user |-> v, got |-> 0]]
    BY <2>2 DEF Start
  <2>4. job'[j] = [kind |-> "event", phase |-> IF gone THEN "done" ELSE "start", user |-> v, got |-> 0]
        /\ \A i \in Jobs \ {j} : job'[i] = job[i]
    BY <1>0, <2>3
  <2> SUFFICES ASSUME NEW u \in Users \ overtaken', ~PictureNews(Tail(news), u)
               PROVE  PictureGood(u)'
    BY <2>0 DEF PicturesGood
  <2>5. CASE u # v
    <3>1. PictureGood(u)
      BY <1>0, <2>0, <2>1, <2>2, <2>5, NewsHandled DEF PicturesGood
    <3>2. LookupsKept(u)
      BY <2>3, <2>4, <2>5 DEF LookupsKept, LookupOf, Free, Lookups
    <3>3. entries'[u] = entries[u]
      BY <1>0, <2>2, <2>5
    <3> QED
      BY <2>2, <3>1, <3>2, <3>3, PictureKept
  <2>6. CASE u = v
    <3>1. gone <=> picture[u] = 0
      BY <1>0, <2>0, <2>1, <2>6, LastPictureHandled DEF NewsGood
    <3>2. \A i \in Jobs \ {j} : ~LookupOf(job'[i], Lookups, u)
      BY <2>2, <2>4, <2>6 DEF InFlight, LookupOf, Lookups
    <3>3. \A i \in Jobs : LookupGood(job'[i], u, disk[u], picture[u])
      BY <2>4, <3>1, <3>2 DEF LookupGood
    <3>4. InLookup(job', {"event"}, u) /\ InLookup(job', Lookups, u)
      BY <2>4, <2>6 DEF InLookup, LookupOf, Lookups
    <3>5. EntryGood(entries'[u], disk[u], picture[u])
      BY <1>0, <2>2, <2>6, <3>1 DEF EntryGood
    <3> QED
      BY <2>2, <3>3, <3>4, <3>5 DEF PictureGood
  <2> QED
    BY <2>5, <2>6
<1> QED
  BY <1>1, <1>2, <1>3

\* What the window does.
LEMMA WindowKeepsPictures ==
    ASSUME Typed, PicturesGood,
           \/ \E j \in Jobs : OnReply(j)
           \/ OnProfilePictureUpdated
           \/ \E r \in Rows, v \in Users : BindAvatar(r, v)
    PROVE  PicturesGood'
<1> USE DEF serverVars, cacheVars, windowVars, history, bounds
<1>0. /\ job \in [Jobs -> JobRecord] /\ feed \in Seq(FeedEvent) /\ JobsTyped
      /\ avatars \in [Users -> Versions \cup {Unknown}]
  BY DEF Typed, ProfilesTypeOK, JobsTyped, FeedEvent
<1>1. ASSUME NEW j \in Jobs, OnReply(j) PROVE PicturesGood'
  <2> DEFINE v == job[j].user
             hasPath == job[j].phase = "done" /\ job[j].got # 0
  <2>1. /\ v \in Users /\ job[j].kind = "rpc" /\ job[j].phase \in {"done", "failed"}
        /\ job' = [job EXCEPT ![j] = Free]
        /\ UNCHANGED <<picture, news, entries, disk, feed>>
        /\ avatars' = [avatars EXCEPT ![v] = IF hasPath THEN disk[v] ELSE 0]
        /\ overtaken' = IF hasPath /\ disk[v] = 0 THEN overtaken \cup {v} ELSE overtaken
    BY <1>0, <1>1 DEF OnReply, JobsTyped, SetAvatar
  <2> SUFFICES ASSUME NEW u \in Users \ overtaken', ~PictureNews(news, u)
               PROVE  PictureGood(u)'
    BY <2>1 DEF PicturesGood
  <2>2. PictureGood(u)
    BY <2>1 DEF PicturesGood
  <2>3. /\ \A i \in Jobs : LookupGood(job'[i], u, disk[u], picture[u])
        /\ InLookup(job', {"event"}, u) <=> InLookup(job, {"event"}, u)
    BY <1>0, <2>1, <2>2, LookupEnds
  <2>4. CASE u = v
    <3>1. LookupGood(job[j], u, disk[u], picture[u]) /\ LookupOf(job[j], Lookups, u)
      BY <2>1, <2>2, <2>4 DEF PictureGood, LookupOf, Lookups
    <3>2. avatars'[u] = picture[u]
      BY <1>0, <2>1, <2>4, <3>1 DEF LookupGood, FileGood
    <3> QED
      BY <2>1, <2>2, <2>3, <3>2 DEF PictureGood
  <2>5. CASE u # v
    <3>1. LookupsKept(u)
      BY <1>0, <2>1, <2>5 DEF LookupsKept, LookupOf, Free, Lookups
    <3>2. avatars'[u] = avatars[u]
      BY <1>0, <2>1, <2>5
    <3> QED
      BY <2>1, <2>2, <3>1, <3>2, PictureKept
  <2> QED
    BY <2>4, <2>5
<1>2. CASE OnProfilePictureUpdated
  <2> DEFINE v == Head(feed).user
             hasPath == Head(feed).path
  <2>1. /\ feed # <<>> /\ feed' = Tail(feed)
        /\ UNCHANGED <<picture, news, entries, disk, job>>
        /\ avatars' = [avatars EXCEPT ![v] = IF hasPath THEN disk[v] ELSE 0]
        /\ overtaken' = IF hasPath /\ disk[v] = 0 THEN overtaken \cup {v} ELSE overtaken
    BY <1>2 DEF OnProfilePictureUpdated, SetAvatar
  <2> SUFFICES ASSUME NEW u \in Users \ overtaken', ~PictureNews(news, u)
               PROVE  PictureGood(u)'
    BY <2>1 DEF PicturesGood
  <2>2. PictureGood(u)
    BY <2>1 DEF PicturesGood
  <2>3. /\ InFeed(feed, u) <=> Head(feed).user = u \/ InFeed(Tail(feed), u)
        /\ FeedGood(feed, u, disk[u], picture[u]) => FeedGood(Tail(feed), u, disk[u], picture[u])
        /\ (FeedGood(feed, u, disk[u], picture[u]) /\ Head(feed).user = u /\ ~InFeed(Tail(feed), u))
             => IF hasPath THEN FileGood(disk[u], picture[u]) ELSE picture[u] = 0
    BY <1>0, <2>1, FeedHandled
  <2>4. \/ InLookup(job, Lookups, u) \/ InFeed(Tail(feed), u)
        \/ avatars'[u] \in {Unknown, picture[u]}
    <3> SUFFICES ASSUME ~InLookup(job, Lookups, u), ~InFeed(Tail(feed), u)
                 PROVE  avatars'[u] \in {Unknown, picture[u]}
      OBVIOUS
    <3>1. FeedGood(feed, u, disk[u], picture[u])
      BY <2>2 DEF PictureGood, InLookup, LookupOf, Lookups
    <3>2. CASE u = v
      BY <1>0, <2>1, <2>3, <3>1, <3>2 DEF FileGood
    <3>3. CASE u # v
      BY <1>0, <2>1, <2>2, <2>3, <3>3 DEF PictureGood
    <3> QED
      BY <3>2, <3>3
  <2> QED
    BY <2>1, <2>2, <2>3, <2>4 DEF PictureGood
<1>3. ASSUME NEW r \in Rows, NEW v \in Users, BindAvatar(r, v) PROVE PicturesGood'
  <2>1. UNCHANGED <<picture, news, entries, disk, feed, overtaken>>
    BY <1>3 DEF BindAvatar
  <2> SUFFICES ASSUME NEW u \in Users \ overtaken, ~PictureNews(news, u)
               PROVE  PictureGood(u)'
    BY <2>1 DEF PicturesGood
  <2>2. PictureGood(u)
    BY DEF PicturesGood
  <2>3. CASE UNCHANGED <<avatars, job>>
    BY <2>1, <2>2, <2>3, PictureKept DEF LookupsKept
  <2>4. CASE avatars' = [avatars EXCEPT ![v] = 0] /\ Start("rpc", v, "start")
    <3>1. PICK j \in Jobs :
            /\ job[j] = Free
            /\ job' = [job EXCEPT ![j] = [kind |-> "rpc", phase |-> "start", user |-> v, got |-> 0]]
      BY <2>4 DEF Start
    <3>2. job'[j] = [kind |-> "rpc", phase |-> "start", user |-> v, got |-> 0]
          /\ \A i \in Jobs \ {j} : job'[i] = job[i]
      BY <1>0, <3>1
    <3>3. CASE u # v
      <4>1. LookupsKept(u)
        BY <3>1, <3>2, <3>3 DEF LookupsKept, LookupOf, Free, Lookups
      <4>2. avatars'[u] = avatars[u]
        BY <1>0, <2>4, <3>3
      <4> QED
        BY <2>1, <2>2, <4>1, <4>2, PictureKept
    <3>4. CASE u = v
      <4>1. \A i \in Jobs : LookupGood(job'[i], u, disk[u], picture[u])
        BY <2>2, <3>2 DEF PictureGood, LookupGood
      <4>2. InLookup(job', Lookups, u)
        BY <3>2, <3>4 DEF InLookup, LookupOf, Lookups
      <4>3. InLookup(job, {"event"}, u) => InLookup(job', {"event"}, u)
        BY <3>1, <3>2 DEF InLookup, LookupOf, Free
      <4> QED
        BY <2>1, <2>2, <4>1, <4>2, <4>3 DEF PictureGood
    <3> QED
      BY <3>3, <3>4
  <2> QED
    BY <1>3, <2>3, <2>4 DEF BindAvatar
<1> QED
  BY <1>1, <1>2, <1>3

LEMMA NextPictures == Typed /\ NewsGood /\ PicturesGood /\ [ProfilesNext]_profilesVars => PicturesGood'
<1> SUFFICES ASSUME Typed, NewsGood, PicturesGood, [ProfilesNext]_profilesVars PROVE PicturesGood'
  OBVIOUS
<1> USE DEF serverVars, cacheVars, windowVars, history, bounds
<1>1. ASSUME NEW v \in Users, RemoveFile(v) PROVE PicturesGood'
  <2>1. /\ UNCHANGED <<picture, news, entries, job, feed, avatars, overtaken>>
        /\ disk \in [Users -> Versions] /\ disk' = [disk EXCEPT ![v] = 0]
    BY <1>1 DEF RemoveFile, Typed, ProfilesTypeOK
  <2> SUFFICES ASSUME NEW u \in Users \ overtaken, ~PictureNews(news, u)
               PROVE  PictureGood(u)'
    BY <2>1 DEF PicturesGood
  <2>2. PictureGood(u)
    BY DEF PicturesGood
  <2>3. disk'[u] = disk[u] \/ FileGood(disk'[u], picture[u])
    BY <2>1 DEF FileGood
  <2> QED
    BY <2>1, <2>2, <2>3 DEF PictureGood, EntryGood, LookupGood, FeedGood
<1>2. ASSUME NEW v \in Users, ContactName(v) PROVE PicturesGood'
  <2>1. UNCHANGED <<picture, news, entries, disk, feed, avatars, overtaken>>
    BY <1>2 DEF ContactName
  <2>2. PICK j \in Jobs :
          /\ job[j] = Free
          /\ job' = [job EXCEPT ![j] = [kind |-> "name", phase |-> "start", user |-> v, got |-> 0]]
    BY <1>2 DEF ContactName, Start
  <2>3. \A u \in Users : LookupsKept(u)
    BY <2>2 DEF LookupsKept, LookupOf, Lookups, Free, Typed, JobsTyped
  <2> QED
    BY <2>1, <2>3, PictureKept DEF PicturesGood
<1>3. CASE UNCHANGED <<picture, news, entries, disk, job, feed, avatars, overtaken>>
  BY <1>3, PictureKept DEF PicturesGood, LookupsKept
<1>4. CASE LearnMapping \/ DropName \/ ResetNames \/ \E r \in Rows : UnbindAvatar(r)
  <2>1. CASE DropName
    <3>1. UNCHANGED <<picture, entries, disk, job, feed, avatars, overtaken>>
      BY <2>1 DEF DropName
    <3>2. news # <<>> /\ news' = Tail(news) /\ news \in Seq(News)
          /\ \A u \in Users : ~IsPicture(Head(news), u)
      BY <2>1 DEF DropName, Typed, ProfilesTypeOK, News, IsPicture
    <3>3. \A u \in Users : PictureNews(news, u) => PictureNews(news', u)
      BY <3>2, NewsHandled
    <3> QED
      BY <3>1, <3>3, PictureKept DEF PicturesGood, LookupsKept
  <2> QED
    BY <1>3, <1>4, <2>1 DEF LearnMapping, ResetNames, UnbindAvatar
<1>5. CASE Restart
  BY <1>5 DEF Restart, PicturesGood
<1>6. CASE UNCHANGED profilesVars
  BY <1>3, <1>6 DEF profilesVars
<1> QED
  BY <1>1, <1>2, <1>4, <1>5, <1>6, CacheStepKeepsPictures, AnswerKeepsPictures,
     EventKeepsPictures, WindowKeepsPictures DEF ProfilesNext, JobNext, UserNext

-----------------------------------------------------------------------------
(* The theorems.                                                           *)

LEMMA InitProfilesIInv == ProfilesInit => ProfilesIInv
<1> SUFFICES ASSUME ProfilesInit PROVE ProfilesIInv
  OBVIOUS
<1>1. Typed
  BY InitTyped
<1>2. WidgetsAgree
  BY DEF ProfilesInit, WidgetsAgree
<1>3. NewsGood
  BY DEF ProfilesInit, NewsGood, LastPictureTold
<1>4. \A j \in Jobs : job[j].kind = "free"
  BY DEF ProfilesInit, Free
<1>5. PicturesGood
  BY <1>4 DEF ProfilesInit, PicturesGood, PictureGood, EntryGood, LookupGood, LookupOf, Lookups, FeedGood
<1>6. NamesGood
  BY DEF ProfilesInit, NamesGood
<1> QED
  BY <1>1, <1>2, <1>3, <1>5, <1>6 DEF ProfilesIInv, Typed

LEMMA ProfilesInvariance == ProfilesSpec => []ProfilesIInv
<1>1. ProfilesIInv /\ [ProfilesNext]_profilesVars => ProfilesIInv'
  BY NextTyped, NextWidgets, NextNews, NextPictures, NextNames DEF ProfilesIInv, Typed
<1> QED
  BY <1>1, InitProfilesIInv, PTL DEF ProfilesSpec

\* The caches, the goroutines, the events and the widgets stay well typed.
THEOREM ProfilesTypeCorrectness == ProfilesSpec => []ProfilesTypeOK
<1>1. ProfilesIInv => ProfilesTypeOK
  BY DEF ProfilesIInv
<1> QED
  BY <1>1, ProfilesInvariance, PTL

\* Every widget of a user shows the picture the window remembers of him.
THEOREM WidgetsAlwaysAgree == ProfilesSpec => []WidgetsAgree
<1>1. ProfilesIInv => WidgetsAgree
  BY DEF ProfilesIInv
<1> QED
  BY <1>1, ProfilesInvariance, PTL

\* When nothing of a user is under way and no lookup spanned the last change,
\* the window's picture, the daemon's entry and the file are the user's.
THEOREM SettledPictureAlwaysCurrent == ProfilesSpec => []SettledPictureIsCurrent
<1>1. ProfilesIInv => SettledPictureIsCurrent
  <2> SUFFICES ASSUME ProfilesIInv, NEW u \in Users \ overtaken, Quiet(u)
               PROVE  /\ avatars[u] \in {Unknown, picture[u]}
                      /\ entries[u] = "none" => picture[u] = 0
                      /\ entries[u] = "file" => disk[u] \in {0, picture[u]}
    BY DEF SettledPictureIsCurrent
  <2>1. ~PictureNews(news, u) /\ ~InFeed(feed, u) /\ ~InLookup(job, Lookups, u)
    BY DEF Quiet, PictureNews, IsPicture, InFeed, InLookup, LookupOf
  <2>2. PictureGood(u)
    BY <2>1 DEF ProfilesIInv, PicturesGood
  <2> QED
    BY <2>1, <2>2 DEF PictureGood, EntryGood, FileGood
<1> QED
  BY <1>1, ProfilesInvariance, PTL

\* A remembered name is the one the contacts hold, unless a lookup spanned the
\* change.
THEOREM NameAlwaysFollowsContact == ProfilesSpec => []NameFollowsContact
<1>1. ProfilesIInv => NameFollowsContact
  BY DEF ProfilesIInv, NamesGood, NameGood, NameFollowsContact, Quiet, ContactNews, IsContact
<1> QED
  BY <1>1, ProfilesInvariance, PTL
=============================================================================
