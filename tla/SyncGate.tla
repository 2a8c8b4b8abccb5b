------------------------------ MODULE SyncGate ------------------------------
(***************************************************************************)
(* What the rest of the daemon and its clients are promised of the sync    *)
(* tracker (apps/daemon/wa/sync.go): which stage may be announced in which *)
(* phase of the session, and what is at work on it.  The stages that keep  *)
(* a client on the progress page are one, "GATED".                         *)
(*                                                                         *)
(* SyncTracker implements it from timers, flags and goroutines; the feed   *)
(* of EventStream, which announces the stage among other things, follows   *)
(* it too.                                                                 *)
(***************************************************************************)

VARIABLES
    session,    \* "boot", "out" of a pairing, "waiting" for one, "scanned",
                \* or "linked"
    active,     \* a sync is under way
    finishing,  \* one that has ended is being tidied up, even one of an
                \* earlier pairing
    sync        \* the stage announced

vars == <<session, active, finishing, sync>>

Init ==
    /\ session = "boot"
    /\ active = FALSE /\ finishing = FALSE
    /\ sync \in {"IDLE", "DONE"}

\* A daemon comes up idle, or with the sync of its device done.
Restart ==
    /\ session' = "boot"
    /\ active' = FALSE /\ finishing' = FALSE
    /\ sync' \in {"IDLE", "DONE"}

GiveUp ==
    /\ session = "boot"
    /\ session' = "out"
    /\ UNCHANGED <<active, finishing, sync>>

\* Without a device a scan is awaited, and the sync is forgotten then or after.
Await ==
    /\ session \in {"boot", "out", "waiting"}
    /\ session' = "waiting"
    /\ \/ sync' = "IDLE" /\ active' = FALSE
       \/ UNCHANGED <<sync, active>>
    /\ UNCHANGED finishing

Scan ==
    /\ session = "waiting"
    /\ session' = "scanned"
    /\ UNCHANGED <<active, finishing, sync>>

\* A session that begins gates its clients, unless it was announced as synced.
Begin ==
    /\ session \in {"boot", "scanned"}
    /\ session' = "linked"
    /\ IF sync = "IDLE" THEN active' = TRUE /\ sync' = "GATED"
       ELSE UNCHANGED <<active, sync>>
    /\ UNCHANGED finishing

Proceed ==
    /\ active
    /\ sync' = "GATED"
    /\ UNCHANGED <<session, active, finishing>>

\* The sync ends, its rows are tidied, and only then is it announced as done.
Finish ==
    /\ active
    /\ active' = FALSE /\ finishing' = TRUE
    /\ sync' = "GATED"
    /\ UNCHANGED session

Report ==
    /\ finishing
    /\ finishing' \in BOOLEAN
    /\ sync' = "DONE"
    /\ UNCHANGED <<session, active>>

\* A logout releases the gate at once.
LogOut ==
    /\ session \in {"scanned", "linked"}
    /\ session' = "out"
    /\ active' = FALSE
    /\ sync' = "IDLE"
    /\ UNCHANGED finishing

Next ==
    \/ Restart \/ GiveUp \/ Await \/ Scan \/ Begin
    \/ Proceed \/ Finish \/ Report \/ LogOut

Spec == Init /\ [][Next]_vars
=============================================================================
