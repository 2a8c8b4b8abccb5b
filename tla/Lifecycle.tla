----------------------------- MODULE Lifecycle ------------------------------
(***************************************************************************)
(* Daemon processes competing for one Unix socket: ipc.Listen              *)
(* (packages/ipc/socket.go), main (apps/daemon/main.go) and the desktop's  *)
(* EnsureRunning (apps/desktop/daemonctl/daemonctl.go).                    *)
(*                                                                         *)
(* "file" is the process whose socket the path names.  The system calls of *)
(* Listen are steps of their own; net.Listen is two, the file appears at   *)
(* bind and answers from listen on.  Closing a Go Unix listener unlinks    *)
(* the path, whoever bound it, and so does main's deferred os.Remove.      *)
(***************************************************************************)
EXTENDS Integers, FiniteSets

CONSTANTS
    Daemons,      \* daemon processes (each may be started again once gone)
    NoFile        \* the path does not exist

ASSUME NoFileAssumption == NoFile \notin Daemons

VARIABLES
    pc,        \* where main is in each process
    file,      \* who bound the socket file
    attached,  \* processes a client's event stream is attached to
    orphaned,  \* history: processes whose socket file another one's shutdown
               \* has unlinked
    exposed    \* history: processes whose start met another one's between its
               \* probe and its os.Remove

vars == <<pc, file, attached, orphaned, exposed>>

\* "off" is no process.  Listen: "stat", "dial", "remove", "bind", "listen";
\* then main: "opening" the store and the session, "serving", "draining" in
\* GracefulStop, "cleanup" in the deferred calls.
Pcs == {"off", "stat", "dial", "remove", "bind", "listen", "opening", "serving",
        "draining", "cleanup"}

TypeOK ==
    /\ pc \in [Daemons -> Pcs]
    /\ file \in Daemons \cup {NoFile}
    /\ attached \subseteq {d \in Daemons : pc[d] \in {"serving", "draining"}}
    /\ orphaned \subseteq Daemons /\ exposed \subseteq Daemons

Goto(d, step) == pc' = [pc EXCEPT ![d] = step]
Exit(d) == Goto(d, "off")

\* A dial reaches a process that listens and has not closed its listener.
Answers(d) == pc[d] \in {"opening", "serving"}
SocketAnswers == file # NoFile /\ Answers(file)

\* Closing the listener, and os.Remove, unlink the path whoever bound it.
UnlinkPath(d) ==
    /\ file' = NoFile
    /\ orphaned' = orphaned \cup ({file} \ {NoFile, d})

Starting == {d \in Daemons : pc[d] \in {"stat", "dial", "remove", "bind", "listen"}}

Removing == {d \in Daemons : pc[d] = "remove"}

\* EnsureRunning spawns a daemon when none answers; a user may do so any time.
Spawn(d) ==
    /\ pc[d] = "off"
    /\ Goto(d, "stat")
    /\ orphaned' = orphaned \ {d}
    /\ exposed' = IF Removing = {} THEN exposed \ {d} ELSE exposed \cup {d}
    /\ UNCHANGED <<file, attached>>

-----------------------------------------------------------------------------
(* Listen.                                                                 *)

Stat(d) ==
    /\ pc[d] = "stat"
    /\ Goto(d, IF file = NoFile THEN "bind" ELSE "dial")
    /\ UNCHANGED <<file, attached, orphaned, exposed>>

MutantDialNeverAnswers(d) ==
    /\ pc[d] = "dial"
    /\ Goto(d, "remove")
    /\ exposed' = exposed \cup (Starting \ {d})
    /\ UNCHANGED <<file, attached, orphaned>>

MutantDialKeepsStaleFile(d) ==
    /\ pc[d] = "dial"
    /\ IF SocketAnswers THEN Exit(d) ELSE Goto(d, "bind")
    /\ UNCHANGED <<file, attached, orphaned, exposed>>

\* ErrAlreadyRunning ends the process.
Dial(d) ==
    /\ pc[d] = "dial"
    /\ IF SocketAnswers THEN Exit(d) /\ UNCHANGED exposed
       ELSE Goto(d, "remove") /\ exposed' = exposed \cup (Starting \ {d})
    /\ UNCHANGED <<file, attached, orphaned>>

\* Removing a file that is gone by now is an error, and a fatal one.
Remove(d) ==
    /\ pc[d] = "remove"
    /\ IF file = NoFile THEN Exit(d) ELSE Goto(d, "bind")
    /\ file' = NoFile
    /\ UNCHANGED <<attached, orphaned, exposed>>

\* bind fails if the path exists.
Bind(d) ==
    /\ pc[d] = "bind"
    /\ IF file = NoFile THEN Goto(d, "listen") /\ file' = d
                        ELSE Exit(d) /\ UNCHANGED file
    /\ UNCHANGED <<attached, orphaned, exposed>>

\* If chmod fails Listen closes the listener, which unlinks the file, and gives
\* up.
Listen(d) ==
    /\ pc[d] = "listen"
    /\ \/ Goto(d, "opening") /\ UNCHANGED <<file, orphaned>>
       \/ Exit(d) /\ UnlinkPath(d)
    /\ UNCHANGED <<attached, exposed>>

-----------------------------------------------------------------------------
(* main.                                                                   *)

\* log.Fatal exits without running the deferred calls: the file stays behind.
\* SIGTERM before Serve stops the server first; Serve then closes the listener
\* it is given and fails.
Open(d) ==
    /\ pc[d] = "opening"
    /\ \/ (Goto(d, "serving") \/ Exit(d)) /\ UNCHANGED <<file, orphaned>>
       \/ Exit(d) /\ UnlinkPath(d)
    /\ UNCHANGED <<attached, exposed>>

\* External: a client attaches its event stream, and leaves.
Attach(d) ==
    /\ pc[d] = "serving" /\ file = d
    /\ attached' = attached \cup {d}
    /\ UNCHANGED <<pc, file, orphaned, exposed>>

Detach(d) ==
    /\ d \in attached
    /\ attached' = attached \ {d}
    /\ UNCHANGED <<pc, file, orphaned, exposed>>

\* SIGTERM: GracefulStop closes the listener first, then waits for the calls
\* in progress, event streams included.
Terminate(d) ==
    /\ pc[d] = "serving"
    /\ Goto(d, "draining")
    /\ UnlinkPath(d)
    /\ UNCHANGED <<attached, exposed>>

Drained(d) ==
    /\ pc[d] = "draining"
    /\ d \notin attached
    /\ Goto(d, "cleanup")
    /\ UNCHANGED <<file, attached, orphaned, exposed>>

\* Serve returns and main's deferred os.Remove clears the path.
Cleanup(d) ==
    /\ pc[d] = "cleanup"
    /\ Exit(d)
    /\ UnlinkPath(d)
    /\ UNCHANGED <<attached, exposed>>

\* The process is killed, or the machine stops.
Crash(d) ==
    /\ pc[d] # "off"
    /\ Exit(d)
    /\ attached' = attached \ {d}
    /\ UNCHANGED <<file, orphaned, exposed>>

-----------------------------------------------------------------------------
Init ==
    /\ pc = [d \in Daemons |-> "off"]
    /\ file = NoFile
    /\ attached = {}
    /\ orphaned = {} /\ exposed = {}

Steps(d) ==
    \/ Stat(d) \/ Dial(d) \/ Remove(d) \/ Bind(d) \/ Listen(d)
    \/ Open(d) \/ Drained(d) \/ Cleanup(d)

Next ==
    \E d \in Daemons :
        \/ Spawn(d) \/ Steps(d)
        \/ Attach(d) \/ Detach(d) \/ Terminate(d) \/ Crash(d)

\* Fairness: a process that can run runs.  Nothing is assumed of the clients.
Spec == Init /\ [][Next]_vars /\ \A d \in Daemons : WF_vars(Steps(d))

-----------------------------------------------------------------------------
(* Properties.                                                             *)

Live(d) == pc[d] \in {"opening", "serving"}

\* One daemon at a time takes calls for the database and the WhatsApp session,
\* through crashes, shutdowns and stale socket files, but for a daemon whose
\* socket the late clean-up of a shutdown has unlinked, and one whose start met
\* another's between its probe and its os.Remove.
OneDaemon ==
    \A d, e \in Daemons :
        Live(d) /\ Live(e) => d = e \/ {d, e} \cap (orphaned \cup exposed) # {}

\* A running daemon can be found, but for those: the socket names it, so starts
\* that overlap in any other way leave it to the daemon that is, or is about to
\* be, served.
RunningIsReachable ==
    \A d \in Daemons \ (orphaned \cup exposed) : Live(d) => file = d

\* Listen unlinks only a socket nobody answers on: between its probe and its
\* os.Remove no daemon comes up behind the path, but one whose own start met
\* that very window.
RemovesOnlyDeadSocket ==
    [][\A d \in Daemons :
          pc[d] = "remove" /\ pc'[d] = "bind" => ~SocketAnswers \/ file \in exposed]_vars

Serving == file # NoFile /\ pc[file] = "serving"

\* Nobody is killed, fails or is told to stop: who ends does so because of what
\* its Listen found, or had been told to before.
Undisturbed ==
    \A d \in Daemons :
        pc'[d] # pc[d] /\ pc'[d] \in {"off", "draining"} =>
            Dial(d) \/ Remove(d) \/ Bind(d) \/ Cleanup(d)

\* "Racing spawns are harmless" (architecture.md:97-98), as far as that goes:
\* whoever loses its socket or gives up, and whatever stale file is found, once
\* nobody is disturbed and a daemon is wanted whenever none serves, one ends up
\* serving behind the path for good.
SomebodyServes ==
    <>[][Undisturbed]_vars /\ []<>(Starting # {} \/ Serving) => <>[]Serving
=============================================================================
