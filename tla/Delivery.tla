------------------------------ MODULE Delivery ------------------------------
(***************************************************************************)
(* The delivery status of outgoing messages: the RPCs that send, retry,    *)
(* forward and react (apps/daemon/wa/session.go, send_media.go,            *)
(* actions.go), the receipt handler, Store.UpdateMessageStatus             *)
(* (store/store.go) and the status the desktop client is told.             *)
(*                                                                         *)
(* Every RPC runs on a goroutine of its own, receipts run on whatsmeow's   *)
(* event goroutine.  UpdateMessageStatus is two statements on the single   *)
(* writer connection, a SELECT and an UPDATE, so two calls interleave.     *)
(* "shown" is the status in the last event published for the message: what *)
(* an attached client that has drained its stream displays.                *)
(***************************************************************************)
EXTENDS Integers

CONSTANTS
    Msgs,        \* ids of outgoing messages
    Rpcs,        \* RPC goroutines that may run at once (bound)
    Receipts     \* the event goroutine, when it handles a receipt

ASSUME MsgsAssumption == Msgs # {}
ASSUME ReceiptsAssumption == Receipts \notin Rpcs

VARIABLES
    status,     \* messages.status, "none" when there is no row
    kind,       \* "text", "media" (row with its payload) or "stripped" (media
                \* row without payload)
    accepted,   \* messages the server has accepted
    shown,      \* status in the last event published for the message
    proc,       \* what each goroutine is doing
    harmed      \* history: messages one of whose handlers met a failing
                \* statement or died with the daemon

vars == <<status, kind, accepted, shown, proc, harmed>>

Procs == Rpcs \cup {Receipts}
Statuses == {"pending", "sent", "delivered", "read", "failed"}
Kinds == {"text", "media", "stripped"}

Rank(s) == CASE s = "pending" -> 1 [] s = "sent" -> 2
             [] s = "delivered" -> 3 [] s = "read" -> 4 [] OTHER -> 0
Ranked(s) == Rank(s) > 0

\* Program counters: "network" while client.SendMessage is in flight, "select"
\* and "update" inside UpdateMessageStatus, "publish" before the event goes out;
\* "react" and "reacted" before and after the SendMessage of a reaction.  A
\* record's want is the status being written and then published; seen is what
\* the SELECT returned.
Pcs == {"idle", "network", "select", "update", "publish", "react", "reacted"}
ProcRecord == [pc : Pcs, msg : Msgs, want : Statuses, seen : Statuses]
Idle == [pc |-> "idle", msg |-> CHOOSE m \in Msgs : TRUE,
         want |-> "pending", seen |-> "pending"]

TypeOK ==
    /\ status \in [Msgs -> Statuses \cup {"none"}]
    /\ kind \in [Msgs -> Kinds]
    /\ accepted \subseteq Msgs
    /\ shown \in [Msgs -> Statuses \cup {"none"}]
    /\ proc \in [Procs -> ProcRecord]
    /\ harmed \subseteq Msgs

At(p, step) == proc[p].pc = step
Goto(p, step) == proc' = [proc EXCEPT ![p].pc = step]
Run(p, step, m, want) ==
    proc' = [proc EXCEPT ![p] = [pc |-> step, msg |-> m, want |-> want, seen |-> want]]
Stop(p) == proc' = [proc EXCEPT ![p] = Idle]

-----------------------------------------------------------------------------
(* The RPCs.                                                               *)

\* SendText, SendMedia: the optimistic pending row is inserted and published.
Record(p, m, k) ==
    /\ At(p, "idle")
    /\ status[m] = "none"
    /\ status' = [status EXCEPT ![m] = "pending"]
    /\ kind' = [kind EXCEPT ![m] = k]
    /\ shown' = [shown EXCEPT ![m] = "pending"]
    /\ Run(p, "network", m, "pending")
    /\ UNCHANGED <<accepted, harmed>>

SendText(p, m) == Record(p, m, "text")
SendMedia(p, m) == Record(p, m, "media")

\* ForwardMessage replays the payload of any stored message, received ones
\* included; the new row takes the Media that GetMessage scanned, and that has
\* no payload.
Forward(p, source, m) ==
    Record(p, m, IF source = "text" THEN "text" ELSE "stripped")

\* RetryText and RetryMedia: the client offers them on a message it shows as
\* failed, the daemon does not look at the status again.  RetryMedia gives up
\* when the row has no payload.
Retry(p, m) ==
    /\ At(p, "idle")
    /\ shown[m] = "failed"
    /\ kind[m] # "stripped"
    /\ Run(p, "select", m, "pending")
    /\ UNCHANGED <<status, kind, accepted, shown, harmed>>

\* ReactMessage reads the row, sends, and publishes the row it read.
React(p, m) ==
    /\ At(p, "idle")
    /\ status[m] # "none"
    /\ Run(p, "react", m, status[m])
    /\ UNCHANGED <<status, kind, accepted, shown, harmed>>

ReactReturns(p) ==
    /\ At(p, "react")
    /\ Goto(p, "reacted") \/ Stop(p)
    /\ UNCHANGED <<status, kind, accepted, shown, harmed>>

ReactPublishes(p) ==
    /\ At(p, "reacted")
    /\ shown' = [shown EXCEPT ![proc[p].msg] = proc[p].want]
    /\ Stop(p)
    /\ UNCHANGED <<status, kind, accepted, harmed>>

\* External: the server accepts the message while SendMessage is in flight.
ServerAccepts(p) ==
    /\ At(p, "network")
    /\ proc[p].msg \notin accepted
    /\ accepted' = accepted \cup {proc[p].msg}
    /\ UNCHANGED <<status, kind, shown, proc, harmed>>

MutantSendIgnoresError(p) ==
    /\ At(p, "network")
    /\ Run(p, "select", proc[p].msg, "sent")
    /\ UNCHANGED <<status, kind, accepted, shown, harmed>>

\* SendMessage returns without an error: finishSend marks the row sent ...
SendSucceeds(p) ==
    /\ At(p, "network")
    /\ proc[p].msg \in accepted
    /\ Run(p, "select", proc[p].msg, "sent")
    /\ UNCHANGED <<status, kind, accepted, shown, harmed>>

MutantFailureNotStored(p) ==
    /\ At(p, "network")
    /\ Stop(p)
    /\ UNCHANGED <<status, kind, accepted, shown, harmed>>

\* ... or with one (a timeout too, after which the server may have it): the
\* row is marked failed, which needs no SELECT.
SendFails(p) ==
    /\ At(p, "network")
    /\ Run(p, "update", proc[p].msg, "failed")
    /\ UNCHANGED <<status, kind, accepted, shown, harmed>>

-----------------------------------------------------------------------------
(* onReceipt: delivered and read receipts of accepted messages, in any     *)
(* order and any number of times.                                          *)

OnReceipt(m, s) ==
    /\ At(Receipts, "idle")
    /\ m \in accepted
    /\ Run(Receipts, "select", m, s)
    /\ UNCHANGED <<status, kind, accepted, shown, harmed>>

-----------------------------------------------------------------------------
(* UpdateMessageStatus.                                                    *)

MutantSelectUnranked(p) ==
    /\ At(p, "select")
    /\ LET seen == status[proc[p].msg]
       IN  proc' = [proc EXCEPT ![p].seen = seen, ![p].pc = "update"]
    /\ UNCHANGED <<status, kind, accepted, shown, harmed>>

\* The SELECT; a status that does not advance the stored one ends the call.
Select(p) ==
    /\ At(p, "select")
    /\ LET seen == status[proc[p].msg]
       IN  proc' = [proc EXCEPT ![p].seen = seen,
                                ![p].pc = IF Ranked(seen) /\ Rank(seen) >= Rank(proc[p].want)
                                          THEN "publish" ELSE "update"]
    /\ UNCHANGED <<status, kind, accepted, shown, harmed>>

Update(p) ==
    /\ At(p, "update")
    /\ status' = [status EXCEPT ![proc[p].msg] = proc[p].want]
    /\ Goto(p, "publish")
    /\ UNCHANGED <<kind, accepted, shown, harmed>>

\* A failed statement is logged by finishSend and by the error path, which
\* publish their own row anyway; a retry's first update and a receipt stop.
StatementFails(p) ==
    /\ proc[p].pc \in {"select", "update"}
    /\ IF p = Receipts \/ proc[p].want = "pending" THEN Stop(p) ELSE Goto(p, "publish")
    /\ harmed' = harmed \cup {proc[p].msg}
    /\ UNCHANGED <<status, kind, accepted, shown>>

\* A receipt publishes the row it reads back, an RPC its own copy of the row;
\* after a retry's pending the RPC goes on to the network.
Publish(p) ==
    /\ At(p, "publish")
    /\ LET m == proc[p].msg
       IN  shown' = [shown EXCEPT ![m] = IF p = Receipts THEN status[m] ELSE proc[p].want]
    /\ IF proc[p].want = "pending" THEN Goto(p, "network") ELSE Stop(p)
    /\ UNCHANGED <<status, kind, accepted, harmed>>

\* The daemon dies and is restarted: the rows survive, the calls do not, and
\* the client that reattaches keeps what it shows.
Crash ==
    /\ \E p \in Procs : ~At(p, "idle")
    /\ proc' = [p \in Procs |-> Idle]
    /\ harmed' = harmed \cup {proc[p].msg : p \in {q \in Procs : ~At(q, "idle")}}
    /\ UNCHANGED <<status, kind, accepted, shown>>

-----------------------------------------------------------------------------
Init ==
    /\ status = [m \in Msgs |-> "none"]
    /\ kind = [m \in Msgs |-> "text"]
    /\ accepted = {}
    /\ shown = [m \in Msgs |-> "none"]
    /\ proc = [p \in Procs |-> Idle]
    /\ harmed = {}

UserNext(p) ==
    \E m \in Msgs :
        \/ SendText(p, m) \/ SendMedia(p, m) \/ Retry(p, m) \/ React(p, m)
        \/ \E source \in {"text", "media"} : Forward(p, source, m)

Steps(p) ==
    \/ SendSucceeds(p) \/ SendFails(p) \/ ReactReturns(p) \/ ReactPublishes(p)
    \/ Select(p) \/ Update(p) \/ StatementFails(p) \/ Publish(p)

Next ==
    \/ \E p \in Rpcs : UserNext(p) \/ ServerAccepts(p)
    \/ \E m \in Msgs, s \in {"delivered", "read"} : OnReceipt(m, s)
    \/ \E p \in Procs : Steps(p)
    \/ Crash

(***************************************************************************)
(* Fairness: a goroutine that can run runs, and SendMessage returns sooner *)
(* or later (its own timeout, or the RPC's context).  Nothing is assumed   *)
(* of the user, of the server or of the other phone.                       *)
(***************************************************************************)
Fairness == \A p \in Procs : WF_vars(Steps(p))

Spec == Init /\ [][Next]_vars /\ Fairness

-----------------------------------------------------------------------------
(* Properties.                                                             *)

\* A status the user reads as "it left my machine" is never invented: a row is
\* sent, delivered or read only if the server accepted the message, whatever
\* the RPC, its retries and the receipts write in between.
AcknowledgedWasAccepted ==
    \A m \in Msgs : status[m] \in {"sent", "delivered", "read"} => m \in accepted

\* "Statuses never move backwards; failed always applies" (store.go:888-889)
\* holds of every update that no other one overtook between its SELECT and its
\* UPDATE.
NoDowngradeUnlessOvertaken ==
    [][\A m \in Msgs :
         (/\ Ranked(status[m]) /\ status'[m] # "failed"
          /\ \A p \in Procs : At(p, "update") /\ proc[p].msg = m => proc[p].seen = status[m])
         => Rank(status'[m]) >= Rank(status[m])]_vars

\* A message the user sees as pending is being worked on: no stored pending row
\* is left without a goroutine that will settle it (a row stuck on pending
\* offers no retry), unless a statement of its handler failed or the daemon
\* died under it.
PendingHasAnOwner ==
    \A m \in Msgs \ harmed : status[m] = "pending" =>
        \E p \in Rpcs : /\ proc[p].pc \in {"network", "select", "update", "publish"}
                        /\ proc[p].msg = m

\* No row stays pending for ever: whatever the order of sends, retries, failures
\* and receipts, and whatever befalls other messages.
PendingIsResolved ==
    \A m \in Msgs : status[m] = "pending" /\ m \notin harmed
                       ~> status[m] # "pending" \/ m \in harmed

=============================================================================
