-------------------------- MODULE Delivery_proofs ---------------------------
(***************************************************************************)
(* Proofs about the delivery status, for any number of messages and of RPC *)
(* goroutines: no acknowledgement is invented, a pending message has an    *)
(* owner, and only an overtaken update moves a status backwards.           *)
(***************************************************************************)
EXTENDS Delivery, TLAPS

\* A goroutine works on a message that has a row, and so does whatever refers
\* to one: the server, the client.
RowsExist ==
    /\ \A p \in Procs : ~At(p, "idle") => status[proc[p].msg] # "none"
    /\ \A m \in Msgs : m \in accepted => status[m] # "none"
    /\ \A m \in Msgs : shown[m] # "none" => status[m] # "none"

Acknowledging == {"sent", "delivered", "read"}
Writing == {"select", "update", "publish"}

\* Only of an accepted message does a goroutine set out to write that it was
\* sent, delivered or read.
WritersKnow ==
    \A p \in Procs : proc[p].pc \in Writing /\ proc[p].want \in Acknowledging
                        => proc[p].msg \in accepted

\* What the SELECT let through advances the status it saw.
UpdatesAdvance ==
    \A p \in Procs : At(p, "update") =>
        \/ proc[p].want = "failed"
        \/ ~Ranked(proc[p].seen)
        \/ Rank(proc[p].seen) < Rank(proc[p].want)

\* The goroutine that owns a pending message will write its status again.
Owns(p, m) ==
    /\ proc[p].msg = m
    /\ \/ proc[p].pc \in {"network", "select", "update"}
       \/ proc[p].pc = "publish" /\ proc[p].want = "pending"

Owned == \A m \in Msgs \ harmed : status[m] = "pending" => \E p \in Rpcs : Owns(p, m)

\* The event goroutine only ever writes acknowledgements.
ReceiptsAcknowledge ==
    ~At(Receipts, "idle") =>
        /\ proc[Receipts].pc \in Writing
        /\ proc[Receipts].want \in Acknowledging

IInv ==
    /\ TypeOK
    /\ RowsExist
    /\ WritersKnow
    /\ UpdatesAdvance
    /\ Owned
    /\ ReceiptsAcknowledge
    /\ AcknowledgedWasAccepted

-----------------------------------------------------------------------------
LEMMA IdleIsTyped == Idle \in ProcRecord /\ Idle.pc = "idle"
<1>1. (CHOOSE m \in Msgs : TRUE) \in Msgs
  BY MsgsAssumption
<1> QED
  BY <1>1 DEF Idle, ProcRecord, Pcs, Statuses

LEMMA InitIInv == Init => IInv
  BY IdleIsTyped
  DEF Init, IInv, TypeOK, RowsExist, WritersKnow, UpdatesAdvance, Owned, ReceiptsAcknowledge,
      AcknowledgedWasAccepted, At, Writing, Acknowledging, Statuses, Kinds, Procs

-----------------------------------------------------------------------------
(* The user's RPCs.                                                        *)

\* A new row is pending and owned by the goroutine that inserted it.
LEMMA RecordKeepsIInv ==
    ASSUME IInv, NEW p \in Rpcs, NEW m \in Msgs, NEW k \in Kinds, Record(p, m, k)
    PROVE  IInv'
<1> USE ReceiptsAssumption DEF Record, IInv, At, Run, Procs
<1>1. TypeOK'
  BY DEF TypeOK, ProcRecord, Pcs, Statuses, Kinds
<1>2. RowsExist' /\ AcknowledgedWasAccepted'
  BY DEF TypeOK, RowsExist, AcknowledgedWasAccepted
<1>3. WritersKnow' /\ UpdatesAdvance' /\ ReceiptsAcknowledge'
  BY DEF TypeOK, WritersKnow, UpdatesAdvance, ReceiptsAcknowledge, Writing, Acknowledging
<1>4. Owned'
  BY DEF TypeOK, Owned, Owns
<1> QED
  BY <1>1, <1>2, <1>3, <1>4

\* The other actions of an RPC that has not begun.
LEMMA BeginKeepsIInv ==
    ASSUME IInv, NEW p \in Procs, NEW m \in Msgs, NEW want \in Statuses,
           NEW step \in {"select", "react"},
           At(p, "idle"), Run(p, step, m, want), status[m] # "none",
           p = Receipts => step = "select" /\ m \in accepted /\ want \in Acknowledging,
           p # Receipts /\ step = "select" => want = "pending",
           UNCHANGED <<status, kind, accepted, shown, harmed>>
    PROVE  IInv'
<1> USE ReceiptsAssumption DEF IInv, At, Run, Procs
<1>1. TypeOK'
  BY DEF TypeOK, ProcRecord, Pcs
<1>2. RowsExist' /\ AcknowledgedWasAccepted'
  BY DEF TypeOK, RowsExist, AcknowledgedWasAccepted
<1>3. WritersKnow' /\ UpdatesAdvance' /\ ReceiptsAcknowledge'
  BY DEF TypeOK, WritersKnow, UpdatesAdvance, ReceiptsAcknowledge, Writing, Acknowledging
<1>4. Owned'
  BY DEF TypeOK, Owned, Owns
<1> QED
  BY <1>1, <1>2, <1>3, <1>4

LEMMA UserKeepsIInv ==
    ASSUME IInv, NEW p \in Rpcs, UserNext(p)
    PROVE  IInv'
<1>1. PICK m \in Msgs :
        \/ SendText(p, m) \/ SendMedia(p, m) \/ Retry(p, m) \/ React(p, m)
        \/ \E source \in {"text", "media"} : Forward(p, source, m)
  BY DEF UserNext
<1>2. ASSUME NEW k \in Kinds, Record(p, m, k) PROVE IInv'
  BY <1>2, RecordKeepsIInv
<1>3. CASE SendText(p, m) \/ SendMedia(p, m) \/ \E source \in {"text", "media"} : Forward(p, source, m)
  BY <1>2, <1>3 DEF SendText, SendMedia, Forward, Kinds
<1>4. CASE Retry(p, m)
  <2>1. status[m] # "none" /\ p # Receipts /\ p \in Procs
    BY <1>4, ReceiptsAssumption DEF Retry, IInv, RowsExist, Procs
  <2> QED
    BY <1>4, <2>1, BeginKeepsIInv DEF Retry, Statuses
<1>5. CASE React(p, m)
  <2>1. p # Receipts /\ p \in Procs /\ status[m] \in Statuses
    BY <1>5, ReceiptsAssumption DEF React, IInv, TypeOK, Procs
  <2> QED
    BY <1>5, <2>1, BeginKeepsIInv DEF React
<1> QED
  BY <1>1, <1>3, <1>4, <1>5

LEMMA ReceiptKeepsIInv ==
    ASSUME IInv, NEW m \in Msgs, NEW s \in {"delivered", "read"}, OnReceipt(m, s)
    PROVE  IInv'
<1>1. Receipts \in Procs /\ status[m] # "none"
  BY DEF OnReceipt, IInv, RowsExist, Procs
<1> QED
  BY <1>1, BeginKeepsIInv DEF OnReceipt, Statuses, Acknowledging

-----------------------------------------------------------------------------
(* The steps of a running goroutine.                                       *)

\* Those that touch neither a row nor the server's state move one goroutine on.
LEMMA NetworkKeepsIInv ==
    ASSUME IInv, NEW p \in Rpcs,
           \/ ServerAccepts(p) \/ SendSucceeds(p) \/ SendFails(p)
           \/ ReactReturns(p) \/ ReactPublishes(p)
    PROVE  IInv'
<1> USE ReceiptsAssumption, IdleIsTyped DEF IInv, At, Run, Goto, Stop, Procs, TypeOK, ProcRecord
<1>1. CASE ServerAccepts(p)
  BY <1>1
  DEF ServerAccepts, RowsExist, WritersKnow, UpdatesAdvance, Owned, Owns,
      ReceiptsAcknowledge, AcknowledgedWasAccepted
<1>2. CASE SendSucceeds(p)
  BY <1>2
  DEF SendSucceeds, RowsExist, WritersKnow, UpdatesAdvance, Owned, Owns, Writing, Pcs, Statuses,
      ReceiptsAcknowledge, AcknowledgedWasAccepted
<1>3. CASE SendFails(p)
  BY <1>3
  DEF SendFails, RowsExist, WritersKnow, UpdatesAdvance, Owned, Owns, Acknowledging, Pcs, Statuses,
      ReceiptsAcknowledge, AcknowledgedWasAccepted
<1>4. CASE ReactReturns(p)
  BY <1>4
  DEF ReactReturns, RowsExist, WritersKnow, UpdatesAdvance, Owned, Owns, Writing, Pcs,
      ReceiptsAcknowledge, AcknowledgedWasAccepted
<1>5. CASE ReactPublishes(p)
  BY <1>5
  DEF ReactPublishes, RowsExist, WritersKnow, UpdatesAdvance, Owned, Owns, Writing,
      ReceiptsAcknowledge, AcknowledgedWasAccepted
<1> QED
  BY <1>1, <1>2, <1>3, <1>4, <1>5

\* UpdateMessageStatus and the event published after it.
LEMMA StoreKeepsIInv ==
    ASSUME IInv, NEW p \in Procs,
           Select(p) \/ Update(p) \/ Publish(p) \/ StatementFails(p)
    PROVE  IInv'
<1> USE ReceiptsAssumption, IdleIsTyped DEF IInv, At, Run, Goto, Stop, Procs, TypeOK, ProcRecord
<1>1. CASE Select(p)
  <2>1. status[proc[p].msg] \in Statuses
    BY <1>1 DEF Select, RowsExist
  <2>2. TypeOK'
    BY <1>1, <2>1 DEF Select, Pcs
  <2>3. RowsExist' /\ AcknowledgedWasAccepted'
    BY <1>1 DEF Select, RowsExist, AcknowledgedWasAccepted
  <2>4. WritersKnow' /\ ReceiptsAcknowledge'
    BY <1>1 DEF Select, WritersKnow, ReceiptsAcknowledge, Writing, Acknowledging
  <2>5. UpdatesAdvance'
    <3>1. CASE Ranked(status[proc[p].msg]) /\ Rank(status[proc[p].msg]) >= Rank(proc[p].want)
      BY <1>1, <3>1 DEF Select, UpdatesAdvance
    <3>2. CASE ~Ranked(status[proc[p].msg])
      BY <1>1, <3>2 DEF Select, UpdatesAdvance
    <3>3. CASE ~(Rank(status[proc[p].msg]) >= Rank(proc[p].want))
      <4>1. Rank(status[proc[p].msg]) \in Nat /\ Rank(proc[p].want) \in Nat
        BY DEF Rank
      <4>2. Rank(status[proc[p].msg]) < Rank(proc[p].want)
        BY <3>3, <4>1
      <4> QED
        BY <1>1, <3>3, <4>2 DEF Select, UpdatesAdvance
    <3> QED
      BY <3>1, <3>2, <3>3
  <2>6. Owned'
    <3>1. SUFFICES ASSUME NEW m \in Msgs \ harmed, status[m] = "pending"
                   PROVE  \E q \in Rpcs : Owns(q, m)'
      BY <1>1 DEF Select, Owned
    <3>2. PICK q \in Rpcs : Owns(q, m)
      BY <3>1 DEF Owned
    <3>3. CASE q # p
      BY <1>1, <3>2, <3>3 DEF Select, Owns
    <3>4. CASE q = p
      BY <1>1, <3>1, <3>2, <3>4 DEF Select, Owns, Statuses, Rank
    <3> QED
      BY <3>3, <3>4
  <2> QED
    BY <2>2, <2>3, <2>4, <2>5, <2>6
<1>2. CASE Update(p)
  BY <1>2
  DEF Update, RowsExist, WritersKnow, UpdatesAdvance, Owned, Owns, Writing, Acknowledging, Pcs,
      Statuses, ReceiptsAcknowledge, AcknowledgedWasAccepted
<1>3. CASE Publish(p)
  BY <1>3
  DEF Publish, RowsExist, WritersKnow, UpdatesAdvance, Owned, Owns, Writing, Acknowledging, Pcs,
      ReceiptsAcknowledge, AcknowledgedWasAccepted
<1>4. CASE StatementFails(p)
  BY <1>4
  DEF StatementFails, RowsExist, WritersKnow, UpdatesAdvance, Owned, Owns, Writing, Acknowledging,
      Pcs, ReceiptsAcknowledge, AcknowledgedWasAccepted
<1> QED
  BY <1>1, <1>2, <1>3, <1>4

\* No call survives the daemon.
LEMMA CrashKeepsIInv == IInv /\ Crash => IInv'
<1> SUFFICES ASSUME IInv, Crash PROVE IInv'
  OBVIOUS
<1> USE IdleIsTyped DEF Crash, IInv, TypeOK, At, Procs, ProcRecord
<1>1. TypeOK' /\ RowsExist' /\ AcknowledgedWasAccepted'
  BY DEF RowsExist, AcknowledgedWasAccepted
<1>2. WritersKnow' /\ UpdatesAdvance' /\ ReceiptsAcknowledge'
  BY DEF WritersKnow, UpdatesAdvance, ReceiptsAcknowledge, Writing
<1>3. Owned'
  <2>1. SUFFICES ASSUME NEW m \in Msgs, m \notin harmed', status[m] = "pending"
                 PROVE  FALSE
    BY DEF Owned
  <2>2. PICK p \in Rpcs : Owns(p, m)
    BY <2>1 DEF Owned
  <2>3. p \in Procs /\ proc[p].pc # "idle" /\ proc[p].msg = m
    BY <2>2 DEF Owns
  <2> QED
    BY <2>1, <2>3
<1> QED
  BY <1>1, <1>2, <1>3

LEMMA StepKeepsIInv == IInv /\ [Next]_vars => IInv'
<1> SUFFICES ASSUME IInv, [Next]_vars PROVE IInv'
  OBVIOUS
<1>1. ASSUME NEW p \in Rpcs, UserNext(p) \/ ServerAccepts(p) PROVE IInv'
  BY <1>1, UserKeepsIInv, NetworkKeepsIInv
<1>2. ASSUME NEW m \in Msgs, NEW s \in {"delivered", "read"}, OnReceipt(m, s) PROVE IInv'
  BY <1>2, ReceiptKeepsIInv
<1>3. ASSUME NEW p \in Procs, Steps(p) PROVE IInv'
  <2>1. CASE p = Receipts
    BY <1>3, <2>1, StoreKeepsIInv
    DEF Steps, SendSucceeds, SendFails, ReactReturns, ReactPublishes, At, IInv,
        ReceiptsAcknowledge, Writing
  <2>2. CASE p \in Rpcs
    BY <1>3, <2>2, NetworkKeepsIInv, StoreKeepsIInv DEF Steps
  <2> QED
    BY <2>1, <2>2 DEF Procs
<1>4. CASE Crash
  BY <1>4, CrashKeepsIInv
<1>5. CASE UNCHANGED vars
  BY <1>5
  DEF vars, IInv, TypeOK, RowsExist, WritersKnow, UpdatesAdvance, Owned, Owns,
      ReceiptsAcknowledge, AcknowledgedWasAccepted, At
<1> QED
  BY <1>1, <1>2, <1>3, <1>4, <1>5 DEF Next

LEMMA IInvHolds == Spec => []IInv
  BY InitIInv, StepKeepsIInv, PTL DEF Spec

-----------------------------------------------------------------------------
(* Statuses move forward.                                                  *)

\* The one statement that changes the status of a message that has one.
LEMMA OnlyUpdatesChange ==
    ASSUME IInv, [Next]_vars, NEW m \in Msgs, status[m] # "none", status'[m] # status[m]
    PROVE  \E p \in Procs : Update(p) /\ proc[p].msg = m
<1>1. ASSUME NEW p \in Procs, Update(p) PROVE proc[p].msg = m
  BY <1>1 DEF Update, IInv, TypeOK, ProcRecord
<1>2. ASSUME NEW p \in Rpcs, UserNext(p) PROVE FALSE
  BY <1>2
  DEF UserNext, SendText, SendMedia, Forward, Record, Retry, React, IInv, TypeOK
<1> QED
  BY <1>1, <1>2
  DEF Next, Steps, ServerAccepts, OnReceipt, SendSucceeds, SendFails, ReactReturns,
      ReactPublishes, Select, StatementFails, Publish, Crash, vars

LEMMA StepKeepsRank ==
    ASSUME IInv, [Next]_vars, NEW m \in Msgs,
           Ranked(status[m]), status'[m] # "failed",
           \A p \in Procs : At(p, "update") /\ proc[p].msg = m => proc[p].seen = status[m]
    PROVE  Rank(status'[m]) >= Rank(status[m])
<1>1. CASE status'[m] = status[m]
  BY <1>1 DEF Rank
<1>2. CASE status'[m] # status[m]
  <2>1. status[m] # "none"
    BY DEF Ranked, Rank
  <2>2. PICK p \in Procs : Update(p) /\ proc[p].msg = m
    BY <1>2, <2>1, OnlyUpdatesChange
  <2>3. status'[m] = proc[p].want /\ proc[p].seen = status[m]
    BY <2>2 DEF Update, At, IInv, TypeOK
  <2>4. Rank(proc[p].seen) < Rank(proc[p].want)
    BY <2>2, <2>3 DEF Update, IInv, UpdatesAdvance
  <2> QED
    BY <2>3, <2>4 DEF Rank
<1> QED
  BY <1>1, <1>2

-----------------------------------------------------------------------------
(* Theorems.                                                               *)

\* Every variable keeps its type: in particular no status is ever written for a
\* message without a row (store.go:888-916).
THEOREM TypeCorrectness == Spec => []TypeOK
  BY IInvHolds, PTL DEF IInv

\* Sent, delivered and read are only ever shown of what the server accepted
\* (session.go:941-968, 423-447).
THEOREM AcknowledgementsAreTrue == Spec => []AcknowledgedWasAccepted
  BY IInvHolds, PTL DEF IInv

\* Every pending message none of whose handlers met a failing statement or a
\* crash has a goroutine that will settle it.
THEOREM PendingAlwaysOwned == Spec => []PendingHasAnOwner
<1>1. IInv => PendingHasAnOwner
  BY DEF IInv, Owned, Owns, PendingHasAnOwner
<1> QED
  BY <1>1, IInvHolds, PTL

\* An update moves a status backwards only when another one came between its
\* SELECT and its UPDATE (store.go:901-912).
THEOREM OnlyOvertakenUpdatesDowngrade == Spec => NoDowngradeUnlessOvertaken
<1>1. IInv /\ [Next]_vars =>
        [\A m \in Msgs :
           (/\ Ranked(status[m]) /\ status'[m] # "failed"
            /\ \A p \in Procs : At(p, "update") /\ proc[p].msg = m => proc[p].seen = status[m])
           => Rank(status'[m]) >= Rank(status[m])]_vars
  BY StepKeepsRank
<1> QED
  BY <1>1, IInvHolds, PTL DEF Spec, NoDowngradeUnlessOvertaken
=============================================================================
