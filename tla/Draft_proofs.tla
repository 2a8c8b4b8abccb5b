---------------------------- MODULE Draft_proofs ----------------------------
(***************************************************************************)
(* What the composer holds is what the user chose, for every set of chats, *)
(* messages and files and any number of sends at once.                     *)
(*                                                                         *)
(* StagedFileIsKept needs more than the state it speaks of: an answer that *)
(* takes the staged file down is that of an upload of this very file, or   *)
(* of one that was already under way when the file was staged.  UploadsDue *)
(* says so of every call in flight, and holds because a call takes the     *)
(* file that is staged and staging records the calls under way.            *)
(***************************************************************************)
EXTENDS Draft, TLAPS

\* A call that uploads a file uploads the staged one, or began before it was
\* staged.
UploadsDue ==
    pending # None =>
        \A j \in Jobs : job[j].file # None => job[j].file = pending \/ j \in during

\* A dialog on screen has been opened.
DialogCounted == shown => dialogs # 0

IInv == TypeOK /\ PreviewIsOfStaged /\ StagedForOpenChat /\ UploadsDue /\ DialogCounted

-----------------------------------------------------------------------------
(* The parts of the state and what keeps them.                             *)

ComposerTyped == active \in Chats \cup {NoChat} /\ text \in BOOLEAN /\ replyTo \in Msgs \cup {None}
BarTyped ==
    /\ pending \in Files \cup {None} /\ thumb \in Images \cup {None}
    /\ decoding \subseteq Images /\ stagedIn \in Chats \cup {NoChat}
CallsTyped == job \in [Jobs -> JobRecord] /\ during \subseteq Jobs
DialogTyped ==
    /\ dialogs \in 0..MaxDialogs /\ shown \in BOOLEAN
    /\ opening \subseteq (1..MaxDialogs) \X Chats
OthersTyped == pasting \subseteq Images /\ gone \subseteq Msgs

LEMMA Parts ==
    /\ TypeOK <=> ComposerTyped /\ BarTyped /\ CallsTyped /\ DialogTyped /\ OthersTyped
    /\ TypeOK' <=> ComposerTyped' /\ BarTyped' /\ CallsTyped' /\ DialogTyped' /\ OthersTyped'
  BY DEF TypeOK, ComposerTyped, BarTyped, CallsTyped, DialogTyped, OthersTyped

DialogGood == DialogTyped /\ DialogCounted
BarGood == BarTyped /\ PreviewIsOfStaged /\ StagedForOpenChat

LEMMA CancelKeepsBar ==
    ASSUME BarTyped, CancelAttachment
    PROVE  BarGood' /\ UploadsDue'
  BY DEF BarGood, BarTyped, CancelAttachment, PreviewIsOfStaged, StagedForOpenChat, UploadsDue

LEMMA StageKeepsBar ==
    ASSUME IInv, NEW f \in Files, StageAttachment(f), UNCHANGED <<active, job>>
    PROVE  BarGood' /\ UploadsDue' /\ during' \subseteq Jobs
<1> USE ImagesAssumption, NoneAssumption
<1>1. BarTyped' /\ during' \subseteq Jobs
  BY DEF IInv, TypeOK, BarTyped, StageAttachment, ShowAttachmentBar
<1>2. PreviewIsOfStaged' /\ StagedForOpenChat'
  BY DEF PreviewIsOfStaged, StagedForOpenChat, StageAttachment, ShowAttachmentBar
<1>3. UploadsDue'
  BY DEF IInv, StageAttachment, UploadsDue, Free
<1> QED
  BY <1>1, <1>2, <1>3 DEF BarGood

LEMMA BarKept ==
    ASSUME IInv, UNCHANGED <<active, attachment>>
    PROVE  BarGood'
  BY DEF IInv, TypeOK, BarGood, BarTyped, attachment, PreviewIsOfStaged, StagedForOpenChat

LEMMA CallsKept ==
    ASSUME IInv, UNCHANGED <<job, during>>
    PROVE  CallsTyped'
  BY DEF IInv, TypeOK, CallsTyped

LEMMA UploadsKept ==
    ASSUME IInv, UNCHANGED <<pending, job, during>>
    PROVE  UploadsDue'
  BY DEF IInv, UploadsDue

LEMMA ComposerKept ==
    ASSUME IInv, UNCHANGED composer
    PROVE  ComposerTyped'
  BY DEF IInv, TypeOK, ComposerTyped, composer

LEMMA DialogKept ==
    ASSUME IInv, UNCHANGED dialogVars
    PROVE  DialogGood'
  BY DEF IInv, TypeOK, DialogGood, DialogTyped, DialogCounted, dialogVars

LEMMA OthersKept ==
    ASSUME IInv, UNCHANGED <<pasting, gone>>
    PROVE  OthersTyped'
  BY DEF IInv, TypeOK, OthersTyped

LEMMA Together ==
    ASSUME ComposerTyped', BarGood', CallsTyped', UploadsDue', DialogGood', OthersTyped'
    PROVE  IInv'
  BY Parts DEF IInv, BarGood, DialogGood

LEMMA FreeIsTyped == Free \in JobRecord
  BY DEF Free, JobRecord, Phases

-----------------------------------------------------------------------------
(* The inductive invariant, one step per action.                           *)

LEMMA InitIInv == Init => IInv
<1> SUFFICES ASSUME Init PROVE IInv
  OBVIOUS
<1>1. ComposerTyped /\ BarTyped /\ OthersTyped
  BY DEF Init, ComposerTyped, BarTyped, OthersTyped
<1>2. CallsTyped
  BY FreeIsTyped DEF Init, CallsTyped
<1>3. DialogTyped
  <2>1. 0 \in 0..MaxDialogs
    BY MaxDialogsAssumption
  <2>2. dialogs \in 0..MaxDialogs /\ shown \in BOOLEAN
    BY <2>1, Zenon DEF Init
  <2>3. opening = {}
    BY DEF Init
  <2> QED
    BY <2>2, <2>3 DEF DialogTyped
<1>4. PreviewIsOfStaged /\ StagedForOpenChat /\ UploadsDue /\ DialogCounted
  BY DEF Init, PreviewIsOfStaged, StagedForOpenChat, UploadsDue, DialogCounted
<1> QED
  BY <1>1, <1>2, <1>3, <1>4, Parts DEF IInv

\* A call takes what the composer holds.
LEMMA CallKeeps ==
    ASSUME IInv, NEW file \in {None, pending}, Call(file), UNCHANGED <<pending, during>>
    PROVE  CallsTyped' /\ UploadsDue'
<1>1. PICK j \in Jobs :
        job' = [job EXCEPT ![j] = [phase |-> "called", chat |-> active, file |-> file,
                                   quoted |-> replyTo]]
  BY DEF Call
<1>2. [phase |-> "called", chat |-> active, file |-> file, quoted |-> replyTo] \in JobRecord
  BY DEF IInv, TypeOK, JobRecord, Phases
<1>3. CallsTyped'
  BY <1>1, <1>2 DEF IInv, TypeOK, CallsTyped
<1>4. ASSUME NEW i \in Jobs PROVE job'[i].file \in {job[i].file, file}
  BY <1>1 DEF IInv, TypeOK
<1> QED
  BY <1>3, <1>4 DEF IInv, UploadsDue

LEMMA StageStep ==
    ASSUME IInv, NEW f \in Files, ChooseFile(f) \/ Paste(f) \/ Pasted(f)
    PROVE  IInv'
<1>1. CASE ChooseFile(f)
  <2>1. BarGood' /\ UploadsDue' /\ CallsTyped'
    BY <1>1, StageKeepsBar DEF ChooseFile, composer, IInv, TypeOK, CallsTyped
  <2> QED
    BY <1>1, <2>1, ComposerKept, DialogKept, OthersKept, Together DEF ChooseFile
<1>2. CASE Paste(f)
  <2>1. OthersTyped'
    BY <1>2 DEF Paste, OthersTyped, IInv, TypeOK
  <2> QED
    BY <1>2, <2>1, BarKept, CallsKept, UploadsKept, ComposerKept, DialogKept, Together
       DEF Paste, composer, attachment
<1>3. CASE Pasted(f)
  <2>1. OthersTyped'
    BY <1>3 DEF Pasted, OthersTyped, IInv, TypeOK
  <2>2. CASE StageAttachment(f)
    <3>1. BarGood' /\ UploadsDue' /\ CallsTyped'
      BY <1>3, <2>2, StageKeepsBar DEF Pasted, composer, IInv, TypeOK, CallsTyped
    <3> QED
      BY <1>3, <2>1, <3>1, ComposerKept, DialogKept, Together DEF Pasted
  <2>3. CASE UNCHANGED <<attachment, during>>
    BY <1>3, <2>1, <2>3, BarKept, CallsKept, UploadsKept, ComposerKept, DialogKept, Together
       DEF Pasted, composer, attachment
  <2> QED
    BY <1>3, <2>2, <2>3 DEF Pasted
<1> QED
  BY <1>1, <1>2, <1>3

LEMMA DecodedStep ==
    ASSUME IInv, NEW f \in Files, Decoded(f)
    PROVE  IInv'
<1>1. BarGood'
  BY DEF Decoded, IInv, TypeOK, BarGood, BarTyped, PreviewIsOfStaged, StagedForOpenChat, composer
<1> QED
  BY <1>1, CallsKept, UploadsKept, ComposerKept, DialogKept, OthersKept, Together DEF Decoded

LEMMA MessageStep ==
    ASSUME IInv, NEW m \in Msgs, StartReply(m) \/ DeleteMessage(m)
    PROVE  IInv'
<1>1. ComposerTyped' /\ OthersTyped'
  BY DEF StartReply, DeleteMessage, IInv, TypeOK, ComposerTyped, OthersTyped, composer
<1>2. UNCHANGED <<active, attachment, job, during, dialogVars>>
  BY DEF StartReply, DeleteMessage, composer
<1> QED
  BY <1>1, <1>2, BarKept, CallsKept, UploadsKept, DialogKept, Together DEF attachment

LEMMA OpenKeeps ==
    ASSUME IInv, NEW c \in Chats, Open(c)
    PROVE  ComposerTyped' /\ BarGood' /\ UploadsDue'
<1>1. BarGood' /\ UploadsDue'
  BY CancelKeepsBar DEF Open, IInv, TypeOK, BarTyped
<1> QED
  BY <1>1 DEF Open, IInv, TypeOK, ComposerTyped

LEMMA ChatStep ==
    ASSUME IInv, NEW c \in Chats, OpenChat(c) \/ StartChat(c)
    PROVE  IInv'
<1>1. CASE OpenChat(c)
  BY <1>1, OpenKeeps, CallsKept, DialogKept, OthersKept, Together DEF OpenChat
<1>2. CASE StartChat(c)
  <2>1. dialogs \in 1..MaxDialogs
    BY <1>2, MaxDialogsAssumption DEF StartChat, IInv, TypeOK, DialogCounted
  <2>2. DialogTyped'
    BY <1>2, <2>1 DEF StartChat, DialogTyped, IInv, TypeOK
  <2>3. DialogGood'
    BY <1>2, <2>2 DEF StartChat, DialogGood, IInv, DialogCounted
  <2> QED
    BY <1>2, <2>3, BarKept, CallsKept, UploadsKept, ComposerKept, OthersKept, Together
       DEF StartChat, composer, attachment
<1> QED
  BY <1>1, <1>2

LEMMA SendStep ==
    ASSUME IInv, SendText \/ SendAttachment
    PROVE  IInv'
<1>1. Call(None) \/ Call(pending)
  BY DEF SendText, SendAttachment
<1>2. UNCHANGED <<active, attachment, pending, during, dialogVars, pasting, gone>>
  BY DEF SendText, SendAttachment, attachment
<1>3. CallsTyped' /\ UploadsDue'
  BY <1>1, <1>2, CallKeeps
<1>4. ComposerTyped'
  BY NoneAssumption DEF SendText, SendAttachment, ComposerTyped, IInv, TypeOK
<1> QED
  BY <1>2, <1>3, <1>4, BarKept, DialogKept, OthersKept, Together

LEMMA OtherStep ==
    ASSUME IInv, Type \/ Cancel \/ ShowNewChatDialog \/ CloseDialog
    PROVE  IInv'
<1>1. CASE Type
  <2>1. ComposerTyped'
    BY <1>1 DEF Type, IInv, TypeOK, ComposerTyped
  <2> QED
    BY <1>1, <2>1, BarKept, CallsKept, UploadsKept, DialogKept, OthersKept, Together
       DEF Type, attachment
<1>2. CASE Cancel
  <2>1. ComposerTyped'
    BY <1>2 DEF Cancel, IInv, TypeOK, ComposerTyped
  <2>2. BarGood' /\ UploadsDue'
    <3>1. CASE CancelAttachment
      BY <3>1, CancelKeepsBar DEF IInv, TypeOK, BarTyped
    <3>2. CASE UNCHANGED attachment
      BY <1>2, <3>2, BarKept, UploadsKept DEF Cancel, attachment
    <3> QED
      BY <1>2, <3>1, <3>2 DEF Cancel
  <2> QED
    BY <1>2, <2>1, <2>2, CallsKept, DialogKept, OthersKept, Together DEF Cancel
<1>3. CASE ShowNewChatDialog
  <2>1. dialogs' \in 1..MaxDialogs /\ shown' \in BOOLEAN
    BY <1>3, MaxDialogsAssumption DEF ShowNewChatDialog, IInv, TypeOK
  <2>2. DialogGood'
    BY <1>3, <2>1, MaxDialogsAssumption
       DEF ShowNewChatDialog, IInv, TypeOK, DialogGood, DialogTyped, DialogCounted
  <2> QED
    BY <1>3, <2>2, BarKept, CallsKept, UploadsKept, ComposerKept, OthersKept, Together
       DEF ShowNewChatDialog, composer, attachment
<1>4. CASE CloseDialog
  <2>1. DialogGood'
    BY <1>4 DEF CloseDialog, IInv, TypeOK, DialogGood, DialogTyped, DialogCounted
  <2> QED
    BY <1>4, <2>1, BarKept, CallsKept, UploadsKept, ComposerKept, OthersKept, Together
       DEF CloseDialog, composer, attachment
<1> QED
  BY <1>1, <1>2, <1>3, <1>4

LEMMA JobStep ==
    ASSUME IInv, NEW j \in Jobs, Return(j) \/ Answer(j)
    PROVE  IInv'
<1>1. CASE Return(j)
  <2>1. PICK phase \in {"sent", "failed"} :
          job' = [job EXCEPT ![j] = [Free EXCEPT !.phase = phase, !.file = job[j].file]]
    BY <1>1 DEF Return
  <2>2. [Free EXCEPT !.phase = phase, !.file = job[j].file] \in JobRecord
    BY DEF IInv, TypeOK, Free, JobRecord, Phases
  <2>3. [Free EXCEPT !.phase = phase, !.file = job[j].file].file = job[j].file
    BY DEF Free
  <2>4. CallsTyped'
    BY <1>1, <2>1, <2>2 DEF Return, CallsTyped, IInv, TypeOK
  <2>5. \A i \in Jobs : job'[i].file = job[i].file
    BY <2>1, <2>3 DEF IInv, TypeOK
  <2>6. UploadsDue'
    BY <1>1, <2>5 DEF Return, IInv, UploadsDue, attachment
  <2> QED
    BY <1>1, <2>4, <2>6, BarKept, ComposerKept, DialogKept, OthersKept, Together
       DEF Return, composer
<1>2. CASE Answer(j)
  <2>1. CallsTyped'
    BY <1>2, FreeIsTyped DEF Answer, CallsTyped, IInv, TypeOK
  <2>2. BarGood' /\ UploadsDue'
    <3>1. CASE CancelAttachment
      BY <3>1, CancelKeepsBar DEF IInv, TypeOK, BarTyped
    <3>2. CASE UNCHANGED attachment
      <4>1. \A i \in Jobs : job'[i].file # None => i # j /\ job'[i].file = job[i].file
        BY <1>2 DEF Answer, IInv, TypeOK, Free
      <4>2. UploadsDue'
        BY <1>2, <3>2, <4>1 DEF Answer, IInv, UploadsDue, attachment
      <4> QED
        BY <1>2, <3>2, <4>2, BarKept DEF Answer, composer
    <3> QED
      BY <1>2, <3>1, <3>2 DEF Answer
  <2> QED
    BY <1>2, <2>1, <2>2, ComposerKept, DialogKept, OthersKept, Together DEF Answer
<1> QED
  BY <1>1, <1>2

LEMMA OnStartChatStep ==
    ASSUME IInv, NEW call \in opening, OnStartChat(call)
    PROVE  IInv'
<1>1. call[2] \in Chats
  BY DEF IInv, TypeOK
<1>2. DialogGood'
  <2>1. opening' \subseteq opening /\ dialogs' = dialogs
    BY DEF OnStartChat
  <2>2. shown' \in BOOLEAN /\ (shown' => shown)
    <3>1. shown' = FALSE \/ shown' = shown
      BY Zenon DEF OnStartChat
    <3>2. shown \in BOOLEAN
      BY DEF IInv, TypeOK
    <3>3. CASE shown' = FALSE
      BY <3>3
    <3>4. CASE shown' = shown
      BY <3>2, <3>4
    <3> QED
      BY <3>1, <3>3, <3>4
  <2>3. DialogTyped /\ DialogCounted
    BY DEF IInv, TypeOK, DialogTyped
  <2>4. DialogTyped'
    BY <2>1, <2>2, <2>3 DEF DialogTyped
  <2>5. DialogCounted'
    BY <2>1, <2>2, <2>3 DEF DialogCounted
  <2> QED
    BY <2>4, <2>5 DEF DialogGood
<1>3. ComposerTyped' /\ BarGood' /\ UploadsDue'
  <2>1. CASE Open(call[2])
    BY <1>1, <2>1, OpenKeeps
  <2>2. CASE UNCHANGED <<shown, composer, attachment>>
    BY <2>2, BarKept, UploadsKept, ComposerKept DEF OnStartChat, composer, attachment
  <2> QED
    BY <2>1, <2>2 DEF OnStartChat
<1> QED
  BY <1>2, <1>3, CallsKept, OthersKept, Together DEF OnStartChat

LEMMA NextIInv == IInv /\ [Next]_vars => IInv'
<1> SUFFICES ASSUME IInv, [Next]_vars PROVE IInv'
  OBVIOUS
<1>1. CASE Next
  <2>1. CASE \E f \in Files : ChooseFile(f) \/ Paste(f) \/ Pasted(f) \/ Decoded(f)
    BY <2>1, StageStep, DecodedStep
  <2>2. CASE \E m \in Msgs : StartReply(m) \/ DeleteMessage(m)
    BY <2>2, MessageStep
  <2>3. CASE \E c \in Chats : OpenChat(c) \/ StartChat(c)
    BY <2>3, ChatStep
  <2>4. CASE \E j \in Jobs : Return(j) \/ Answer(j)
    BY <2>4, JobStep
  <2>5. CASE \E call \in opening : OnStartChat(call)
    BY <2>5, OnStartChatStep
  <2>6. CASE SendText \/ SendAttachment
    BY <2>6, SendStep
  <2>7. CASE Type \/ Cancel \/ ShowNewChatDialog \/ CloseDialog
    BY <2>7, OtherStep
  <2> QED
    BY <1>1, <2>1, <2>2, <2>3, <2>4, <2>5, <2>6, <2>7 DEF Next
<1>2. CASE UNCHANGED vars
  BY <1>2, BarKept, CallsKept, UploadsKept, ComposerKept, DialogKept, OthersKept, Together
     DEF vars, composer, attachment
<1> QED
  BY <1>1, <1>2

-----------------------------------------------------------------------------
(* The theorems.                                                           *)

LEMMA AlwaysIInv == Spec => []IInv
  BY InitIInv, NextIInv, PTL DEF Spec

\* The composer, its calls and the dialog stay well typed.
THEOREM TypeCorrectness == Spec => []TypeOK
<1>1. IInv => TypeOK
  BY DEF IInv
<1> QED
  BY <1>1, AlwaysIInv, PTL

\* However files are staged, cancelled, sent and decoded, the preview on the bar
\* (showAttachmentBar) is of the staged file.
THEOREM PreviewsTheStagedFile == Spec => []PreviewIsOfStaged
<1>1. IInv => PreviewIsOfStaged
  BY DEF IInv
<1> QED
  BY <1>1, AlwaysIInv, PTL

\* However chats are switched (openChat) and clipboard reads end, a staged file
\* was staged in the open chat.
THEOREM StagedInTheOpenChat == Spec => []StagedForOpenChat
<1>1. IInv => StagedForOpenChat
  BY DEF IInv
<1> QED
  BY <1>1, AlwaysIInv, PTL

\* The answer of a call (sendAttachment's callback) takes the staged file down
\* only if it is that of an upload of this file, or of one that was under way
\* when the file was staged.
THEOREM AnswersKeepTheStagedFile == Spec => StagedFileIsKept
<1>1. ASSUME IInv, Next, pending # None, pending' = None, job' # job
      PROVE  \E j \in Jobs :
                 /\ job[j].phase = "sent" /\ job[j].file # None /\ job'[j] = Free
                 /\ job[j].file = pending \/ j \in during
  <2>1. ASSUME NEW j \in Jobs, Answer(j)
        PROVE  /\ job[j].phase = "sent" /\ job[j].file # None /\ job'[j] = Free
               /\ job[j].file = pending \/ j \in during
    BY <1>1, <2>1 DEF Answer, attachment, IInv, TypeOK, UploadsDue
  <2>2. \E j \in Jobs : Answer(j)
    BY <1>1 DEF Next, ChooseFile, Paste, Pasted, Decoded, StartReply, DeleteMessage, OpenChat,
        StartChat, Return, OnStartChat, Type, Cancel, SendText, SendAttachment,
        ShowNewChatDialog, CloseDialog, attachment
  <2> QED
    BY <2>1, <2>2
<1>2. IInv /\ [Next]_vars =>
        [(pending # None /\ pending' = None /\ job' # job) =>
            \E j \in Jobs :
                /\ job[j].phase = "sent" /\ job[j].file # None /\ job'[j] = Free
                /\ job[j].file = pending \/ j \in during]_vars
  BY <1>1
<1> QED
  BY <1>2, AlwaysIInv, PTL DEF Spec, StagedFileIsKept

\* The open chat changes at the user's hand or at that of the dialog on screen:
\* the answer of StartChat to a dialog that was closed opens nothing.
THEOREM ChatsSwitchWhenWanted == Spec => ChatSwitchIsWanted
<1>1. ASSUME IInv, Next, active' # active
      PROVE  \/ ~shown /\ opening' = opening
             \/ shown /\ <<dialogs, active'>> \in opening
  <2>1. ASSUME NEW c \in Chats, OpenChat(c) PROVE ~shown /\ opening' = opening
    BY <2>1 DEF OpenChat, dialogVars
  <2>2. ASSUME NEW call \in opening, OnStartChat(call)
        PROVE  shown /\ <<dialogs, active'>> \in opening
    <3>1. shown /\ call[1] = dialogs /\ active' = call[2]
      BY <1>1, <2>2 DEF OnStartChat, Open, composer
    <3>2. call \in (1..MaxDialogs) \X Chats
      BY <1>1 DEF IInv, TypeOK
    <3>3. call = <<call[1], call[2]>>
      BY <3>2
    <3> QED
      BY <3>1, <3>3
  <2>3. (\E c \in Chats : OpenChat(c)) \/ \E call \in opening : OnStartChat(call)
    BY <1>1 DEF Next, ChooseFile, Paste, Pasted, Decoded, StartReply, DeleteMessage,
        StartChat, Return, Answer, Type, Cancel, SendText, SendAttachment,
        ShowNewChatDialog, CloseDialog, composer
  <2> QED
    BY <2>1, <2>2, <2>3
<1>2. IInv /\ [Next]_vars =>
        [active' # active =>
            \/ ~shown /\ opening' = opening
            \/ shown /\ <<dialogs, active'>> \in opening]_vars
  BY <1>1
<1> QED
  BY <1>2, AlwaysIInv, PTL DEF Spec, ChatSwitchIsWanted
=============================================================================
