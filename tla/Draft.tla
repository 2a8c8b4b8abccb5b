------------------------------- MODULE Draft -------------------------------
(***************************************************************************)
(* What the user is about to send: the composer with its text, its reply   *)
(* bar and one staged file (apps/desktop/attach.go, setupComposer and      *)
(* openChat in window.go, startReply in actions.go), the calls that send   *)
(* it, and the dialog that starts a new chat.                              *)
(*                                                                         *)
(* Everything here runs on the GTK main loop; what comes back to it later, *)
(* in any order, are the answers of the daemon, clipboard reads and image  *)
(* decodes.  What the daemon does with a message is module Delivery; here  *)
(* a call is checked, fails or succeeds.                                   *)
(***************************************************************************)
EXTENDS Integers, FiniteSets

CONSTANTS
    Chats, NoChat,
    Msgs,       \* messages that may be replied to
    Home,       \* the chat of each
    Files,      \* files that may be staged
    Images,     \* those with a preview
    Jobs,       \* sends at once (bound)
    None,
    MaxDialogs  \* new-chat dialogs opened (bound)

ASSUME ChatsAssumption == NoChat \notin Chats
ASSUME HomeAssumption == Home \in [Msgs -> Chats]
ASSUME ImagesAssumption == Images \subseteq Files
ASSUME NoneAssumption == None \notin Msgs \cup Files
ASSUME MaxDialogsAssumption == MaxDialogs \in Nat

VARIABLES
    active,     \* w.activeChat
    text,       \* the entry holds something to send
    replyTo,    \* w.replyTo
    pending,    \* w.pending
    thumb,      \* the file whose image attachmentThumb shows, if it is visible
    decoding,   \* files whose image is being decoded for the bar
    pasting,    \* files that clipboard reads under way will have written
    job,        \* SendMessage and SendMedia calls
    gone,       \* messages deleted from the table
    dialogs,    \* dialogs opened so far; the last one is newChatDialog
    shown,      \* newChatDialog is not nil
    opening,    \* StartChat calls: the dialog and the chat it asked for
    stagedIn,   \* history: the chat that was open when the file was staged
    during      \* history: the sends that were under way then

composer == <<active, text, replyTo>>
attachment == <<pending, thumb, decoding, stagedIn>>
dialogVars == <<dialogs, shown, opening>>
vars == <<composer, attachment, pasting, job, gone, dialogVars, during>>

Phases == {"free", "called", "sent", "failed"}
JobRecord == [phase : Phases, chat : Chats \cup {NoChat}, file : Files \cup {None},
              quoted : Msgs \cup {None}]
Free == [phase |-> "free", chat |-> NoChat, file |-> None, quoted |-> None]

TypeOK ==
    /\ active \in Chats \cup {NoChat} /\ text \in BOOLEAN
    /\ replyTo \in Msgs \cup {None}
    /\ pending \in Files \cup {None} /\ thumb \in Images \cup {None}
    /\ decoding \subseteq Images /\ pasting \subseteq Images
    /\ job \in [Jobs -> JobRecord]
    /\ gone \subseteq Msgs
    /\ dialogs \in 0..MaxDialogs /\ shown \in BOOLEAN
    /\ opening \subseteq (1..MaxDialogs) \X Chats
    /\ stagedIn \in Chats \cup {NoChat} /\ during \subseteq Jobs

-----------------------------------------------------------------------------
(* Staging.                                                                *)

\* cancelAttachment.
CancelAttachment ==
    /\ pending' = None /\ thumb' = None
    /\ UNCHANGED <<decoding, stagedIn>>

\* showAttachmentBar: a cached image is shown at once, another one later.
ShowAttachmentBar(f) ==
    \/ thumb' = None /\ f \notin Images /\ UNCHANGED decoding
    \/ thumb' = f /\ f \in Images /\ UNCHANGED decoding
    \/ thumb' = None /\ f \in Images /\ decoding' = decoding \cup {f}

\* stageAttachment: the new file replaces the one that was staged.
StageAttachment(f) ==
    /\ active # NoChat
    /\ pending' = f /\ stagedIn' = active
    /\ ShowAttachmentBar(f)
    /\ during' = {j \in Jobs : job[j] # Free}

\* The picker, or a file dropped on the window.
ChooseFile(f) ==
    /\ StageAttachment(f)
    /\ UNCHANGED <<composer, pasting, job, gone, dialogVars>>

\* Ctrl+V with an image on the clipboard: one read at a time (bound).
Paste(f) ==
    /\ f \in Images
    /\ active # NoChat /\ pasting = {}
    /\ pasting' = {f}
    /\ UNCHANGED <<composer, attachment, job, gone, dialogVars, during>>

\* The image has been read and written to a file, or could not be.
Pasted(f) ==
    /\ f \in pasting
    /\ pasting' = {}
    /\ StageAttachment(f) \/ UNCHANGED <<attachment, during>>
    /\ UNCHANGED <<composer, job, gone, dialogVars>>

\* Mutant: the image of a file that was cancelled or replaced is shown.
MutantDecoded(f) ==
    /\ f \in decoding
    /\ decoding' = decoding \ {f}
    /\ thumb' \in {f, thumb}
    /\ UNCHANGED <<composer, pending, stagedIn, pasting, job, gone, dialogVars, during>>

\* The image has been decoded, or could not be.
Decoded(f) ==
    /\ f \in decoding
    /\ decoding' = decoding \ {f}
    /\ thumb' \in {IF pending = f THEN f ELSE thumb, thumb}
    /\ UNCHANGED <<composer, pending, stagedIn, pasting, job, gone, dialogVars, during>>

-----------------------------------------------------------------------------
(* The composer, which a dialog on screen covers.                          *)

\* Typing, or an emoji that is inserted.
Type ==
    /\ active # NoChat /\ ~shown
    /\ text' \in BOOLEAN
    /\ UNCHANGED <<active, replyTo, attachment, pasting, job, gone, dialogVars, during>>

StartReply(m) ==
    /\ active = Home[m] /\ m \notin gone /\ ~shown
    /\ replyTo' = m
    /\ UNCHANGED <<active, text, attachment, pasting, job, gone, dialogVars, during>>

\* The bars' own buttons, or Escape, which takes the staged file first.
Cancel ==
    /\ ~shown
    /\ \/ /\ pending # None
          /\ CancelAttachment
          /\ UNCHANGED replyTo
       \/ /\ replyTo # None
          /\ replyTo' = None
          /\ UNCHANGED attachment
    /\ UNCHANGED <<active, text, pasting, job, gone, dialogVars, during>>

\* A call for what the composer holds now.
Call(file) ==
    \E j \in Jobs :
        /\ job[j] = Free
        /\ job' = [job EXCEPT ![j] = [phase |-> "called", chat |-> active, file |-> file,
                                     quoted |-> replyTo]]

\* The text and the reply go at once, whatever becomes of the call.
SendText ==
    /\ pending = None /\ text /\ active # NoChat /\ ~shown
    /\ Call(None)
    /\ text' = FALSE /\ replyTo' = None
    /\ UNCHANGED <<active, attachment, pasting, gone, dialogVars, during>>

\* sendAttachment: the text becomes the caption; the file stays staged and the
\* reply pinned while the upload runs.
SendAttachment ==
    /\ pending # None /\ active # NoChat /\ ~shown
    /\ Call(pending)
    /\ text' = FALSE
    /\ UNCHANGED <<active, replyTo, attachment, pasting, gone, dialogVars, during>>

\* Mutant: the file that was staged for the chat left behind stays.
MutantOpen(c) ==
    /\ active' = c
    /\ UNCHANGED <<text, replyTo, attachment>>

\* openChat drops the staged file; the text and the reply stay.
Open(c) ==
    /\ active' = c
    /\ CancelAttachment
    /\ UNCHANGED <<text, replyTo>>

OpenChat(c) ==
    /\ ~shown
    /\ Open(c)
    /\ UNCHANGED <<pasting, job, gone, dialogVars, during>>

-----------------------------------------------------------------------------
(* The daemon, and the answers.                                            *)

\* replyContext: the quoted message must be there, in the same chat.
ReplyContext(m, c) == m = None \/ (Home[m] = c /\ m \notin gone)

\* SendText and SendMedia return; they also fail for other reasons.  The answer
\* says no more than that.
Return(j) ==
    /\ job[j].phase = "called"
    /\ \E phase \in IF ReplyContext(job[j].quoted, job[j].chat) THEN {"sent", "failed"}
                    ELSE {"failed"} :
          job' = [job EXCEPT ![j] = [Free EXCEPT !.phase = phase, !.file = job[j].file]]
    /\ UNCHANGED <<composer, attachment, pasting, gone, dialogVars, during>>

\* A message is deleted, here or by its sender.
DeleteMessage(m) ==
    /\ m \notin gone
    /\ gone' = gone \cup {m}
    /\ UNCHANGED <<composer, attachment, pasting, job, dialogVars, during>>

\* Mutant: a failed upload takes the file down, too.
MutantAnswer(j) ==
    /\ job[j].phase \in {"sent", "failed"}
    /\ job' = [job EXCEPT ![j] = Free]
    /\ during' = during \ {j}
    /\ IF job[j].file # None THEN CancelAttachment ELSE UNCHANGED attachment
    /\ UNCHANGED <<composer, pasting, gone, dialogVars>>

\* The callbacks: a successful upload drops whatever is staged by now, an error
\* is only told.
Answer(j) ==
    /\ job[j].phase \in {"sent", "failed"}
    /\ job' = [job EXCEPT ![j] = Free]
    /\ during' = during \ {j}
    /\ IF job[j].file # None /\ job[j].phase = "sent" THEN CancelAttachment
       ELSE UNCHANGED attachment
    /\ UNCHANGED <<composer, pasting, gone, dialogVars>>

-----------------------------------------------------------------------------
(* The dialog for a new chat.                                              *)

ShowNewChatDialog ==
    /\ ~shown /\ dialogs < MaxDialogs
    /\ dialogs' = dialogs + 1 /\ shown' = TRUE
    /\ UNCHANGED <<composer, attachment, pasting, job, gone, opening, during>>

\* A contact is chosen or a number entered; one call at a time (bound).
StartChat(c) ==
    /\ shown /\ opening = {}
    /\ opening' = {<<dialogs, c>>}
    /\ UNCHANGED <<composer, attachment, pasting, job, gone, dialogs, shown, during>>

CloseDialog ==
    /\ shown
    /\ shown' = FALSE
    /\ UNCHANGED <<composer, attachment, pasting, job, gone, dialogs, opening, during>>

\* Mutant: any dialog on screen will do.
MutantOnStartChat(call) ==
    /\ call \in opening
    /\ opening' = opening \ {call}
    /\ \/ /\ shown
          /\ shown' = FALSE
          /\ Open(call[2])
       \/ UNCHANGED <<shown, composer, attachment>>
    /\ UNCHANGED <<pasting, job, gone, dialogs, during>>

\* The chat is opened if the dialog that asked for it is still on screen; an
\* error is shown there.
OnStartChat(call) ==
    /\ call \in opening
    /\ opening' = opening \ {call}
    /\ \/ /\ shown /\ call[1] = dialogs
          /\ shown' = FALSE
          /\ Open(call[2])
       \/ UNCHANGED <<shown, composer, attachment>>
    /\ UNCHANGED <<pasting, job, gone, dialogs, during>>

-----------------------------------------------------------------------------
Init ==
    /\ active = NoChat /\ text = FALSE /\ replyTo = None
    /\ pending = None /\ thumb = None /\ decoding = {} /\ pasting = {}
    /\ job = [j \in Jobs |-> Free] /\ gone = {}
    /\ dialogs = 0 /\ shown = FALSE /\ opening = {}
    /\ stagedIn = NoChat /\ during = {}

Next ==
    \/ \E f \in Files : ChooseFile(f) \/ Paste(f) \/ Pasted(f) \/ Decoded(f)
    \/ \E m \in Msgs : StartReply(m) \/ DeleteMessage(m)
    \/ \E c \in Chats : OpenChat(c) \/ StartChat(c)
    \/ \E j \in Jobs : Return(j) \/ Answer(j)
    \/ \E call \in opening : OnStartChat(call)
    \/ Type \/ Cancel \/ SendText \/ SendAttachment \/ ShowNewChatDialog \/ CloseDialog

Spec == Init /\ [][Next]_vars

-----------------------------------------------------------------------------
\* "The staged file may have been cancelled or replaced by the time the image
\* lands" (attach.go:85): the preview on the bar is always of the staged file.
PreviewIsOfStaged == thumb # None => thumb = pending

\* However chats are switched and late clipboard reads come in, a staged file
\* was staged in the open chat, and so is uploaded to the chat the user saw.
StagedForOpenChat == pending # None => stagedIn = active

\* An answer of the daemon takes the staged file down only if an upload
\* succeeded, and it is of that file or was under way when the file was staged.
StagedFileIsKept ==
    [][(pending # None /\ pending' = None /\ job' # job) =>
          \E j \in Jobs :
              /\ job[j].phase = "sent" /\ job[j].file # None /\ job'[j] = Free
              /\ job[j].file = pending \/ j \in during]_vars

\* The open chat changes at the user's hand, or at that of the dialog on
\* screen for a chat it asked for: never for a dialog that was closed.
ChatSwitchIsWanted ==
    [][active' # active =>
          \/ ~shown /\ opening' = opening
          \/ shown /\ <<dialogs, active'>> \in opening]_vars
=============================================================================
