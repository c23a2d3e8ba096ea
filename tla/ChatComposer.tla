----------------------------- MODULE ChatComposer -----------------------------
(***************************************************************************)
(* The composer under a team's chat (chatPage.tsx): the draft, which is a   *)
(* new message or the new text of one of the player's own, the deletion of  *)
(* that message from its menu, and the voice recorder (useVoiceRecorder),   *)
(* which takes the composer's place while it records.  ChatThread has the   *)
(* list the messages join.                                                  *)
(***************************************************************************)
EXTENDS Naturals

CONSTANT None    \* no call under way

VARIABLES
    message,     \* the server's row of one of the player's messages
    composer,    \* the draft, and the copy of that message in the list
    voice        \* the recorder

composerVars == <<message, composer, voice>>

Copy == {"alive", "deleted"}

\* A call under way: edited and served tell whether the server has done it.
Sending == {"post", "edit", "edited"}
Deletion == {"delete", "deleted"}

Composer ==
    [copy : Copy, menu : BOOLEAN, draft : BOOLEAN, editing : BOOLEAN,
     sending : BOOLEAN, call : Sending \union {None},
     deletion : Deletion \union {None}, deleteEnds : BOOLEAN]

\* asking: permissions asked for; streams: microphones that are on; held:
\* streamRef names one of them; stopping: stop() was called and onstop is due,
\* with final seconds to send; leftAsking, crossed, failed: history, see MicrophoneIsHeld.
Voice ==
    [state : {"idle", "requesting", "recording", "paused"}, asking : 0..2, streams : 0..2,
     held : BOOLEAN, seconds : BOOLEAN, stopping : BOOLEAN, final : BOOLEAN, posting : BOOLEAN,
     left : BOOLEAN, leftAsking : BOOLEAN, crossed : BOOLEAN, failed : BOOLEAN]

ComposerTypeOK == message \in Copy /\ composer \in Composer /\ voice \in Voice

ComposerInit ==
    /\ message = "alive"
    /\ composer = [copy |-> "alive", menu |-> FALSE, draft |-> FALSE, editing |-> FALSE,
                   sending |-> FALSE, call |-> None, deletion |-> None, deleteEnds |-> FALSE]
    /\ voice = [state |-> "idle", asking |-> 0, streams |-> 0, held |-> FALSE, seconds |-> FALSE,
                stopping |-> FALSE, final |-> FALSE, posting |-> FALSE, left |-> FALSE, leftAsking |-> FALSE,
                crossed |-> FALSE, failed |-> FALSE]

OnComposer(c) == composer' = c /\ UNCHANGED <<message, voice>>
OnVoice(v) == voice' = v /\ UNCHANGED <<message, composer>>

Here == ~voice.left

-----------------------------------------------------------------------------
(* Text. *)

\* The input is not shown while the recorder is, and disabled while a message
\* is being sent.
InputShown == Here /\ voice.state = "idle"
TypeDraft == InputShown /\ ~composer.sending /\ OnComposer([composer EXCEPT !.draft = ~@])

\* MessageMenu, which a deleted message has not.
ToggleMenu == Here /\ composer.copy = "alive" /\ OnComposer([composer EXCEPT !.menu = ~@])

StartEdit ==
    /\ Here /\ composer.menu /\ composer.copy = "alive"
    /\ OnComposer([composer EXCEPT !.menu = FALSE, !.editing = TRUE, !.draft = TRUE])

Unedited(c) == [c EXCEPT !.editing = FALSE, !.draft = FALSE]

\* The cross of the banner, or Escape.
CancelEdit == Here /\ composer.editing /\ OnComposer(Unedited(composer))

\* handleSend
CanSend == InputShown /\ composer.draft /\ ~composer.sending

Send ==
    /\ CanSend
    /\ OnComposer([composer EXCEPT !.sending = TRUE, !.call = IF composer.editing THEN "edit" ELSE "post"])

\* edit_message refuses a deleted message.
EditServed == composer.call = "edit" /\ message = "alive" /\ OnComposer([composer EXCEPT !.call = "edited"])

Sent(c) == [c EXCEPT !.sending = FALSE, !.call = None]

\* The created message joins the list; what has begun to be edited meanwhile
\* loses its text, not its banner.
PostAnswered == composer.call = "post" /\ OnComposer(Sent([composer EXCEPT !.draft = FALSE]))

\* The answer takes the place of the copy, also of one that says "deleted".
EditAnswered == composer.call = "edited" /\ OnComposer(Sent(Unedited([composer EXCEPT !.copy = "alive"])))

\* Refused, or the answer lost: draft and banner stay, and the finally ends the
\* sending.
SendFails == composer.call # None /\ OnComposer(Sent(composer))

\* handleDelete, which remembers whether the message was being edited.
Delete ==
    /\ Here /\ composer.menu /\ composer.copy = "alive" /\ composer.deletion = None
    /\ OnComposer([composer EXCEPT !.menu = FALSE, !.deletion = "delete", !.deleteEnds = composer.editing])

DeleteServed ==
    /\ composer.deletion = "delete"
    /\ message' = "deleted" /\ composer' = [composer EXCEPT !.deletion = "deleted"] /\ UNCHANGED voice

\* A menu that was opened meanwhile goes with the copy.
DeleteAnswered ==
    /\ composer.deletion = "deleted"
    /\ LET c == [composer EXCEPT !.copy = "deleted", !.menu = FALSE, !.deletion = None, !.deleteEnds = FALSE]
       IN OnComposer(IF composer.deleteEnds THEN Unedited(c) ELSE c)

DeleteFails ==
    /\ composer.deletion # None
    /\ OnComposer([composer EXCEPT !.deletion = None, !.deleteEnds = FALSE])

-----------------------------------------------------------------------------
(* Voice. *)

\* start: the microphone is asked for.
StartVoice ==
    /\ InputShown /\ ~composer.draft /\ ~composer.editing /\ voice.asking < 2
    /\ OnVoice([voice EXCEPT !.state = "requesting", !.asking = @ + 1])

\* Whoever asked may be gone by now, and the recorder starts all the same.
Granted ==
    /\ voice.asking > 0 /\ voice.streams < 2
    /\ OnVoice([voice EXCEPT !.asking = @ - 1, !.streams = @ + 1, !.held = TRUE, !.seconds = FALSE,
                             !.state = IF voice.left THEN @ ELSE "recording"])

\* The stream is there and named by streamRef, but no recorder can be made of it,
\* or none starts: the catch sets the state and leaves the stream as it is.
RecorderFails ==
    /\ voice.asking > 0 /\ voice.streams < 2
    /\ OnVoice([voice EXCEPT !.asking = @ - 1, !.streams = @ + 1, !.held = TRUE, !.state = "idle",
                             !.failed = TRUE])

Denied ==
    /\ voice.asking > 0
    /\ OnVoice([voice EXCEPT !.asking = @ - 1, !.state = "idle"])

Tick == voice.state = "recording" /\ ~voice.stopping /\ OnVoice([voice EXCEPT !.seconds = TRUE])

\* pause() and resume() of a recorder that has stopped throw.
PauseVoice == Here /\ voice.state = "recording" /\ ~voice.stopping /\ OnVoice([voice EXCEPT !.state = "paused"])
ResumeVoice == Here /\ voice.state = "paused" /\ ~voice.stopping /\ OnVoice([voice EXCEPT !.state = "recording"])

\* cleanup: the stream that is held is stopped, and forgotten.
\* Mutant: the stream is forgotten and goes on.
CleanupForgets(v) == [v EXCEPT !.held = FALSE, !.seconds = FALSE, !.state = "idle"]

Cleanup(v) ==
    [v EXCEPT !.streams = IF v.held THEN @ - 1 ELSE @, !.held = FALSE, !.seconds = FALSE, !.state = "idle"]

Recording == voice.state \in {"recording", "paused"}

\* discard, which the bar still offers between stop() and onstop.
DiscardVoice == Here /\ Recording /\ OnVoice([Cleanup(voice) EXCEPT !.crossed = @ \/ voice.stopping])

\* send: stop() is called; its event comes later.
SendVoice == Here /\ Recording /\ ~voice.stopping /\ OnVoice([voice EXCEPT !.stopping = TRUE, !.final = voice.seconds])

\* onstop: whatever records by now is stopped with it.  A recording of no
\* seconds is not sent, and one that fails is lost.
VoiceStopped ==
    /\ voice.stopping
    /\ OnVoice([Cleanup(voice) EXCEPT !.stopping = FALSE, !.final = FALSE, !.posting = @ \/ voice.final])

VoiceAnswered == voice.posting /\ OnVoice([voice EXCEPT !.posting = FALSE])

\* The page is left, or another team's chat is opened.
LeaveChat ==
    /\ Here
    /\ OnVoice([Cleanup(voice) EXCEPT !.left = TRUE, !.leftAsking = (voice.asking > 0)])

-----------------------------------------------------------------------------
ComposerNext ==
    \/ TypeDraft \/ ToggleMenu \/ StartEdit \/ CancelEdit \/ Send
    \/ EditServed \/ PostAnswered \/ EditAnswered \/ SendFails
    \/ Delete \/ DeleteServed \/ DeleteAnswered \/ DeleteFails
    \/ StartVoice \/ Granted \/ RecorderFails \/ Denied \/ Tick \/ PauseVoice \/ ResumeVoice
    \/ DiscardVoice \/ SendVoice \/ VoiceStopped \/ VoiceAnswered \/ LeaveChat

ComposerSpec == ComposerInit /\ [][ComposerNext]_composerVars

-----------------------------------------------------------------------------
(* Properties *)

\* The input is disabled exactly while a message or an edit is under way,
\* whatever is edited, deleted or recorded meanwhile.
SendingHasCall == composer.sending <=> composer.call # None

\* The microphone is on only while the recorder's bar is shown, with three
\* exceptions: the chat was left while the player was being asked for it; a
\* recording that was being sent was thrown away in the moment before it stopped
\* (onstop then puts an end to whatever was started since, which a second
\* permission outlives); or no recorder could be started once the microphone was
\* granted, whose stream stays on without a bar (chatPage.tsx:562-577).
MicrophoneIsHeld ==
    voice.streams > 0 => Recording \/ voice.leftAsking \/ voice.crossed \/ voice.failed

=============================================================================
