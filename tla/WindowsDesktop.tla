--------------------------- MODULE WindowsDesktop ---------------------------
(***************************************************************************)
(* The Windows application (windows.rs, windows/clipboard.rs, drawing.rs)  *)
(* around the engine thread of EngineThread.                               *)
(*                                                                         *)
(* All of it runs on one thread: hotkeys, menu and pill send commands, and *)
(* a timer takes the engine's reports, looks after the drawing and goes on *)
(* with a paste.  Two things keep a transcript waiting there: it is parked *)
(* while a screen capture of its drawing is under way, and staged between  *)
(* the paste of the drawing's image and that of the text.  Meanwhile the   *)
(* user copies something, cancels, pastes the last transcript again, or    *)
(* quits.                                                                  *)
(*                                                                         *)
(* A timer tick takes all the reports there are; as the engine sends them  *)
(* one by one, a tick may end after any, so each report is an action here. *)
(* While the tray menu is open, its handler holds the application and the  *)
(* messages it lets through find it taken (try_borrow): they do nothing.   *)
(***************************************************************************)
EXTENDS EngineThread

CONSTANT MaxUnread      \* bound: commands and reports under way when the user acts

ASSUME MaxUnreadAssumption == MaxUnread \in Nat

VARIABLES
    desk,       \* the message loop: running, menu (open), stopping or gone
    view,       \* WindowsApp.status
    opening,    \* capture_pending
    board,      \* drawing: the dictation it was opened for, 0 if none
    drawable,   \* Board.active: its dictation is still recording
    capturing,  \* Board::busy: a capture of the screen is under way
    frames,     \* the board has finished frames
    parked,     \* pending_result: the dictation whose transcript it is, 0 if none
    staged,     \* the same of `staged`
    again,      \* staged.saved is Some: the user asked for this paste again
    offered,    \* the staged offer is still what the clipboard holds
    lastSaid,   \* last_transcript: its dictation, 0 if none
    bundle,     \* last_bundle: the dictation whose drawing it holds, 0 if none
    restore,    \* clipboard_restore: none, or its offer is on the clipboard still (kept)
                \* or no longer (overtaken)
    clip,       \* whose the content of the clipboard is: the user's copy or koett's
    typed,      \* history: the dictations whose text has been pasted
    lostCopy,   \* history: a copy made during a staged paste was overwritten by it
    overtook    \* history: a tap was sent before the reports of the last were read

pasteVars == <<staged, again, offered, lastSaid, bundle, restore, clip, typed, lostCopy>>
boardVars == <<board, drawable, capturing, frames>>
deskVars == <<desk, view, opening, boardVars, parked, pasteVars, overtook>>
winVars == <<engineVars, deskVars>>

NoSession == 0
\* The number is history; the report has none.
RecordingStarted(s) == [kind |-> "RecordingStarted", session |-> s]
WinUpdate == Update \cup [kind : {"RecordingStarted"}, session : Session]

WinTypeOK ==
    /\ status \in Statuses /\ job \in Jobs \cup {"open"} /\ prep \in BOOLEAN
    /\ cleaner \in BOOLEAN /\ media = "none" /\ paused \in BOOLEAN
    /\ cmds \in Seq(Command) /\ outbox \in Seq(WinUpdate) /\ upds \in Seq(WinUpdate)
    /\ current \in 0..MaxSessions /\ cancelled \in 0..MaxSessions
    /\ fate \in [Session -> Fates] /\ discarded \subseteq Session
    /\ desk \in {"running", "menu", "stopping", "gone"} /\ view \in Statuses \cup {"Error"}
    /\ opening \in BOOLEAN /\ drawable \in BOOLEAN
    /\ capturing \in BOOLEAN /\ frames \in BOOLEAN
    /\ {board, parked, staged, lastSaid, bundle} \subseteq Session \cup {NoSession}
    /\ again \in BOOLEAN /\ offered \in BOOLEAN
    /\ restore \in {"none", "kept", "overtaken"} /\ clip \in {"copy", "koett"}
    /\ typed \subseteq Session /\ lostCopy \in BOOLEAN /\ overtook \in BOOLEAN

WinInit ==
    /\ EngineInit
    /\ desk = "running" /\ view = "Starting" /\ opening = FALSE
    /\ board = NoSession /\ drawable = FALSE /\ capturing = FALSE /\ frames = FALSE
    /\ parked = NoSession /\ staged = NoSession /\ again = FALSE /\ offered = FALSE
    /\ lastSaid = NoSession /\ bundle = NoSession /\ restore = "none"
    /\ clip = "copy" /\ typed = {} /\ lostCopy = FALSE
    /\ overtook = FALSE

-----------------------------------------------------------------------------
(* The engine, where the Windows build differs: it says Starting before it *)
(* opens the microphone.                                                   *)

OpenMicrophone ==
    /\ Receive(CaptureOps) /\ status = "Ready"
    /\ job' = "open"
    /\ \E pause_media \in BOOLEAN : paused' = pause_media
    /\ Report(<<StatusReport("Starting")>>)
    /\ UNCHANGED <<status, prep, cleaner, media, upds, fate, sessions>>

MicrophoneOpens ==
    /\ Blocked("open") /\ current < MaxSessions
    /\ job' = "none" /\ status' = "Recording" /\ current' = current + 1
    /\ Settle(current + 1, "recording")
    /\ Report(<<StatusReport("Recording"), RecordingStarted(current + 1)>>)
    /\ UNCHANGED <<prep, cleaner, media, paused, cmds, upds, cancelled, discarded>>

MicrophoneFails ==
    /\ Blocked("open")
    /\ job' = "none" /\ paused' = FALSE
    /\ Report(<<StatusReport("Error")>>)
    /\ UNCHANGED <<status, prep, cleaner, media, cmds, upds, fate, sessions>>

\* After the end of the session there is no process.
WinEngine ==
    /\ desk # "gone"
    /\ \/ Send
       \/ PrepareSucceeds \/ PrepareFails \/ Quit \/ Exit
       \/ OpenMicrophone \/ MicrophoneOpens \/ MicrophoneFails
       \/ StopRecording \/ LimitReached
       \/ DecodeSucceeds \/ DecodeFails \/ Publish \/ CancelRecording
       \/ IgnoreCommand
    /\ UNCHANGED deskVars

-----------------------------------------------------------------------------
(* What the user does: hotkeys, menu, pill.                                *)

\* Mutant: only a recording keeps the user from quitting.
InFlightRecording ==
    \/ opening \/ parked # NoSession \/ (staged # NoSession /\ ~again)
    \/ view = "Recording"

\* dictation_in_flight.
InFlight ==
    \/ opening \/ parked # NoSession \/ (staged # NoSession /\ ~again)
    \/ view \in {"Recording", "Transcribing"}

NothingUnderWay == cmds = <<>> /\ outbox = <<>> /\ upds = <<>>

\* An item of the menu is chosen, or no menu is open.
AtHand == desk \in {"running", "menu"} /\ desk' = "running"

Room == Len(cmds) + Len(outbox) + Len(upds) < MaxUnread

SendToEngine(op) ==
    /\ cmds' = IF job = "dead" THEN cmds ELSE Append(cmds, [op |-> op])
    /\ UNCHANGED <<status, job, prep, cleaner, media, paused, outbox, upds>>

OpenMenu ==
    /\ desk = "running" /\ desk' = "menu"
    /\ UNCHANGED <<engineVars, view, opening, boardVars, parked, pasteVars, overtook>>

CloseMenu ==
    /\ desk = "menu" /\ desk' = "running"
    /\ UNCHANGED <<engineVars, view, opening, boardVars, parked, pasteVars, overtook>>

\* The early returns of recording_intent.
TapRefused(op) ==
    \/ parked # NoSession \/ staged # NoSession
    \/ op # "Stop" /\ (opening \/ view \notin {"Ready", "Recording", "Error"})
    \/ op = "Start" /\ view = "Recording"

\* recording_intent; Stop is the release of a held shortcut, or the pill's.
Tap(op) ==
    /\ AtHand /\ Room /\ ~TapRefused(op)
    /\ opening' = IF op = "Stop" THEN opening
                  ELSE job # "dead" /\ (opening \/ view \in {"Ready", "Error"})
    /\ overtook' = (overtook \/ ~NothingUnderWay)
    /\ SendToEngine(op)
    /\ UNCHANGED <<fate, sessions, view, boardVars, parked, pasteVars>>

\* The user copies something else.
CopySomething ==
    /\ desk = "running" /\ clip # "copy"
    /\ clip' = "copy" /\ offered' = FALSE
    /\ restore' = IF restore = "none" THEN "none" ELSE "overtaken"
    /\ UNCHANGED <<engineVars, desk, view, opening, boardVars, parked, staged, again, lastSaid,
                   bundle, typed, lostCopy, overtook>>

-----------------------------------------------------------------------------
(* The clipboard.  A state of it is a record; an operation gives the set of *)
(* states it may end in.  A publication may fail, and then changes nothing. *)

Clip == [clip |-> clip, restore |-> restore]
Now(c) == clip' = c.clip /\ restore' = c.restore
Free(c) == [c EXCEPT !.restore = "none"]
Published(c) ==
    [clip |-> "koett", restore |-> IF c.restore = "none" THEN "none" ELSE "overtaken"]
Restoring == [clip |-> "koett", restore |-> "kept"]

\* ensure_on_clipboard, after a paste that failed: the drawing with its text if
\* there is one, whatever the clipboard holds by then.
Ensured(c, drawn) ==
    IF drawn THEN {Free(c), Published(Free(c))} ELSE {c, Published(c)}

\* post_image: the focus is elsewhere or the clipboard cannot be opened; the image
\* is offered and not pasted; or pasted.
ImageRefused == {Clip, Restoring}
ImagePasted == Published(Clip)

-----------------------------------------------------------------------------
(* Delivering a transcript.                                                *)

\* Mutant: a result that was not pasted is not recorded.
RecordedIfPasted(s, failed, c, drawn) ==
    /\ view' = "Ready" /\ lastSaid' = s
    /\ IF failed THEN UNCHANGED fate ELSE Settle(s, "delivered")
    /\ \E after \in IF failed THEN Ensured(c, drawn) ELSE {c} :
         Now(after) /\ offered' = (staged' # NoSession /\ offered /\ after = Clip)

\* record_delivery: saved, or kept in memory; a failed one goes on the clipboard.
Recorded(s, failed, c, drawn) ==
    /\ view' = "Ready" /\ lastSaid' = s
    /\ Settle(s, "delivered")
    /\ \E after \in IF failed THEN Ensured(c, drawn) ELSE {c} :
         Now(after) /\ offered' = (staged' # NoSession /\ offered /\ after = Clip)

\* A drawing and its words: the sheet is composed and its image pasted, and the text
\* waits; or the image is not pasted; or there is no sheet.
DeliverDrawn(s) ==
    /\ frames /\ frames' = FALSE
    /\ UNCHANGED <<board, drawable, capturing, opening, typed, lostCopy>>
    /\ \/ /\ bundle' = board /\ lastSaid' = s
          /\ Settle(s, "delivering") /\ Now(ImagePasted)
          /\ staged' = s /\ again' = FALSE /\ offered' = TRUE
          /\ UNCHANGED view
       \/ /\ UNCHANGED <<staged, again>> /\ bundle' = board
          /\ \E c \in ImageRefused : Recorded(s, TRUE, c, TRUE)
       \/ /\ UNCHANGED <<staged, again>> /\ bundle' = NoSession
          /\ Recorded(s, TRUE, Clip, FALSE)

\* Mutant: the drawing of an earlier dictation stays with the next text.
DeliverTextKeepsDrawing(s) ==
    /\ ~frames
    /\ UNCHANGED <<boardVars, opening, staged, again, lostCopy, bundle>>
    /\ \/ Recorded(s, FALSE, Published(Clip), FALSE) /\ typed' = typed \cup {s}
       \/ \E c \in {Clip, Published(Clip)} : Recorded(s, TRUE, c, FALSE) /\ UNCHANGED typed

\* Words alone: offered and pasted, offered and not pasted, or not even offered.
DeliverText(s) ==
    /\ ~frames
    /\ UNCHANGED <<boardVars, opening, staged, again, lostCopy>>
    /\ bundle' = NoSession
    /\ \/ Recorded(s, FALSE, Published(Clip), FALSE) /\ typed' = typed \cup {s}
       \/ \E c \in {Clip, Published(Clip)} : Recorded(s, TRUE, c, FALSE) /\ UNCHANGED typed

\* Mutant: discard_drawing leaves the staged text alone.
DiscardBarStaged(ended) ==
    /\ board' = NoSession /\ drawable' = FALSE /\ capturing' = FALSE /\ frames' = FALSE
    /\ parked' = NoSession
    /\ UNCHANGED pasteVars
    /\ fate' = [s \in Session |-> IF s \in ended THEN "ended" ELSE fate[s]]

\* discard_drawing: the board and the parked transcript go; a staged text is saved
\* and goes on the clipboard, but is not pasted.
Discard(ended) ==
    LET waits == staged # NoSession /\ ~again
    IN  /\ board' = NoSession /\ drawable' = FALSE /\ capturing' = FALSE /\ frames' = FALSE
        /\ parked' = NoSession /\ staged' = NoSession /\ again' = FALSE /\ offered' = FALSE
        /\ lastSaid' = IF waits THEN staged ELSE lastSaid
        /\ \E c \in IF waits THEN Ensured(Clip, bundle # NoSession) ELSE {Clip} : Now(c)
        /\ lostCopy' = (lostCopy \/ (clip = "copy" /\ clip' # "copy"))
        /\ fate' = [s \in Session |-> IF s \in ended THEN "ended"
                                      ELSE IF waits /\ s = staged THEN "delivered" ELSE fate[s]]
        /\ UNCHANGED <<bundle, typed>>

\* Nothing was said and nothing drawn.
DeliverNothing(s) ==
    /\ ~frames /\ Discard({s})
    /\ view' = "Ready" /\ opening' = FALSE

\* A transcript that waits no longer: dropped if its dictation was cancelled.
TakeTranscript(s) ==
    /\ parked' = NoSession
    /\ IF IsCancelled(s)
         THEN Settle(s, "ended") /\ UNCHANGED <<view, opening, boardVars, pasteVars>>
         ELSE DeliverDrawn(s) \/ DeliverText(s) \/ DeliverNothing(s)

Park(s) ==
    /\ parked' = s /\ Settle(s, "delivering")
    /\ UNCHANGED <<view, opening, boardVars, pasteVars>>

-----------------------------------------------------------------------------
(* The timer: poll_updates, poll_drawing, poll_staged.                     *)

\* The parked transcript comes before the next report.
TakeParked ==
    /\ desk = "running" /\ parked # NoSession /\ ~capturing
    /\ TakeTranscript(parked)
    /\ UNCHANGED <<status, job, prep, cleaner, media, paused, cmds, outbox, upds, sessions>>
    /\ UNCHANGED <<desk, overtook>>

TakeReport(kind) ==
    /\ desk = "running" /\ (parked # NoSession => capturing)
    /\ upds # <<>> /\ Head(upds).kind = kind
    /\ upds' = Tail(upds)
    /\ UNCHANGED <<status, job, prep, cleaner, media, paused, cmds, outbox, sessions>>
    /\ UNCHANGED <<desk, overtook>>

PollTranscript ==
    /\ TakeReport("TranscriptReady")
    /\ LET s == Head(upds).session IN IF capturing THEN Park(s) ELSE TakeTranscript(s)

\* Board::stop: finishes what is drawn, which may start a capture, or drops all.
StopBoard(cancel) ==
    /\ drawable' = FALSE /\ UNCHANGED board
    /\ IF cancel THEN capturing' = FALSE /\ frames' = FALSE
                 ELSE /\ capturing' \in IF drawable THEN {capturing, TRUE} ELSE {capturing}
                      /\ UNCHANGED frames

\* Ready is not shown while a transcript waits.
PollStatus ==
    /\ TakeReport("Status")
    /\ LET waits == parked # NoSession \/ staged # NoSession
           shown == IF Head(upds).status = "Ready" /\ waits THEN "Transcribing"
                    ELSE Head(upds).status
       IN  /\ view' = shown
           /\ IF shown = "Recording" THEN UNCHANGED boardVars
              ELSE StopBoard(shown \notin {"Transcribing", "Ready"})
    /\ opening' = FALSE
    /\ UNCHANGED <<fate, parked, pasteVars>>

\* A board of its own for each recording, if the settings ask for one.
PollRecordingStarted ==
    /\ TakeReport("RecordingStarted")
    /\ board' \in {NoSession, Head(upds).session}
    /\ drawable' = (board' # NoSession)
    /\ capturing' = FALSE /\ frames' = FALSE
    /\ UNCHANGED <<fate, view, opening, parked, pasteVars>>

\* A pin, or the end of a stroke.
Draw ==
    /\ desk = "running" /\ view = "Recording" /\ drawable /\ ~capturing
    /\ capturing' = TRUE
    /\ UNCHANGED <<engineVars, desk, view, opening, board, drawable, frames, parked, pasteVars,
                   overtook>>

\* The pictures are there, or some of them, or it has taken more than three seconds.
Captured ==
    /\ desk = "running" /\ capturing
    /\ capturing' = FALSE /\ frames' \in {frames, TRUE}
    /\ UNCHANGED <<engineVars, desk, view, opening, board, drawable, parked, pasteVars,
                   overtook>>

\* Undo drawing: the capture under way, or the last frame.
UndoDrawing ==
    /\ AtHand /\ view = "Recording" /\ board # NoSession
    /\ capturing' = FALSE
    /\ frames' \in IF capturing THEN {frames} ELSE {FALSE, frames}
    /\ UNCHANGED <<engineVars, view, opening, board, drawable, parked, pasteVars,
                   overtook>>

\* poll_clipboard_restore: image and text together, unless something newer is there.
PollRestore ==
    /\ desk = "running" /\ restore # "none"
    /\ \E c \in IF restore = "kept" THEN {Clip, Published(Clip)} ELSE {Clip} : Now(Free(c))
    /\ UNCHANGED <<engineVars, desk, view, opening, boardVars, parked, staged, again, offered,
                   lastSaid, bundle, typed, lostCopy, overtook>>

\* What the second half of a staged paste leaves: the focus has moved or the offer is
\* gone; the text took the place of the image, and its paste was posted or refused.
TextOffered == IF bundle = NoSession THEN Free(Published(Clip)) ELSE Restoring
TextRefused ==
    IF offered THEN {[TextOffered EXCEPT !.clip = clip], TextOffered}
               ELSE {IF bundle = NoSession THEN Free(Clip) ELSE [Clip EXCEPT !.restore = "overtaken"]}

\* poll_staged, once the image has been read or the wait is over.  A paste asked for
\* again has been saved before, and leaves the status as it is.
PollStaged ==
    /\ desk = "running" /\ staged # NoSession
    /\ staged' = NoSession /\ again' = FALSE
    /\ \/ /\ offered /\ ~again
          /\ Recorded(staged, FALSE, TextOffered, TRUE)
          /\ typed' = typed \cup {staged}
       \/ /\ ~again /\ UNCHANGED typed
          /\ \E c \in TextRefused : Recorded(staged, TRUE, c, bundle # NoSession)
       \/ /\ again /\ offered' = FALSE /\ UNCHANGED <<view, lastSaid, fate, typed>>
          /\ \/ offered /\ Now(TextOffered)
             \/ \E c \in TextRefused : \E e \in Ensured(c, bundle # NoSession) : Now(e)
    /\ lostCopy' = (lostCopy \/ (clip = "copy" /\ clip' # "copy"))
    /\ UNCHANGED <<status, job, prep, cleaner, media, paused, cmds, outbox, upds, sessions>>
    /\ UNCHANGED <<desk, opening, boardVars, parked, bundle, overtook>>

-----------------------------------------------------------------------------
(* Cancel, Paste last, Copy last, quitting.                                *)

\* cancel_current: what waits here goes at once, and the engine hears of it.
CancelFromDesk ==
    /\ AtHand /\ Room /\ view \in {"Recording", "Transcribing"}
    /\ Discard({parked} \ {NoSession})
    /\ IF parked # NoSession \/ staged # NoSession
         THEN view' = "Ready" /\ opening' = FALSE
         ELSE UNCHANGED <<view, opening>>
    /\ CancelCurrent /\ SendToEngine("Cancel")
    /\ UNCHANGED overtook

\* repeat_paste, from the menu or the pill.
PasteAgain ==
    /\ AtHand
    /\ lastSaid # NoSession /\ staged = NoSession /\ parked = NoSession
    /\ ~opening /\ view \in {"Ready", "Error"}
    /\ \/ /\ bundle # NoSession /\ Now(ImagePasted)
          /\ staged' = lastSaid /\ again' = TRUE /\ offered' = TRUE
       \/ /\ \E c \in IF bundle # NoSession THEN ImageRefused ELSE {Published(Clip)} : Now(c)
          /\ UNCHANGED <<staged, again, offered>>
    /\ UNCHANGED <<engineVars, view, opening, boardVars, parked, lastSaid, bundle, typed, lostCopy,
                   overtook>>

CopyLast ==
    /\ AtHand /\ lastSaid # NoSession
    /\ Now(Published(Clip)) /\ offered' = FALSE
    /\ UNCHANGED <<engineVars, view, opening, boardVars, parked, staged, again, lastSaid, bundle,
                   typed, lostCopy, overtook>>

\* request_quit.  With unsaved transcripts it asks, and the user may say yes.
RequestQuit ==
    /\ desk \in {"running", "menu"} /\ ~InFlight
    /\ desk' = "stopping" /\ SendToEngine("Quit")
    /\ UNCHANGED <<fate, sessions, view, opening, boardVars, parked, pasteVars, overtook>>

EngineStopped ==
    /\ desk = "stopping" /\ job = "dead" /\ desk' = "gone"
    /\ UNCHANGED <<engineVars, view, opening, boardVars, parked, pasteVars, overtook>>

\* WM_QUERYENDSESSION, unless unsaved transcripts refuse it, and Windows ends the
\* process.  With the menu open the question finds the application taken, and a
\* dictation is not noticed.
SessionEnds ==
    /\ desk \in {"running", "menu"}
    /\ desk = "running" => ~InFlight
    /\ desk' = "gone"
    /\ UNCHANGED <<engineVars, view, opening, boardVars, parked, pasteVars, overtook>>

WinNext ==
    \/ WinEngine
    \/ OpenMenu \/ CloseMenu \/ (\E op \in Commands \cap DictationOps : Tap(op))
    \/ CopySomething
    \/ TakeParked \/ PollTranscript \/ PollStatus \/ PollRecordingStarted
    \/ Draw \/ Captured \/ UndoDrawing \/ PollRestore \/ PollStaged
    \/ CancelFromDesk \/ PasteAgain \/ CopyLast
    \/ RequestQuit \/ EngineStopped \/ SessionEnds

WinSpec == WinInit /\ [][WinNext]_winVars

-----------------------------------------------------------------------------
(* Properties.  Taps that overtake the reports of earlier ones are left out *)
(* where `overtook` says so: what they do is told in the README.           *)

Waiting == {parked} \cup (IF again THEN {} ELSE {staged})

\* A transcript the window has taken and not yet delivered is in one of its two places,
\* and not in both: no later report, tap, cancel or repeated paste pushes it out.
TranscriptsHeld ==
    ~overtook => \A s \in Session : fate[s] = "delivering" <=> s \in Waiting

\* Cancelling the latest dictation holds while its transcript is parked and between the
\* paste of its image and of its text: the text is not typed afterwards.
CancelledNotTyped ==
    [][current \notin (typed' \ typed) \cap discarded]_winVars

\* Image and words of the last result are of the same dictation, whatever was
\* cancelled, repeated or said without drawing in between.
DrawingWithItsWords == bundle # NoSession /\ ~overtook => bundle = lastSaid

OnItsWay(s) == fate[s] \in {"recording", "decoding", "published", "delivering"}

\* With nothing under way between engine and window, quitting and the end of the session
\* are refused as long as words are on their way, wherever they are.
DictationOutlivesQuit ==
    [][(desk \in {"running", "menu"}) /\ desk' \in {"stopping", "gone"} =>
         \/ desk = "menu" /\ desk' = "gone"
         \/ overtook \/ ~NothingUnderWay
         \/ \A s \in Session : ~OnItsWay(s)]_winVars

-----------------------------------------------------------------------------
(* A statement of the documents that the code does not keep.               *)

\* docs/windows-draw-pin.md:37: image and text "are restored together only if owner,
\* sequence and marker still match. A newer copy wins at both stages."
NewerCopyWins == ~lostCopy
=============================================================================
