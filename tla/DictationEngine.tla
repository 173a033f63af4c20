-------------------------- MODULE DictationEngine --------------------------
(***************************************************************************)
(* The Linux application around the engine thread: the Wayland loop of     *)
(* linux.rs (`run_wayland`) with its LinuxEngine, and the update thread of *)
(* linux/updates.rs.                                                       *)
(*                                                                         *)
(* The loop handles the user's actions, then drains the engine's reports,  *)
(* then delivers the transcripts it found among them: three phases that    *)
(* never overlap, while the engine thread runs on its own.  The update     *)
(* thread takes the idle application to install a new version, and then    *)
(* asks the loop to quit.                                                  *)
(***************************************************************************)
EXTENDS EngineThread

CONSTANTS
    Windows,        \* windows that may have the focus
    NoWindow,       \* no paste target
    MaxQueue,       \* bound: commands and reports under way when the user acts
    UpdatesEnabled, \* this build and this install update themselves
    StorageFails    \* history and its recovery folder may both refuse a write

ASSUME NoWindowAssumption == NoWindow \notin Windows
ASSUME MaxQueueAssumption == MaxQueue \in Nat
ASSUME UpdatesAssumption == UpdatesEnabled \in BOOLEAN
ASSUME StorageAssumption == StorageFails \in BOOLEAN

VARIABLES
    phase,          \* what the loop is doing
    shown,          \* LinuxEngine.status: the last status taken from the channel
    pasteTarget,    \* LinuxEngine.paste_target
    configPending,  \* LinuxEngine.configuration_pending
    capturePending, \* LinuxEngine.capture_pending
    stopSent,       \* LinuxEngine.stop_sent
    quitBusy,       \* the static QUIT_BUSY, which the update thread reads
    completed,      \* transcripts this poll found, waiting for delivery
    unsaved,        \* transcripts that only memory holds (history::recovery)
    install,        \* the update thread; the app is reserved unless "none"
    quitQueued,     \* the update thread's Quit, not yet handled by the loop
    stopFocus,      \* history: the window in focus when a dictation was stopped
    hastyStops      \* history: dictations stopped before the loop was up to date

uiVars == <<phase, shown, pasteTarget, configPending, capturePending, stopSent,
            quitBusy, completed, unsaved, stopFocus, hastyStops>>
updateVars == <<install, quitQueued>>
vars == <<engineVars, uiVars, updateVars>>

Target == Windows \cup {NoWindow}
Shown == Statuses \cup {"Error"}
Delivery == [session : Session, target : Target]

UiTypeOK ==
    /\ phase \in {"commands", "poll", "deliver", "stopping", "gone"}
    /\ shown \in Shown
    /\ pasteTarget \in Target
    /\ configPending \in BOOLEAN /\ capturePending \in BOOLEAN
    /\ stopSent \in BOOLEAN /\ quitBusy \in BOOLEAN
    /\ completed \in Seq(Delivery)
    /\ unsaved \subseteq Session
    /\ install \in {"none", "installing", "restarting"}
    /\ quitQueued \in BOOLEAN
    /\ stopFocus \in [Session -> Target]
    /\ hastyStops \subseteq Session

\* Every variable has the values its field has in the code.
TypeOK == EngineTypeOK /\ UiTypeOK

UiInit ==
    /\ phase = "commands" /\ shown = "Starting" /\ pasteTarget = NoWindow
    /\ configPending = FALSE /\ capturePending = FALSE /\ stopSent = FALSE
    /\ quitBusy = TRUE
    /\ completed = <<>> /\ unsaved = {}
    /\ stopFocus = [s \in Session |-> NoWindow] /\ hastyStops = {}

Init == EngineInit /\ UiInit /\ install = "none" /\ quitQueued = FALSE

-----------------------------------------------------------------------------
(* LinuxEngine::command.                                                   *)

BusyStatuses == {"Starting", "Recording", "Transcribing"}
QuitBusy == configPending \/ capturePending \/ shown \in BusyStatuses
Reserved == install # "none"

\* The early returns of LinuxEngine::command, after a Cancel took effect.
Refused(op) ==
    \/ stopSent /\ op \in DictationOps
    \/ op \in FormatOps \cup {"SwitchModel"} /\ (QuitBusy \/ shown # "Ready")
    \/ shown \notin {"Ready", "Recording", "Error"}
    \/ shown = "Error" /\ op = "Stop"

\* The channel is closed: a new engine starts, unless the settings do not load.
RestartEngine ==
    /\ job = "dead"
    /\ \/ /\ status' = "Starting" /\ job' = "prepare"
          /\ outbox' = <<StatusReport("Starting")>> /\ upds' = <<>>
          /\ current' = 0 /\ cancelled' = 0
          /\ shown' = "Starting"
       \/ /\ UNCHANGED <<status, job, outbox, upds, current, cancelled>>
          /\ shown' = "Error"
    /\ UNCHANGED <<prep, cleaner, media, paused, cmds, fate, discarded>>

SendCommand(op) ==
    /\ job # "dead"
    /\ cmds' = Append(cmds, [op |-> op])
    /\ IF op = "Cancel" THEN CancelCurrent ELSE UNCHANGED sessions
    /\ UNCHANGED <<shown, status, job, prep, cleaner, media, paused, outbox, upds, fate>>

Stopping(op) == shown = "Recording" /\ ~stopSent /\ op \in {"Toggle", "Stop"}

\* Only the taps that can start or stop a recording look at the focus.
FocusAt(op) == IF op \in DictationOps THEN Target ELSE {NoWindow}

\* Mutant: the paste goes where the recording started.
TargetAtStart(op, focus) == IF shown = "Ready" THEN focus ELSE pasteTarget

\* The paste goes where the user is when they stop; for a recording that ends
\* without a stop, where they were when they started it.
TargetAfter(op, focus) ==
    IF shown = "Ready" \/ Stopping(op) THEN focus ELSE pasteTarget

\* Nothing is under way: what the loop shows is what the engine does.
UpToDate == cmds = <<>> /\ outbox = <<>> /\ upds = <<>>

\* History only: which tap stopped which dictation.
StopTap(op, focus) ==
    IF Stopping(op) /\ status = "Recording"
      THEN /\ stopFocus' = [stopFocus EXCEPT ![current] = focus]
           /\ hastyStops' = IF UpToDate THEN hastyStops
                                         ELSE hastyStops \cup {current}
      ELSE UNCHANGED <<stopFocus, hastyStops>>

AcceptCommand(op) ==
    /\ ~Refused(op)
    /\ \E focus \in FocusAt(op) :
         /\ pasteTarget' = TargetAfter(op, focus)
         /\ StopTap(op, focus)
    /\ LET configures == op \in FormatOps \cup MediaOps \cup {"SwitchModel"}
           captures == shown = "Ready" /\ op \in CaptureOps
       IN  /\ configPending' = (configPending \/ configures)
           /\ capturePending' = (capturePending \/ captures)
           /\ quitBusy' = (quitBusy \/ configures \/ captures)
    /\ stopSent' = (stopSent \/ (shown = "Recording" /\ op \in {"Toggle", "Stop"}))
    /\ SendCommand(op) \/ RestartEngine

\* A Cancel marks the dictation even when the command itself goes no further.
RefuseCancel(op) ==
    /\ op = "Cancel" /\ Refused(op)
    /\ CancelCurrent
    /\ UNCHANGED <<shown, pasteTarget, configPending, capturePending, stopSent,
                   quitBusy, stopFocus, hastyStops, status, job, prep, cleaner, media,
                   paused, cmds, outbox, upds, fate>>

UserCommand(op) ==
    /\ phase = "commands"
    /\ ~Reserved
    /\ Len(cmds) + Len(outbox) + Len(upds) < MaxQueue
    /\ AcceptCommand(op) \/ RefuseCancel(op)
    /\ UNCHANGED <<phase, completed, unsaved, updateVars>>

-----------------------------------------------------------------------------
(* Quitting: TrayAction::Quit and QuitAnyway.                              *)

\* What a pass over the records may leave in memory.
Unwritten(records) == IF StorageFails THEN SUBSET records ELSE {{}}

\* EngineHandle::stop sends Quit and waits for the thread to end.
StopEngine ==
    /\ phase' = "stopping"
    /\ cmds' = IF job = "dead" THEN cmds
               ELSE Append(cmds, [op |-> "Quit"])

\* Quit retries the unsaved transcripts first, and stays if any remains.
HandleQuit(anyway) ==
    /\ phase = "commands"
    /\ IF QuitBusy THEN UNCHANGED <<phase, cmds, unsaved>>
       ELSE IF anyway THEN StopEngine /\ UNCHANGED unsaved
       ELSE \E kept \in Unwritten(unsaved) :
              /\ unsaved' = kept
              /\ IF kept = {} THEN StopEngine ELSE UNCHANGED <<phase, cmds>>
    /\ UNCHANGED <<status, job, prep, cleaner, media, paused, outbox, upds, fate,
                   sessions, shown, pasteTarget, configPending, capturePending,
                   stopSent, quitBusy, completed, stopFocus, hastyStops, install>>

UserQuit ==
    /\ ~QuitBusy
    /\ \E anyway \in BOOLEAN : HandleQuit(anyway)
    /\ UNCHANGED quitQueued

\* `retry-unsaved`, from the tray or the command line.
RetryUnsaved ==
    /\ phase = "commands" /\ unsaved # {}
    /\ unsaved' \in Unwritten(unsaved)
    /\ UNCHANGED <<engineVars, phase, shown, pasteTarget, configPending, capturePending,
                   stopSent, quitBusy, completed, stopFocus, hastyStops, updateVars>>

UpdaterQuit ==
    /\ quitQueued
    /\ HandleQuit(FALSE)
    /\ quitQueued' = FALSE

Gone ==
    /\ phase = "stopping" /\ job = "dead"
    /\ phase' = "gone"
    /\ UNCHANGED <<engineVars, shown, pasteTarget, configPending, capturePending,
                   stopSent, quitBusy, completed, unsaved, stopFocus, hastyStops, updateVars>>

-----------------------------------------------------------------------------
(* LinuxEngine::poll, and the delivery after it.                           *)

TakeUpdate(kind) ==
    /\ phase = "poll"
    /\ upds # <<>> /\ Head(upds).kind = kind
    /\ upds' = Tail(upds)
    /\ UNCHANGED <<status, job, prep, cleaner, media, paused, cmds, outbox, sessions>>
    /\ UNCHANGED <<phase, unsaved, stopFocus, hastyStops, updateVars>>

\* A poll that finds the channel empty changes nothing.
BeginPoll ==
    /\ phase = "commands" /\ upds # <<>>
    /\ phase' = "poll"
    /\ UNCHANGED <<engineVars, shown, pasteTarget, configPending, capturePending,
                   stopSent, quitBusy, completed, unsaved, stopFocus, hastyStops, updateVars>>

\* Mutant: only FormattingBusy says that a configuration change is over.
PollStatusKeepsPending ==
    /\ TakeUpdate("Status")
    /\ shown' = Head(upds).status
    /\ stopSent' = FALSE /\ capturePending' = FALSE
    /\ quitBusy' = (Head(upds).status \in BusyStatuses)
    /\ UNCHANGED <<configPending, pasteTarget, completed, fate>>

PollStatus ==
    /\ TakeUpdate("Status")
    /\ shown' = Head(upds).status
    /\ configPending' = FALSE /\ stopSent' = FALSE /\ capturePending' = FALSE
    /\ quitBusy' = (Head(upds).status \in BusyStatuses)
    /\ UNCHANGED <<pasteTarget, completed, fate>>

PollFormattingBusy ==
    /\ TakeUpdate("FormattingBusy")
    /\ configPending' = Head(upds).busy
    /\ quitBusy' = (Head(upds).busy \/ capturePending \/ shown \in BusyStatuses)
    /\ UNCHANGED <<shown, capturePending, stopSent, pasteTarget, completed, fate>>

\* Mutant: the transcript found last is delivered first.
HandOverNewestFirst(s) ==
    completed' = <<[session |-> s, target |-> pasteTarget]>> \o completed

HandOver(s) ==
    completed' = Append(completed, [session |-> s, target |-> pasteTarget])

\* Cancelled, or silent with nothing drawn: dropped.  Otherwise handed over to
\* the delivery with the paste target, which is taken.
PollTranscript ==
    /\ TakeUpdate("TranscriptReady")
    /\ pasteTarget' = NoWindow
    /\ LET s == Head(upds).session
       IN  IF IsCancelled(s)
             THEN Settle(s, "ended") /\ UNCHANGED completed
             ELSE \/ Settle(s, "ended") /\ UNCHANGED completed
                  \/ Settle(s, "delivering") /\ HandOver(s)
    /\ UNCHANGED <<shown, configPending, capturePending, stopSent, quitBusy>>

\* Mutant: the transcripts a poll found are forgotten.
AfterPollForgets == "commands"

AfterPoll == IF completed = <<>> THEN "commands" ELSE "deliver"

EndPoll ==
    /\ phase = "poll" /\ upds = <<>>
    /\ phase' = AfterPoll
    /\ UNCHANGED <<engineVars, shown, pasteTarget, configPending, capturePending,
                   stopSent, quitBusy, completed, unsaved, stopFocus, hastyStops, updateVars>>

\* Pasted or left on the clipboard, and then saved: persist retries the older
\* records first and keeps in memory what still cannot be written.  Replacements
\* may leave nothing to deliver.
Deliver ==
    /\ phase = "deliver"
    /\ LET s == Head(completed).session
       IN  \/ Settle(s, "ended") /\ UNCHANGED unsaved
           \/ /\ Settle(s, "delivered")
              /\ unsaved' \in Unwritten(unsaved \cup {s})
    /\ completed' = Tail(completed)
    /\ phase' = IF Len(completed) = 1 THEN "commands" ELSE phase
    /\ UNCHANGED <<status, job, prep, cleaner, media, paused, cmds, outbox, upds, sessions>>
    /\ UNCHANGED <<shown, pasteTarget, configPending, capturePending, stopSent,
                   quitBusy, stopFocus, hastyStops, updateVars>>

-----------------------------------------------------------------------------
(* The update thread.                                                      *)

\* `reserve`: under the lock that LinuxEngine::command holds, so it never falls
\* inside a command.
Reserve ==
    /\ UpdatesEnabled /\ install = "none" /\ phase # "gone"
    /\ ~quitBusy /\ unsaved = {}
    /\ install' = "installing"
    /\ UNCHANGED <<engineVars, uiVars, quitQueued>>

\* The install failed, or the quit it asked for did not come in time: the app
\* is free again.  A Quit still queued stays queued.
Release ==
    /\ install # "none"
    /\ install' = "none"
    /\ UNCHANGED <<engineVars, uiVars, quitQueued>>

Restart ==
    /\ install = "installing" /\ phase # "gone"
    /\ install' = "restarting" /\ quitQueued' = TRUE
    /\ UNCHANGED <<engineVars, uiVars>>

-----------------------------------------------------------------------------
Engine == EngineStep(phase = "stopping") /\ UNCHANGED <<uiVars, updateVars>>

Loop == BeginPoll \/ PollStatus \/ PollFormattingBusy \/ PollTranscript
        \/ EndPoll \/ Deliver

Updater == Reserve \/ Release \/ Restart

Next ==
    \/ Engine
    \/ \E op \in Commands : UserCommand(op)
    \/ UserQuit \/ UpdaterQuit \/ RetryUnsaved \/ Gone
    \/ Loop
    \/ Updater

Spec == Init /\ [][Next]_vars

\* Both threads keep running: neither stops for ever at a step it could take.
\* The end of a media job and of a formatter's preparation are looked at on every
\* turn of the engine's loop.  The recording limit is looked at only when no
\* command waits, and a recording is not kept paused for ever (paused time does not
\* count).  Nobody has to press anything.
FairSpec ==
    /\ Spec
    /\ WF_vars(Engine) /\ WF_vars(Loop) /\ WF_vars(Gone)
    /\ SF_vars(LimitReached /\ UNCHANGED <<uiVars, updateVars>>)
    /\ SF_vars(MediaEnds /\ UNCHANGED <<uiVars, updateVars>>)
    /\ SF_vars(FormattingPrepared /\ UNCHANGED <<uiVars, updateVars>>)
-----------------------------------------------------------------------------
(* Properties that hold.                                                   *)

\* Media players are paused only while the microphone records: every way out of
\* a recording (stop, limit, cancel, failure, quit) lets them play again.
PausedOnlyWhileRecording == paused => status = "Recording" /\ job # "dead"

\* Cancelling the latest dictation holds wherever it is by then: still recording,
\* being decoded or formatted, or waiting in the channel as a transcript.
LatestCancelHolds ==
    current > 0 /\ fate[current] = "delivering" => current \notin discarded

Stage(s) ==
    CASE fate[s] = "unused" -> 0
      [] fate[s] = "recording" -> 1
      [] fate[s] = "decoding" -> 2
      [] fate[s] = "published" -> 3
      [] fate[s] = "delivering" -> 4
      [] OTHER -> 5

\* Dictations keep their order from the microphone to the paste: one that is
\* still on its way, or delivered, is never ahead of an earlier one.
DeliveredInOrder ==
    \A s, t \in Session :
        s < t /\ fate[t] \notin {"ended", "dropped"} => Stage(s) >= Stage(t)

TargetKept(i) == completed[i].target = stopFocus[completed[i].session]

\* A dictation the user stopped, with the app showing what the engine did, is
\* pasted where the user was on stopping it, whatever was pressed between the
\* stop and the paste.
PastedWhereStopped ==
    \A i \in DOMAIN completed :
        LET s == completed[i].session
        IN  stopFocus[s] # NoWindow /\ s \notin hastyStops => TargetKept(i)

Quiet ==
    /\ phase = "commands" /\ job \in {"none", "dead"}
    /\ status \notin {"Recording", "Transcribing"} /\ ~prep
    /\ cmds = <<>> /\ outbox = <<>> /\ upds = <<>>

\* With nothing running and nothing under way, the app can be quit: the flags
\* that refuse it never outlive the work they stand for.
QuietMeansQuittable == Quiet => ~QuitBusy

\* Once every report is read, the app shows what the engine does, or an error that
\* left the engine Ready: no handler changes the status without saying so.
ViewCatchesUp ==
    phase = "commands" /\ outbox = <<>> /\ upds = <<>> =>
        \/ shown = status
        \/ shown = "Error" /\ (status = "Ready" \/ job \in {"exit", "dead"})

\* Every recording comes to an end, by its limit if nobody stops it, and its
\* transcript is then delivered or dropped for a reason, unless the app quits.  The
\* limit gives way to commands, so this asks that the channel runs empty now and
\* then.
EveryDictationSettles ==
    []<>(cmds = <<>>) =>
        \A s \in Session :
            fate[s] = "recording" ~> (fate[s] \in {"delivered", "ended"} \/ phase = "gone")

-----------------------------------------------------------------------------
(* Statements of the comments and documents that the code does not keep.   *)

\* runtime.rs:86: a cancelled transcript "must not be pasted or saved, wherever
\* it is in the pipeline".
CancelledNeverDelivered == \A s \in Session : fate[s] = "delivering" => s \notin discarded

\* linux.rs:2304: the command holds the gate "until the command has marked the
\* app busy, so an install can't slip in".
InstallExcludesRecording == install = "installing" => status # "Recording"
=============================================================================
