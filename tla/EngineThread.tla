--------------------------- MODULE EngineThread ---------------------------
(***************************************************************************)
(* The engine thread of Koett (CrossPlatform/src/runtime.rs, `run`), in    *)
(* the default Linux build (the optional `ask` feature is left out).       *)
(*                                                                         *)
(* One thread owns the microphone recorder, the transcription worker, the  *)
(* media-player control and the text formatter.  It takes commands from a  *)
(* FIFO channel, one at a time, and reports on a second FIFO channel.      *)
(* While it prepares a model, decodes a recording or formats a transcript  *)
(* it is blocked, and commands pile up behind it.                          *)
(*                                                                         *)
(* A handler's reports leave one by one (variable outbox, action Send), so *)
(* a reader of the channel may see the first and not yet the second.       *)
(***************************************************************************)
EXTENDS Naturals, Sequences

CONSTANTS
    Commands,       \* commands the user may issue in this instance
    MaxSessions,    \* bound: recordings one run of the program begins
    FormattingEnabled   \* settings.formatting.enabled when the engine starts

CaptureOps == {"Toggle", "Start"}
DictationOps == CaptureOps \cup {"Stop"}
FormatOps == {"FormatOn", "FormatOff"}
\* MediaInvalid stands for a source that validate_source rejects.
MediaOps == {"Media", "MediaInvalid"}
UserOps == DictationOps \cup FormatOps \cup MediaOps \cup {"Cancel", "SwitchModel"}

ASSUME CommandsAssumption == Commands \subseteq UserOps
ASSUME MaxSessionsAssumption == MaxSessions \in Nat
ASSUME FormattingAssumption == FormattingEnabled \in BOOLEAN

VARIABLES
    status,     \* the engine's own AppStatus
    job,        \* what the thread is blocked in, "none" when it can take a command
    prep,       \* a formatter is being prepared on a thread of its own
    cleaner,    \* a formatter is loaded
    media,      \* the media file being fetched or decoded, if any
    paused,     \* media players are paused on behalf of a recording
    cmds,       \* commands sent and not yet taken
    outbox,     \* reports of the current handler, not yet sent
    upds,       \* reports sent and not yet taken by the user interface
    current,    \* DictationSessions::current
    cancelled,  \* DictationSessions::cancelled
    fate,       \* history: how far each dictation has come
    discarded   \* history: the dictations a Cancel has marked

sessions == <<current, cancelled, discarded>>
engineVars == <<status, job, prep, cleaner, media, paused, cmds, outbox,
                upds, current, cancelled, fate, discarded>>

Statuses == {"Starting", "Ready", "Recording", "Transcribing"}
Jobs == {"none", "prepare", "switch", "decode", "clean", "exit", "dead"}
Session == 1..MaxSessions
\* "ended": cancelled, silent, or failed with its audio kept.  "dropped": cut
\* off by quitting.
Fates == {"unused", "recording", "decoding", "published", "delivering",
          "delivered", "ended", "dropped"}

Command == [op : UserOps \cup {"Quit"}]
StatusUpdate == [kind : {"Status"}, status : Statuses \cup {"Error"}]
BusyUpdate == [kind : {"FormattingBusy"}, busy : BOOLEAN]
TranscriptUpdate == [kind : {"TranscriptReady"}, session : Session]
Update == StatusUpdate \cup BusyUpdate \cup TranscriptUpdate

StatusReport(s) == [kind |-> "Status", status |-> s]
FormattingBusy(b) == [kind |-> "FormattingBusy", busy |-> b]
TranscriptReady(s) == [kind |-> "TranscriptReady", session |-> s]

EngineTypeOK ==
    /\ status \in Statuses
    /\ job \in Jobs
    /\ prep \in BOOLEAN
    /\ cleaner \in BOOLEAN
    /\ media \in {"none", "fetching", "decoding"}
    /\ paused \in BOOLEAN
    /\ cmds \in Seq(Command)
    /\ outbox \in Seq(Update)
    /\ upds \in Seq(Update)
    /\ current \in 0..MaxSessions
    /\ cancelled \in 0..MaxSessions
    /\ fate \in [Session -> Fates]
    /\ discarded \subseteq Session

EngineInit ==
    /\ status = "Starting" /\ job = "prepare"
    /\ prep = FALSE /\ cleaner = FALSE /\ media = "none" /\ paused = FALSE
    /\ cmds = <<>> /\ outbox = <<StatusReport("Starting")>> /\ upds = <<>>
    /\ current = 0 /\ cancelled = 0
    /\ fate = [s \in Session |-> "unused"] /\ discarded = {}

-----------------------------------------------------------------------------
Idle == job = "none" /\ outbox = <<>>
Blocked(j) == job = j /\ outbox = <<>>
Receive(ops) ==
    /\ Idle /\ cmds # <<>>
    /\ Head(cmds).op \in ops
    /\ cmds' = Tail(cmds)
Report(reports) == outbox' = reports

\* DictationSessions::cancel_current, called by the UI and by the engine.
CancelCurrent ==
    /\ cancelled' = current
    /\ discarded' = discarded \cup ({current} \ {0})
    /\ UNCHANGED current

\* Mutant: compares with the number before the increment that begins a dictation.
IsCancelledOffByOne(s) == s # 0 /\ cancelled = s - 1

\* DictationSessions::is_cancelled.
IsCancelled(s) == s # 0 /\ cancelled = s

Settle(s, f) == fate' = [fate EXCEPT ![s] = f]

Send ==
    /\ outbox # <<>>
    /\ upds' = Append(upds, Head(outbox))
    /\ outbox' = Tail(outbox)
    /\ UNCHANGED <<status, job, prep, cleaner, media, paused, cmds, fate, sessions>>

-----------------------------------------------------------------------------
(* Starting up and shutting down.                                          *)

\* The model loaded; with formatting enabled in the settings, its formatter
\* starts preparing.
PrepareSucceeds ==
    /\ Blocked("prepare")
    /\ status' = "Ready" /\ job' = "none"
    /\ prep' = FormattingEnabled
    /\ Report(IF FormattingEnabled
                THEN <<StatusReport("Ready"), FormattingBusy(TRUE)>>
                ELSE <<StatusReport("Ready")>>)
    /\ UNCHANGED <<cleaner, media, paused, cmds, upds, fate, sessions>>

\* Neither the selected model nor the compact fallback loaded: the thread ends.
PrepareFails ==
    /\ Blocked("prepare")
    /\ job' = "exit"
    /\ Report(<<StatusReport("Error")>>)
    /\ UNCHANGED <<status, prep, cleaner, media, paused, cmds, upds, fate, sessions>>

Quit ==
    /\ Receive({"Quit"})
    /\ job' = "exit"
    /\ UNCHANGED <<status, prep, cleaner, media, paused, outbox, upds, fate, sessions>>

\* The code after the loop: everything the thread owns is dropped, a recording
\* in progress with it, the players resume, and the command receiver closes.
Exit ==
    /\ Blocked("exit")
    /\ job' = "dead"
    /\ prep' = FALSE /\ cleaner' = FALSE /\ media' = "none" /\ paused' = FALSE
    /\ cmds' = <<>>
    /\ IF status = "Recording" THEN Settle(current, "dropped") ELSE UNCHANGED fate
    /\ UNCHANGED <<status, outbox, upds, sessions>>

-----------------------------------------------------------------------------
(* One dictation: record, decode, format, publish.                         *)

StartRecording ==
    /\ Receive(CaptureOps) /\ status = "Ready"
    /\ current < MaxSessions
    /\ current' = current + 1
    /\ status' = "Recording"
    /\ Settle(current + 1, "recording")
    /\ \E pause_media \in BOOLEAN : paused' = pause_media
    /\ Report(<<StatusReport("Recording")>>)
    /\ UNCHANGED <<job, prep, cleaner, media, upds, cancelled, discarded>>

\* No microphone, or the worker is gone.  The players resume; the engine is
\* Ready again at once, and says only Error.
StartFails ==
    /\ Receive(CaptureOps) /\ status = "Ready"
    /\ paused' = FALSE
    /\ Report(<<StatusReport("Error")>>)
    /\ UNCHANGED <<status, job, prep, cleaner, media, upds, fate, sessions>>

\* Shared by the Stop and Toggle commands and the recording limit.
FinishCapture ==
    /\ status = "Recording"
    /\ status' = "Transcribing" /\ job' = "decode"
    /\ paused' = FALSE
    /\ Settle(current, "decoding")
    /\ Report(<<StatusReport("Transcribing")>>)
    /\ UNCHANGED <<prep, cleaner, media, upds, sessions>>

StopRecording == Receive({"Toggle", "Stop"}) /\ FinishCapture

\* recv_timeout gives up only when no command is waiting.
LimitReached ==
    /\ Idle /\ cmds = <<>>
    /\ FinishCapture
    /\ UNCHANGED cmds

DecodeSucceeds ==
    /\ Blocked("decode")
    /\ IF IsCancelled(current)
         THEN /\ status' = "Ready" /\ job' = "none"
              /\ Report(<<StatusReport("Ready")>>)
              /\ Settle(current, "ended")
         ELSE /\ job' = "clean"
              /\ UNCHANGED <<status, outbox, fate>>
    /\ UNCHANGED <<prep, cleaner, media, paused, cmds, upds, sessions>>

\* Both the background and the whole-file decode failed; the audio was kept.
DecodeFails ==
    /\ Blocked("decode")
    /\ status' = "Ready" /\ job' = "none"
    /\ Report(<<StatusReport("Error")>>)
    /\ Settle(current, "ended")
    /\ UNCHANGED <<prep, cleaner, media, paused, cmds, upds, sessions>>

\* Dictionary and formatter ran.  A formatter that stalled is dropped.
Publish ==
    /\ Blocked("clean")
    /\ status' = "Ready" /\ job' = "none"
    /\ Report(<<TranscriptReady(current), StatusReport("Ready")>>)
    /\ Settle(current, "published")
    /\ cleaner' \in {cleaner, FALSE}
    /\ UNCHANGED <<prep, media, paused, cmds, upds, sessions>>

\* Mutant: the players stay paused after a cancelled recording.
CancelRecordingKeepsPause ==
    /\ Receive({"Cancel"}) /\ status = "Recording"
    /\ CancelCurrent
    /\ status' = "Ready"
    /\ Settle(current, "ended")
    /\ Report(<<StatusReport("Ready")>>)
    /\ UNCHANGED <<paused, job, prep, cleaner, media, upds>>

\* The audio is thrown away, and the dictation is marked cancelled once more.
CancelRecording ==
    /\ Receive({"Cancel"}) /\ status = "Recording"
    /\ CancelCurrent
    /\ status' = "Ready"
    /\ paused' = FALSE
    /\ Settle(current, "ended")
    /\ Report(<<StatusReport("Ready")>>)
    /\ UNCHANGED <<job, prep, cleaner, media, upds>>

-----------------------------------------------------------------------------
(* Media files, models and formatting.                                     *)

BeginMedia ==
    /\ Receive({"Media"}) /\ status = "Ready" /\ ~prep
    /\ media' = "fetching"
    /\ status' = "Transcribing"
    /\ Report(<<StatusReport("Transcribing")>>)
    /\ UNCHANGED <<job, prep, cleaner, paused, upds, fate, sessions>>

\* Fetch::start refused the source.  On Linux this sends a notice and no status.
RejectMedia ==
    /\ Receive({"MediaInvalid"}) /\ status = "Ready" /\ ~prep
    /\ UNCHANGED <<status, job, prep, cleaner, media, paused, outbox, upds, fate, sessions>>

MediaFetched ==
    /\ Idle /\ media = "fetching"
    /\ media' = "decoding"
    /\ UNCHANGED <<status, job, prep, cleaner, paused, cmds, outbox, upds, fate, sessions>>

\* The fetch failed or was cancelled, or the decode ended either way.
MediaEnds ==
    /\ Idle /\ media # "none"
    /\ media' = "none"
    /\ status' = "Ready"
    /\ Report(<<StatusReport("Ready")>>)
    /\ UNCHANGED <<job, prep, cleaner, paused, cmds, upds, fate, sessions>>

\* With shutdown requested, begin_model_switch breaks out of the loop.
BeginSwitch(shutdown) ==
    /\ Receive({"SwitchModel"}) /\ status = "Ready"
    /\ IF shutdown
         THEN job' = "exit" /\ UNCHANGED <<status, outbox>>
         ELSE /\ job' = "switch" /\ status' = "Starting"
              /\ Report(<<StatusReport("Starting")>>)
    /\ UNCHANGED <<prep, cleaner, media, paused, upds, fate, sessions>>

\* Mutant: the end of a model switch is not reported.
FinishSwitchUnreported ==
    /\ Blocked("switch")
    /\ job' = "none" /\ status' = "Ready"
    /\ UNCHANGED <<prep, cleaner, media, paused, cmds, outbox, upds, fate, sessions>>

\* Switched, failed or cancelled: the engine is Ready with one model or the other.
FinishSwitch ==
    /\ Blocked("switch")
    /\ job' = "none" /\ status' = "Ready"
    /\ Report(<<StatusReport("Ready")>>)
    /\ UNCHANGED <<prep, cleaner, media, paused, cmds, upds, fate, sessions>>

BeginFormatting ==
    /\ Receive({"FormatOn"}) /\ status = "Ready" /\ ~prep /\ ~cleaner
    /\ prep' = TRUE
    /\ Report(<<FormattingBusy(TRUE)>>)
    /\ UNCHANGED <<status, job, cleaner, media, paused, upds, fate, sessions>>

\* Nothing to prepare: the settings are saved, or saving fails and only says so.
SaveFormatting ==
    /\ Receive(FormatOps) /\ status = "Ready" /\ ~prep
    /\ Head(cmds).op = "FormatOn" => cleaner
    /\ cleaner' \in IF Head(cmds).op = "FormatOff" THEN {cleaner, FALSE} ELSE {cleaner}
    /\ Report(<<FormattingBusy(FALSE), StatusReport("Ready")>>)
    /\ UNCHANGED <<status, job, prep, media, paused, upds, fate, sessions>>

\* Polled only while Ready.  The formatter is taken if its settings were saved.
FormattingPrepared ==
    /\ Idle /\ status = "Ready" /\ prep
    /\ prep' = FALSE
    /\ cleaner' \in {cleaner, TRUE}
    /\ Report(<<FormattingBusy(FALSE), StatusReport("Ready")>>)
    /\ UNCHANGED <<status, job, media, paused, cmds, upds, fate, sessions>>

\* Commands the current status has no use for: skipped, at most with a notice.
Ignored(op) ==
    \/ op = "Start" /\ status # "Ready"
    \/ op = "Toggle" /\ status \notin {"Ready", "Recording"}
    \/ op \in {"Stop", "Cancel"} /\ status # "Recording"
    \/ op = "SwitchModel" /\ status # "Ready"
    \/ op \in FormatOps \cup MediaOps /\ (status # "Ready" \/ prep)

IgnoreCommand ==
    /\ Receive({op \in UserOps : Ignored(op)})
    /\ UNCHANGED <<status, job, prep, cleaner, media, paused, outbox, upds, fate, sessions>>

-----------------------------------------------------------------------------
EngineStep(shutdown) ==
    \/ Send
    \/ PrepareSucceeds \/ PrepareFails \/ Quit \/ Exit
    \/ StartRecording \/ StartFails \/ StopRecording \/ LimitReached
    \/ DecodeSucceeds \/ DecodeFails \/ Publish \/ CancelRecording
    \/ BeginMedia \/ RejectMedia \/ MediaFetched \/ MediaEnds
    \/ BeginSwitch(shutdown) \/ FinishSwitch
    \/ BeginFormatting \/ SaveFormatting \/ FormattingPrepared
    \/ IgnoreCommand
=============================================================================
