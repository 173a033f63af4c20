---------------------------- MODULE MacDictation ----------------------------
(***************************************************************************)
(* The macOS app (Sources/Koett): KoettController with its state, the      *)
(* tasks that outlive the key that started them, the queue that writes     *)
(* transcripts (TranscriptPersistence), the gate in front of an update     *)
(* (UpdateInstallGate) and Quit (prepareTermination).                      *)
(*                                                                         *)
(* All of it but the writes runs on the main actor, so a step is what runs *)
(* between two awaits.  A write runs on another thread; what it came to is *)
(* applied later, on the main actor, and anything may have happened in     *)
(* between.                                                                *)
(*                                                                         *)
(* Ask is left out: AssistantAvailability.isEnabled is false.              *)
(***************************************************************************)
EXTENDS Naturals, Sequences, FiniteSets

CONSTANTS
    MaxRecordings,  \* bound: dictations and media transcriptions
    MaxWork         \* bound: work in the queue of writes when more is asked for by hand

ASSUME MacAssumption == MaxRecordings \in Nat /\ MaxWork \in Nat

VARIABLES
    state,          \* KoettController.state
    active,         \* activeDictationID, 0 for nil
    made,           \* lastDictationID; media transcripts are numbered along
    speechEngine,   \* the engine of this launch
    task,           \* dictationTask, or the other task that sets state back
    audio,          \* the file of each recording
    panel,          \* the file panel or URL alert is open
    pill,           \* recordingOverlay.isPresented
    relaunching,    \* isRelaunching
    gate,           \* UpdateInstallGate
    noticed,        \* its noticeShown
    ended,          \* the process is gone
    pending,        \* TranscriptPersistence.pending
    volatile,       \* volatileIDs
    work,           \* the chain of tasks behind queuedWork
    written,        \* what the detached write came to, not yet applied
    history,        \* the records in History.sqlite3
    failed,         \* the records in Failed Transcripts
    enqueued,       \* history: what was handed to TranscriptPersistence
    revoked,        \* history: the dictations the user cancelled
    nothing         \* history: too short, silent, or media with nothing more to keep

macSession == <<state, active, made, task, audio, revoked, nothing>>
macGate == <<gate, noticed>>
macQueue == <<pending, volatile, work, enqueued>>
macDisk == <<written, history, failed>>
macFrame == <<speechEngine, ended>>
macVars == <<macSession, panel, pill, relaunching, macGate, macQueue, macDisk, macFrame>>

Recordings == 1..MaxRecordings
Left == 0                           \* a transcript an earlier launch left in a file
Records == Recordings \cup {Left}
NoTask == [at |-> "none", of |-> 0, broken |-> FALSE, short |-> FALSE]
NoWrite == [record |-> Left, saved |-> FALSE, file |-> FALSE, on |-> FALSE]
Work == [own : Records, scan : BOOLEAN, todo : SUBSET Records, files : SUBSET Records]

MacTypeOK ==
    /\ state \in {"loading", "ready", "recording", "transcribing", "media"}
    /\ active \in 0..made /\ made \in 0..MaxRecordings
    /\ speechEngine \in {"parakeet", "nemotron"}
    /\ task.at \in {"none", "hear", "live", "backup", "finish", "draw", "settle", "discard",
                    "repaste", "fetch", "saving"}
    /\ task.of \in 0..made /\ task.broken \in BOOLEAN /\ task.short \in BOOLEAN
    /\ (task = NoTask) = (state \in {"loading", "ready", "recording"})
    /\ audio \in [Recordings -> {"none", "temporary", "kept", "deleted"}]
    /\ {panel, pill, relaunching, noticed, ended} \subseteq BOOLEAN
    /\ gate \in {"none", "deferred", "scheduled", "installing", "held"}
    /\ {pending, volatile, history, failed, enqueued} \subseteq SUBSET Records
    /\ {revoked, nothing} \subseteq SUBSET Recordings
    /\ work \in Seq(Work)
    /\ written \in [record : Records, saved : BOOLEAN, file : BOOLEAN, on : BOOLEAN]

MacInit ==
    /\ state = "loading" /\ active = 0 /\ made = 0
    /\ speechEngine \in {"parakeet", "nemotron"}
    /\ task = NoTask /\ audio = [r \in Recordings |-> "none"]
    /\ panel = FALSE /\ pill = FALSE /\ relaunching = FALSE
    /\ gate = "none" /\ noticed = FALSE /\ ended = FALSE
    /\ pending = {} /\ volatile = {} /\ work = <<>> /\ written = NoWrite
    /\ history = {} /\ failed \in SUBSET {Left}
    /\ enqueued = {} /\ revoked = {} /\ nothing = {}

-----------------------------------------------------------------------------
(* What a change of state sets off.                                        *)

\* isInstalling
Reserved == gate \in {"scheduled", "installing", "held"}
CanStartSession == state = "ready" /\ ~relaunching /\ ~Reserved

IdleIn(st, shown, unsaved) ==
    st = "ready" /\ ~relaunching /\ unsaved = {} /\ (shown => noticed /\ Reserved)
IdleForUpdates == active = 0 /\ IdleIn(state, pill, volatile)

\* The gate after resumeIfIdle: the installation waits for the next turn of the main queue.
Resumed(st, shown, unsaved) ==
    IF gate \in {"deferred", "held"} /\ IdleIn(st, shown, unsaved) THEN "scheduled" ELSE gate

\* state.didSet: back to ready there is nothing left to cancel.
ChangesTo(st, shown, unsaved) ==
    /\ state' = st /\ pill' = shown
    /\ st = "ready" => active' = 0
    /\ gate' = Resumed(st, shown, unsaved)

\* The end of a task, with or without a message in the pill.
BackToReady(unsaved) ==
    /\ task' = NoTask
    /\ \E shown \in BOOLEAN : ChangesTo("ready", shown, unsaved)

NewTask(at, s, broken, short) == [at |-> at, of |-> s, broken |-> broken, short |-> short]
Audio(s, fate) == audio' = [audio EXCEPT ![s] = fate]

\* Mutant: failed audio is deleted unless the dictation is past cancelling.
RetainFailedAudioOfOthers(s) == Audio(s, IF active # s THEN "kept" ELSE "deleted")

\* Failed audio is kept unless the user cancelled the dictation.
RetainFailedAudio(s) == Audio(s, IF active = s THEN "kept" ELSE "deleted")

-----------------------------------------------------------------------------
(* TranscriptPersistence.                                                  *)

Recovery == [own |-> Left, scan |-> TRUE, todo |-> pending, files |-> {}]
Saving(r) == [own |-> r, scan |-> FALSE, todo |-> {r}, files |-> {}]

\* Mutant: the record counts as unsaved only once its write has failed.
EnqueueLate(r) ==
    /\ work' = work \o <<Recovery, Saving(r)>>
    /\ pending' = pending \cup {r}
    /\ enqueued' = enqueued \cup {r}
    /\ UNCHANGED volatile

\* enqueue: first another recovery, of what memory holds at this moment.
Enqueue(r) ==
    /\ work' = work \o <<Recovery, Saving(r)>>
    /\ pending' = pending \cup {r}
    /\ volatile' = volatile \cup {r}
    /\ enqueued' = enqueued \cup {r}

RecoverInBackground ==
    /\ Len(work) < MaxWork
    /\ work' = Append(work, Recovery)
    /\ UNCHANGED <<pending, volatile, enqueued>>

\* The detached scan of Failed Transcripts; a file that is there is no news for volatileIDs.
ScanFiles ==
    /\ work # <<>> /\ work[1].scan
    /\ LET todo == work[1].todo \cup failed IN
        work' = IF todo = {} THEN Tail(work)
                ELSE [work EXCEPT ![1].scan = FALSE, ![1].todo = todo, ![1].files = failed]
    /\ pending' = pending \cup failed
    /\ UNCHANGED <<volatile, enqueued, macSession, panel, pill, relaunching, macGate, macDisk,
                   macFrame>>

\* Mutant: the recovery file goes before history has the record.
WriteRecordUnsafe ==
    /\ work # <<>> /\ ~work[1].scan /\ ~written.on
    /\ LET r == CHOOSE x \in work[1].todo : \A y \in work[1].todo : x <= y IN
       \E appended \in BOOLEAN :
        /\ history' = IF appended THEN history \cup {r} ELSE history
        /\ failed' = failed \ {r}
        /\ written' = [record |-> r, saved |-> appended, file |-> TRUE, on |-> TRUE]
    /\ UNCHANGED <<macSession, panel, pill, relaunching, macGate, macQueue, macFrame>>

\* write, on its own thread, oldest record first: the recovery file, history, and the file
\* goes only after history has the record.
WriteRecord ==
    /\ work # <<>> /\ ~work[1].scan /\ ~written.on
    /\ LET r == CHOOSE x \in work[1].todo : \A y \in work[1].todo : x <= y IN
       \E preserved, appended, removed \in BOOLEAN :
        /\ r \in work[1].files => preserved
        /\ removed => preserved /\ appended
        /\ history' = IF appended THEN history \cup {r} ELSE history
        /\ failed' = IF removed THEN failed \ {r}
                     ELSE IF preserved THEN failed \cup {r} ELSE failed
        /\ written' = [record |-> r, saved |-> appended, file |-> preserved /\ ~removed,
                       on |-> TRUE]
    /\ UNCHANGED <<macSession, panel, pill, relaunching, macGate, macQueue, macFrame>>

\* apply, and on to the next record or piece of work.  A media transcript waits for its own.
ApplyWrite ==
    /\ written.on
    /\ LET r == written.record
           Unsaved == IF written.saved \/ written.file THEN volatile \ {r}
                      ELSE volatile \cup {r}
       IN
        /\ pending' = IF written.saved THEN pending \ {r} ELSE pending
        /\ volatile' = Unsaved
        /\ work' = IF work[1].todo = {r} THEN Tail(work)
                   ELSE [work EXCEPT ![1].todo = @ \ {r}]
        /\ IF task.at = "saving" /\ work[1].own = task.of
           THEN BackToReady(Unsaved)
           ELSE UNCHANGED <<state, active, task, gate, pill>>
    /\ written' = NoWrite
    /\ UNCHANGED <<enqueued, history, failed, made, audio, revoked, nothing, panel, relaunching,
                   noticed, macFrame>>

\* Retry Saving.
RetrySave ==
    /\ state = "ready" /\ pending # {}
    /\ RecoverInBackground
    /\ UNCHANGED <<macSession, panel, pill, relaunching, macGate, macDisk, macFrame>>

-----------------------------------------------------------------------------
(* A session: start, cancel, stop.                                         *)

LaunchSucceeds ==
    /\ state = "loading"
    /\ ChangesTo("ready", pill, volatile)
    /\ work' = Append(work, Recovery)
    /\ UNCHANGED <<made, task, audio, revoked, nothing, panel, relaunching, noticed, pending,
                   volatile, enqueued, macDisk, macFrame>>

\* By key, menu, history window or control command.
StartDictation ==
    /\ CanStartSession /\ made < MaxRecordings
    /\ made' = made + 1 /\ active' = made + 1
    /\ Audio(made + 1, "temporary")
    /\ ChangesTo("recording", TRUE, volatile)
    /\ UNCHANGED <<task, revoked, nothing, panel, relaunching, noticed, macQueue, macDisk,
                   macFrame>>

\* Refused while an update is about to install: said once.
ShowReservationNotice ==
    /\ state = "ready" /\ Reserved /\ ~noticed
    /\ noticed' = TRUE /\ pill' = TRUE
    /\ UNCHANGED <<macSession, panel, relaunching, gate, macQueue, macDisk, macFrame>>

\* The pill comes up for a message or goes; the updater is told.
PillChanges ==
    /\ state # "recording"
    /\ pill' = ~pill
    /\ gate' = Resumed(state, pill', volatile)
    /\ UNCHANGED <<macSession, panel, relaunching, noticed, macQueue, macDisk, macFrame>>

\* Mutant: Cancel stops the task and leaves the dictation claimable.
CancelDictationClaimable ==
    /\ active # 0 /\ state \in {"recording", "transcribing"}
    /\ revoked' = revoked \cup {active}
    /\ IF state = "recording"
       THEN /\ Audio(active, "deleted")
            /\ IF speechEngine = "nemotron"
               THEN /\ ChangesTo("transcribing", TRUE, volatile) /\ active' = 0
                    /\ task' = NewTask("discard", 0, FALSE, FALSE)
               ELSE BackToReady(volatile)
       ELSE UNCHANGED <<state, active, task, audio, pill, gate>>
    /\ UNCHANGED <<made, nothing, panel, relaunching, noticed, macQueue, macDisk, macFrame>>

\* cancelDictation, discardRecording: the live engine of a recording is still to be stopped.
CancelDictation ==
    /\ active # 0 /\ state \in {"recording", "transcribing"}
    /\ active' = 0
    /\ revoked' = revoked \cup {active}
    /\ IF state = "recording"
       THEN /\ Audio(active, "deleted")
            /\ IF speechEngine = "nemotron"
               THEN /\ ChangesTo("transcribing", TRUE, volatile)
                    /\ task' = NewTask("discard", 0, FALSE, FALSE)
               ELSE BackToReady(volatile)
       ELSE UNCHANGED <<state, task, audio, pill, gate>>
    /\ UNCHANGED <<made, nothing, panel, relaunching, noticed, macQueue, macDisk, macFrame>>

\* Mutant: the app is ready while the live engine is still stopping.
DiscardEndsEarly ==
    /\ task.at = "discard"
    /\ ChangesTo("ready", FALSE, volatile) /\ UNCHANGED task
    /\ UNCHANGED <<made, audio, revoked, nothing, panel, relaunching, noticed, macQueue,
                   macDisk, macFrame>>

DiscardEnds ==
    /\ task.at = "discard"
    /\ BackToReady(volatile)
    /\ UNCHANGED <<made, audio, revoked, nothing, panel, relaunching, noticed, macQueue,
                   macDisk, macFrame>>

\* The file recorder failed and that is all there is: handleMicrophoneFailure.
StopBroken(s) == Audio(s, "kept") /\ BackToReady(volatile) /\ UNCHANGED nothing

\* By key, control command, limit, or because the microphone went away: the parakeet models
\* read the file, nemotron has heard most of it by now.
StopMacRecording ==
    /\ state = "recording"
    /\ \E broken, short, liveFails \in BOOLEAN :
        IF broken /\ (speechEngine = "parakeet" \/ liveFails)
        THEN StopBroken(active)
        ELSE IF speechEngine = "parakeet" /\ short
        THEN /\ Audio(active, "deleted") /\ BackToReady(volatile)
             /\ nothing' = nothing \cup {active}
        ELSE /\ ChangesTo("transcribing", TRUE, volatile)
             /\ task' = NewTask(IF speechEngine = "parakeet" THEN "hear"
                              ELSE IF liveFails THEN "backup" ELSE "live",
                              active, broken, short)
             /\ UNCHANGED <<active, audio, nothing>>
    /\ UNCHANGED <<made, revoked, panel, relaunching, noticed, macQueue, macDisk, macFrame>>

-----------------------------------------------------------------------------
(* The task of a dictation.                                                *)

Fails(s) == RetainFailedAudio(s) /\ BackToReady(volatile) /\ UNCHANGED nothing
IsSilent(s) ==
    /\ Audio(s, "deleted") /\ BackToReady(volatile)
    /\ nothing' = nothing \cup {s}
HasText == task' = [task EXCEPT !.at = "finish"] /\ UNCHANGED <<state, active, gate, pill, nothing>>

\* finishNemotron: what was streamed, or the file once more if that failed.
FinishLive ==
    /\ task.at = "live"
    /\ IF task.short
       THEN IF task.broken THEN Fails(task.of) ELSE Fails(task.of) \/ IsSilent(task.of)
       ELSE \/ HasText /\ Audio(task.of, "deleted")
            \/ IsSilent(task.of)
            \/ task.broken /\ Fails(task.of)
            \/ /\ ~task.broken /\ task' = [task EXCEPT !.at = "backup"]
               /\ UNCHANGED <<state, active, gate, pill, audio, nothing>>
    /\ UNCHANGED <<made, revoked, panel, relaunching, noticed, macQueue, macDisk, macFrame>>

\* transcribeRecoveryFile: not for a dictation cancelled meanwhile.
TryBackup ==
    /\ task.at = "backup"
    /\ IF active # task.of THEN Fails(task.of)
       ELSE /\ task' = [task EXCEPT !.at = "hear"]
            /\ UNCHANGED <<state, active, gate, pill, audio, nothing>>
    /\ UNCHANGED <<made, revoked, panel, relaunching, noticed, macQueue, macDisk, macFrame>>

\* transcribe: the decode of the file fails, finds nothing, or finds words.
TranscribeFile ==
    /\ task.at = "hear"
    /\ \/ Fails(task.of)
       \/ IsSilent(task.of)
       \/ HasText /\ UNCHANGED audio
    /\ UNCHANGED <<made, revoked, panel, relaunching, noticed, macQueue, macDisk, macFrame>>

\* Mutant: the last check is left out once the paste is prepared.
CompleteDictationUnclaimed ==
    /\ task.at = "finish"
    /\ Enqueue(task.of) /\ Audio(task.of, "deleted")
    /\ BackToReady(volatile \cup {task.of})
    /\ UNCHANGED <<made, revoked, nothing, panel, relaunching, noticed, macDisk, macFrame>>

\* completeDictation, after cleanup, drawings and the wait for the paste: claimDelivery, then
\* the text is pasted and enqueued, or the drawing is first and takes its time.
CompleteDictation ==
    /\ task.at = "finish"
    /\ IF active # task.of
       THEN /\ Audio(task.of, "deleted") /\ BackToReady(volatile)
            /\ UNCHANGED macQueue
       ELSE \/ /\ Enqueue(task.of) /\ Audio(task.of, "deleted")
               /\ BackToReady(volatile \cup {task.of})
            \/ /\ active' = 0 /\ task' = [task EXCEPT !.at = "draw"]
               /\ UNCHANGED <<state, gate, pill, audio, macQueue>>
    /\ UNCHANGED <<made, revoked, nothing, panel, relaunching, noticed, macDisk, macFrame>>

\* SketchPaste.deliver: the text after the image, saved whether or not they could be pasted.
DeliverSketch ==
    /\ task.at = "draw"
    /\ Enqueue(task.of)
    /\ task' = [task EXCEPT !.at = "settle"]
    /\ UNCHANGED <<state, active, made, audio, revoked, nothing, panel, pill, relaunching,
                   macGate, macDisk, macFrame>>

SettleSketch ==
    /\ task.at = "settle"
    /\ Audio(task.of, "deleted") /\ BackToReady(volatile)
    /\ UNCHANGED <<made, revoked, nothing, panel, relaunching, noticed, macQueue, macDisk,
                   macFrame>>

\* Paste Last Transcript: the only thing a reserved update does not keep away.
PasteLast ==
    /\ state = "ready" /\ enqueued # {}
    /\ ChangesTo("transcribing", TRUE, volatile)
    /\ task' = NewTask("repaste", 0, FALSE, FALSE)
    /\ UNCHANGED <<active, made, audio, revoked, nothing, panel, relaunching, noticed, macQueue,
                   macDisk, macFrame>>

PasteLastEnds ==
    /\ task.at = "repaste"
    /\ BackToReady(volatile)
    /\ UNCHANGED <<made, audio, revoked, nothing, panel, relaunching, noticed, macQueue,
                   macDisk, macFrame>>

-----------------------------------------------------------------------------
(* Media: a panel runs its own loop, in which everything else goes on.     *)

OpenPanel ==
    /\ CanStartSession /\ ~panel
    /\ panel' = TRUE
    /\ UNCHANGED <<macSession, pill, relaunching, macGate, macQueue, macDisk, macFrame>>

BeginMediaFile ==
    /\ made < MaxRecordings /\ made' = made + 1
    /\ ChangesTo("media", TRUE, volatile)
    /\ task' = NewTask("fetch", made + 1, FALSE, FALSE)
    /\ UNCHANGED <<active, audio, revoked, nothing, relaunching, noticed, macQueue, macDisk,
                   macFrame>>

\* Mutant: what the panel was opened for is not looked at again.
CloseAndBeginUnchecked ==
    /\ panel /\ panel' = FALSE
    /\ state = "ready" /\ BeginMediaFile

\* The panel's answer, if a session can still start; or a tab, a URL, a control command.
CloseAndBegin ==
    /\ panel /\ panel' = FALSE
    /\ CanStartSession /\ BeginMediaFile

ClosePanel ==
    /\ panel /\ panel' = FALSE
    /\ UNCHANGED <<macSession, pill, relaunching, macGate, macQueue, macDisk, macFrame>>

StartMedia == CanStartSession /\ BeginMediaFile /\ UNCHANGED panel

\* transcribeMedia: no words, words in a file of their own, or words for history after all.
TranscribeMedia ==
    /\ task.at = "fetch"
    /\ \/ /\ nothing' = nothing \cup {task.of}
          /\ BackToReady(volatile) /\ UNCHANGED macQueue
       \/ /\ Enqueue(task.of)
          /\ task' = [task EXCEPT !.at = "saving"]
          /\ UNCHANGED <<state, active, gate, pill, nothing>>
    /\ UNCHANGED <<made, audio, revoked, panel, relaunching, noticed, macDisk, macFrame>>

-----------------------------------------------------------------------------
(* Quit, model restart, update.                                            *)

\* prepareTermination: also what a restart and the installer come to.
QuitMac ==
    /\ state \in {"ready", "loading"}
    /\ IF volatile = {} THEN ended' = TRUE /\ UNCHANGED <<pill, macQueue>>
       ELSE RecoverInBackground /\ pill' = TRUE /\ UNCHANGED ended
    /\ UNCHANGED <<macSession, panel, relaunching, macGate, macDisk, speechEngine>>

\* Another model: a new instance of the app is asked for, and this one is to end.
BeginRelaunch ==
    /\ state = "ready" /\ ~relaunching /\ ~Reserved
    /\ volatile = {}
    /\ relaunching' = TRUE
    /\ UNCHANGED <<macSession, panel, pill, macGate, macQueue, macDisk, macFrame>>

RelaunchFails ==
    /\ relaunching /\ relaunching' = FALSE
    /\ UNCHANGED <<macSession, panel, pill, macGate, macQueue, macDisk, macFrame>>

\* Sparkle has an update: it installs now, or is handed the block for later.
WillInstall ==
    /\ gate = "none"
    /\ gate' \in IF IdleForUpdates THEN {"scheduled", "installing"} ELSE {"deferred"}
    /\ UNCHANGED <<macSession, panel, pill, relaunching, noticed, macQueue, macDisk, macFrame>>

\* The block in the main queue looks again.
RunInstallation ==
    /\ gate = "scheduled"
    /\ gate' = IF IdleForUpdates THEN "installing" ELSE "deferred"
    /\ UNCHANGED <<macSession, panel, pill, relaunching, noticed, macQueue, macDisk, macFrame>>

\* Sparkle asks before it relaunches the app; the reservation stays.
ShouldPostpone ==
    /\ gate = "installing" /\ ~IdleForUpdates
    /\ gate' = "held"
    /\ UNCHANGED <<macSession, panel, pill, relaunching, noticed, macQueue, macDisk, macFrame>>

\* didAbortWithError: the gate opens.
UpdateAborts ==
    /\ gate # "none"
    /\ gate' = "none" /\ noticed' = FALSE
    /\ UNCHANGED <<macSession, panel, pill, relaunching, macQueue, macDisk, macFrame>>

MacNext ==
    /\ ~ended
    /\ \/ LaunchSucceeds \/ StartDictation \/ ShowReservationNotice \/ PillChanges
       \/ CancelDictation \/ DiscardEnds \/ StopMacRecording
       \/ FinishLive \/ TryBackup \/ TranscribeFile \/ CompleteDictation
       \/ DeliverSketch \/ SettleSketch \/ PasteLast \/ PasteLastEnds
       \/ OpenPanel \/ CloseAndBegin \/ ClosePanel \/ StartMedia \/ TranscribeMedia
       \/ ScanFiles \/ WriteRecord \/ ApplyWrite \/ RetrySave
       \/ QuitMac \/ BeginRelaunch \/ RelaunchFails
       \/ WillInstall \/ RunInstallation \/ ShouldPostpone \/ UpdateAborts
MacSpec == MacInit /\ [][MacNext]_macVars

-----------------------------------------------------------------------------
(* Properties.                                                             *)

Over(s) == s \in 1..made /\ s # active /\ s # task.of

\* Whatever a recording ends with, its words reach the queue of writes or its audio is kept,
\* unless it was cancelled, too short or silent.
WordsKept ==
    \A s \in Recordings :
        Over(s) => s \in enqueued \cup revoked \cup nothing \/ audio[s] = "kept"

\* A cancelled dictation is never saved, and once its task is over its audio is gone, however
\* far the task had come.
NothingAfterCancel ==
    \A s \in revoked : s \notin enqueued /\ (Over(s) => audio[s] = "deleted")

\* As long as volatileIDs is empty, which is what lets Quit, a restart and an update go ahead,
\* every transcript is on disk, through failed writes, retries and the file removed too late.
QuitKeepsWords ==
    volatile = {} \/ ended => enqueued \subseteq history \cup failed

\* No recording or media transcription is under way while an update has the app reserved, though
\* panels and tasks outlive the check that let them begin.
ReservedWithoutWork ==
    Reserved => state = "ready" \/ task.at = "repaste"
=============================================================================
