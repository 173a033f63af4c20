# Koett in TLA+

Koett is a local dictation program: a tap of a shortcut starts the microphone, a second
tap stops it, a local model decodes the audio, and the text is pasted into the window the
user is in. There is a Rust implementation for Linux and Windows (`CrossPlatform/src`) and a
Swift one for macOS (`Sources/Koett`). This directory models both: TLC checks the models on
small instances, and TLAPS proves the safety properties that matter most for every value of
the constants.

- [The system](#the-system): its parts, the state each keeps, how they meet
- [The modules](#the-modules): what models what, and how
- [The runs](#the-runs): what TLC checks, within which bounds
- [Where code and documents disagree](#where-code-and-documents-disagree)
- [Fairness](#fairness)
- [The proofs](#the-proofs)
- [What is not modelled](#what-is-not-modelled)
- [Plan](#plan)

`PROJECT.json` is the index: every component, every run with its properties and mutants,
the source lines each definition models, and the hazards of the code at their lines.

## The system

### Inventory

| Component | State it keeps | Operations | Meets | Correct when |
| --- | --- | --- | --- | --- |
| **Engine thread** `runtime.rs`, `state.rs` | `AppStatus`, recorder, background session, one media operation, one formatter preparation, `DictationSessions` (`current`, `cancelled`) | prepare a model, start, stop, limit, cancel, decode, publish, media, switch, formatting, quit | takes `EngineCommand`s from a FIFO channel, sends `EngineUpdate`s on another; owns worker, players and formatter | every way out of a recording lets the players go on; each status change is reported; a Cancel holds wherever its dictation is; every dictation settles |
| **Linux loop** `linux.rs` | shown status, `paste_target`, `configuration_pending`, `capture_pending`, `stop_sent`, found transcripts | `command`, `poll`, deliver, retry, quit | sends commands, takes reports; shares the session numbers, `QUIT_BUSY`, `INSTALLING` and the history | what it shows catches up; its busy flags end with the work; transcripts keep their order and their window |
| **Updates** `linux/updates.rs`, `updates/watch.rs`, `packaging/linux/install.py` | versions on disk, the launcher, the state file, the download, the reservation of the app | check, reserve, install, relaunch, watch, roll back | an update thread, an installer and a watcher, three processes; reads `QUIT_BUSY` and the unsaved count | something that works can always be started; a version the user refused stays out; an update ends with an app that runs |
| **History and recovery** `history.rs`, `history/store.rs`, `history/recovery.rs` | database, recovery folder, `last-transcript.txt`, records that only memory holds, the count `PENDING` | append, persist, retry, restore | called by loop, engine and control socket under one mutex; the count is read without it | a transcript is never forgotten; the count is never too small; Last Transcript never goes back |
| **Background transcription** `transcription/*.rs` | job channel, one voice detector, cancel flag per recording | record, finish, transcribe, media, stop | fed by the collector, answers the engine; may be a recording behind it | a text holds all that was said and nothing else; every wait on the worker ends |
| **Capture** `audio.rs` | ring buffer, collector thread, overflow flag, stream error | callback, collect, finish, drop | feeds worker and engine | nothing is lost without a warning |
| **Input preview** `audio/preview.rs`, `linux/input_preview.rs` | `RECORDERS`, the mutex `PREVIEW`, a request per settings window | acquire, start, publish, select, close | the engine's recorder against each window's worker | recorder and preview never share the microphone; a window shows its own request |
| **Media players** `linux/media.rs` | claims on the players it paused, a monitor of their signals | pause, resume | called by the engine around a recording; the players and their users over D-Bus | it resumes what it paused and nothing else |
| **Models** `model.rs`, `model/manifest.rs` | model directories, `SWITCH_CANCELLED`, the engine's shutdown flag | verify, quarantine, download, promote, select, fall back, cancel | engine, self-test and `transcribe` command set models up in one place without a lock | a valid model is not lost; a shutdown cuts every setup short |
| **Paste and clipboard** `linux/clipboard_owner.rs`, `linux/output.rs` | the owner thread, its claim, what it was told of the selection | claim, check, replace, paste, restore | loop, compositor, other programs | a newer copy of the user's is left alone, and overwriting one is not reported as a success |
| **Windows application** `windows.rs`, `windows/clipboard.rs`, `windows/drawing.rs` | shown status, parked and staged transcript, drawing, last bundle, clipboard restore | tap, poll, deliver, stage, cancel, repeat, quit, end of session | the engine thread; one message loop with a timer and a modal menu | a transcript that waits is neither lost, nor typed after a Cancel, nor given another drawing |
| **macOS application** `Koett.swift`, `DictationSession.swift`, `TranscriptPersistence.swift`, `UpdateConfiguration.swift` | controller state, dictation task, audio files, the queue of writes, `volatileIDs`, the update gate | start, stop, cancel, finish, save, retry, reserve, relaunch, quit | one actor, and a thread that writes; Sparkle's callbacks | words or audio survive every way out but a Cancel; an update never meets a recording |
| **Media transcription** `media_transcription.rs` | a download directory, a cancel flag | fetch, convert, save | engine, worker, history | the directory goes with the job; a cancel ends every stage |
| **Formatting** `formatting.rs` | the cleaner process, `CANCELLED` | prepare, clean, drop | engine | a stalled cleaner costs a dictation nothing but the formatting |
| **Dictionary, corrections** `dictionary/`, `corrections/`, `replacements.rs` | word lists, observed corrections | merge, correct, learn | settings, engine, paste | merging is idempotent; a correction is applied once |
| **Settings** `settings.rs` | one file | load, update | every thread | no update is lost |
| **Shortcuts** `shortcut.rs`, `linux/native_keyboard.rs` | the held keys, a latch | press, release | loop | one tap is one command |
| **Control socket** `linux/control.rs` | one listener | one request per connection | loop, history | one request, one answer |
| **Draw and speak** `linux/sketch.rs`, `linux/sketch/` | the overlay's session with its drawings and pins; the collected images `FRAMES` with the recording they belong to | open, poll keys, draw, pin, undo, lock, capture, hand over, invalidate, close; begin, discard, push, remove, take | the window's timer runs it, the loop takes the images with a transcript, screenshots and pin readers are threads | words are pasted with the drawings made while they were spoken, and no others; the overlay goes when the recording is over |
| **Ask** `assistant/` | an answer in progress | ask, speak, cancel | engine; behind a feature that is off | |
| **Windows and overlay**, **compositor integrations**, **command line** | | | | see PROJECT.json |

A dictation goes through seven of these parts:

    tap -> loop --command--> engine --job--> worker
                               |                ^
                            recorder -- sounds -+
    paste <- loop <--report-- engine <--reply---+
      |
    history, which the update thread watches before it restarts the app

### What is hard in this code

- A Cancel names no dictation. By the time it is applied, its dictation may be recorded,
  decoded, formatted, in the channel, found by the poll, parked or staged, and another may have
  begun.
- Flags set on sending are cleared by a report. A report that is not sent leaves the app
  busy for ever; one that belongs to something earlier frees it too soon.
- The engine blocks while it decodes; commands pile up and are taken in another status.
- The worker may still be busy with a cancelled recording when the next one starts, and all
  jobs share one voice detector. Every way the audio takes may fail.
- A transcript is written in three places, each write may fail alone, also after its data
  reached the disk, and the process may end between any two.
- Recorder and preview meet at a counter and a mutex that neither reads in one step.
- Update thread, installer and watcher are processes; each may die between any two steps, and
  what it did until then is on disk.
- Models are set up by several processes in the same directories, without a lock.
- Clipboard and media players are reached by messages, and neither protocol can test and claim
  in one step: the user copies or presses Play in between.
- On Windows a transcript waits in two places, for a screen capture and between two pastes; the
  message loop goes on meanwhile. On the Mac, tasks outlive the key that started them.
- Engine, loop and window each have their own idea of the current recording. A drawing is made by
  the window's, captured later, collected under a number, and taken by the loop's.

The list with the lines is in `PROJECT.json` under `hazards`, each with the properties that
would catch it going wrong.

## The modules

| Module | Models | Lines |
| --- | --- | --- |
| `EngineThread` | the engine thread's state and handlers; no specification of its own | `runtime.rs` `run`, `DictationSessions` |
| `DictationEngine` | EXTENDS `EngineThread` with the Linux loop and the update thread's reservation | `linux.rs` `LinuxEngine`, `run_wayland`; `linux/updates.rs` |
| `WindowsDesktop` | EXTENDS `EngineThread` with the Windows message loop | `windows.rs`, `windows/clipboard.rs`, `windows/drawing.rs` |
| `TranscriptionWorker` | capture, collector, worker, and the engine's side of them | `audio.rs`, `transcription/*.rs` |
| `Dictations` | abstract: what a recording promises its user; `TranscriptionWorker` implements it | |
| `HistoryRecovery` | three threads, two stores, a restart | `history.rs`, `history/recovery.rs` |
| `MicrophonePriority` | recorders and preview windows | `audio/preview.rs`, `linux/input_preview.rs` |
| `Updates` | update thread, installer, watcher, and the disk between them | `linux/updates.rs`, `updates/watch.rs`, `install.py` |
| `ModelSetup` | models on disk, and their setup at startup and at a switch | `model.rs`, `model/manifest.rs`, `runtime.rs` |
| `ClipboardDelivery` | the clipboard's owner thread, the compositor, other programs, a paste | `linux/clipboard_owner.rs`, `linux/output.rs` |
| `MediaPlayers` | the worker and the monitor around a pause | `linux/media.rs` |
| `DrawSession` | the drawing overlay, the collected drawings, and who opens, fills and takes them | `linux/sketch.rs`, `linux/sketch/frames.rs`, `linux/window.rs`, `linux.rs` |
| `MacDictation` | controller, dictation task, queue of writes, update gate | `Sources/Koett/*.swift` |
| `MCDictationEngine` | instances for TLC | |
| `MCTranscriptionWorker`, `MCTranscriptKept`, `MCUnattended`, `MCGuarded` | several machines in one run, see below | |
| `...Proofs` | theorems and lemmas, each EXTENDS its module and TLAPS | |

`EngineThread` sees the worker as a decode that succeeds or fails, and the history as a set
of unsaved transcripts; `TranscriptionWorker` and `HistoryRecovery` are the two looked at
closely. Both applications on top of it take its actions as they are, so what is proved of the
engine's part of a step is proved for both. A definition with a comment starting "Mutant:" is a
plausible bug of another definition, used to show that a property can fail; nothing in a
next-state relation uses it.

### EngineThread and DictationEngine

`cmds` and `upds` are the two channels. A handler of the engine is one action: it takes a
command and leaves its reports in `outbox`, from which `Send` puts them in the channel one by
one, because the loop may read between two of them. `job` is what the engine blocks in
(`prepare`, `switch`, `decode`, `clean`), `exit` is the code after its loop, `dead` a closed
channel. `current` and `cancelled` are the atomics of `DictationSessions`, changed by both
threads. The loop's pass has three phases (`commands`, `poll`, `deliver`), as in
`run_wayland`; `stopping` is the join in `EngineHandle::stop`, and `gone` the end.

`UserCommand(op)` is `LinuxEngine::command`: refusals by the shown status first, then the
paste target, the flags, and the send, or a new engine when the channel is closed.
`PollStatus`, `PollFormattingBusy` and `PollTranscript` are the arms of `poll`, `Deliver` is
paste and persist, `HandleQuit` the tray's Quit and Quit Anyway. `Reserve`, `Restart` and
`Release` are the update thread.

Four variables are history and change nothing: `fate` (how far each dictation has come),
`discarded` (which ones a Cancel has marked), `stopFocus` and `hastyStops` (where a dictation
was stopped, and whether the app was up to date then).

Abstractions: notices, progress, levels and `ActiveModel` are not reported. `CancelMedia` is
covered by `MediaEnds` at any time. Players pause and resume within the handler that asks for it.
The updater's own idea of a busy user interface, its feed and its download are left out, so
`Reserve` is possible more often than in the code. The X11 loop, which delivers inline, is not
modelled apart. `MaxQueue` holds back user commands only. The engine ends on its own only in a
first preparation that fails, before it has numbered any dictation; the one that replaces it
numbers from 1.

### WindowsDesktop

`desk` is the message loop: `running`, with the tray `menu` open, `stopping` (the join of the
engine), `gone`. While the menu is open its handler holds the application, and `try_borrow`
makes the timer and the hotkeys do nothing. `Tap`, `CancelKey`, the pill's and the menu's commands
follow `toggle`, `cancel` and `menu_command`; each report of the engine is an action, where a timer
tick takes all there are, so a tick may be taken to end after any of them. `parked` is
`pending_result`, the transcript that waits for a screen capture of its drawing; `staged` is the
one between the paste of the image and that of the text, `again` when it is a repeated paste.
`clip`, `offered` and `restore` say whose the content of the clipboard is, what the staged offer
has become, and what Koett will put back. `board`, `drawable`, `capturing` and `frames` are the
drawing. `typed`, `lostCopy` and `overtook` are history.

The engine of this module runs without formatter and media (`FormattingEnabled` is FALSE); model
switches and the lab modes are left out, and so are the pill's looks. Which window has the focus
is a choice of each paste. The message box of Quit is atomic. A paste may be followed by a
failure to restore what was on the clipboard.

### TranscriptionWorker and Dictations

A sound `<<t, n>>` is the n-th chunk of recording t. `Sound` is the stream's callback,
`Collect` a turn of the collector, which keeps the sound in `samples` and forwards a copy to
`chunks[t]` while the worker has the receiving end. `pc` is the engine: it starts, stops
(`stopping` joins the collector, `finish` waits for the session, `whole` for the second try),
cancels (`dropping`), runs a media job, replaces the worker, or leaves. `worker` takes `jobs` in
order. With voice detection, sounds are put aside up to `DirectLimit`; the recording is then
long, the detector is reset and given all of them, and each further turn decodes what it
closes. Nemotron (`streaming`) decodes every sound; without a detector (`plain`) the sounds are
dropped. A short recording answers nothing, and the engine sends the whole audio.

`speech`, the content of the detector, survives from job to job, as in the code. `active`, the
flag `shutdown` sets, is always that of the latest recording, so it is no variable. Starting a
recording with a dead worker leaves nothing behind and is no step. `Panic` is the end of the
worker's thread inside a job, which the code answers with "stopped unexpectedly". Cancelling
media needs no action, since a media job may end with an error at any time. The dictionary
command and word times are left out; they do not touch what the properties speak of.

`Dictations` says the same to the user in five actions: one recording at a time; stopped, it
ends with a text, with its audio saved, or with the news that neither was possible; text and
audio are faithful; only a cancelled or an empty recording is discarded. `DictationsKept`
is the refinement, `INSTANCE Dictations WITH` each abstract variable given as what the
worker's state says of it.

### HistoryRecovery

Transcripts are numbers in the order in which they are handed over (ids are time, process and
sequence number, so they are unique and ordered). Loop and engine persist, loop and control
socket retry; all go through the mutex `STATE` (`holder`). `persist` is five actions because
the mutex is given back after its retry and the disk changes between its writes; `record` is what a
thread has in hand. A failed write may still have kept its data. `works` is which stores take a
write, `located` whether the data directories can be named. `ProcessEnds` (a crash, a kill, Quit
Anyway) keeps the disk and nothing else; `ReadLastFile` and `RestoreLast` are `initialize_last` on
the startup thread, whose read comes before it has the mutex. `promised`, `told`, `lost` and `kept`
are history: saved according to a reply, Last Transcript saved according to a reply,
in memory only when the process ended, and the newest of this process. The flag `AVAILABLE`
mirrors `last` and is left out, as is the last question of Ask.

### MicrophonePriority

`Announce`, `TryOwnership`, `DropOwnership` and `GiveUp` are `RecordingPriority::acquire` line by
line; the count rises before the mutex is tried and the mutex is given back before the stream
opens. A preview worker takes the mutex, looks at the counter, looks at its request, builds the
stream, and looks at both again; each is an action. Its stream goes before its mutex (field order
of `Capture`), the recorder's before its priority. Level values are abstracted to the request
they were measured for.

### Updates

A build is a number; some come up (`works`), the others crash, hang, or die within the five
seconds the watcher looks on. On disk: the versions, the launcher and the state file (`previous`,
`skip`, the list of versions Koett `managed`, whether the last update `failed`). `updater` walks
through a tick, the save before the install, the installer, the relaunch and the wait for the
watcher, and through the way back; `installer` copies and moves; a record in `watchers` is the
old version's process that starts the new one, looks on, kills it and goes back, or the command
line doing the same. `Manage` removes old versions; one that cannot be removed, or only in part,
stays in the list, whether or not it can still run. `Crash`, `PowerLoss`, `StartByHand` and a
failed write in `Saves` (which may have kept the old or the new file) are bounded by
`MaxIncidents`.

The update thread acts only when no watcher waits for its end (`parentGone`), and nobody starts
the app or rolls back while an orphaned installer still runs (`NoOrphan`): both are seconds in
the life of a program that looks every few hours. Left out: the feed's signatures and channel,
the text of dialogs, and the check of the archive, which either yields a download or none.

### ModelSetup

A directory is `none`, `bad`, `plain` or `stamped`; a process's job walks through `ensure_model`
(look, move aside, judge what was moved, restore it or drop it, fetch, promote). The engine's job
is embedded in startup (selected model, else backup, else the fallback) and in a switch, with
`SWITCH_CANCELLED` set by the Cancel button and by the shutdown, and cleared when a switch begins.
A file of a model is not modelled apart: a directory that lacks one or has a wrong one is `bad`.
`Mishap`s damage a model from outside, let a rename fail, or end a process.

### ClipboardDelivery

`toServer` and `toOwner` are the two directions of the Wayland connection, `selection` what the
compositor holds. `server` is the owner thread `serve`: it checks, claims, drains and confirms, and
`ownership` is its record of events. `delivery` is a call of `output`: a text, a drawing
with its words in three claims, the same again, or a plain copy; `said` is what it reports.
Reads of the clipboard's content by other programs change nothing and are left out; so is
the keyboard, apart from the moment of the paste.

### MediaPlayers

A name on the bus has an owner (which changes when the program restarts), plays or not, and has
a track. Calls travel in `inboxes`, signals in `signals`; a call whose wait was given up may be
carried out later. `claims` is the list the worker shares with the monitor. The worker looks
at the players in any order; its owner and property queries are one step. `use` marks on signals are
history, as are `stopped`, `noted` and `quiet`. A full command queue, `CanPause` and `CanPlay` are
left out. One player is enough, because each is claimed, paused and resumed by itself; two
recordings are needed for a resume that meets the next pause.

### MacDictation

A step is what runs on the main actor between two awaits. `state`, `active` and `made` are the
controller's; `task` is the task that will set the state back (hearing, live, backup, finish,
settle, discard, paste again, fetching and saving media). `work` is the chain of tasks behind
`queuedWork`: each writes its records one by one on another thread (`written`) and applies what
it came to later. `gate` is `UpdateInstallGate`, `panel`, `pill` and `relaunching` are what it asks.
Ask is off (`AssistantAvailability.isEnabled`) and left out. `SketchPaste`'s check of the pasteboard
and its write are one step in the model and two calls in the code.

### DrawSession

`talk` and `reports` are as much of the engine as the drawings meet: a dictation records, decodes,
ends in words, in silence or in nothing. It does not die on the way: the thread ends on its own
only in a preparation that fails, when no dictation is under way (`runtime.rs:224-262`). The Ready
after a decode is left out, since the window does not act on it. `LoopReads` and `TakeKeyframes`
are the loop's arms for status and transcript; on X11 it takes the drawings before it reads on, on
Wayland after, and both orders are there. `news` is the channel to the window, `shown` what the
window has made of it, `scope` the contents of `FRAMES`, behind one mutex, so that each of its
operations is one step. `overlay` is `Session`: its `marks` are the `groups`, sketches and pins, a
function from their ids (`last` is the highest given out), each in a `phase` of `Phase`; `shot`
and `failed` are screenshots that lie in `results`; `here` is an index into the surfaces that
exist.

`Tick` is `Session::tick` with everything it calls, in its order, as functions on the session:
`Invalidated`, `KeysPolled`, `Unlocked`, `ResultsRead`, `WithoutAccidents`, `HandedOver`, `Queued`,
`SessionOver`. What is removed on the way is taken out of the scope as `drop_group` does. The pointer,
the undo commands, `OpenOverlay`, `ReplaceSurfaces` and `CloseOverlay` (the arms of `update`) come
between two ticks, since all run on one thread.

`valid` and `hasty` are history: the drawings nobody has taken back or given up, and the dictations
that overlapped before the window had seen the first one end. Abstractions: all surfaces are those of
one display; a press, its hold of 120 ms and its idle time of 15 s are one answer of the keyboards;
whether drawing is on, and a frame was presented or waited for in vain, is open at every turn; every
pin reads details. The focus mode, which takes the keyboard instead of reading devices, gives the
same answers and is not modelled apart.

### Machines that share a run

`MCTranscriptKept` puts `HistoryRecovery`, `WindowsDesktop` and `DrawSession` in one run,
`MCTranscriptionWorker` `TranscriptionWorker` and `DrawSession`, `MCUnattended` `MicrophonePriority`
and `Updates`, `MCGuarded` `ClipboardDelivery`, `ModelSetup`, `MediaPlayers` and `MacDictation`. The
machines of a run share no state: the variable `part` picks one initially, and the others stay as they are. So the run checks each by itself, with the number of
states added and not multiplied. What ties them to each other is in `EngineThread`.

## The runs

| Run | Question | Bounds | Distinct states |
| --- | --- | --- | --- |
| `dictation` | Do pauses, cancels, order and paste targets hold with two dictations in the pipeline? | 2 dictations, 2 windows, 3 commands and reports under way | 594 K |
| `configuration` | Do busy flags and shown status follow the engine through switches, formatting, updates, storage failures and quitting? | 1 dictation, queue 3 | 1.95 M |
| `settling` | Does every dictation settle? | 2 dictations, media, cancels, queue 2, fairness | 306 K |
| `transcription` | Does every wait end, is `Dictations` implemented? Does the drawing overlay go? | 2 recordings of up to 2 sounds, ring of 1, long from 2, every decoder; 1 dictation, 1 drawing, 1 display change, 2 reports behind; fairness | 221 K |
| `history` | Is a transcript forgotten, the count too small, Last Transcript older? On Windows: is a waiting transcript lost, typed after a Cancel, or given another drawing? Are drawings pasted with their own words? | 2 transcripts, 3 threads, 1 restart; 2 dictations, 2 unread; 2 dictations, 1 drawing in each, 1 report behind, 1 display change; Toggle and Cancel | 1.72 M |
| `history_retries` | Does every call return, do retries empty the memory? | 1 transcript, 1 restart, fairness | 22 K |
| `unattended` | Is the microphone shared and served? Can something that works always be started, does it come back, does a refused version stay out? | 2 recorders, 1 window, 3 selections; 3 builds, 2 incidents; fairness | 128 K |
| `guarded` | Is a newer copy left alone, a valid model kept, a player resumed only if Koett paused it; are words or audio kept on the Mac? | 3 copies; 1 other process, 2 looks, 1 mishap; 1 player, 2 captures, 2 touches, 1 delay; 2 recordings, a transcript left over with one of two engines | 1.63 M |
| `cancelled_twice`, `install_race`, `cancelled_startup`, `newer_copy` | statements of documents and comments that the code does not keep | as above, smaller | a counterexample each |

Why the bounds suffice. The hazards of the pipeline need a dictation and a successor that
overtakes, hides or is mistaken for it: two dictations, and room for two reports and a command
between loop and engine. `DictationEngine` treats windows alike (two, with symmetry). In
`TranscriptionWorker` a second recording meets what the first left in the detector, one sound is
a short and two are a long recording, and a ring of one overflows at the second sound.
`HistoryRecovery` needs two transcripts for an order and one restart for a recovery from it.
`MicrophonePriority` needs two recorders for a count that is not zero when one has left; its
proofs cover any number of windows, with several windows `PreviewResumes`, a part of `MicrophoneGoesRound`, would not hold, since
another window's preview may keep the mutex. `Updates` needs a build to come from, one to go to, and
one that follows a refusal; two incidents are a crash in an update and one in its repair. Three
copies reach all three claims of a drawing. `ModelSetup` needs one process besides the app, since
the two meet in renames only, and its proofs cover any number. On the Mac, the second recording
meets what the first has left in the queue. `DrawSession` needs a second dictation that meets the first
one's late images, and one drawing in each; for the overlay to go, one drawing in any phase is enough,
since captures wait for nothing but each other. One report at a time reaches loop and window there; two do in `transcription`.
The Windows desktop runs with Toggle and Cancel: Stop differs from Toggle there only in that it never starts a
dictation, and the Linux loop runs with all three.

Every property has a mutant in `PROJECT.json`: the definition is replaced by a plausible bug
(a reset left out, a flag not cleared, a dropped guard), and TLC then finds the property
violated in the same run. No run uses a state constraint; `WindowSymmetry` is used only without
temporal properties. `CHECK_DEADLOCK FALSE` stands where the app really may stop: after Quit,
with a recorder that has nothing left to do, or when all bounded input is used up.

### What the properties say

Engine and Linux loop:

- `PausedOnlyWhileRecording`, `LatestCancelHolds`, `DeliveredInOrder`, `PastedWhereStopped`: in
  any interleaving of taps, cancels, the limit, decodes that fail, restarts of the engine and
  polls that find several transcripts.
- `QuietMeansQuittable`: with nothing running and no report under way, Quit is not refused.
  `ViewCatchesUp`: with all reports read, the loop shows the engine's status, or an error.
- `EveryDictationSettles`, for a command channel that runs empty again and again: the limit is
  looked at only when no command waits (`recv_timeout`).

Windows (a tap sent before the reports of the last were read, `overtook`, is excepted from all
but the second; see the disagreements):

- `TranscriptsHeld`: a transcript the window has taken and not delivered is parked or staged; no
  later report, tap, cancel or repeated paste pushes it out.
- `CancelledNotTyped`: no step types the text of a dictation that the latest Cancel was for.
- `DrawingWithItsWords`: image and words of the last result are of one dictation.
- `DictationOutlivesQuit`: with nothing under way between engine and window, quitting and the end
  of the session are refused while words are on their way. The menu's exception is a
  disagreement, see below.

Worker, history, microphone:

- `DictationsKept`: a text is complete and of one recording, or the audio is saved, or the user
  is told. `EveryWaitEnds`: the engine waits neither for a session, nor for the collector, nor for
  a media reply for ever, whatever the worker is in and also if it panics; for media only while the
  worker lives, since the reply is polled, and nothing notices that it will not come.
- `NothingForgotten`: a transcript is on disk, in memory for another try, or being saved, unless
  the process ended on it, and one reported saved is on disk. `CountCoversMemory`: what the
  updater reads without the mutex is never zero while memory holds a transcript.
  `LastIsNewest`, `LastSurvives`: Last Transcript is this process's newest dictation, and one
  reported saved is not replaced by an older one. The short gap between a
  transcript's appearance and the count is covered by `QUIT_BUSY` in `DictationEngine`.
- `EveryCallReturns`, `RetrySaves`: with a store that works from some point on and
  retries that recur, memory empties.
- `OneMicrophoneUser`, `ReadingIsCurrent`; `MicrophoneGoesRound`: a waiting recorder gets past the
  preview or gives up, and the preview comes back. `LevelsAreHeard` is proved and in
  no run.

Drawing:

- `DrawingsWithTheirWords`: what is taken with a transcript are drawings made in its dictation, none
  that was undone or lost, and all of them if the overlay is done. Excepted are dictations that overlap
  (`hasty`) and a dictation whose Recording the window has still to read; see the disagreements.
- `MarksOnDisplays`: what is still to be painted or captured is on a display that exists.
- `OverlayGoes`: when a recording has ended the overlay goes, and the paste that waits for it
  goes on, or a new recording begins.

Updates, models, clipboard, players, Mac:

- `WayBack`: the launcher names a version on disk, and that one works, or the state file names
  one on disk that does, or it has just been refused, or it could not be moved back. `RefusedStaysOut`:
  without accidents, the launcher never comes to name a build the user or the watcher went back
  from. `ComesBack`: an update whose watcher has taken over ends with an app that works and is up.
- `ValidModelSurvives`: a model that was valid and that nobody but Koett touched is in its place,
  or in the hands of a process that is about to put it back. `QuitCutsSetupShort`: once the shutdown
  has been sent, no setup goes on that does not know of it.
- `NewerCopyPreserved`: a copy made between two claims of a delivery is replaced only if it came
  after the compositor had answered the check before the claim, which the protocol cannot prevent.
  `OverwriteReported`: a delivery that overwrote a copy does not report success.
- `ResumesItsOwn`: Play is sent only to a player this recording's Pause left paused, and not if the
  monitor has read of a use since; and if nothing took too long and nobody used it, it plays
  again after the resume.
- `WordsKept`: when a recording is over, its words have been handed to the queue of writes or its
  audio is kept, unless it was cancelled, too short or silent. `NothingAfterCancel`: a cancelled
  dictation is never handed over, and its audio goes. `QuitKeepsWords`: with `volatileIDs` empty,
  which is what lets Quit, a restart and an update go ahead, all that was handed over is on disk.
  `ReservedWithoutWork`: no recording or transcription is under way while an update has the app.

## Where code and documents disagree

Each of the first four is a run that ends with TLC's counterexample; the quotations are in
`PROJECT.json`.

- `cancelled_twice`: `DictationSessions` remembers one cancelled number. With a cancelled
  transcript still in the channel, a Cancel of the next dictation brings the first one back:
  it is pasted and saved. `LatestCancelHolds` is what is true instead.
- `install_race`: a Status report left over from an earlier command clears the flags of a start
  that the engine has not taken yet. The app looks idle; an install, or a Quit, goes ahead
  and the recording is cut off.
- `cancelled_startup`: when the setup of the selected model is cancelled at startup,
  `SWITCH_CANCELLED` stays set, and the fallback model that follows is refused by the same flag
  (`runtime.rs:237`).
- `newer_copy`: on Windows, the text that follows a drawing's image is put on the clipboard
  whatever was copied in between (`windows.rs:2180`, `ensure_on_clipboard` with `Condition::Any`).

The others were met while modelling. They follow from the modules, or are excluded by a history
variable named here:

- A tap sent before the loop has read the Transcribing report is taken after the decode and
  starts a recording. A tap made before the Recording report is read counts as a start in the loop
  and is a stop in the engine, so the paste may go to another tap's window (`hastyStops`).
- A media source the engine refuses is answered with a notice only, and
  `configuration_pending` stays set: with nothing running, Quit is refused until another
  status is reported. The same flag stays set when the command finds the engine gone and the
  settings for a new one do not load (`linux.rs:2371-2390`): the proof of `QuitRefusedForMedia` came upon it. The
  `configuration` run leaves the refused source out.
- If the worker's thread ended during a media job, the job would stay in progress
  (`EveryWaitEnds` says so in its premise).
- After "Clipboard ownership changed; no further clipboard writes" (`clipboard_owner.rs:266`),
  `output::deliver` falls back to `wl-copy`, which writes (`Selection` `WlCopy`).
- A user's Pause that crosses Koett's own is taken for Koett's, and the player is resumed (`noted`).
- On Windows, a tap sent before the last reports are read (`overtook`) starts a second recording
  while the first transcript is parked; its delivery sets the status to Ready while the engine
  records, and drops the drawing; and a staged transcript may be overwritten by a second one.
  A Ready report while a repeated paste is staged leaves the app at Transcribing, and Quit is
  refused. Between the Starting and the Recording report `dictation_in_flight` is false. While the
  tray menu is open, `WM_QUERYENDSESSION` finds the application taken and answers yes, against
  `docs/windows-release-gates.md:50-51`.
- On the Mac, a retry that works from a stale snapshot marks a record that has been saved
  since as volatile again (`TranscriptPersistence.swift:204`); no retry takes it up, and the first
  Quit is refused. A relaunch whose termination is refused leaves `isRelaunching` set.
- Drawing: `frames.rs:1-4` says that frames of a failed or earlier recording can never be pasted with
  a later dictation. A decode that ends in an error leaves its drawings in the scope, where the next
  transcript takes them if the window has not read that dictation's Recording before. A Ready and
  the next Recording read in one pass of the window leave the old session in place, under a number
  that no longer collects (`sketch.rs:1192-1193`). Both are excepted from `DrawingsWithTheirWords`.
- Updates: after a refused Quit, `restore` may name a `previous` that has been pruned. A launcher
  that cannot be moved in `Undo` drops the way back (`stuck`). The ten seconds of a rollback's wait
  may run twice.

## Fairness

Weak fairness of a thread means that the operating system runs it. Users, panics, crashes,
failing stores and timeouts are never assumed to come.

- `DictationEngine`: WF of engine and loop. SF of `LimitReached`, `MediaEnds` and
  `FormattingPrepared`, which the engine's loop looks at on each turn: the commands that keep
  disabling them are taken one by one, and the work itself goes on in other threads.
- `TranscriptionWorker`: WF of the collector, of the engine's waits and of the worker.
- `HistoryRecovery`: WF of each thread's steps; SF where a step needs the mutex, which every
  holder gives back. `RetrySaves` has its premises in the property.
- `MicrophonePriority`: WF of workers and recorders' own steps; SF of `TryOwnership`, since
  other recorders only pass through the mutex and the recorder retries every few milliseconds.
  Giving up is unfair: it need not happen.
- `Updates`: WF of the watcher's steps, which it takes by itself with limits on every wait, and
  of a good build coming up.
- `DrawSession`: WF of loop, window and timer, and of screenshots and pin readers, which have time
  limits. The tick's fairness assumes that a frame and a page's details come or are no longer waited
  for; the user need not do anything.
- The other modules state safety only and have no fairness.

## The proofs

TLAPS checks every leaf. The assumptions are those on the constants, named in the modules
(bounds are naturals, model values are distinct, sets of threads are finite); TLC evaluates
them in the runs.

| Module | Theorem | For every |
| --- | --- | --- |
| `DictationEngineProofs` | `TypeCorrect`, `PauseCorrect`, `CancelCorrect`, `ViewCorrect`, `QuitRefusedForMedia`, `QuitCorrect`, `OrderCorrect`, `TargetCorrect` | number of dictations, windows, queued commands |
| `UnattendedProofs` | of `MicrophonePriority`: `PriorityTypes`, `OneUser`, `ReadingsCurrent`, `LevelsHeard` | number of recorders, windows, selections |
| | of `Updates`: `UpdateInvariant`, `WayBackKept`, `RefusedKeptOut` | number of builds and of accidents, whichever builds work |
| | of `MCUnattended`: `PartTypes` | the same |
| `HistoryRecoveryProofs` | `RecoveryTypes`, `NothingIsForgotten`, `CountCovers`, `NewestIsLast`, `LastOutlives` | number of transcripts and restarts |
| `GuardedProofs` | of `ModelSetup`: `SetupTypes`, `ModelsSurvive`, `ShutdownCuts` | number of processes, looks, mishaps |
| | of `MediaPlayers`: `PlayersInvariant`, `ResumesOwnOnly` | number of players, recordings, touches and delays |
| | of `MacDictation`: `WordsAreKept`, `CancelLeavesNothing`, `QuitLosesNothing`, `ReservationIsQuiet` | number of recordings and of queued work |
| | of `MCGuarded`: `PartTypes` | the same, and number of copies |
| `TranscriptionWorkerProofs` | `WorkerTypes`, `PromiseKept` | number of recordings and sounds, size of the ring buffer, limit of a short recording, decoders |
| | of `MCTranscriptionWorker`: `PartTypes` | the same, and what `DrawSession` has |
| `DrawSessionProofs` | `DrawTypes`, `OnDisplays`, `DrawingsKeepWords` | number of dictations, marks, reports under way, changes of the displays |
| `ClipboardDeliveryProofs` | `ClipTypes`, `OverwritesReported`, `NewerCopySafe` | number of copies |
| `WindowsDesktopProofs` | `DesktopTypes`, `CancelHolds`, `HeldUntilDelivered`, `DrawingStaysWithWords`, `QuitWaitsForWords` | number of dictations and of unread reports |

Each follows one pattern: an inductive invariant, `Init` establishes it, one lemma per group of
actions shows that a step keeps it, and PTL closes the induction.

- **Pauses and types.** `ShapeInv` joins the types with what ties `status`, `job` and `media`
  together: `paused` is tied to a recording only because a blocked engine is never in
  `Recording`.
- **Cancels.** `CancelInv` adds to `ShapeInv`: the latest dictation, if discarded, is the one
  remembered (`CancelRemembered`); no transcript of a later session than `current` exists in
  channel or delivery (`HandedOver`, `NoneBeforeStart`). `LatestCancelHolds` alone is not
  inductive: it says nothing about a transcript still in the channel when its Cancel comes.
- **What is shown.** `ViewInv` adds to `CancelInv` what the next report will say. The last
  status on its way is the engine's (`LastWord`), an engine at rest has said so (`AtRest`), and a
  loop that shows Ready has been told by an engine that was free (`NeverReady`). `ViewCatchesUp` is
  the case in which nothing is on its way.
- **Quit.** `QuitInv` adds to `ViewInv` that each busy flag is owed an answer: a command that
  raised it, or the work it began, or the report that will clear it, is still there
  (`CaptureOwed`, `ConfigOwed`, `BusyOwed`). The one flag nobody answers for is the disagreement about
  media sources below, so `QuitCorrect` is about commands without media, and `QuitRefusedForMedia`
  names exactly what else keeps Quit refused.
- **Order and targets.** `OrderInv` adds where each transcript is: in the channel (`InChannel`),
  being delivered (`InHands`) or settled (`FateFits`), later ones behind earlier ones. `TargetInv` adds
  that a tap that was not too early (`hastyStops`) and stopped a recording has its window stored
  until that transcript is pasted (`UnstoppedYet`, `PastedWhereStopped`).
- **Microphone.** `PriorityInv`: the count equals the number of recorders in their calls
  (`Counted`), the holder of the mutex is where it can be (`OneOwner`, `StreamPlaces`), and a
  preview with an open stream excludes a committed recorder (`NoneCommitted`): the recorder
  raised the count and then saw the mutex free, the preview took the mutex and then saw the count
  zero, and one of them came first.
- **History.** `RecoveryInv`: where a thread holds the mutex (`Mutex`) and a record (`InHand`,
  `JobFits`), the count against memory (`CountHolds`), and that records meant for Last
  Transcript arrive in order (`KeepsInOrder`, `ToldHolds`), which is what makes the restored
  text older than any dictation of this process.
- **Mac.** `MacInv` joins the shape of controller and task with three accounts: who may still
  write which record (`ClaimsHold`), where each recording's audio is (`AudioFits`), and what the disk
  and the volatile set have of what was handed over (`OnDisk`). `ReservedWithoutWork` is part of it.
  `MacTyped` adds the types. They need to know of the queue (`QueueTyped`) that each piece of work
  whose files were looked at has a record left, and that a write not yet applied is of the first
  piece: only then is there an oldest record to write and a piece to take it from.
- **Updates.** `UpdateInv`: there is one watcher at most, and from the end of its parent on the
  launcher is its alone (`WatcherAlone`); an installer runs with the way back on disk, for the
  thread that waits for it or for nobody (`InstallerGuarded`); a version to go back to has run
  the update thread, so it works (`PreviousWorks`); and outside an install the launcher of a
  working app is at a build that works (`ThreadKnows`), which is why a rollback may give the way
  back away before it moves the launcher. `RefusalInv` adds, while no accident has happened, what
  is refused and what is not: the launcher, the app, the offer, the state file that would be put
  back. `ListsTyped` is about the lists of versions, on which nothing
  else depends: `Without`, by which `Manage` prunes them, is a recursive function, and
  `WithoutTyped` shows by least counterexamples that it exists and what it gives.
- **Models.** `SetupInv`: what a process moved aside fits its place in `ensure_model` (`MovedFits`),
  and the engine's flags fit its stage (`EngineFits`); with these `ValidModelSurvives` is inductive.
- **Media players.** `PlayersInv` holds however late the bus is: the worker's stage fits its
  command (`WorkerFits`), pauses and resumes take turns (`OrdersAlternate`), a player is claimed
  once in a pause (`ClaimedOnce`) by an owner that only grows (`OwnersGrow`), and the call the
  worker waits for is the last under way (`CallUnderWay`). With these a pause that is reported
  to have worked stopped the player, or its name has changed hands since (`PausesWorked`), and a
  user's signal is never taken for the one of Koett's own pause (`OwnSignalFirst`, `UseRevokes`).
  `QuietInv` is the half about playing again: while nothing was delayed, a paused player nobody
  used is still as the claim left it (`AsLeft`), so the worker finds it so and sends Play. The one
  assumption is that no player has the name that stands for "no player".
- **Worker.** `WorkerInv` follows the audio: what was collected and what is still in the ring buffer is
  what was said (`MicFits`); what the worker has heard and what is on its way to it is what was
  collected (`ListenFits`); the decoded parts and the contents of the detector are what it heard, once
  the recording is long (`DecodeFits`); a text the engine may take is all of that (`ReplyFits`). The worker may
  be a recording behind, so `JobsFit` says that jobs wait in the order of the recordings, one the
  engine waits for at most, and a Quit behind them. `PromiseKept` is the refinement: `StepKeepsPromise`
  maps every step to a step of `Dictations` or to none.
- **Drawing.** A transcript finds the drawings of its dictation because `DrawInv` says where they are
  as long as that transcript may still come (`Awaited`): what the engine has reported is of this
  dictation and in order (`OwnReports`); until the window has read its Recording nothing is drawn
  (`NotBegun`); from then on the scope is the window's, and either the overlay is open and its marks
  are the valid drawings, of which the scope has the captured ones (`Collecting`), or it is closing
  and the scope has them all (`Collected`). That holds only if a dictation has one transcript and
  the others have overlapped (`OneTranscript`), if the end of a recording is always announced
  (`EndsAnnounced`), and if scopes are numbered as they begin (`ScopesGrow`): a capture that ends
  after its scope does is then not collected. `MarksOnDisplays` is `OnlyImages`: an overlay whose displays changed
  keeps images only, whatever it was doing when it heard of it.
- **Clipboard.** `ClipInv` follows one delivery through its checks and claims. A thread that has
  claimed the clipboard still has it, knows that it lost it, or is about to read so (`Aware`); a
  delivery that overwrote a copy has its failure or cancellation before it (`Doomed`); and each step of a
  delivery makes at most one claim, so that a fourth never comes (`Budget`, `Spent`).
- **Windows.** `WinInv`: what waits or is reported is of a dictation that is over, the latest
  Cancel is remembered, and a staged text has not been cancelled. `CancelledNotTyped` is an action
  property and follows from it step by step. `TapInv` adds the shape of the desktop
  (`WinShape`), what the status will be once all reports are read (`StatusFits`), and, until a tap
  overtakes a report, where the current dictation's words and drawing are (`WorkFits`, `FatesFit`,
  `TranscriptsFit`, `BoardFits`). A tap that overtakes nothing finds the engine recording or
  free, so all that is under way is of one dictation (`OneDictation`). `TranscriptsHeld`,
  `DrawingWithItsWords` and `DictationOutlivesQuit` each need all of it.

Only model-checked is all liveness: `EveryDictationSettles`, `EveryWaitEnds`, `EveryCallReturns`,
`RetrySaves`, `MicrophoneGoesRound`, `ComesBack`, `OverlayGoes`. Liveness under fairness is out of the
prover's reach. Every other property of a passing run is a theorem. The types of `DictationEngine`,
`HistoryRecovery` and `WindowsDesktop` are proved and in no run. What is proved of a module is
proved of its own specification; for the types the theorems are about the specifications of the
runs, `PartSpec`, whichever machine `part` names.

## What is not modelled

- Data: sample conversion, resampling, decode ranges, text rules, dictionary merging, drawing
  geometry. Each is a function of its input and has unit tests.
- Layout and pure I/O: windows, overlay, tray, settings pages, installers' dialogs, compositor
  plug-ins, benchmarks. They keep no state another component decides by.
- A poisoned mutex, and a record whose id is already stored with another text: neither can
  arise without a panic in a handler or two processes with one id.
- The `ask` feature, off by default on Linux and Windows and switched off on the Mac.
- The parts marked "planned" in `PROJECT.json`.

## Plan

Done, in this order: `EngineThread` and `DictationEngine`, `MicrophonePriority`,
`HistoryRecovery`, each with proofs; `TranscriptionWorker` with `Dictations`; `Updates`,
`ModelSetup`, `ClipboardDelivery`, `MediaPlayers`, `MacDictation`, `WindowsDesktop`, `DrawSession`;
the proofs of all of them, from the words that are kept on the Mac to the drawings that stay with
their words.

Next:

1. Formatter and media jobs (`formatting.rs`, `media_transcription.rs`), `HistoryImport`, settings
   updates, the shortcut's latch, the lookup of the window under a pin (`linux/sketch/niri_pick.rs`).
