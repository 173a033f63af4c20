------------------------- MODULE MicrophonePriority -------------------------
(***************************************************************************)
(* Who may have the microphone open: a recorder (audio.rs) or the input    *)
(* preview of a settings window (audio/preview.rs, linux/input_preview.rs).*)
(*                                                                         *)
(* A recorder announces itself in the counter RECORDERS and then waits, up *)
(* to half a second, until the mutex PREVIEW has been free once.  It does  *)
(* not keep the mutex.  A preview keeps it for as long as its stream is    *)
(* open, and looks at the counter after it took it.                        *)
(*                                                                         *)
(* Each settings window has a worker thread.  The window changes the       *)
(* request under a lock; the worker opens the microphone it asks for and   *)
(* publishes readings, which must never show for another request.          *)
(***************************************************************************)
EXTENDS Naturals, FiniteSets

CONSTANTS
    Recorders,      \* recordings that may be attempted at the same time
    Previews,       \* settings windows, with a worker each
    Nobody,         \* the mutex is free
    MaxSelections   \* bound: selections made in one window

ASSUME RecordersAssumption == IsFiniteSet(Recorders)
ASSUME DisjointAssumption ==
    /\ Recorders \cap Previews = {}
    /\ Nobody \notin Recorders \cup Previews
ASSUME SelectionsAssumption == MaxSelections \in Nat

VARIABLES
    recorders,  \* the static RECORDERS
    owner,      \* who holds the mutex PREVIEW
    rec,        \* where each recorder is
    at,         \* where each preview worker is
    stream,     \* its Capture: "closing" once the stream is gone and the mutex is not
    source,     \* the request whose microphone the Capture was opened for, 0 without one
    failed,     \* the worker's `failed`
    current,    \* the request it works on, 0 for None
    request,    \* State.request, 0 for None
    generation, \* State.generation
    closed,     \* State.closed
    reading     \* the request State.reading is about, 0 for None

recVars == <<recorders, rec>>
workerVars == <<at, stream, source, failed, current>>
windowVars == <<request, generation, closed, reading>>
vars == <<owner, recVars, workerVars, windowVars>>

RecSteps == {"idle", "wait", "drop", "granted", "open", "closing"}
WorkerSteps == {"look", "act", "try", "check", "current", "build", "recheck",
                "recurrent", "play", "levels", "publish", "gone",
                "switch", "yield", "fail", "back", "leave"}
Request == 0..MaxSelections

\* Every variable has the values its counterpart has in the code.
TypeOK ==
    /\ recorders \in Nat
    /\ owner \in Recorders \cup Previews \cup {Nobody}
    /\ rec \in [Recorders -> RecSteps]
    /\ at \in [Previews -> WorkerSteps]
    /\ stream \in [Previews -> {"none", "open", "closing"}]
    /\ source \in [Previews -> Request]
    /\ failed \in [Previews -> BOOLEAN]
    /\ current \in [Previews -> Request]
    /\ request \in [Previews -> Request]
    /\ generation \in [Previews -> Request]
    /\ closed \in [Previews -> BOOLEAN]
    /\ reading \in [Previews -> Request]

Init ==
    /\ recorders = 0 /\ owner = Nobody
    /\ rec = [r \in Recorders |-> "idle"]
    /\ at = [p \in Previews |-> "look"]
    /\ stream = [p \in Previews |-> "none"]
    /\ source = [p \in Previews |-> 0]
    /\ failed = [p \in Previews |-> FALSE]
    /\ current = [p \in Previews |-> 0]
    /\ request = [p \in Previews |-> 0]
    /\ generation = [p \in Previews |-> 0]
    /\ closed = [p \in Previews |-> FALSE]
    /\ reading = [p \in Previews |-> 0]

Recording == recorders # 0

-----------------------------------------------------------------------------
(* A recorder: RecordingPriority::acquire, MicrophoneRecorder.             *)

Moves(r, from, to) == rec[r] = from /\ rec' = [rec EXCEPT ![r] = to]

Announce(r) ==
    /\ Moves(r, "idle", "wait")
    /\ recorders' = recorders + 1
    /\ UNCHANGED <<owner, workerVars, windowVars>>

TryOwnership(r) ==
    /\ owner = Nobody
    /\ Moves(r, "wait", "drop")
    /\ owner' = r
    /\ UNCHANGED <<recorders, workerVars, windowVars>>

\* Mutant: the recorder leaves with the mutex.
DropOwnershipKept(r) ==
    /\ Moves(r, "drop", "granted")
    /\ UNCHANGED <<owner, recorders, workerVars, windowVars>>

DropOwnership(r) ==
    /\ Moves(r, "drop", "granted")
    /\ owner' = Nobody
    /\ UNCHANGED <<recorders, workerVars, windowVars>>

\* Mutant: the priority is dropped by hand and then by its Drop.
OpenFailsTwice(r) ==
    /\ Moves(r, "granted", "idle")
    /\ recorders' = recorders - 2
    /\ UNCHANGED <<owner, workerVars, windowVars>>

\* Half a second went by with the mutex taken.
GiveUp(r) ==
    /\ owner # Nobody
    /\ Moves(r, "wait", "idle")
    /\ recorders' = recorders - 1
    /\ UNCHANGED <<owner, workerVars, windowVars>>

\* The device is missing or refuses: the priority is dropped with the error.
OpenFails(r) ==
    /\ Moves(r, "granted", "idle")
    /\ recorders' = recorders - 1
    /\ UNCHANGED <<owner, workerVars, windowVars>>

OpenRecorder(r) ==
    /\ Moves(r, "granted", "open")
    /\ UNCHANGED <<recorders, owner, workerVars, windowVars>>

\* Finished, dropped or unable to play: the stream goes first.
CloseRecorder(r) ==
    /\ Moves(r, "open", "closing")
    /\ UNCHANGED <<recorders, owner, workerVars, windowVars>>

DropPriority(r) ==
    /\ Moves(r, "closing", "idle")
    /\ recorders' = recorders - 1
    /\ UNCHANGED <<owner, workerVars, windowVars>>

-----------------------------------------------------------------------------
(* A settings window: State::select, close, and leaving the audio tab.     *)

Select(p) ==
    /\ generation[p] < MaxSelections
    /\ generation' = [generation EXCEPT ![p] = @ + 1]
    /\ request' = [request EXCEPT ![p] = generation[p] + 1]
    /\ reading' = [reading EXCEPT ![p] = 0]
    /\ UNCHANGED <<closed, owner, recVars, workerVars>>

LeaveTab(p) ==
    /\ request' = [request EXCEPT ![p] = 0]
    /\ reading' = [reading EXCEPT ![p] = 0]
    /\ UNCHANGED <<closed, generation, owner, recVars, workerVars>>

Close(p) ==
    /\ closed' = [closed EXCEPT ![p] = TRUE]
    /\ request' = [request EXCEPT ![p] = 0]
    /\ reading' = [reading EXCEPT ![p] = 0]
    /\ UNCHANGED <<generation, owner, recVars, workerVars>>

-----------------------------------------------------------------------------
(* A preview worker: `run` of input_preview.rs, and Capture::start.        *)

Goes(p, from, to) == at[p] = from /\ at' = [at EXCEPT ![p] = to]

\* A new request drops the capture of the old one.
Look(p) ==
    /\ IF closed[p]
         THEN /\ Goes(p, "look", IF stream[p] = "none" THEN "gone" ELSE "leave")
              /\ UNCHANGED <<current, failed>>
         ELSE /\ current' = [current EXCEPT ![p] = request[p]]
              /\ IF current[p] = request[p]
                   THEN Goes(p, "look", "act") /\ UNCHANGED failed
                   ELSE /\ Goes(p, "look", IF stream[p] = "none" THEN "act" ELSE "switch")
                        /\ failed' = [failed EXCEPT ![p] = FALSE]
    /\ UNCHANGED <<stream, source, owner, recVars, windowVars>>

\* Nothing wanted, or the microphone failed: look again later.
Rest(p) ==
    /\ current[p] = 0 \/ (failed[p] /\ ~Recording)
    /\ Goes(p, "act", "look")
    /\ UNCHANGED <<stream, source, failed, current, owner, recVars, windowVars>>

\* Mutant: the worker goes on while a recorder waits.
YieldKeepsCapture(p) ==
    /\ current[p] # 0 /\ Recording
    /\ Goes(p, "act", "publish")
    /\ failed' = [failed EXCEPT ![p] = FALSE]
    /\ UNCHANGED <<stream, source, current, owner, recVars, windowVars>>

\* A recorder is about: the capture goes.
Yield(p) ==
    /\ current[p] # 0 /\ Recording
    /\ Goes(p, "act", IF stream[p] = "none" THEN "publish" ELSE "yield")
    /\ failed' = [failed EXCEPT ![p] = FALSE]
    /\ UNCHANGED <<stream, source, current, owner, recVars, windowVars>>

Proceed(p) ==
    /\ current[p] # 0 /\ ~Recording /\ ~failed[p]
    /\ Goes(p, "act", IF stream[p] = "none" THEN "try" ELSE "levels")
    /\ UNCHANGED <<stream, source, failed, current, owner, recVars, windowVars>>

\* try_lock: someone else's capture, or a recorder in passing, means not yet.
TryPreview(p) ==
    /\ IF owner = Nobody
         THEN Goes(p, "try", "check") /\ owner' = p
         ELSE Goes(p, "try", "publish") /\ UNCHANGED owner
    /\ UNCHANGED <<stream, source, failed, current, recVars, windowVars>>

\* Without a stream yet, going back only has the mutex to release.
GoBack(p) ==
    /\ at' = [at EXCEPT ![p] = "back"]
    /\ stream' = [stream EXCEPT ![p] = IF @ = "none" THEN "closing" ELSE @]

\* Mutant: the counter is not looked at once the mutex is taken.
CheckRecordingSkipped(p) ==
    /\ at[p] \in {"check", "recheck"}
    /\ Goes(p, at[p], IF at[p] = "check" THEN "current" ELSE "recurrent")
    /\ UNCHANGED <<stream, source, failed, current, owner, recVars, windowVars>>

\* `recording()`, before the stream is built and once more after it.
CheckRecording(p) ==
    /\ at[p] \in {"check", "recheck"}
    /\ IF Recording
         THEN GoBack(p)
         ELSE /\ Goes(p, at[p], IF at[p] = "check" THEN "current" ELSE "recurrent")
              /\ UNCHANGED stream
    /\ UNCHANGED <<source, failed, current, owner, recVars, windowVars>>

\* `current()`: the window still wants this request.
CheckCurrent(p) ==
    /\ at[p] \in {"current", "recurrent"}
    /\ IF closed[p] \/ request[p] # current[p]
         THEN GoBack(p)
         ELSE /\ Goes(p, at[p], IF at[p] = "current" THEN "build" ELSE "play")
              /\ UNCHANGED stream
    /\ UNCHANGED <<source, failed, current, owner, recVars, windowVars>>

BuildStream(p) ==
    /\ \/ /\ Goes(p, "build", "recheck")
          /\ stream' = [stream EXCEPT ![p] = "open"]
          /\ source' = [source EXCEPT ![p] = current[p]]
          /\ UNCHANGED failed
       \/ /\ Goes(p, "build", "fail")
          /\ stream' = [stream EXCEPT ![p] = "closing"]
          /\ failed' = [failed EXCEPT ![p] = TRUE]
          /\ UNCHANGED source
    /\ UNCHANGED <<current, owner, recVars, windowVars>>

\* play, and levels: each may fail, and the worker then lets go.
PlayOrRead(p) ==
    /\ at[p] \in {"play", "levels"}
    /\ \/ Goes(p, at[p], IF at[p] = "play" THEN "levels" ELSE "publish") /\ UNCHANGED failed
       \/ Goes(p, at[p], "fail") /\ failed' = [failed EXCEPT ![p] = TRUE]
    /\ UNCHANGED <<stream, source, current, owner, recVars, windowVars>>

AfterDrop == [switch |-> "act", yield |-> "publish", fail |-> "publish",
              back |-> "publish", leave |-> "gone"]

\* A Capture drops its stream and then its ownership, in the order of its fields.
DropCapture(p) ==
    /\ at[p] \in DOMAIN AfterDrop
    /\ IF stream[p] = "open"
         THEN /\ stream' = [stream EXCEPT ![p] = "closing"]
              /\ UNCHANGED <<at, owner, source>>
         ELSE /\ stream' = [stream EXCEPT ![p] = "none"]
              /\ source' = [source EXCEPT ![p] = 0]
              /\ owner' = Nobody
              /\ Goes(p, at[p], AfterDrop[at[p]])
    /\ UNCHANGED <<failed, current, recVars, windowVars>>

\* Mutant: a late reading is kept, whatever is asked for by now.
PublishAnything(p) ==
    /\ Goes(p, "publish", "look")
    /\ reading' = [reading EXCEPT ![p] = current[p]]
    /\ UNCHANGED <<stream, source, failed, current, owner, recVars, request, generation, closed>>

\* State::publish drops what is not about the window's request.
Publish(p) ==
    /\ Goes(p, "publish", "look")
    /\ reading' = IF ~closed[p] /\ request[p] = current[p]
                    THEN [reading EXCEPT ![p] = current[p]] ELSE reading
    /\ UNCHANGED <<stream, source, failed, current, owner, recVars, request, generation, closed>>

-----------------------------------------------------------------------------
Recorder(r) ==
    \/ Announce(r) \/ TryOwnership(r) \/ DropOwnership(r) \/ GiveUp(r)
    \/ OpenFails(r) \/ OpenRecorder(r) \/ CloseRecorder(r) \/ DropPriority(r)

Window(p) == Select(p) \/ LeaveTab(p) \/ Close(p)

Worker(p) ==
    \/ Look(p) \/ Rest(p) \/ Yield(p) \/ Proceed(p) \/ TryPreview(p)
    \/ CheckRecording(p) \/ CheckCurrent(p) \/ BuildStream(p) \/ PlayOrRead(p)
    \/ DropCapture(p) \/ Publish(p)

Next ==
    \/ \E r \in Recorders : Recorder(r)
    \/ \E p \in Previews : Window(p) \/ Worker(p)

Spec == Init /\ [][Next]_vars

\* Worker threads run, and a waiting recorder tries again every few milliseconds,
\* so it finds the mutex free at last if others only pass through it. Its time may
\* run out or not, and nobody has to press anything.
MicFairness ==
    /\ \A p \in Previews : WF_vars(Worker(p))
    /\ \A r \in Recorders : SF_vars(TryOwnership(r)) /\ WF_vars(DropOwnership(r))
                            /\ WF_vars(DropPriority(r))
FairSpec == Spec /\ MicFairness
-----------------------------------------------------------------------------
RecorderOpen == \E r \in Recorders : rec[r] = "open"
PreviewOpen == \E p \in Previews : stream[p] = "open"

\* The microphone is never open for a recording and for a preview at once, though
\* the recorder gives the mutex back before it opens its stream.
OneMicrophoneUser == ~(RecorderOpen /\ PreviewOpen)

\* A level or an error shown in a window is about the microphone selected there,
\* not about one selected before, and never comes after the window closed.
ReadingIsCurrent ==
    \A p \in Previews : reading[p] # 0 => ~closed[p] /\ reading[p] = request[p]

\* A level is measured on the microphone selected in the window, not with a stream
\* that an earlier selection left open.
LevelsAreHeard == \A p \in Previews : at[p] = "levels" => source[p] = current[p]

\* A recorder that waits for previews gets the microphone, unless its time runs out:
\* no preview keeps it, or takes it again, once the recorder announced itself.
RecorderIsServed ==
    \A r \in Recorders : rec[r] = "wait" ~> rec[r] # "wait"

Wanted(p) == request[p] # 0 /\ ~closed[p] /\ ~Recording

\* The preview resumes after a recording, in whatever way that ended: while it goes
\* on being wanted it keeps coming back to an open microphone or to an error.
PreviewResumes ==
    \A p \in Previews : []<>(Wanted(p) => stream[p] = "open" \/ failed[p])

\* The microphone goes from the preview to the recorder and back to the preview.
MicrophoneGoesRound == RecorderIsServed /\ PreviewResumes
=============================================================================
