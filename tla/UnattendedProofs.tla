-------------------------- MODULE UnattendedProofs --------------------------
(***************************************************************************)
(* Proofs about the two machines of MCUnattended, which share nothing.     *)
(*                                                                         *)
(* MicrophonePriority, for any number of recorders, settings windows and   *)
(* selections: a recording and a preview never have the microphone open at *)
(* once, and a window shows only what it asked for.                        *)
(*                                                                         *)
(* Updates, for any number of builds, whichever of them work, and any      *)
(* number of accidents: what the launcher points at is there and has a way *)
(* back, and a version that was rolled back from stays out.                *)
(***************************************************************************)
EXTENDS MCUnattended, FiniteSetTheorems, SequenceTheorems, WellFoundedInduction, TLAPS

\* The recorders that have announced themselves and not yet gone.
Busy == {r \in Recorders : rec[r] # "idle"}

Counted == recorders = Cardinality(Busy)

\* The worker has taken PREVIEW and not yet given it back.
HasMutex(p) ==
    \/ at[p] \in {"check", "current", "build", "recheck", "recurrent", "play"}
    \/ stream[p] # "none"

OneOwner ==
    /\ \A p \in Previews : HasMutex(p) => owner = p
    /\ \A r \in Recorders : rec[r] = "drop" => owner = r

\* Where a worker has a stream.
StreamPlaces ==
    \A p \in Previews :
        /\ at[p] \in DOMAIN AfterDrop => stream[p] # "none"
        /\ at[p] \in {"recheck", "recurrent", "play", "levels"} => stream[p] = "open"
        /\ stream[p] = "closing" => at[p] \in DOMAIN AfterDrop

\* The worker saw no recorder after it took the mutex, and goes by that.
Committed(p) == at[p] \in {"current", "build"} \/ stream[p] = "open"

\* Once a recorder had the mutex, no worker goes by an older look.
NoneCommitted ==
    \A r \in Recorders, p \in Previews :
        rec[r] \in {"drop", "granted", "open", "closing"} => ~Committed(p)

\* An open stream is the one of the current request, until the worker drops it.
SourceKept ==
    \A p \in Previews :
        stream[p] = "open" /\ at[p] \notin DOMAIN AfterDrop => source[p] = current[p]

\* The inductive invariant behind the theorems.
PriorityInv == TypeOK /\ Counted /\ OneOwner /\ StreamPlaces /\ NoneCommitted
               /\ SourceKept /\ ReadingIsCurrent

-----------------------------------------------------------------------------
(* The counter.                                                            *)

\* The counter follows the announced recorders when one comes, moves on or goes.
LEMMA CountFollows ==
    ASSUME TypeOK, Counted, NEW r \in Recorders, NEW to \in RecSteps,
           rec' = [rec EXCEPT ![r] = to],
           recorders' = IF rec[r] = "idle" /\ to # "idle" THEN recorders + 1
                        ELSE IF rec[r] # "idle" /\ to = "idle" THEN recorders - 1
                        ELSE recorders
    PROVE  Counted' /\ recorders' \in Nat
<1>1. IsFiniteSet(Busy)
  BY RecordersAssumption, FS_Subset DEF Busy
<1>2. Cardinality(Busy) \in Nat
  BY <1>1, FS_CardinalityType
<1>3. Busy' = IF to = "idle" THEN Busy \ {r} ELSE Busy \cup {r}
  BY DEF Busy, TypeOK
<1>4. Cardinality(Busy \ {r}) = IF r \in Busy THEN Cardinality(Busy) - 1
                                              ELSE Cardinality(Busy)
  BY <1>1, FS_RemoveElement
<1>5. Cardinality(Busy \cup {r}) = IF r \in Busy THEN Cardinality(Busy)
                                                 ELSE Cardinality(Busy) + 1
  BY <1>1, FS_AddElement
<1>6. r \in Busy <=> rec[r] # "idle"
  BY DEF Busy
<1>7. Counted'
  BY <1>2, <1>3, <1>4, <1>5, <1>6 DEF Counted
<1>8. IsFiniteSet(Busy')
  BY <1>1, <1>3, FS_AddElement, FS_RemoveElement
<1>9. QED
  BY <1>7, <1>8, FS_CardinalityType DEF Counted

\* A worker that sees the counter at zero sees that no recorder is about.
LEMMA ZeroMeansIdle ==
    ASSUME Counted, ~Recording, NEW r \in Recorders
    PROVE  rec[r] = "idle"
<1>1. IsFiniteSet(Busy)
  BY RecordersAssumption, FS_Subset DEF Busy
<1>2. Busy = {}
  BY <1>1, FS_EmptySet DEF Counted, Recording
<1>3. QED
  BY <1>2 DEF Busy

-----------------------------------------------------------------------------
(* The steps.                                                              *)

\* Nobody has the microphone when the program starts.
LEMMA InitPriority == Init => PriorityInv
<1> SUFFICES ASSUME Init PROVE PriorityInv
  OBVIOUS
<1>1. TypeOK
  BY SelectionsAssumption DEF Init, TypeOK, RecSteps, WorkerSteps, Request
<1>2. Counted
  <2>1. Busy = {}
    BY DEF Init, Busy
  <2>2. QED
    BY <2>1, FS_EmptySet DEF Init, Counted
<1>3. OneOwner /\ StreamPlaces /\ NoneCommitted /\ SourceKept /\ ReadingIsCurrent
  BY DEF Init, OneOwner, HasMutex, StreamPlaces, AfterDrop, NoneCommitted,
         SourceKept, ReadingIsCurrent
<1>4. QED
  BY <1>1, <1>2, <1>3 DEF PriorityInv

\* Every step of RecordingPriority and MicrophoneRecorder keeps the invariant: a
\* recorder passes the mutex only when no worker has it.
LEMMA RecorderPriority ==
    ASSUME PriorityInv, NEW r \in Recorders, Recorder(r)
    PROVE  PriorityInv'
<1> USE DEF PriorityInv
<1>1. PICK to \in RecSteps : rec' = [rec EXCEPT ![r] = to]
  BY DEF Recorder, Announce, TryOwnership, DropOwnership, GiveUp, OpenFails,
         OpenRecorder, CloseRecorder, DropPriority, Moves, RecSteps
<1>2. UNCHANGED <<workerVars, windowVars>>
  BY DEF Recorder, Announce, TryOwnership, DropOwnership, GiveUp, OpenFails,
         OpenRecorder, CloseRecorder, DropPriority
<1>3. rec[r] \in RecSteps /\ rec'[r] = to
  BY <1>1 DEF TypeOK
<1>4. Counted' /\ recorders' \in Nat
  <2>1. recorders' = IF rec[r] = "idle" /\ to # "idle" THEN recorders + 1
                     ELSE IF rec[r] # "idle" /\ to = "idle" THEN recorders - 1
                     ELSE recorders
    BY <1>3 DEF Recorder, Announce, TryOwnership, DropOwnership, GiveUp,
           OpenFails, OpenRecorder, CloseRecorder, DropPriority, Moves, TypeOK
  <2>2. QED
    BY <1>1, <2>1, CountFollows
<1>5. owner' \in Recorders \cup Previews \cup {Nobody}
  BY DEF TypeOK, Recorder, Announce, TryOwnership, DropOwnership, GiveUp, OpenFails,
         OpenRecorder, CloseRecorder, DropPriority
<1>6. TypeOK'
  BY <1>1, <1>2, <1>4, <1>5 DEF TypeOK, workerVars, windowVars
<1>7. OneOwner'
  <2>1. CASE TryOwnership(r)
    BY <1>1, <1>2, <2>1, DisjointAssumption
       DEF TryOwnership, Moves, TypeOK, OneOwner, HasMutex, workerVars
  <2>2. CASE DropOwnership(r)
    BY <1>1, <1>2, <2>2, DisjointAssumption
       DEF DropOwnership, Moves, TypeOK, OneOwner, HasMutex, workerVars
  <2>3. CASE UNCHANGED owner /\ rec'[r] # "drop"
    BY <1>1, <1>2, <2>3 DEF TypeOK, OneOwner, HasMutex, workerVars
  <2>4. QED
    BY <1>1, <2>1, <2>2, <2>3 DEF Recorder, Announce, GiveUp, OpenFails,
       OpenRecorder, CloseRecorder, DropPriority, Moves, TypeOK
<1>8. NoneCommitted'
  <2>1. CASE TryOwnership(r)
    <3>1. \A p \in Previews : ~HasMutex(p)
      BY <2>1, DisjointAssumption DEF TryOwnership, OneOwner
    <3>2. \A p \in Previews : ~Committed(p)
      BY <3>1 DEF HasMutex, Committed
    <3>3. QED
      BY <1>2, <3>2 DEF NoneCommitted, Committed, workerVars
  <2>2. CASE rec'[r] \in {"drop", "granted", "open", "closing"}
             => rec[r] \in {"drop", "granted", "open", "closing"}
    BY <1>1, <1>2, <2>2 DEF NoneCommitted, Committed, workerVars, TypeOK
  <2>3. QED
    BY <1>3, <2>1, <2>2 DEF Recorder, Announce, DropOwnership, GiveUp, OpenFails,
       OpenRecorder, CloseRecorder, DropPriority, Moves, TypeOK
<1>9. StreamPlaces' /\ SourceKept' /\ ReadingIsCurrent'
  BY <1>2 DEF StreamPlaces, SourceKept, ReadingIsCurrent, workerVars, windowVars
<1>10. QED
  BY <1>4, <1>6, <1>7, <1>8, <1>9

\* The window's selections keep the invariant: each forgets the last reading.
LEMMA WindowPriority ==
    ASSUME PriorityInv, NEW p \in Previews, Window(p)
    PROVE  PriorityInv'
<1> USE DEF PriorityInv
<1>1. UNCHANGED <<owner, recVars, workerVars>>
  BY DEF Window, Select, LeaveTab, Close
<1>2. TypeOK'
  <2>1. /\ 0 \in Request
        /\ \A n \in Request : n < MaxSelections => n + 1 \in Request
    BY SelectionsAssumption DEF Request
  <2>2. request' \in [Previews -> Request] /\ reading' \in [Previews -> Request]
    BY <2>1 DEF Window, Select, LeaveTab, Close, TypeOK
  <2>3. generation' \in [Previews -> Request]
    BY <2>1 DEF Window, Select, LeaveTab, Close, TypeOK
  <2>4. closed' \in [Previews -> BOOLEAN]
    BY DEF Window, Select, LeaveTab, Close, TypeOK
  <2>5. QED
    BY <1>1, <2>2, <2>3, <2>4 DEF TypeOK, recVars, workerVars
<1>3. Counted'
  BY <1>1 DEF Counted, Busy, recVars
<1>4. OneOwner' /\ StreamPlaces' /\ NoneCommitted' /\ SourceKept'
  BY <1>1 DEF OneOwner, HasMutex, StreamPlaces, NoneCommitted, Committed, SourceKept,
              recVars, workerVars
<1>5. ReadingIsCurrent'
  BY <1>1 DEF Window, Select, LeaveTab, Close, ReadingIsCurrent, TypeOK
<1>6. QED
  BY <1>2, <1>3, <1>4, <1>5

\* A worker's steps keep the fields' types.
LEMMA WorkerTyped ==
    ASSUME TypeOK, NEW p \in Previews, Worker(p)
    PROVE  TypeOK'
<1>1. UNCHANGED recVars
  BY DEF Worker, Look, Rest, Yield, Proceed, TryPreview, CheckRecording, CheckCurrent,
         BuildStream, PlayOrRead, DropCapture, Publish
<1>2. at' \in [Previews -> WorkerSteps]
  BY DEF Worker, Look, Rest, Yield, Proceed, TryPreview, CheckRecording, CheckCurrent,
         BuildStream, PlayOrRead, DropCapture, Publish, Goes, GoBack, AfterDrop,
         TypeOK, WorkerSteps
<1>3. stream' \in [Previews -> {"none", "open", "closing"}]
  BY DEF Worker, Look, Rest, Yield, Proceed, TryPreview, CheckRecording, CheckCurrent,
         BuildStream, PlayOrRead, DropCapture, Publish, GoBack, TypeOK
<1>4. source' \in [Previews -> Request]
  BY SelectionsAssumption
     DEF Worker, Look, Rest, Yield, Proceed, TryPreview, CheckRecording, CheckCurrent,
         BuildStream, PlayOrRead, DropCapture, Publish, TypeOK, Request
<1>5. current' \in [Previews -> Request] /\ failed' \in [Previews -> BOOLEAN]
  BY DEF Worker, Look, Rest, Yield, Proceed, TryPreview, CheckRecording, CheckCurrent,
         BuildStream, PlayOrRead, DropCapture, Publish, TypeOK
<1>6. owner' \in Recorders \cup Previews \cup {Nobody}
  BY DEF Worker, Look, Rest, Yield, Proceed, TryPreview, CheckRecording, CheckCurrent,
         BuildStream, PlayOrRead, DropCapture, Publish, TypeOK
<1>7. /\ request' \in [Previews -> Request] /\ generation' \in [Previews -> Request]
      /\ closed' \in [Previews -> BOOLEAN] /\ reading' \in [Previews -> Request]
  BY DEF Worker, Look, Rest, Yield, Proceed, TryPreview, CheckRecording, CheckCurrent,
         BuildStream, PlayOrRead, DropCapture, Publish, windowVars, TypeOK
<1>8. QED
  BY <1>1, <1>2, <1>3, <1>4, <1>5, <1>6, <1>7 DEF TypeOK, recVars

\* A worker's steps are its own: they leave the other workers as they are.
LEMMA WorkerLocal ==
    ASSUME TypeOK, NEW p \in Previews, Worker(p), NEW q \in Previews, q # p
    PROVE  /\ at'[q] = at[q] /\ stream'[q] = stream[q] /\ source'[q] = source[q]
           /\ current'[q] = current[q] /\ reading'[q] = reading[q]
BY DEF Worker, Look, Rest, Yield, Proceed, TryPreview, CheckRecording, CheckCurrent,
       BuildStream, PlayOrRead, DropCapture, Publish, Goes, GoBack, windowVars, TypeOK

\* What a worker's step does to its own stream.
LEMMA WorkerStream ==
    ASSUME PriorityInv, NEW p \in Previews, Worker(p)
    PROVE  /\ at'[p] \in DOMAIN AfterDrop => stream'[p] # "none"
           /\ at'[p] \in {"recheck", "recurrent", "play", "levels"} => stream'[p] = "open"
           /\ stream'[p] = "closing" => at'[p] \in DOMAIN AfterDrop
           /\ stream'[p] = "open" /\ at'[p] \notin DOMAIN AfterDrop
                => source'[p] = current'[p]
<1> USE DEF PriorityInv, StreamPlaces, SourceKept, AfterDrop, TypeOK
<1>1. CASE Look(p)
  BY <1>1 DEF Look, Goes
<1>2. CASE Rest(p) \/ Yield(p) \/ Proceed(p)
  BY <1>2 DEF Rest, Yield, Proceed, Goes
<1>3. CASE TryPreview(p)
  BY <1>3 DEF TryPreview, Goes
<1>4. CASE CheckRecording(p)
  BY <1>4 DEF CheckRecording, Goes, GoBack
<1>5. CASE CheckCurrent(p)
  BY <1>5 DEF CheckCurrent, Goes, GoBack
<1>6. CASE BuildStream(p)
  BY <1>6 DEF BuildStream, Goes
<1>7. CASE PlayOrRead(p)
  BY <1>7 DEF PlayOrRead, Goes
<1>8. CASE DropCapture(p)
  BY <1>8 DEF DropCapture, Goes
<1>9. CASE Publish(p)
  BY <1>9 DEF Publish, Goes
<1>10. QED
  BY <1>1, <1>2, <1>3, <1>4, <1>5, <1>6, <1>7, <1>8, <1>9 DEF Worker

\* A worker takes the mutex only from nobody, and gives back only its own.
LEMMA WorkerMutex ==
    ASSUME PriorityInv, NEW p \in Previews, Worker(p)
    PROVE  /\ owner' = owner \/ (owner = Nobody /\ owner' = p)
                             \/ (owner = p /\ owner' = Nobody)
           /\ HasMutex(p)' => owner' = p
<1> USE DEF PriorityInv, OneOwner, StreamPlaces, HasMutex, AfterDrop, TypeOK
<1>1. CASE Look(p)
  BY <1>1 DEF Look, Goes
<1>2. CASE Rest(p) \/ Yield(p) \/ Proceed(p)
  BY <1>2 DEF Rest, Yield, Proceed, Goes
<1>3. CASE TryPreview(p)
  BY <1>3 DEF TryPreview, Goes
<1>4. CASE CheckRecording(p)
  BY <1>4 DEF CheckRecording, Goes, GoBack
<1>5. CASE CheckCurrent(p)
  BY <1>5 DEF CheckCurrent, Goes, GoBack
<1>6. CASE BuildStream(p)
  BY <1>6 DEF BuildStream, Goes
<1>7. CASE PlayOrRead(p)
  BY <1>7 DEF PlayOrRead, Goes
<1>8. CASE DropCapture(p)
  BY <1>8 DEF DropCapture, Goes
<1>9. CASE Publish(p)
  BY <1>9 DEF Publish, Goes
<1>10. QED
  BY <1>1, <1>2, <1>3, <1>4, <1>5, <1>6, <1>7, <1>8, <1>9 DEF Worker

\* A worker that was not committed becomes so only with no recorder about.
LEMMA WorkerCommits ==
    ASSUME PriorityInv, NEW p \in Previews, Worker(p), Committed(p)'
    PROVE  Committed(p) \/ ~Recording
<1> USE DEF PriorityInv, StreamPlaces, Committed, AfterDrop, TypeOK
<1>1. CASE Look(p) \/ Rest(p) \/ Yield(p) \/ Proceed(p) \/ TryPreview(p) \/ Publish(p)
  BY <1>1 DEF Look, Rest, Yield, Proceed, TryPreview, Publish, Goes
<1>2. CASE CheckRecording(p)
  BY <1>2 DEF CheckRecording, Goes, GoBack
<1>3. CASE CheckCurrent(p)
  BY <1>3 DEF CheckCurrent, Goes, GoBack
<1>4. CASE BuildStream(p) \/ PlayOrRead(p) \/ DropCapture(p)
  BY <1>4 DEF BuildStream, PlayOrRead, DropCapture, Goes
<1>5. QED
  BY <1>1, <1>2, <1>3, <1>4 DEF Worker

\* Every step of a preview worker keeps the invariant.
LEMMA WorkerPriority ==
    ASSUME PriorityInv, NEW p \in Previews, Worker(p)
    PROVE  PriorityInv'
<1>1. TypeOK /\ TypeOK'
  BY WorkerTyped DEF PriorityInv
<1>2. UNCHANGED recVars
  BY DEF Worker, Look, Rest, Yield, Proceed, TryPreview, CheckRecording, CheckCurrent,
         BuildStream, PlayOrRead, DropCapture, Publish
<1>3. Counted'
  BY <1>2 DEF PriorityInv, Counted, Busy, recVars
<1>4. StreamPlaces'
  BY <1>1, WorkerStream, WorkerLocal DEF PriorityInv, StreamPlaces, AfterDrop
<1>5. SourceKept'
  BY <1>1, WorkerStream, WorkerLocal DEF PriorityInv, SourceKept, AfterDrop
<1>6. OneOwner'
  <2>1. ASSUME NEW q \in Previews, HasMutex(q)' PROVE owner' = q
    <3>1. CASE q = p
      BY <2>1, <3>1, WorkerMutex
    <3>2. CASE q # p
      <4>1. HasMutex(q)
        BY <1>1, <2>1, <3>2, WorkerLocal DEF HasMutex
      <4>2. owner = q
        BY <4>1 DEF PriorityInv, OneOwner
      <4>3. QED
        BY <3>2, <4>2, WorkerMutex, DisjointAssumption
    <3>3. QED
      BY <3>1, <3>2
  <2>2. ASSUME NEW r \in Recorders, rec'[r] = "drop" PROVE owner' = r
    <3>1. owner = r
      BY <1>2, <2>2 DEF PriorityInv, OneOwner, recVars
    <3>2. QED
      BY <3>1, WorkerMutex, DisjointAssumption
  <2>3. QED
    BY <2>1, <2>2 DEF OneOwner
<1>7. NoneCommitted'
  <2> SUFFICES ASSUME NEW r \in Recorders, NEW q \in Previews,
                      rec'[r] \in {"drop", "granted", "open", "closing"},
                      Committed(q)'
               PROVE  FALSE
    BY DEF NoneCommitted
  <2>1. rec[r] \in {"drop", "granted", "open", "closing"}
    BY <1>2 DEF recVars
  <2>2. ~Committed(q) /\ Recording
    BY <2>1, ZeroMeansIdle DEF PriorityInv, NoneCommitted
  <2>3. QED
    BY <1>1, <2>2, WorkerCommits, WorkerLocal DEF Committed
<1>8. ReadingIsCurrent'
  <2>1. CASE Publish(p)
    BY <1>1, <2>1 DEF Publish, PriorityInv, ReadingIsCurrent, TypeOK
  <2>2. CASE UNCHANGED windowVars
    BY <2>2 DEF PriorityInv, ReadingIsCurrent, windowVars
  <2>3. QED
    BY <2>1, <2>2 DEF Worker, Look, Rest, Yield, Proceed, TryPreview, CheckRecording,
       CheckCurrent, BuildStream, PlayOrRead, DropCapture
<1>9. QED
  BY <1>1, <1>3, <1>4, <1>5, <1>6, <1>7, <1>8 DEF PriorityInv

-----------------------------------------------------------------------------
LEMMA NextPriority == PriorityInv /\ [Next]_vars => PriorityInv'
<1>1. PriorityInv /\ UNCHANGED vars => PriorityInv'
  BY DEF PriorityInv, TypeOK, Counted, Busy, OneOwner, HasMutex, StreamPlaces,
         NoneCommitted, Committed, SourceKept, ReadingIsCurrent, vars, recVars,
         workerVars, windowVars
<1>2. PriorityInv /\ Next => PriorityInv'
  BY RecorderPriority, WindowPriority, WorkerPriority DEF Next
<1>3. QED
  BY <1>1, <1>2

\* In every reachable state the counter, the mutex, the streams and the readings
\* agree with where the recorders and the workers are.
THEOREM PriorityInvariant == Spec => []PriorityInv
  BY InitPriority, NextPriority, PTL DEF Spec

\* A recording and a preview never have the microphone open at once
\* (audio/preview.rs, RecordingPriority and Capture).
THEOREM OneUser == Spec => []OneMicrophoneUser
<1>1. PriorityInv => OneMicrophoneUser
  BY DEF PriorityInv, NoneCommitted, Committed, OneMicrophoneUser, RecorderOpen,
         PreviewOpen
<1>2. QED
  BY <1>1, PriorityInvariant, PTL

\* A window shows a level or an error only for the microphone selected in it
\* (linux/input_preview.rs, State).
THEOREM ReadingsCurrent == Spec => []ReadingIsCurrent
<1>1. PriorityInv => ReadingIsCurrent
  BY DEF PriorityInv
<1>2. QED
  BY <1>1, PriorityInvariant, PTL

\* A level is measured on the microphone selected, never on an older stream
\* (linux/input_preview.rs, `run`).
THEOREM LevelsHeard == Spec => []LevelsAreHeard
<1>1. PriorityInv => LevelsAreHeard
  BY DEF PriorityInv, SourceKept, StreamPlaces, LevelsAreHeard, AfterDrop
<1>2. QED
  BY <1>1, PriorityInvariant, PTL

\* Every variable keeps to its type.
THEOREM PriorityTypes == Spec => []TypeOK
<1>1. PriorityInv => TypeOK
  BY DEF PriorityInv
<1>2. QED
  BY <1>1, PriorityInvariant, PTL

-----------------------------------------------------------------------------
(* The update: what must hold along with WayBack.                          *)

Installing == {"install", "manage", "relaunch", "wait"}
Waiting == {"wait", "wait_back"}

\* Whoever goes back to a version goes back to one that ran the update thread.
PreviousWorks ==
    /\ file.previous \in works \cup {NoBuild}
    /\ before.previous \in works \cup {NoBuild}
    /\ \A w \in watchers : w.from \in works

\* The update thread is at work only in a build that works, and the files of the
\* build that runs stay on disk.
AppStays ==
    /\ app # NoBuild => app \in onDisk
    /\ updater # "tick" => app \in works
    /\ offer # NoBuild => app # NoBuild /\ offer > app
    /\ updater \in Installing \cup {"save"} => offer # NoBuild

\* There is one watcher at most.  Until its parent is gone the parent waits for
\* it; afterwards the launcher is its alone, and no thread is at work.
WatcherAlone ==
    /\ \A v, w \in watchers : v = w
    /\ \A w \in watchers :
          /\ IF w.parentGone THEN updater = "tick" ELSE w.at = "old" /\ updater \in Waiting
          /\ w.build = NoBuild => w.at \in {"old", "launch"}
          /\ w.build # NoBuild /\ w.at # "again" => launcher = w.build

\* An installer works for the thread that waits for it, or for nobody, and the way
\* back is on disk before it moves anything.
InstallerGuarded ==
    installer.at # "none" =>
        /\ installer.build # NoBuild /\ watchers = {}
        /\ app # NoBuild => updater = "install" /\ installer.build = offer
        /\ file.previous \in works \cap onDisk
        /\ installer.at \in {"move", "done"} => installer.build \in onDisk
        /\ installer.at = "done" => launcher = installer.build

\* From the install to the end of the wait the way back is the app that runs; in
\* every other state of a thread the launcher is at a build that works.
ThreadKnows ==
    /\ updater \in Installing => file.previous = app
    /\ updater \in Installing \ {"install"} => launcher = offer
    /\ app \in works /\ updater \notin Installing \cup {"undo"} => launcher \in works \/ stuck

\* The types, but for the lists of versions, whose pruning (SelectSeq) the provers do
\* not see through.
StateFile(f) ==
    /\ f = [previous |-> f.previous, skip |-> f.skip, managed |-> f.managed,
            failed |-> f.failed]
    /\ f.previous \in {NoBuild} \cup Build /\ f.skip \in {NoBuild} \cup Build
    /\ f.failed \in BOOLEAN

UpdateTypes ==
    /\ works \subseteq Build /\ feed \in Build /\ onDisk \subseteq Build
    /\ launcher \in Build /\ StateFile(file) /\ StateFile(before)
    /\ app \in {NoBuild} \cup Build /\ phase \in {"off", "starting", "up"}
    /\ (app = NoBuild) <=> (phase = "off")
    /\ updater \in {"tick", "save", "install", "manage", "relaunch", "wait", "undo",
                    "restore", "back", "point_back", "relaunch_back", "wait_back"}
    /\ offer \in {NoBuild} \cup Build /\ goingBack \in BOOLEAN /\ asked \in BOOLEAN
    /\ installer \in [build : {NoBuild} \cup Build, at : {"none", "copy", "move", "done"}]
    /\ watchers \subseteq Watcher /\ stuck \in BOOLEAN /\ incidents \in 0..MaxIncidents

\* The inductive invariant behind the theorems about the way back.
UpdateInv == UpdateTypes /\ WayBack /\ PreviousWorks /\ AppStays /\ WatcherAlone
             /\ InstallerGuarded /\ ThreadKnows

-----------------------------------------------------------------------------
(* The update: the way back.                                               *)

\* The first build is installed by hand and works.
LEMMA InitUpdate == UpdatesInit => UpdateInv
<1> SUFFICES ASSUME UpdatesInit PROVE UpdateInv
  OBVIOUS
<1>1. 1 \in Build /\ 0 \in 0..MaxIncidents /\ 1 # NoBuild
  BY UpdatesAssumption DEF Build, NoBuild
<1>2. 1 \in works /\ works \subseteq Build
  BY DEF UpdatesInit
<1>3. StateFile(file) /\ StateFile(before)
  BY DEF UpdatesInit, FirstFile, StateFile
<1>4. UpdateTypes
  BY <1>1, <1>2, <1>3 DEF UpdatesInit, UpdateTypes, NoInstaller
<1>5. WayBack /\ PreviousWorks
  BY <1>2 DEF UpdatesInit, FirstFile, WayBack, PreviousWorks
<1>6. AppStays /\ WatcherAlone /\ InstallerGuarded /\ ThreadKnows
  BY <1>1, <1>2 DEF UpdatesInit, AppStays, WatcherAlone, InstallerGuarded, ThreadKnows,
     NoInstaller, Installing
<1>7. QED
  BY <1>4, <1>5, <1>6 DEF UpdateInv

\* A watcher whose parent has gone is the one it was, on its own.
LEMMA OrphansLike ==
    ASSUME NEW those, those \subseteq Watcher
    PROVE  /\ Orphans(those) \subseteq Watcher
           /\ \A v \in Orphans(those) :
                 /\ v.parentGone /\ ~v.childRuns
                 /\ \E w \in those : v.at = w.at /\ v.from = w.from /\ v.build = w.build
           /\ (\A v, w \in those : v = w) => \A v, w \in Orphans(those) : v = w
<1>1. \A w \in those : LET v == [w EXCEPT !.parentGone = TRUE, !.childRuns = FALSE] IN
          /\ v \in Watcher /\ v.parentGone /\ ~v.childRuns
          /\ v.at = w.at /\ v.from = w.from /\ v.build = w.build
  BY DEF Watcher
<1>2. QED
  BY <1>1 DEF Orphans

\* Where the app ends, with its watcher left to itself, or gone too.
LEMMA EndsKeeps ==
    ASSUME UpdateInv, NEW those, those \subseteq Watcher, Ends(those),
           \A v, w \in those : v = w,
           \A v \in those :
              /\ v.from \in works
              /\ v.build = NoBuild => v.at \in {"old", "launch"}
              /\ v.build # NoBuild /\ v.at # "again" => launcher = v.build,
           installer.at # "none" => those = {},
           installer' \in {installer, NoInstaller},
           UNCHANGED <<works, feed, onDisk, launcher, stuck>>,
           file' = file \/ file' = [file EXCEPT !.failed = TRUE],
           incidents' \in 0..MaxIncidents
    PROVE  UpdateInv'
<1> USE DEF UpdateInv
<1>1. /\ app' = NoBuild /\ phase' = "off" /\ watchers' = Orphans(those) /\ updater' = "tick"
      /\ offer' = NoBuild /\ goingBack' = FALSE /\ asked' = FALSE /\ before' = before
  BY DEF Ends
<1>2. /\ watchers' \subseteq Watcher
      /\ \A v \in watchers' :
            /\ v.parentGone /\ ~v.childRuns
            /\ \E w \in those : v.at = w.at /\ v.from = w.from /\ v.build = w.build
      /\ \A v, w \in watchers' : v = w
  BY <1>1, OrphansLike
<1>3. StateFile(file') /\ file'.previous = file.previous /\ file'.skip = file.skip
  BY DEF UpdateTypes, StateFile
<1>4. installer' \in [build : {NoBuild} \cup Build, at : {"none", "copy", "move", "done"}]
  BY DEF UpdateTypes, NoInstaller
<1>5. UpdateTypes'
  BY <1>1, <1>2, <1>3, <1>4 DEF UpdateTypes
<1>6. WayBack'
  BY <1>3 DEF WayBack
<1>7. PreviousWorks'
  BY <1>1, <1>2, <1>3 DEF PreviousWorks
<1>8. works \subseteq Build /\ NoBuild \notin Build
  BY DEF UpdateTypes, NoBuild, Build
<1>9. AppStays' /\ ThreadKnows'
  BY <1>1, <1>8 DEF AppStays, ThreadKnows, Installing
<1>10. WatcherAlone'
  BY <1>1, <1>2 DEF WatcherAlone
<1>11. InstallerGuarded'
  <2>1. SUFFICES ASSUME installer'.at # "none" PROVE InstallerGuarded'
    BY DEF InstallerGuarded
  <2>2. installer' = installer /\ those = {}
    BY <2>1 DEF NoInstaller
  <2>3. watchers' = {}
    BY <1>2, <2>2
  <2>4. QED
    BY <1>1, <1>3, <2>2, <2>3 DEF InstallerGuarded
<1>12. QED
  BY <1>5, <1>6, <1>7, <1>9, <1>10, <1>11

\* In the hands of the process table: the app ends, with or without an incident.
LEMMA AppEnds ==
    ASSUME UpdateInv, DieEarly \/ Quit \/ Crash \/ PowerLoss
    PROVE  UpdateInv'
<1> USE DEF UpdateInv
<1>1. incidents' \in 0..MaxIncidents
  BY UpdatesAssumption DEF UpdateTypes, DieEarly, Quit, Crash, PowerLoss, Incident
<1>2. /\ UNCHANGED <<works, feed, onDisk, launcher, stuck, file>>
      /\ installer' \in {installer, NoInstaller}
      /\ Ends(watchers) \/ (Ends({}) /\ installer' = NoInstaller)
  BY DEF DieEarly, Quit, Crash, PowerLoss, diskVars
<1>3. /\ watchers \subseteq Watcher /\ \A v, w \in watchers : v = w
      /\ \A v \in watchers :
              /\ v.from \in works
              /\ v.build = NoBuild => v.at \in {"old", "launch"}
              /\ v.build # NoBuild /\ v.at # "again" => launcher = v.build
      /\ installer.at # "none" => watchers = {}
  BY DEF UpdateTypes, PreviousWorks, WatcherAlone, InstallerGuarded
<1>4. CASE Ends(watchers)
  BY <1>1, <1>2, <1>3, <1>4, EndsKeeps
<1>5. CASE Ends({})
  BY <1>1, <1>2, <1>5, EndsKeeps
<1>6. QED
  BY <1>2, <1>4, <1>5

\* Where the launcher is started: the state file keeps its versions.
LEMMA StartsApp ==
    ASSUME UpdateInv, Starts, app = NoBuild, launcher \in onDisk,
           UNCHANGED <<works, onDisk, launcher, stuck, threadVars, installer>>,
           installer.at = "none"
    PROVE  /\ app' \in Build /\ app' # NoBuild /\ phase' = "starting"
           /\ StateFile(file') /\ file'.previous = file.previous /\ file'.skip = file.skip
           /\ updater = "tick" /\ offer = NoBuild
           /\ WayBack' /\ AppStays' /\ ThreadKnows' /\ InstallerGuarded'
<1> USE DEF UpdateInv
<1>1. updater = "tick" /\ offer = NoBuild /\ NoBuild \notin Build
  BY DEF AppStays, UpdateTypes, NoBuild, Build
<1>2. app' = launcher /\ phase' = "starting" /\ StateFile(file')
      /\ file'.previous = file.previous /\ file'.skip = file.skip
  BY DEF Starts, UpdateTypes, StateFile
<1>3. app' \in Build /\ app' # NoBuild
  BY <1>1, <1>2 DEF UpdateTypes
<1>4. WayBack' /\ AppStays' /\ ThreadKnows' /\ InstallerGuarded'
  BY <1>1, <1>2 DEF WayBack, AppStays, ThreadKnows, InstallerGuarded, threadVars, Installing
<1>5. QED
  BY <1>1, <1>2, <1>3, <1>4

\* The user starts what the launcher points at (single_instance let it through).
LEMMA StartByHandKeeps ==
    ASSUME UpdateInv, StartByHand
    PROVE  UpdateInv'
<1> USE DEF UpdateInv
<1>1. /\ app = NoBuild /\ launcher \in onDisk /\ Starts
      /\ UNCHANGED <<works, feed, onDisk, launcher, stuck, threadVars, asked, installer,
                     watchers>>
  BY DEF StartByHand
<1>2. installer.at = "none"
  BY <1>1 DEF StartByHand, NoOrphan, AppStays, UpdateTypes, Build, NoBuild
<1>3. /\ app' \in Build /\ app' # NoBuild /\ phase' = "starting"
      /\ StateFile(file') /\ file'.previous = file.previous /\ file'.skip = file.skip
      /\ WayBack' /\ AppStays' /\ ThreadKnows' /\ InstallerGuarded'
  BY <1>1, <1>2, StartsApp
<1>4. incidents' \in 0..MaxIncidents
  BY UpdatesAssumption DEF UpdateTypes, StartByHand, Incident
<1>5. UpdateTypes'
  BY <1>1, <1>3, <1>4 DEF UpdateTypes, threadVars
<1>6. PreviousWorks' /\ WatcherAlone'
  BY <1>1, <1>3 DEF PreviousWorks, WatcherAlone, threadVars
<1>7. QED
  BY <1>3, <1>5, <1>6

\* A build that comes up, a release and a command that waits move nothing on disk.
LEMMA QuietKeeps ==
    ASSUME UpdateInv, ComeUp \/ Release \/ AskRollback
    PROVE  UpdateInv'
<1> USE DEF UpdateInv
<1>1. /\ UNCHANGED <<works, diskVars, app, threadVars, installer, watchers, incidents>>
      /\ feed' \in Build /\ asked' \in BOOLEAN
      /\ phase' = phase \/ (phase = "starting" /\ phase' = "up")
  <2>1. feed \in Build /\ asked \in BOOLEAN /\ (feed < MaxBuild => feed + 1 \in Build)
    BY UpdatesAssumption DEF UpdateTypes, Build
  <2>2. QED
    BY <2>1 DEF ComeUp, Release, AskRollback
<1>2. UpdateTypes'
  BY <1>1 DEF UpdateTypes, diskVars, threadVars
<1>3. WayBack' /\ PreviousWorks' /\ AppStays' /\ WatcherAlone' /\ InstallerGuarded'
      /\ ThreadKnows'
  BY <1>1 DEF WayBack, PreviousWorks, AppStays, WatcherAlone, InstallerGuarded,
     ThreadKnows, diskVars, threadVars
<1>4. QED
  BY <1>2, <1>3

-----------------------------------------------------------------------------
(* The update thread's steps.                                              *)

\* The thread has no watcher about but the one it waits for.
LEMMA ThreadAlone ==
    ASSUME UpdateInv, Running
    PROVE  /\ app \in works /\ app \in Build /\ app \in onDisk /\ app # NoBuild /\ phase = "up"
           /\ updater \notin Waiting => watchers = {}
           /\ \A w \in watchers : Own(w)
           /\ installer.at # "none" => updater = "install" /\ installer.build = offer
           /\ launcher \in onDisk /\ NoBuild \notin Build
<1> USE DEF UpdateInv
<1>1. app \in works /\ app \in Build /\ app # NoBuild /\ phase = "up" /\ NoBuild \notin Build
  BY DEF Running, UpdateTypes, NoBuild, Build
<1>2. app \in onDisk /\ launcher \in onDisk
  BY <1>1 DEF AppStays, WayBack
<1>3. (updater \notin Waiting => watchers = {}) /\ \A w \in watchers : Own(w)
  BY DEF Running, WatcherAlone, Own
<1>4. installer.at # "none" => updater = "install" /\ installer.build = offer
  BY <1>1 DEF InstallerGuarded
<1>5. QED
  BY <1>1, <1>2, <1>3, <1>4

\* A write of the state file that may fail keeps the file in one of two forms.
LEMMA SavesTo ==
    ASSUME UpdateInv, NEW new, NEW to, NEW otherwise, Saves(new, to, otherwise), StateFile(new)
    PROVE  /\ StateFile(file') /\ file' \in {file, new} /\ incidents' \in 0..MaxIncidents
           /\ (updater' = to /\ file' = new) \/ updater' = otherwise
BY UpdatesAssumption DEF Saves, Incident, UpdateInv, UpdateTypes

\* A download that is ready, and the app reserved for it (check, reserve): nothing has moved.
LEMMA CheckKeeps ==
    ASSUME UpdateInv, Check \/ ReserveUpdate
    PROVE  UpdateInv'
<1> USE DEF UpdateInv
<1>1. Running
  BY DEF Check, ReserveUpdate, Turns
<1>2. app \in works /\ app # NoBuild /\ app \in onDisk
  BY <1>1, ThreadAlone
<1>3. feed \in Build /\ (Offered => feed > app)
  BY DEF UpdateTypes, Offered
<1>4. /\ UNCHANGED <<works, feed, diskVars, app, phase, goingBack, before, managed, asked,
                     installer, watchers, incidents>>
      /\ updater = "tick"
      /\ \/ updater' = "tick" /\ offer = NoBuild /\ offer' = feed /\ Offered
         \/ updater' = "save" /\ offer' = offer /\ offer # NoBuild
  BY DEF Check, ReserveUpdate, Turns
<1>5. feed # NoBuild
  BY <1>3 DEF NoBuild, Build
<1>6. UpdateTypes'
  BY <1>3, <1>4 DEF UpdateTypes, diskVars
<1>7. AppStays'
  BY <1>2, <1>3, <1>4, <1>5 DEF AppStays, diskVars, Installing
<1>8. WatcherAlone'
  <2>1. watchers' = {}
    BY <1>1, <1>4, ThreadAlone DEF Waiting
  <2>2. QED
    BY <2>1 DEF WatcherAlone
<1>9. installer.at = "none"
  BY <1>1, <1>4, ThreadAlone
<1>10. WayBack' /\ PreviousWorks' /\ InstallerGuarded' /\ ThreadKnows'
  BY <1>4, <1>9 DEF WayBack, PreviousWorks, InstallerGuarded, ThreadKnows, Installing, diskVars
<1>11. QED
  BY <1>6, <1>7, <1>8, <1>10

\* The way back is written before the installer has touched anything.
LEMMA SavePreviousKeeps ==
    ASSUME UpdateInv, SavePrevious
    PROVE  UpdateInv'
<1> USE DEF UpdateInv
<1>1. /\ Running /\ updater = "save" /\ before' = file
      /\ Saves([file EXCEPT !.previous = app], "install", "undo")
      /\ installer' = IF updater' = "install" THEN [build |-> offer, at |-> "copy"]
                                              ELSE installer
      /\ UNCHANGED <<works, feed, onDisk, launcher, stuck, app, phase, offer, goingBack,
                     asked, watchers>>
  BY DEF SavePrevious
<1>2. /\ app \in works /\ app \in Build /\ app \in onDisk /\ app # NoBuild
      /\ watchers = {} /\ installer.at = "none"
  BY <1>1, ThreadAlone DEF Waiting
<1>3. StateFile([file EXCEPT !.previous = app]) /\ [file EXCEPT !.previous = app].previous = app
  BY <1>2 DEF UpdateTypes, StateFile
<1>4. /\ StateFile(file') /\ incidents' \in 0..MaxIncidents
      /\ file'.previous \in {file.previous, app}
      /\ (file' = file) \/ (file'.previous = app)
      /\ (updater' = "install" /\ file'.previous = app) \/ updater' = "undo"
  BY <1>1, <1>3, SavesTo
<1>5. offer # NoBuild
  BY <1>1 DEF AppStays
<1>6. installer' \in [build : {NoBuild} \cup Build, at : {"none", "copy", "move", "done"}]
  BY <1>1 DEF UpdateTypes
<1>7. UpdateTypes'
  BY <1>1, <1>2, <1>4, <1>6 DEF UpdateTypes
<1>8. WayBack'
  BY <1>1, <1>2, <1>4 DEF WayBack
<1>9. PreviousWorks'
  BY <1>1, <1>2, <1>4 DEF PreviousWorks
<1>10. AppStays' /\ WatcherAlone' /\ ThreadKnows'
  BY <1>1, <1>2, <1>4, <1>5 DEF AppStays, WatcherAlone, ThreadKnows, Installing
<1>11. InstallerGuarded'
  BY <1>1, <1>2, <1>4, <1>5 DEF InstallerGuarded
<1>12. QED
  BY <1>7, <1>8, <1>9, <1>10, <1>11

\* The thread that waited for the installer learns how it went.
LEMMA InstalledKeeps ==
    ASSUME UpdateInv, Installed
    PROVE  UpdateInv'
<1> USE DEF UpdateInv
<1>1. /\ Running /\ updater = "install"
      /\ updater' = IF installer.at = "done" THEN "manage" ELSE "undo"
      /\ installer' = NoInstaller
      /\ UNCHANGED <<works, feed, onDisk, launcher, file, stuck, app, phase, offer, goingBack,
                     before, managed, asked, watchers, incidents>>
  BY DEF Installed, diskVars
<1>2. app \in works /\ app # NoBuild /\ watchers = {}
      /\ (installer.at # "none" => installer.build = offer)
  BY <1>1, ThreadAlone DEF Waiting
<1>3. file.previous = app
  BY <1>1 DEF ThreadKnows, Installing
<1>4. installer.at = "done" => launcher = offer
  BY <1>2 DEF InstallerGuarded
<1>5. UpdateTypes'
  BY <1>1 DEF UpdateTypes, NoInstaller
<1>6. WayBack' /\ PreviousWorks' /\ InstallerGuarded' /\ WatcherAlone'
  BY <1>1, <1>2 DEF WayBack, PreviousWorks, InstallerGuarded, NoInstaller, WatcherAlone
<1>7. AppStays' /\ ThreadKnows'
  BY <1>1, <1>2, <1>3, <1>4 DEF AppStays, ThreadKnows, Installing
<1>8. QED
  BY <1>5, <1>6, <1>7

\* prune removes neither the new version nor the way back.
LEMMA ManageKeeps ==
    ASSUME UpdateInv, Manage
    PROVE  UpdateInv'
<1> USE DEF UpdateInv
<1>1. PICK old, list :
      /\ old \cap {app, offer} = {} /\ onDisk' = onDisk \ old
      /\ managed' = list
      /\ Running /\ updater = "manage"
      /\ Saves([file EXCEPT !.managed = list, !.previous = app], "relaunch", "undo")
      /\ UNCHANGED <<works, feed, launcher, stuck, app, phase, offer, goingBack, before,
                     asked, installer, watchers>>
  <2> DEFINE L == Added(Added(managed, app), offer)
             R == Removable(L, Kept(app, offer))
  <2>1. R \cap {app, offer} = {}
    BY DEF Removable, Kept
  <2>2. PICK lost \in SUBSET R : onDisk' = onDisk \ lost
    BY DEF Manage
  <2>3. lost \cap {app, offer} = {}
    BY <2>1
  <2>4. QED
    BY <2>2, <2>3 DEF Manage
<1>2. /\ app \in works /\ app \in Build /\ app \in onDisk /\ app # NoBuild /\ watchers = {}
      /\ installer.at = "none"
  BY <1>1, ThreadAlone DEF Waiting
<1>3. file.previous = app /\ launcher = offer /\ offer # NoBuild
  BY <1>1 DEF ThreadKnows, AppStays, Installing
<1>4. StateFile([file EXCEPT !.managed = list, !.previous = app])
      /\ [file EXCEPT !.managed = list, !.previous = app].previous = app
  <2> DEFINE listed == [file EXCEPT !.managed = list]
  <2>1. StateFile(listed)
    BY DEF UpdateTypes, StateFile
  <2>2. [file EXCEPT !.managed = list, !.previous = app] = [listed EXCEPT !.previous = app]
    OBVIOUS
  <2> HIDE DEF listed
  <2>3. StateFile([listed EXCEPT !.previous = app])
        /\ [listed EXCEPT !.previous = app].previous = app
    BY <1>2, <2>1 DEF StateFile
  <2>4. QED
    BY <2>2, <2>3
<1>5. /\ StateFile(file') /\ incidents' \in 0..MaxIncidents /\ file'.previous = app
      /\ updater' \in {"relaunch", "undo"}
  BY <1>1, <1>3, <1>4, SavesTo
<1>6. app \in onDisk' /\ launcher \in onDisk'
  BY <1>1, <1>2, <1>3 DEF WayBack
<1>7. UpdateTypes'
  BY <1>1, <1>5 DEF UpdateTypes
<1>8. WayBack' /\ PreviousWorks'
  BY <1>1, <1>2, <1>5, <1>6 DEF WayBack, PreviousWorks
<1>9. AppStays' /\ WatcherAlone' /\ InstallerGuarded' /\ ThreadKnows'
  BY <1>1, <1>2, <1>3, <1>5, <1>6 DEF AppStays, WatcherAlone, InstallerGuarded, ThreadKnows,
     Installing
<1>10. QED
  BY <1>7, <1>8, <1>9

\* A watcher that waits for its parent is one.
LEMMA NewWatcherIs ==
    ASSUME NEW build \in {NoBuild} \cup Build, app \in Build
    PROVE  LET w == NewWatcher(build)
           IN  /\ w \in Watcher /\ w.at = "old" /\ w.from = app /\ w.build = build
               /\ ~w.parentGone /\ ~w.childRuns
BY DEF NewWatcher, Watcher

\* The watcher that starts knows the version it comes from and the one to look after.
LEMMA RelaunchKeeps ==
    ASSUME UpdateInv, Relaunch
    PROVE  UpdateInv'
<1> USE DEF UpdateInv
<1>1. /\ Running /\ updater = "relaunch"
      /\ UNCHANGED <<works, feed, onDisk, launcher, file, stuck, app, phase, offer, goingBack,
                     before, managed, asked, installer>>
      /\ \/ updater' = "wait" /\ watchers' = watchers \cup {NewWatcher(offer)}
         \/ updater' = "undo" /\ watchers' = watchers
      /\ incidents' \in 0..MaxIncidents
  BY UpdatesAssumption DEF Relaunch, Turns, diskVars, Incident, UpdateTypes
<1>2. app \in works /\ app \in Build /\ app # NoBuild /\ watchers = {} /\ installer.at = "none"
  BY <1>1, ThreadAlone DEF Waiting
<1>3. file.previous = app /\ launcher = offer /\ offer # NoBuild
  BY <1>1 DEF ThreadKnows, AppStays, Installing
<1>4. /\ watchers' \subseteq Watcher /\ \A v, w \in watchers' : v = w
      /\ \A w \in watchers' : /\ w.at = "old" /\ w.from = app /\ w.build = offer
                              /\ updater' = "wait" /\ ~w.parentGone
  BY <1>1, <1>2, NewWatcherIs DEF UpdateTypes
<1>5. UpdateTypes'
  BY <1>1, <1>4 DEF UpdateTypes
<1>6. WayBack' /\ PreviousWorks' /\ InstallerGuarded'
  BY <1>1, <1>2, <1>4 DEF WayBack, PreviousWorks, InstallerGuarded
<1>7. WatcherAlone'
  BY <1>1, <1>3, <1>4 DEF WatcherAlone, Waiting
<1>8. AppStays' /\ ThreadKnows'
  BY <1>1, <1>2, <1>3 DEF AppStays, ThreadKnows, Installing
<1>9. QED
  BY <1>5, <1>6, <1>7, <1>8

\* After a refused Quit the watcher is gone.
LEMMA RefusedKeeps ==
    ASSUME UpdateInv, QuitRefused \/ BackRefused
    PROVE  UpdateInv'
<1> USE DEF UpdateInv
<1>1. /\ Running /\ watchers' = {w \in watchers : ~Own(w)}
      /\ UNCHANGED <<works, feed, onDisk, launcher, file, stuck, app, phase,
                     before, managed, asked, installer, incidents>>
      /\ \/ updater = "wait" /\ updater' = "undo" /\ offer' = offer /\ goingBack' = goingBack
         \/ updater = "wait_back" /\ updater' = "tick" /\ offer' = NoBuild /\ goingBack' = TRUE
  BY DEF QuitRefused, BackRefused, Turns, diskVars
<1>2. /\ watchers' = {} /\ app \in works /\ app # NoBuild /\ installer.at = "none"
  BY <1>1, ThreadAlone
<1>3. UpdateTypes'
  BY <1>1, <1>2 DEF UpdateTypes
<1>4. WayBack' /\ PreviousWorks' /\ InstallerGuarded' /\ WatcherAlone'
  BY <1>1, <1>2 DEF WayBack, PreviousWorks, InstallerGuarded, WatcherAlone
<1>5. AppStays' /\ ThreadKnows'
  BY <1>1, <1>2 DEF AppStays, ThreadKnows, Installing
<1>6. QED
  BY <1>3, <1>4, <1>5

\* The launcher goes back to the version that runs, or is stuck.
LEMMA UndoKeeps ==
    ASSUME UpdateInv, Undo
    PROVE  UpdateInv'
<1> USE DEF UpdateInv
<1>1. /\ Running /\ updater = "undo" /\ updater' = "restore"
      /\ UNCHANGED <<works, feed, onDisk, file, app, phase, offer, goingBack, before,
                     managed, asked, installer, watchers>>
      /\ launcher' \in {launcher, app} /\ stuck' \in BOOLEAN
      /\ (launcher' = app \/ stuck') /\ (stuck => stuck')
      /\ incidents' \in 0..MaxIncidents
  <2>1. stuck \in BOOLEAN /\ incidents \in 0..MaxIncidents
    BY DEF UpdateTypes
  <2>2. CASE launcher' = app /\ UNCHANGED <<stuck, incidents>>
    BY <2>1, <2>2 DEF Undo, Turns
  <2>3. CASE launcher' = app /\ Incident /\ stuck' = stuck
    BY <2>1, <2>3, UpdatesAssumption DEF Undo, Turns, Incident
  <2>4. CASE launcher' = launcher /\ Incident /\ stuck' = TRUE
    BY <2>1, <2>4, UpdatesAssumption DEF Undo, Turns, Incident
  <2>5. stuck' = (stuck \/ launcher' # app) /\ launcher' # app => stuck' = TRUE
    OBVIOUS
  <2>6. stuck' = (stuck \/ launcher' # app) /\ launcher' = app => stuck' = stuck
    BY <2>1
  <2>7. QED
    BY <2>2, <2>3, <2>4, <2>5, <2>6 DEF Undo, Turns
<1>2. /\ app \in works /\ app \in Build /\ app \in onDisk /\ app # NoBuild
      /\ watchers = {} /\ installer.at = "none" /\ launcher \in onDisk
  BY <1>1, ThreadAlone DEF Waiting
<1>3. UpdateTypes'
  BY <1>1, <1>2 DEF UpdateTypes
<1>4. WayBack' /\ PreviousWorks' /\ InstallerGuarded' /\ WatcherAlone'
  BY <1>1, <1>2 DEF WayBack, PreviousWorks, InstallerGuarded, WatcherAlone
<1>5. AppStays' /\ ThreadKnows'
  BY <1>1, <1>2 DEF AppStays, ThreadKnows, Installing
<1>6. QED
  BY <1>3, <1>4, <1>5

\* Putting the state file back takes no way back from a launcher that needs one.
LEMMA RestoreKeeps ==
    ASSUME UpdateInv, Restore
    PROVE  UpdateInv'
<1> USE DEF UpdateInv
<1>1. /\ Running /\ updater = "restore" /\ offer' = NoBuild
      /\ Saves([before EXCEPT !.managed = managed], "tick", "tick")
      /\ UNCHANGED <<works, feed, onDisk, launcher, stuck, app, phase, goingBack, before,
                     managed, asked, installer, watchers>>
  BY DEF Restore
<1>2. /\ app \in works /\ app # NoBuild
      /\ watchers = {} /\ installer.at = "none" /\ launcher \in onDisk
  BY <1>1, ThreadAlone DEF Waiting
<1>3. LET new == [before EXCEPT !.managed = managed]
      IN  StateFile(new) /\ new.previous = before.previous
  BY DEF UpdateTypes, StateFile
<1>4. /\ StateFile(file') /\ incidents' \in 0..MaxIncidents /\ updater' = "tick"
      /\ file'.previous \in {file.previous, before.previous}
  BY <1>1, <1>3, SavesTo
<1>5. launcher \in works \/ stuck
  BY <1>1, <1>2 DEF ThreadKnows, Installing
<1>6. UpdateTypes'
  BY <1>1, <1>4 DEF UpdateTypes
<1>7. WayBack' /\ PreviousWorks' /\ InstallerGuarded' /\ WatcherAlone'
  BY <1>1, <1>2, <1>4, <1>5 DEF WayBack, PreviousWorks, InstallerGuarded, WatcherAlone
<1>8. AppStays' /\ ThreadKnows'
  BY <1>1, <1>2, <1>4, <1>5 DEF AppStays, ThreadKnows, Installing
<1>9. QED
  BY <1>6, <1>7, <1>8

\* The command is taken and nothing is written yet.
LEMMA TakeRollbackKeeps ==
    ASSUME UpdateInv, TakeRollback
    PROVE  UpdateInv'
<1> USE DEF UpdateInv
<1>1. /\ Running /\ updater = "tick" /\ updater' \in {"tick", "back"} /\ asked' = FALSE
      /\ UNCHANGED <<works, feed, onDisk, launcher, file, stuck, app, phase, offer, goingBack,
                     before, managed, installer, watchers, incidents>>
  BY DEF TakeRollback, diskVars
<1>2. app \in works /\ watchers = {} /\ installer.at = "none"
  BY <1>1, ThreadAlone DEF Waiting
<1>3. UpdateTypes'
  BY <1>1 DEF UpdateTypes
<1>4. WayBack' /\ PreviousWorks' /\ InstallerGuarded' /\ WatcherAlone'
  BY <1>1, <1>2 DEF WayBack, PreviousWorks, InstallerGuarded, WatcherAlone
<1>5. AppStays' /\ ThreadKnows'
  BY <1>1, <1>2 DEF AppStays, ThreadKnows, Installing
<1>6. QED
  BY <1>3, <1>4, <1>5

\* Refuse leaves a state file without a way back.
LEMMA RefuseIs ==
    ASSUME NEW f, StateFile(f), NEW build \in {NoBuild} \cup Build
    PROVE  /\ StateFile(Refuse(f, build))
           /\ Refuse(f, build).previous = NoBuild /\ Refuse(f, build).skip = build
<1> DEFINE skipped == [f EXCEPT !.skip = build]
<1>1. StateFile(skipped) /\ skipped.skip = build
  BY DEF StateFile
<1>2. Refuse(f, build) = [skipped EXCEPT !.previous = NoBuild]
  BY DEF Refuse
<1> HIDE DEF skipped
<1>3. QED
  BY <1>1, <1>2 DEF StateFile

\* go_back gives the way back away while the launcher is still where it was: at a
\* build that works.
LEMMA SaveBackKeeps ==
    ASSUME UpdateInv, SaveBack
    PROVE  UpdateInv'
<1> USE DEF UpdateInv
<1>1. /\ Running /\ updater = "back" /\ before' = file
      /\ Saves(Refuse(file, app), "point_back", "tick")
      /\ UNCHANGED <<works, feed, onDisk, launcher, stuck, app, phase, offer, goingBack,
                     managed, asked, installer, watchers>>
  BY DEF SaveBack
<1>2. /\ app \in works /\ app \in Build /\ app # NoBuild
      /\ watchers = {} /\ installer.at = "none" /\ launcher \in onDisk
  BY <1>1, ThreadAlone DEF Waiting
<1>3. StateFile(Refuse(file, app)) /\ Refuse(file, app).previous = NoBuild
  BY <1>2, RefuseIs DEF UpdateTypes
<1>4. /\ StateFile(file') /\ incidents' \in 0..MaxIncidents
      /\ updater' \in {"point_back", "tick"}
      /\ file'.previous \in {file.previous, NoBuild}
  BY <1>1, <1>3, SavesTo
<1>5. launcher \in works \/ stuck
  BY <1>1, <1>2 DEF ThreadKnows, Installing
<1>6. UpdateTypes'
  BY <1>1, <1>4 DEF UpdateTypes
<1>7. PreviousWorks'
  BY <1>1, <1>2, <1>4 DEF PreviousWorks
<1>8. WayBack' /\ InstallerGuarded' /\ WatcherAlone'
  BY <1>1, <1>2, <1>5 DEF WayBack, InstallerGuarded, WatcherAlone
<1>9. AppStays' /\ ThreadKnows'
  BY <1>1, <1>2, <1>4, <1>5 DEF AppStays, ThreadKnows, Installing
<1>10. QED
  BY <1>6, <1>7, <1>8, <1>9

\* The launcher goes back to a build that works.
LEMMA PointBackKeeps ==
    ASSUME UpdateInv, PointBack
    PROVE  UpdateInv'
<1> USE DEF UpdateInv
<1>1. incidents' \in 0..MaxIncidents
  BY UpdatesAssumption DEF PointBack, Incident, UpdateTypes
<1>2. /\ Running /\ updater = "point_back"
      /\ updater' \in {"relaunch_back", "tick"} /\ file' \in {file, before}
      /\ launcher' \in {launcher} \cup ({before.previous} \cap onDisk)
      /\ UNCHANGED <<works, feed, onDisk, stuck, app, phase, offer, goingBack, before,
                     managed, asked, installer, watchers>>
  BY DEF PointBack
<1>3. /\ app \in works /\ app # NoBuild
      /\ watchers = {} /\ installer.at = "none" /\ launcher \in onDisk /\ NoBuild \notin Build
  BY <1>2, ThreadAlone DEF Waiting
<1>4. before.previous \in onDisk => before.previous \in works /\ before.previous \in Build
  BY <1>3 DEF PreviousWorks, UpdateTypes
<1>5. launcher \in works \/ stuck
  BY <1>2, <1>3 DEF ThreadKnows, Installing
<1>6. launcher' \in onDisk /\ launcher' \in Build /\ (launcher' \in works \/ stuck)
  BY <1>2, <1>3, <1>4, <1>5 DEF UpdateTypes
<1>7. UpdateTypes'
  BY <1>1, <1>2, <1>6 DEF UpdateTypes
<1>8. PreviousWorks'
  BY <1>2 DEF PreviousWorks
<1>9. WayBack' /\ InstallerGuarded' /\ WatcherAlone'
  BY <1>2, <1>3, <1>6 DEF WayBack, InstallerGuarded, WatcherAlone
<1>10. AppStays' /\ ThreadKnows'
  BY <1>2, <1>3, <1>6 DEF AppStays, ThreadKnows, Installing
<1>11. QED
  BY <1>7, <1>8, <1>9, <1>10

\* After a rollback the watcher has only the start to see to.
LEMMA RelaunchBackKeeps ==
    ASSUME UpdateInv, RelaunchBack
    PROVE  UpdateInv'
<1> USE DEF UpdateInv
<1>1. /\ Running /\ updater = "relaunch_back"
      /\ UNCHANGED <<works, feed, onDisk, launcher, file, stuck, app, phase, offer, goingBack,
                     before, managed, asked, installer>>
      /\ \/ updater' = "wait_back" /\ watchers' = watchers \cup {NewWatcher(NoBuild)}
         \/ updater' = "tick" /\ watchers' = watchers
      /\ incidents' \in 0..MaxIncidents
  BY UpdatesAssumption DEF RelaunchBack, Turns, diskVars, Incident, UpdateTypes
<1>2. app \in works /\ app \in Build /\ app # NoBuild /\ watchers = {} /\ installer.at = "none"
  BY <1>1, ThreadAlone DEF Waiting
<1>3. /\ watchers' \subseteq Watcher /\ \A v, w \in watchers' : v = w
      /\ \A w \in watchers' : /\ w.at = "old" /\ w.from = app /\ w.build = NoBuild
                              /\ updater' = "wait_back" /\ ~w.parentGone
  BY <1>1, <1>2, NewWatcherIs DEF UpdateTypes
<1>4. UpdateTypes'
  BY <1>1, <1>3 DEF UpdateTypes
<1>5. WayBack' /\ PreviousWorks' /\ InstallerGuarded'
  BY <1>1, <1>2, <1>3 DEF WayBack, PreviousWorks, InstallerGuarded
<1>6. WatcherAlone'
  BY <1>1, <1>3 DEF WatcherAlone, Waiting
<1>7. AppStays' /\ ThreadKnows'
  BY <1>1, <1>2 DEF AppStays, ThreadKnows, Installing
<1>8. QED
  BY <1>4, <1>5, <1>6, <1>7

-----------------------------------------------------------------------------
(* The installer's steps, and a rollback without an app.                   *)

\* The installer moves the launcher only with the way back on disk, and to a version
\* that is complete.
LEMMA InstallerKeeps ==
    ASSUME UpdateInv, InstallerSteps \/ InstallerFails
    PROVE  UpdateInv'
<1> USE DEF UpdateInv
<1>1. /\ UNCHANGED <<works, feed, file, stuck, app, phase, updater, offer, goingBack, before,
                     managed, asked, watchers>>
      /\ incidents' \in 0..MaxIncidents
      /\ installer.at # "none" /\ installer.build # NoBuild /\ installer.build \in Build
  BY UpdatesAssumption DEF InstallerSteps, InstallerCopies, InstallerMoves, InstallerLeaves,
     InstallerFails, Incident, threadVars, diskVars, InstallerGuarded, UpdateTypes
<1>2. \/ /\ installer.at = "copy" /\ installer' = [installer EXCEPT !.at = "move"]
         /\ onDisk' = onDisk \cup {installer.build} /\ launcher' = launcher
      \/ /\ installer.at = "move" /\ installer' = [installer EXCEPT !.at = "done"]
         /\ launcher' = installer.build /\ onDisk' = onDisk
      \/ installer' = NoInstaller /\ UNCHANGED <<launcher, onDisk>>
  BY DEF InstallerSteps, InstallerCopies, InstallerMoves, InstallerLeaves, InstallerFails,
     diskVars
<1>3. watchers = {} /\ file.previous \in works \cap onDisk
      /\ (app # NoBuild => updater = "install" /\ installer.build = offer)
  BY <1>1 DEF InstallerGuarded
<1>4. /\ installer'.at # "none" => installer'.build = installer.build
      /\ installer' \in [build : {NoBuild} \cup Build, at : {"none", "copy", "move", "done"}]
  BY <1>2 DEF UpdateTypes, NoInstaller
<1>5. /\ onDisk \subseteq onDisk' /\ onDisk' \subseteq Build
      /\ launcher' \in onDisk' /\ launcher' \in Build
  BY <1>1, <1>2 DEF UpdateTypes, WayBack, InstallerGuarded
<1>6. UpdateTypes'
  BY <1>1, <1>4, <1>5 DEF UpdateTypes
<1>7. WayBack'
  BY <1>1, <1>3, <1>5 DEF WayBack
<1>8. app \in works => app # NoBuild
  BY DEF UpdateTypes, Build, NoBuild
<1>9. PreviousWorks' /\ AppStays' /\ WatcherAlone' /\ ThreadKnows'
  BY <1>1, <1>3, <1>5, <1>8 DEF PreviousWorks, AppStays, WatcherAlone, ThreadKnows, Installing
<1>10. InstallerGuarded'
  BY <1>1, <1>2, <1>3, <1>4, <1>5 DEF InstallerGuarded, NoInstaller, UpdateTypes
<1>11. QED
  BY <1>6, <1>7, <1>9, <1>10

\* The command line goes back to the version in the state file, from the one the
\* launcher is at.
LEMMA OfflineKeeps ==
    ASSUME UpdateInv, RollbackOffline
    PROVE  UpdateInv'
<1> USE DEF UpdateInv
<1>1. /\ app = NoBuild /\ NoOrphan /\ file.previous # NoBuild /\ file.previous # launcher
      /\ watchers' = {[at |-> "skip", from |-> file.previous, build |-> launcher,
                       parentGone |-> TRUE, childRuns |-> FALSE]}
      /\ UNCHANGED <<works, feed, onDisk, launcher, file, stuck, app, phase, updater, offer,
                     goingBack, before, managed, asked, installer, incidents>>
  BY DEF RollbackOffline, RollbackTarget, diskVars, threadVars
<1>2. updater = "tick" /\ NoBuild \notin Build
  BY <1>1 DEF AppStays, UpdateTypes, NoBuild, Build
<1>3. installer.at = "none"
  BY <1>1, <1>2 DEF NoOrphan
<1>4. file.previous \in works /\ file.previous \in Build /\ launcher \in Build
  BY <1>1 DEF PreviousWorks, UpdateTypes, StateFile
<1>5. /\ watchers' \subseteq Watcher /\ \A v, w \in watchers' : v = w
      /\ \A w \in watchers' : /\ w.at = "skip" /\ w.from \in works /\ w.build = launcher
                              /\ w.parentGone
  BY <1>1, <1>4 DEF Watcher
<1>6. UpdateTypes'
  BY <1>1, <1>5 DEF UpdateTypes
<1>7. WayBack' /\ PreviousWorks' /\ InstallerGuarded'
  BY <1>1, <1>3, <1>5 DEF WayBack, PreviousWorks, InstallerGuarded
<1>8. WatcherAlone'
  BY <1>1, <1>2, <1>4, <1>5 DEF WatcherAlone
<1>9. AppStays' /\ ThreadKnows'
  BY <1>1, <1>2 DEF AppStays, ThreadKnows, Installing
<1>10. QED
  BY <1>6, <1>7, <1>8, <1>9

-----------------------------------------------------------------------------
(* The watcher's steps.                                                    *)

\* A watcher that moves on stays what it is, and stays alone.
LEMMA ShiftsAlone ==
    ASSUME UpdateInv, NEW w \in watchers
    PROVE  /\ watchers \ {w} = {}
           /\ \A v \in Watcher : (watchers \ {w}) \cup {v} = {v}
BY DEF UpdateInv, WatcherAlone

\* A step of the watcher in which the versions, the launcher and the app stay.
LEMMA WatcherMoves ==
    ASSUME UpdateInv, NEW w \in watchers,
           UNCHANGED <<works, feed, onDisk, launcher, file, stuck, app, phase, threadVars,
                       asked, installer>>,
           incidents' \in 0..MaxIncidents,
           \/ watchers' = watchers \ {w}
           \/ \E v \in Watcher :
                 /\ watchers' = (watchers \ {w}) \cup {v}
                 /\ v.from = w.from /\ v.build = w.build /\ v.parentGone
                 /\ v.build = NoBuild => v.at = "launch"
                 /\ w.parentGone /\ w.at # "again"
    PROVE  UpdateInv'
<1> USE DEF UpdateInv
<1>1. installer.at = "none"
  BY DEF InstallerGuarded
<1>2. /\ watchers' \subseteq Watcher /\ \A u, v \in watchers' : u = v
      /\ \A v \in watchers' : /\ v.from = w.from /\ v.build = w.build /\ v.parentGone
                              /\ v.build = NoBuild => v.at = "launch"
                              /\ w.parentGone /\ w.at # "again"
  BY ShiftsAlone
<1>3. UpdateTypes'
  BY <1>2 DEF UpdateTypes, threadVars
<1>4. WayBack' /\ InstallerGuarded' /\ AppStays' /\ ThreadKnows'
  BY <1>1 DEF WayBack, InstallerGuarded, AppStays, ThreadKnows, Installing, threadVars
<1>5. PreviousWorks' /\ WatcherAlone'
  BY <1>2 DEF PreviousWorks, WatcherAlone, threadVars
<1>6. QED
  BY <1>3, <1>4, <1>5

\* The watcher waits for its parent and for the new version to come up (came_up).
LEMMA LooksKeep ==
    ASSUME UpdateInv, NEW w \in watchers, SeeGone(w) \/ Confirm(w) \/ NotUp(w)
    PROVE  UpdateInv'
<1> USE DEF UpdateInv
<1>1. /\ UNCHANGED <<works, feed, onDisk, launcher, file, stuck, app, phase, threadVars,
                     asked, installer>>
      /\ incidents' \in 0..MaxIncidents
  BY UpdatesAssumption DEF SeeGone, Confirm, NotUp, Incident, diskVars, UpdateTypes
<1>2. w \in Watcher /\ (w.parentGone \/ w.at = "old")
      /\ (w.build = NoBuild => w.at \in {"old", "launch"})
  BY DEF UpdateTypes, WatcherAlone
<1>3. \A to \in {"launch", "kill"} : LET v == [w EXCEPT !.at = to] IN
         v \in Watcher /\ v.from = w.from /\ v.build = w.build /\ v.at = to
         /\ v.parentGone = w.parentGone
  BY <1>2 DEF Watcher
<1>4. CASE SeeGone(w)
  BY <1>1, <1>2, <1>3, <1>4, WatcherMoves DEF SeeGone, Shifts
<1>5. CASE Confirm(w)
  BY <1>1, <1>5, WatcherMoves DEF Confirm, Done
<1>6. CASE NotUp(w)
  BY <1>1, <1>2, <1>3, <1>6, WatcherMoves DEF NotUp, Shifts
<1>7. QED
  BY <1>4, <1>5, <1>6

\* The watcher starts what the launcher points at, or finds that an app runs.
LEMMA LaunchKeeps ==
    ASSUME UpdateInv, NEW w \in watchers, Launch(w)
    PROVE  UpdateInv'
<1> USE DEF UpdateInv
<1>1. /\ w.at = "launch" /\ w \in Watcher /\ w.parentGone /\ installer.at = "none"
      /\ UNCHANGED <<works, feed, onDisk, launcher, stuck, threadVars, asked, installer,
                     incidents>>
  BY DEF Launch, WatcherAlone, InstallerGuarded, UpdateTypes
<1>2. \A runs \in BOOLEAN : LET v == [w EXCEPT !.at = "check", !.childRuns = runs] IN
         v \in Watcher /\ v.from = w.from /\ v.build = w.build /\ v.at = "check"
         /\ v.parentGone = w.parentGone
  BY <1>1 DEF Watcher
<1>3. watchers' = watchers \ {w}
      \/ \E v \in Watcher :
            /\ watchers' = (watchers \ {w}) \cup {v}
            /\ v.from = w.from /\ v.build = w.build /\ v.parentGone /\ v.at = "check"
            /\ v.build # NoBuild
  BY <1>1, <1>2 DEF Launch, Done
<1>4. CASE app = NoBuild /\ launcher \in onDisk
  <2>1. Starts
    BY <1>4 DEF Launch
  <2>2. /\ app' \in Build /\ app' # NoBuild /\ phase' = "starting"
        /\ StateFile(file') /\ file'.previous = file.previous /\ file'.skip = file.skip
        /\ WayBack' /\ AppStays' /\ ThreadKnows' /\ InstallerGuarded'
    BY <1>1, <1>4, <2>1, StartsApp
  <2>3. /\ watchers' \subseteq Watcher /\ \A u, v \in watchers' : u = v
        /\ \A v \in watchers' : /\ v.from = w.from /\ v.build = w.build /\ v.parentGone
                                /\ v.build # NoBuild
    BY <1>3, ShiftsAlone
  <2>4. UpdateTypes'
    BY <1>1, <2>2, <2>3 DEF UpdateTypes, threadVars
  <2>5. PreviousWorks' /\ WatcherAlone'
    BY <1>1, <2>2, <2>3 DEF PreviousWorks, WatcherAlone, threadVars
  <2>6. QED
    BY <2>2, <2>4, <2>5
<1>5. CASE ~(app = NoBuild /\ launcher \in onDisk)
  <2>1. UNCHANGED <<app, phase, file>>
    BY <1>5 DEF Launch
  <2>2. incidents' \in 0..MaxIncidents
    BY <1>1 DEF UpdateTypes
  <2>3. QED
    BY <1>1, <1>3, <2>1, <2>2, WatcherMoves
<1>6. QED
  BY <1>4, <1>5

\* The version that did not come up is killed; its way back stays (watch.rs, run).
LEMMA KillKeeps ==
    ASSUME UpdateInv, NEW w \in watchers, Kill(w)
    PROVE  UpdateInv'
<1> USE DEF UpdateInv
<1> DEFINE v == [w EXCEPT !.at = "skip"]
           those == (watchers \ {w}) \cup {v}
<1>1. /\ w.at = "kill" /\ w \in Watcher /\ w.parentGone /\ installer.at = "none"
      /\ file' = [file EXCEPT !.failed = TRUE] /\ w.build # NoBuild /\ launcher = w.build
      /\ w.from \in works
      /\ UNCHANGED <<works, feed, onDisk, launcher, stuck, installer, incidents>>
  BY DEF Kill, WatcherAlone, InstallerGuarded, UpdateTypes, PreviousWorks
<1>2. v \in Watcher /\ v.at = "skip" /\ v.from = w.from /\ v.build = w.build /\ v.parentGone
  BY <1>1 DEF Watcher
<1>3. those = {v} /\ those \subseteq Watcher
  BY <1>2, ShiftsAlone
<1>4. incidents' \in 0..MaxIncidents
  BY <1>1 DEF UpdateTypes
<1>5. CASE w.childRuns
  <2>1. Ends(those)
    BY <1>5 DEF Kill
  <2> HIDE DEF those, v
  <2>2. QED
    BY <1>1, <1>2, <1>3, <1>4, <2>1, EndsKeeps
<1>6. CASE ~w.childRuns
  <2>1. watchers' = those /\ UNCHANGED <<app, phase, threadVars, asked>>
    BY <1>6 DEF Kill, Shifts
  <2>2. StateFile(file') /\ file'.previous = file.previous /\ file'.skip = file.skip
    BY <1>1 DEF UpdateTypes, StateFile
  <2> HIDE DEF those, v
  <2>3. UpdateTypes'
    BY <1>1, <1>3, <1>4, <2>1, <2>2 DEF UpdateTypes, threadVars
  <2>4. WayBack' /\ InstallerGuarded' /\ AppStays' /\ ThreadKnows'
    BY <1>1, <2>1, <2>2 DEF WayBack, InstallerGuarded, AppStays, ThreadKnows, Installing,
       threadVars
  <2>5. PreviousWorks' /\ WatcherAlone'
    BY <1>1, <1>2, <1>3, <2>1, <2>2 DEF PreviousWorks, WatcherAlone, threadVars
  <2>6. QED
    BY <2>3, <2>4, <2>5
<1>7. QED
  BY <1>5, <1>6

\* go_back of the watcher: the refused version is the one the launcher is at, and the
\* one it moves to works.
LEMMA RollBackKeeps ==
    ASSUME UpdateInv, NEW w \in watchers, RollBack(w)
    PROVE  UpdateInv'
<1> USE DEF UpdateInv
<1> DEFINE v == [w EXCEPT !.at = "again"]
           refused == Refuse(file, w.build)
<1>1. /\ w.at = "skip" /\ w \in Watcher /\ w.parentGone /\ installer.at = "none"
      /\ w.build # NoBuild /\ launcher = w.build /\ w.from \in works /\ updater = "tick"
      /\ UNCHANGED <<works, feed, onDisk, stuck>>
  BY DEF RollBack, WatcherAlone, InstallerGuarded, UpdateTypes, PreviousWorks
<1>2. /\ v \in Watcher /\ v.at = "again" /\ v.from = w.from /\ v.build = w.build
      /\ v.parentGone
  BY <1>1 DEF Watcher
<1>3. (watchers \ {w}) \cup {v} = {v} /\ watchers \ {w} = {}
  <2> HIDE DEF v
  <2>1. QED
    BY <1>2, ShiftsAlone
<1>4. StateFile(refused) /\ refused.previous = NoBuild /\ refused.skip = launcher
  <2>1. StateFile(file) /\ w.build \in {NoBuild} \cup Build
    BY <1>1 DEF UpdateTypes
  <2>2. QED
    BY <1>1, <2>1, RefuseIs
<1>5. w.from \in Build
  BY <1>1 DEF Watcher
<1>6. incidents' \in 0..MaxIncidents
  BY UpdatesAssumption DEF RollBack, Incident, UpdateTypes
<1>7. \/ Ends({}) /\ file' = refused /\ installer' = NoInstaller /\ launcher' = launcher
      \/ /\ UNCHANGED <<app, phase, threadVars, asked, installer>>
         /\ \/ /\ w.from \in onDisk /\ launcher' = w.from /\ file' = refused
               /\ watchers' = (watchers \ {w}) \cup {v}
            \/ /\ watchers' = watchers \ {w} /\ launcher' = launcher
               /\ file' \in {file, refused}
            \/ /\ watchers' = watchers \ {w} /\ file' = file
               /\ launcher' = launcher \/ (w.from \in onDisk /\ launcher' = w.from)
  BY DEF RollBack, Shifts, Done
<1> HIDE DEF v, refused
<1>8. file' \in {file, refused} /\ StateFile(file')
      /\ launcher' \in Build /\ launcher' \in onDisk
  BY <1>4, <1>5, <1>7 DEF UpdateTypes, WayBack
<1>9. WayBack'
  BY <1>1, <1>4, <1>7, <1>8 DEF WayBack
<1>10. CASE Ends({}) /\ installer' = NoInstaller
  <2>1. /\ app' = NoBuild /\ phase' = "off" /\ watchers' = {} /\ updater' = "tick"
        /\ offer' = NoBuild /\ goingBack' = FALSE /\ asked' = FALSE /\ before' = before
    BY <1>10 DEF Ends, Orphans
  <2>2. UpdateTypes'
    BY <1>1, <1>6, <1>8, <1>10, <2>1 DEF UpdateTypes, NoInstaller
  <2>3. PreviousWorks'
    BY <1>1, <1>4, <1>8, <2>1 DEF PreviousWorks
  <2>4. works \subseteq Build /\ NoBuild \notin Build
    BY DEF UpdateTypes, NoBuild, Build
  <2>5. AppStays' /\ WatcherAlone' /\ InstallerGuarded' /\ ThreadKnows'
    BY <1>1, <1>10, <2>1, <2>4 DEF AppStays, WatcherAlone, InstallerGuarded, NoInstaller,
       ThreadKnows, Installing
  <2>6. QED
    BY <1>9, <2>2, <2>3, <2>5
<1>11. CASE UNCHANGED <<app, phase, threadVars, asked, installer>>
            /\ (watchers' = {} \/ (watchers' = {v} /\ launcher' = w.from))
  <2>1. UpdateTypes'
    BY <1>1, <1>2, <1>6, <1>8, <1>11 DEF UpdateTypes, threadVars
  <2>2. PreviousWorks'
    BY <1>1, <1>2, <1>4, <1>8, <1>11 DEF PreviousWorks, threadVars
  <2>3. WatcherAlone'
    BY <1>1, <1>2, <1>11 DEF WatcherAlone, threadVars
  <2>4. AppStays' /\ InstallerGuarded' /\ ThreadKnows'
    BY <1>1, <1>7, <1>11 DEF AppStays, InstallerGuarded, ThreadKnows, Installing, threadVars
  <2>5. QED
    BY <1>9, <2>1, <2>2, <2>3, <2>4
<1>12. QED
  BY <1>3, <1>7, <1>10, <1>11

\* The version that works is started after a rollback.
LEMMA AgainKeeps ==
    ASSUME UpdateInv, NEW w \in watchers, Again(w)
    PROVE  UpdateInv'
<1> USE DEF UpdateInv
<1>1. /\ w.at = "again" /\ w.parentGone /\ installer.at = "none" /\ watchers' = watchers \ {w}
      /\ UNCHANGED <<works, feed, onDisk, launcher, stuck, threadVars, asked, installer,
                     incidents>>
  BY DEF Again, Done, WatcherAlone, InstallerGuarded
<1>2. incidents' \in 0..MaxIncidents /\ watchers' = {} /\ launcher \in onDisk
  BY <1>1 DEF UpdateTypes, WatcherAlone, WayBack
<1>3. CASE app = NoBuild
  <2>1. Starts
    BY <1>3 DEF Again
  <2>2. /\ app' \in Build /\ app' # NoBuild /\ phase' = "starting"
        /\ StateFile(file') /\ file'.previous = file.previous /\ file'.skip = file.skip
        /\ WayBack' /\ AppStays' /\ ThreadKnows' /\ InstallerGuarded'
    BY <1>1, <1>2, <1>3, <2>1, StartsApp
  <2>3. UpdateTypes'
    BY <1>1, <1>2, <2>2 DEF UpdateTypes, threadVars
  <2>4. PreviousWorks' /\ WatcherAlone'
    BY <1>1, <1>2, <2>2 DEF PreviousWorks, WatcherAlone, threadVars
  <2>5. QED
    BY <2>2, <2>3, <2>4
<1>4. CASE app # NoBuild
  <2>1. UNCHANGED <<app, phase, file>>
    BY <1>4 DEF Again
  <2>2. QED
    BY <1>1, <1>2, <2>1, WatcherMoves
<1>5. QED
  BY <1>3, <1>4

\* Every step keeps the invariant.
LEMMA NextUpdate == UpdateInv /\ [UpdatesNext]_updatesVars => UpdateInv'
<1> SUFFICES ASSUME UpdateInv, [UpdatesNext]_updatesVars PROVE UpdateInv'
  OBVIOUS
<1>1. CASE WatcherSteps
  BY <1>1, LooksKeep, LaunchKeeps, KillKeeps, RollBackKeeps, AgainKeeps DEF WatcherSteps
<1>2. CASE InstallerSteps \/ InstallerFails
  BY <1>2, InstallerKeeps
<1>3. CASE UpdaterSteps
  BY <1>3, CheckKeeps, SavePreviousKeeps, InstalledKeeps, ManageKeeps, RelaunchKeeps,
     RefusedKeeps, UndoKeeps, RestoreKeeps, TakeRollbackKeeps, SaveBackKeeps, PointBackKeeps,
     RelaunchBackKeeps DEF UpdaterSteps
<1>4. CASE DieEarly \/ Quit \/ Crash \/ PowerLoss
  BY <1>4, AppEnds
<1>5. CASE StartByHand
  BY <1>5, StartByHandKeeps
<1>6. CASE ComeUp \/ Release \/ AskRollback
  BY <1>6, QuietKeeps
<1>7. CASE RollbackOffline
  BY <1>7, OfflineKeeps
<1>8. CASE UNCHANGED updatesVars
  BY <1>8 DEF updatesVars, diskVars, threadVars, UpdateInv, UpdateTypes, WayBack,
     PreviousWorks, AppStays, WatcherAlone, InstallerGuarded, ThreadKnows
<1>9. QED
  BY <1>1, <1>2, <1>3, <1>4, <1>5, <1>6, <1>7, <1>8 DEF UpdatesNext

\* Any number of builds, whichever of them work, and any number of incidents: every state
\* has the invariant.
THEOREM UpdateInvariant == UpdatesSpec => []UpdateInv
BY InitUpdate, NextUpdate, PTL DEF UpdatesSpec

\* Wherever the installer (install.py), the watcher (watch.rs) or the app is cut off, the
\* launcher points at a version that is there, and at one that works or has a way back.
THEOREM WayBackKept == UpdatesSpec => []WayBack
BY UpdateInvariant, PTL DEF UpdateInv

-----------------------------------------------------------------------------
(* The types of the lists of versions, which nothing else depends on.      *)

ListsTyped ==
    managed \in Seq(Build) /\ file.managed \in Seq(Build) /\ before.managed \in Seq(Build)

\* A set of numbers that has something in it has a least one.
LEMMA LeastNumber ==
    ASSUME NEW S, S \subseteq Nat, S # {}
    PROVE  \E x \in S : \A y \in S : x <= y
<1>1. PICK R : R = OpToRel(<, Nat)
  OBVIOUS
<1>2. \A x, y \in Nat : y < x => <<y, x>> \in R
  BY <1>1 DEF OpToRel
<1>3. IsWellFoundedOn(R, Nat)
  BY <1>1, NatLessThanWellFounded
<1>4. PICK x \in S : \A y \in S : ~ (<<y, x>> \in R)
  BY <1>3, WFMin
<1>5. \A y \in S : ~ (y < x) /\ x \in Nat /\ y \in Nat
  BY <1>2, <1>4
<1>6. \A y \in S : x <= y
  BY <1>5
<1>7. QED
  BY <1>4, <1>6

\* A list without some of its builds is a list of builds: of the places at which the function
\* behind Without were none, or were no list, there would be a first.
LEMMA WithoutTyped ==
    ASSUME NEW list \in Seq(Build), NEW gone
    PROVE  Without(list, gone) \in Seq(Build)
<1> DEFINE At(g, n) ==
              IF n = 0 THEN <<>>
              ELSE IF list[n] \in gone THEN g[n - 1] ELSE Append(g[n - 1], list[n])
           Built(g, m) == g = [n \in 0..m |-> At(g, n)]
<1>1. \A m \in Nat : \E g : Built(g, m)
  <2> DEFINE None == {m \in Nat : ~ \E g : Built(g, m)}
  <2>1. SUFFICES ASSUME None # {} PROVE FALSE
    OBVIOUS
  <2>2. PICK m \in None : \A k \in None : m <= k
    BY <2>1, LeastNumber
  <2>3. m # 0
    <3> DEFINE g == [n \in 0..0 |-> <<>>]
    <3>1. g = [n \in 0..0 |-> At(g, n)]
      OBVIOUS
    <3>2. QED
      BY <3>1
  <2>4. m - 1 \in Nat /\ ~ (m <= m - 1)
    BY <2>2, <2>3
  <2>5. PICK g : Built(g, m - 1)
    BY <2>2, <2>4
  <2> DEFINE h == [n \in 0..m |-> IF n = m THEN At(g, m) ELSE g[n]]
  <2>6. \A n \in 0..m : h[n] = At(h, n)
    <3>1. SUFFICES ASSUME NEW n \in 0..m PROVE h[n] = At(h, n)
      OBVIOUS
    <3>2. n # m => n \in 0..m - 1
      BY <2>2, <2>4
    <3>3. n # m => g[n] = At(g, n)
      BY <2>5, <3>2
    <3>4. h[n] = At(g, n)
      BY <3>3
    <3>5. n # 0 => n - 1 \in 0..m /\ n - 1 # m
      BY <2>2
    <3>6. n # 0 => h[n - 1] = g[n - 1]
      BY <3>5
    <3> HIDE DEF h
    <3>7. QED
      BY <3>4, <3>6
  <2>7. h = [n \in 0..m |-> At(h, n)]
    BY <2>6
  <2>8. Built(h, m)
    BY <2>7
  <2>9. QED
    BY <2>2, <2>8
<1> DEFINE kept == CHOOSE g : Built(g, Len(list))
<1>2. Built(kept, Len(list))
  <2>1. Len(list) \in Nat
    OBVIOUS
  <2> HIDE DEF Built
  <2>2. QED
    BY <1>1, <2>1
<1>3. Without(list, gone) = kept[Len(list)]
  BY Zenon DEF Without
<1> HIDE DEF kept
<1>4. \A n \in 0..Len(list) : kept[n] \in Seq(Build)
  <2> DEFINE Odd == {n \in 0..Len(list) : kept[n] \notin Seq(Build)}
  <2>1. SUFFICES ASSUME Odd # {} PROVE FALSE
    OBVIOUS
  <2>2. PICK n \in Odd : \A k \in Odd : n <= k
    <3>1. Odd \subseteq Nat
      OBVIOUS
    <3> HIDE DEF Odd
    <3>2. QED
      BY <2>1, <3>1, LeastNumber
  <2>3. kept[n] = At(kept, n)
    BY <1>2, <2>2
  <2>4. n # 0
    BY <2>2, <2>3, EmptySeq
  <2>5. n - 1 \in 0..Len(list) /\ ~ (n <= n - 1) /\ n \in 1..Len(list)
    BY <2>2, <2>4
  <2>6. kept[n - 1] \in Seq(Build) /\ list[n] \in Build
    BY <2>2, <2>5
  <2>7. Append(kept[n - 1], list[n]) \in Seq(Build)
    BY <2>6
  <2>8. QED
    BY <2>2, <2>3, <2>4, <2>6, <2>7
<1>5. QED
  BY <1>3, <1>4

LEMMA AddedTyped ==
    ASSUME NEW list \in Seq(Build), NEW build \in Build
    PROVE  Added(list, build) \in Seq(Build)
  BY DEF Added

LEMMA ManageLists ==
    ASSUME UpdateInv, ListsTyped, Manage
    PROVE  ListsTyped'
<1>1. app \in Build /\ offer \in Build
  BY DEF Manage, Running, UpdateInv, UpdateTypes, AppStays, ThreadKnows, Installing, NoBuild
<1>2. Added(Added(managed, app), offer) \in Seq(Build)
  BY <1>1, AddedTyped DEF ListsTyped
<1>3. managed' \in Seq(Build)
  BY <1>2, WithoutTyped DEF Manage
<1>4. before' = before
  BY DEF Manage
<1>5. PICK new : /\ file' \in {file, new}
                 /\ new = [file EXCEPT !.managed = managed', !.previous = app]
  BY DEF Manage, Saves
<1>6. new.managed = managed'
  BY <1>5 DEF UpdateInv, UpdateTypes, StateFile
<1>7. QED
  BY <1>3, <1>4, <1>5, <1>6 DEF ListsTyped

\* Other steps write the state file as it was, or with other fields changed, or the list of
\* the install.
LEMMA OtherLists ==
    ASSUME UpdateInv, ListsTyped, [UpdatesNext]_updatesVars, ~Manage
    PROVE  ListsTyped'
<1> DEFINE Like(f) == f.managed \in {managed, file.managed, before.managed}
<1>1. /\ StateFile(file) /\ StateFile(before)
  BY DEF UpdateInv, UpdateTypes
<1>2. /\ \A b : Like(Refuse(file, b)) /\ Like([file EXCEPT !.previous = b])
      /\ \A b : Like([file EXCEPT !.failed = b])
      /\ Like([before EXCEPT !.managed = managed]) /\ Like(file) /\ Like(before)
  BY <1>1 DEF StateFile, Refuse
<1>3. ASSUME Like(file'), managed' \in {managed, file.managed}, before' \in {before, file}
      PROVE  ListsTyped'
  BY <1>3 DEF ListsTyped
<1> HIDE DEF Like
<1>4. CASE UNCHANGED updatesVars
  BY <1>2, <1>3, <1>4 DEF updatesVars, diskVars, threadVars
<1>5. CASE WatcherSteps
  BY <1>2, <1>3, <1>5 DEF WatcherSteps, SeeGone, Launch, Confirm, NotUp, Kill, RollBack, Again,
     Starts, Ends, diskVars, threadVars, Done, Shifts
<1>6. CASE UpdaterSteps
  BY <1>2, <1>3, <1>6 DEF UpdaterSteps, Check, ReserveUpdate, SavePrevious, Installed, Relaunch,
     QuitRefused, Undo, Restore, TakeRollback, SaveBack, PointBack, RelaunchBack, BackRefused,
     Saves, diskVars
<1>7. CASE InstallerSteps \/ InstallerFails \/ StartByHand \/ ComeUp \/ Release \/ AskRollback
           \/ RollbackOffline
  BY <1>2, <1>3, <1>7 DEF InstallerSteps, InstallerCopies, InstallerMoves, InstallerLeaves,
     InstallerFails, StartByHand, Starts, ComeUp, Release, AskRollback, RollbackOffline, diskVars,
     threadVars
<1>8. CASE DieEarly \/ Quit \/ Crash \/ PowerLoss
  BY <1>2, <1>3, <1>8 DEF DieEarly, Quit, Crash, PowerLoss, Ends, diskVars
<1>9. QED
  BY <1>4, <1>5, <1>6, <1>7, <1>8 DEF UpdatesNext

-----------------------------------------------------------------------------
(* Both machines.                                                          *)

\* The invariants of the two machines, of which TLC runs one at a time.
BothHold == PriorityInv /\ UpdateInv /\ ListsTyped

\* Whichever of the two runs, the microphone (audio/preview.rs) and the update
\* (linux/updates.rs) keep to their types.
THEOREM PartTypes == PartSpec => []PartTypeOK
<1>1. PartInit => BothHold
  <2>1. UpdatesInit => ListsTyped
    BY EmptySeq DEF UpdatesInit, FirstFile, ListsTyped
  <2>2. QED
    BY <2>1, InitPriority, InitUpdate DEF PartInit, BothHold
<1>2. BothHold /\ [PartNext]_partVars => BothHold'
  <2> SUFFICES ASSUME BothHold, [PartNext]_partVars PROVE BothHold'
    OBVIOUS
  <2>1. [Next]_vars /\ [UpdatesNext]_updatesVars
    BY DEF PartNext, partVars
  <2>2. PriorityInv'
    BY <2>1, NextPriority DEF BothHold
  <2>3. UpdateInv' /\ ListsTyped'
    BY <2>1, NextUpdate, ManageLists, OtherLists DEF BothHold
  <2>4. QED
    BY <2>2, <2>3 DEF BothHold
<1>3. BothHold => PartTypeOK
  <2> SUFFICES ASSUME BothHold PROVE PartTypeOK
    OBVIOUS
  <2>1. file \in File /\ before \in File
    BY DEF BothHold, UpdateInv, UpdateTypes, StateFile, ListsTyped, File
  <2>2. UpdatesTypeOK
    BY <2>1 DEF BothHold, UpdateInv, UpdateTypes, ListsTyped, UpdatesTypeOK
  <2>3. QED
    BY <2>2 DEF BothHold, PriorityInv, PartTypeOK
<1>4. QED
  BY <1>1, <1>2, <1>3, PTL DEF PartSpec

-----------------------------------------------------------------------------
(* The update: no refused version comes back.                              *)

GoesBack == {"point_back", "relaunch_back", "wait_back"}

\* The launcher is at a refused build only between the two writes of a rollback.
LauncherNotRefused == updater # "point_back" => launcher # file.skip

\* The app that runs is refused only while it rolls back, or waits to be replaced; then
\* there is nothing to install and nothing to go back to.
AppNotRefused ==
    /\ app # NoBuild /\ updater \notin GoesBack /\ ~goingBack => app # file.skip
    /\ goingBack => updater = "tick"
    /\ goingBack \/ updater \in GoesBack => file.previous = NoBuild

\* No refused build is on its way in.
OfferNotRefused ==
    /\ offer # NoBuild => offer # file.skip
    /\ installer.at # "none" => installer.build # file.skip

\* What a thread would put back refuses neither build it deals with.
BeforeNotRefused ==
    /\ updater \in Installing \cup {"undo", "restore"} => before.skip = file.skip
    /\ updater = "back" => file.previous # app
    /\ updater = "point_back" =>
          /\ file.skip = app /\ before.skip # launcher /\ before.skip # app
          /\ before.previous # app
          /\ offer # NoBuild => before.skip # offer

\* The app that a watcher looks on at is the one it started.
WatcherNotRefused ==
    \A w \in watchers :
        /\ w.from # w.build
        /\ w.parentGone =>
              IF w.at \in {"check", "kill"} /\ w.childRuns THEN app = w.build ELSE app = NoBuild

\* With no accident so far, this holds too.
Refusals == LauncherNotRefused /\ AppNotRefused /\ OfferNotRefused /\ BeforeNotRefused
            /\ WatcherNotRefused

RefusalInv == incidents = 0 => Refusals

\* At the start nothing is refused.
LEMMA InitRefusal == UpdatesInit => RefusalInv
BY DEF UpdatesInit, RefusalInv, Refusals, FirstFile, NoInstaller, NoBuild, LauncherNotRefused,
   AppNotRefused, OfferNotRefused, BeforeNotRefused, WatcherNotRefused, Installing, GoesBack

\* Without an accident in the step there was none before it.
LEMMA NoAccident ==
    ASSUME UpdateInv, RefusalInv, incidents' = 0, [UpdatesNext]_updatesVars
    PROVE  incidents = 0 /\ Refusals /\ UNCHANGED incidents
<1>1. incidents \in Nat
  BY UpdatesAssumption DEF UpdateInv, UpdateTypes
<1>2. incidents' = incidents \/ incidents' = incidents + 1
  BY DEF UpdatesNext, WatcherSteps, InstallerSteps, UpdaterSteps, updatesVars, Incident,
     SeeGone, Launch, Confirm, NotUp, Kill, RollBack, Again,
     InstallerCopies, InstallerMoves, InstallerLeaves, InstallerFails, Check, ReserveUpdate,
     SavePrevious, Installed, Manage, Relaunch, QuitRefused, Undo, Restore, TakeRollback,
     SaveBack, PointBack, RelaunchBack, BackRefused, StartByHand, ComeUp, DieEarly, Quit,
     Crash, PowerLoss, Release, AskRollback, RollbackOffline, Saves
<1>3. QED
  BY <1>1, <1>2 DEF RefusalInv

\* The app ends of itself: neither is a rollback under way then.
LEMMA AppEndsRefusal ==
    ASSUME UpdateInv, Refusals, UNCHANGED incidents, DieEarly \/ Quit \/ Crash \/ PowerLoss
    PROVE  Refusals'
<1> USE DEF UpdateInv, Refusals
<1>1. incidents \in Nat
  BY UpdatesAssumption DEF UpdateTypes
<1>2. /\ UNCHANGED <<works, feed, onDisk, launcher, file, stuck, installer>>
      /\ Ends(watchers) /\ updater # "point_back"
  BY <1>1 DEF DieEarly, Quit, Crash, PowerLoss, diskVars, Incident, AppStays
<1>3. /\ app' = NoBuild /\ updater' = "tick" /\ offer' = NoBuild /\ goingBack' = FALSE
      /\ watchers' = Orphans(watchers)
  BY <1>2 DEF Ends
<1>4. \A v \in watchers' : /\ v.parentGone /\ ~v.childRuns
                           /\ \E w \in watchers : v.from = w.from /\ v.build = w.build
  BY <1>3, OrphansLike DEF UpdateTypes
<1>5. WatcherNotRefused'
  BY <1>3, <1>4 DEF WatcherNotRefused
<1>6. LauncherNotRefused' /\ AppNotRefused' /\ OfferNotRefused' /\ BeforeNotRefused'
  BY <1>2, <1>3 DEF LauncherNotRefused, AppNotRefused, OfferNotRefused, BeforeNotRefused,
     Installing, GoesBack
<1>7. QED
  BY <1>5, <1>6

\* The launcher is started when it is at a build nobody refused.
LEMMA StartsRefusal ==
    ASSUME UpdateInv, Refusals, Starts, app = NoBuild, installer.at = "none",
           UNCHANGED <<works, onDisk, launcher, stuck, threadVars, installer>>
    PROVE  LauncherNotRefused' /\ AppNotRefused' /\ OfferNotRefused' /\ BeforeNotRefused'
<1> USE DEF UpdateInv, Refusals
<1>1. updater = "tick" /\ offer = NoBuild /\ NoBuild \notin Build
  BY DEF AppStays, UpdateTypes, NoBuild, Build
<1>2. app' = launcher /\ file'.previous = file.previous /\ file'.skip = file.skip
  BY DEF Starts, UpdateTypes, StateFile
<1>3. QED
  BY <1>1, <1>2 DEF LauncherNotRefused, AppNotRefused, OfferNotRefused, BeforeNotRefused,
     Installing, GoesBack, threadVars

\* Starting, releasing and asking refuse nothing; offline the version refused is another
\* than the one to go back to.
LEMMA QuietRefusal ==
    ASSUME UpdateInv, Refusals, UNCHANGED incidents,
           StartByHand \/ ComeUp \/ Release \/ AskRollback \/ RollbackOffline
    PROVE  Refusals'
<1> USE DEF UpdateInv, Refusals
<1>1. incidents \in Nat
  BY UpdatesAssumption DEF UpdateTypes
<1>2. CASE StartByHand
  <2>1. /\ app = NoBuild /\ Starts /\ watchers = {} /\ watchers' = watchers
        /\ UNCHANGED <<works, onDisk, launcher, stuck, threadVars, installer>>
    BY <1>1, <1>2 DEF StartByHand, Incident
  <2>2. installer.at = "none"
    BY <1>2, <2>1 DEF StartByHand, NoOrphan, AppStays, UpdateTypes, Build, NoBuild
  <2>3. LauncherNotRefused' /\ AppNotRefused' /\ OfferNotRefused' /\ BeforeNotRefused'
    BY <2>1, <2>2, StartsRefusal
  <2>4. WatcherNotRefused'
    BY <2>1 DEF WatcherNotRefused
  <2>5. QED
    BY <2>3, <2>4
<1>3. CASE ComeUp \/ Release \/ AskRollback
  BY <1>3 DEF ComeUp, Release, AskRollback, LauncherNotRefused, AppNotRefused,
     OfferNotRefused, BeforeNotRefused, WatcherNotRefused, diskVars, threadVars
<1>4. CASE RollbackOffline
  <2>1. /\ app = NoBuild /\ file.previous # launcher
        /\ watchers' = {[at |-> "skip", from |-> file.previous, build |-> launcher,
                         parentGone |-> TRUE, childRuns |-> FALSE]}
        /\ UNCHANGED <<launcher, file, app, updater, offer, goingBack, before, installer>>
    BY <1>4 DEF RollbackOffline, RollbackTarget, diskVars, threadVars
  <2>2. WatcherNotRefused'
    BY <2>1 DEF WatcherNotRefused
  <2>3. QED
    BY <2>1, <2>2 DEF LauncherNotRefused, AppNotRefused, OfferNotRefused, BeforeNotRefused
<1>5. QED
  BY <1>2, <1>3, <1>4

\* A refused build never becomes the offer, and the offer is what gets installed.
LEMMA InstallRefusal ==
    ASSUME UpdateInv, Refusals, UNCHANGED incidents,
           Check \/ ReserveUpdate \/ SavePrevious \/ Installed \/ Manage \/ Relaunch
    PROVE  Refusals'
<1> USE DEF UpdateInv, Refusals
<1>1. incidents \in Nat
  BY UpdatesAssumption DEF UpdateTypes
<1>2. Running
  BY DEF Check, ReserveUpdate, SavePrevious, Installed, Manage, Relaunch, Turns
<1>3. app # NoBuild /\ app \in Build
  BY <1>2, ThreadAlone
<1>4. CASE Check \/ ReserveUpdate
  BY <1>2, <1>4 DEF Check, ReserveUpdate, Turns, Offered, diskVars, LauncherNotRefused,
     AppNotRefused, OfferNotRefused, BeforeNotRefused, WatcherNotRefused, Installing, GoesBack
<1>5. CASE SavePrevious
  <2>1. /\ updater = "save" /\ updater' = "install" /\ before' = file
        /\ file' = [file EXCEPT !.previous = app]
        /\ installer' = [build |-> offer, at |-> "copy"]
        /\ UNCHANGED <<launcher, app, offer, goingBack, watchers>>
    BY <1>1, <1>5 DEF SavePrevious, Saves, Incident
  <2>2. file'.skip = file.skip
    BY <2>1 DEF UpdateTypes, StateFile
  <2>3. offer # NoBuild
    BY <2>1 DEF AppStays
  <2>4. QED
    BY <2>1, <2>2, <2>3 DEF LauncherNotRefused, AppNotRefused, OfferNotRefused,
       BeforeNotRefused, WatcherNotRefused, Installing, GoesBack
<1>6. CASE Installed
  BY <1>6 DEF Installed, NoInstaller, diskVars, LauncherNotRefused, AppNotRefused,
     OfferNotRefused, BeforeNotRefused, WatcherNotRefused, Installing, GoesBack
<1>7. CASE Manage
  <2>1. /\ updater = "manage" /\ updater' = "relaunch"
        /\ file' = [file EXCEPT !.managed = managed', !.previous = app]
        /\ UNCHANGED <<launcher, app, offer, goingBack, before, installer, watchers>>
    BY <1>1, <1>7 DEF Manage, Saves, Incident
  <2>2. file'.skip = file.skip
    BY <2>1 DEF UpdateTypes, StateFile
  <2>3. QED
    BY <2>1, <2>2 DEF LauncherNotRefused, AppNotRefused, OfferNotRefused,
       BeforeNotRefused, WatcherNotRefused, Installing, GoesBack
<1>8. CASE Relaunch
  <2>1. /\ updater = "relaunch" /\ updater' = "wait"
        /\ watchers' = watchers \cup {NewWatcher(offer)}
        /\ UNCHANGED <<launcher, file, app, offer, goingBack, before, installer>>
    BY <1>1, <1>8 DEF Relaunch, Turns, Incident, diskVars
  <2>2. offer # app /\ offer \in {NoBuild} \cup Build
    BY <1>3, <2>1 DEF AppStays, UpdateTypes, Installing, Build
  <2>3. WatcherNotRefused'
    BY <1>3, <2>1, <2>2, NewWatcherIs DEF WatcherNotRefused
  <2>4. QED
    BY <2>1, <2>3 DEF LauncherNotRefused, AppNotRefused, OfferNotRefused, BeforeNotRefused,
       Installing, GoesBack
<1>9. QED
  BY <1>4, <1>5, <1>6, <1>7, <1>8

\* What is undone was not refused: the launcher goes back to the app that runs.
LEMMA UndoRefusal ==
    ASSUME UpdateInv, Refusals, UNCHANGED incidents, QuitRefused \/ Undo \/ Restore
    PROVE  Refusals'
<1> USE DEF UpdateInv, Refusals
<1>1. incidents \in Nat
  BY UpdatesAssumption DEF UpdateTypes
<1>2. Running
  BY DEF QuitRefused, Undo, Restore, Turns
<1>3. app # NoBuild /\ app \in Build
  BY <1>2, ThreadAlone
<1>4. CASE QuitRefused
  BY <1>4 DEF QuitRefused, Turns, diskVars, LauncherNotRefused,
     AppNotRefused, OfferNotRefused, BeforeNotRefused, WatcherNotRefused, Installing, GoesBack
<1>5. CASE Undo
  <2>1. /\ updater = "undo" /\ updater' = "restore" /\ launcher' = app
        /\ UNCHANGED <<file, app, offer, goingBack, before, installer, watchers>>
    BY <1>1, <1>5 DEF Undo, Turns, Incident
  <2>2. QED
    BY <1>3, <2>1 DEF LauncherNotRefused, AppNotRefused, OfferNotRefused, BeforeNotRefused,
       WatcherNotRefused, Installing, GoesBack
<1>6. CASE Restore
  <2>1. /\ updater = "restore" /\ updater' = "tick" /\ offer' = NoBuild
        /\ file' = [before EXCEPT !.managed = managed]
        /\ UNCHANGED <<launcher, app, goingBack, before, installer, watchers>>
    BY <1>1, <1>6 DEF Restore, Saves, Incident
  <2>2. file'.skip = file.skip
    BY <2>1 DEF UpdateTypes, StateFile, BeforeNotRefused
  <2>3. QED
    BY <2>1, <2>2 DEF LauncherNotRefused, AppNotRefused, OfferNotRefused,
       BeforeNotRefused, WatcherNotRefused, Installing, GoesBack
<1>7. QED
  BY <1>4, <1>5, <1>6

\* A rollback refuses the app that runs before it moves the launcher off it.
LEMMA BackRefusal ==
    ASSUME UpdateInv, Refusals, UNCHANGED incidents,
           TakeRollback \/ SaveBack \/ PointBack \/ RelaunchBack \/ BackRefused
    PROVE  Refusals'
<1> USE DEF UpdateInv, Refusals
<1>1. incidents \in Nat
  BY UpdatesAssumption DEF UpdateTypes
<1>2. Running
  BY DEF TakeRollback, SaveBack, PointBack, RelaunchBack, BackRefused, Turns
<1>3. app # NoBuild /\ app \in Build /\ NoBuild \notin Build
      /\ (updater \notin Waiting => watchers = {})
      /\ (installer.at # "none" => updater = "install")
  BY <1>2, ThreadAlone
<1>4. CASE TakeRollback
  <2>1. /\ updater = "tick"
        /\ updater' = "tick" \/ (updater' = "back" /\ file.previous # app
                                 /\ file.previous # NoBuild)
        /\ UNCHANGED <<launcher, file, app, offer, goingBack, before, installer, watchers>>
    BY <1>4 DEF TakeRollback, RollbackTarget, diskVars
  <2>2. QED
    BY <1>3, <2>1 DEF LauncherNotRefused, AppNotRefused, OfferNotRefused, BeforeNotRefused,
       WatcherNotRefused, Installing, GoesBack
<1>5. CASE SaveBack
  <2>1. /\ updater = "back" /\ updater' = "point_back" /\ before' = file
        /\ file' = Refuse(file, app)
        /\ UNCHANGED <<launcher, app, offer, goingBack, installer, watchers>>
    BY <1>1, <1>5 DEF SaveBack, Saves, Incident
  <2>2. file'.skip = app /\ file'.previous = NoBuild
    BY <1>3, <2>1, RefuseIs DEF UpdateTypes
  <2>3. offer # NoBuild => offer # app
    BY <1>3 DEF AppStays, UpdateTypes, Build
  <2>4. watchers = {} /\ installer.at = "none"
    BY <1>3, <2>1 DEF Waiting
  <2>5. QED
    BY <1>3, <2>1, <2>2, <2>3, <2>4 DEF LauncherNotRefused, AppNotRefused, OfferNotRefused,
       BeforeNotRefused, WatcherNotRefused, Installing, GoesBack
<1>6. CASE PointBack
  <2>1. /\ updater = "point_back"
        /\ \/ launcher' = before.previous /\ updater' = "relaunch_back" /\ file' = file
           \/ launcher' = launcher /\ updater' = "tick" /\ file' = before
        /\ UNCHANGED <<app, offer, goingBack, before, installer, watchers>>
    BY <1>1, <1>6 DEF PointBack, Incident
  <2>2. watchers = {} /\ installer.at = "none" /\ ~goingBack
    BY <1>3, <2>1 DEF Waiting, AppNotRefused
  <2>3. QED
    BY <1>3, <2>1, <2>2 DEF LauncherNotRefused, AppNotRefused, OfferNotRefused,
       BeforeNotRefused, WatcherNotRefused, Installing, GoesBack
<1>7. CASE RelaunchBack
  <2>1. /\ updater = "relaunch_back" /\ updater' = "wait_back"
        /\ watchers' = watchers \cup {NewWatcher(NoBuild)}
        /\ UNCHANGED <<launcher, file, app, offer, goingBack, before, installer>>
    BY <1>1, <1>7 DEF RelaunchBack, Turns, Incident, diskVars
  <2>2. WatcherNotRefused'
    BY <1>3, <2>1, NewWatcherIs DEF WatcherNotRefused
  <2>3. QED
    BY <2>1, <2>2 DEF LauncherNotRefused, AppNotRefused, OfferNotRefused, BeforeNotRefused,
       Installing, GoesBack
<1>8. CASE BackRefused
  <2>1. /\ updater = "wait_back" /\ updater' = "tick" /\ goingBack' = TRUE /\ offer' = NoBuild
        /\ watchers' \subseteq watchers
        /\ UNCHANGED <<launcher, file, app, before, installer>>
    BY <1>8 DEF BackRefused, Turns, diskVars
  <2>2. QED
    BY <2>1 DEF LauncherNotRefused, AppNotRefused, OfferNotRefused, BeforeNotRefused,
       WatcherNotRefused, Installing, GoesBack
<1>9. QED
  BY <1>4, <1>5, <1>6, <1>7, <1>8

\* What an installer moves the launcher to is not refused, also when its app has gone.
LEMMA InstallerRefusal ==
    ASSUME UpdateInv, Refusals, UNCHANGED incidents, InstallerSteps \/ InstallerFails
    PROVE  Refusals' /\ updater' # "point_back"
<1> USE DEF UpdateInv, Refusals
<1>1. incidents \in Nat /\ installer \in [build : {NoBuild} \cup Build,
                                          at : {"none", "copy", "move", "done"}]
  BY UpdatesAssumption DEF UpdateTypes
<1>2. /\ UNCHANGED <<file, app, updater, offer, goingBack, before, watchers>>
      /\ installer.at # "none" /\ launcher' \in {launcher, installer.build}
      /\ installer'.at # "none" => installer'.build = installer.build
  BY <1>1 DEF InstallerSteps, InstallerCopies, InstallerMoves, InstallerLeaves, InstallerFails,
     Incident, threadVars, diskVars, NoInstaller
<1>3. updater # "point_back"
  BY <1>2 DEF InstallerGuarded, AppStays, UpdateTypes, Build, NoBuild
<1>4. QED
  BY <1>2, <1>3 DEF LauncherNotRefused, AppNotRefused, OfferNotRefused, BeforeNotRefused,
     WatcherNotRefused

\* The watcher refuses the version it was to look after, and goes back to another.
LEMMA WatcherRefusal ==
    ASSUME UpdateInv, Refusals, UNCHANGED incidents, WatcherSteps
    PROVE  Refusals' /\ (launcher' # launcher => updater' # "point_back")
<1> USE DEF UpdateInv, Refusals
<1>1. incidents \in Nat
  BY UpdatesAssumption DEF UpdateTypes
<1>2. PICK w \in watchers : SeeGone(w) \/ Launch(w) \/ Confirm(w) \/ NotUp(w) \/ Kill(w)
                            \/ RollBack(w) \/ Again(w)
  BY DEF WatcherSteps
<1>3. /\ w \in Watcher /\ w.parentGone /\ updater = "tick" /\ installer.at = "none"
      /\ watchers \ {w} = {} /\ \A v \in Watcher : (watchers \ {w}) \cup {v} = {v}
  BY <1>2, ShiftsAlone DEF SeeGone, Launch, Confirm, NotUp, Kill, RollBack, Again,
     WatcherAlone, InstallerGuarded, UpdateTypes
<1>4. \A to \in {"launch", "kill", "skip", "again"} : LET v == [w EXCEPT !.at = to] IN
         /\ v \in Watcher /\ v.from = w.from /\ v.build = w.build /\ v.at = to
         /\ v.parentGone /\ v.childRuns = w.childRuns
         /\ (watchers \ {w}) \cup {v} = {v}
  <2>1. \A to \in {"launch", "kill", "skip", "again"} : LET v == [w EXCEPT !.at = to] IN
         /\ v \in Watcher /\ v.from = w.from /\ v.build = w.build /\ v.at = to
         /\ v.parentGone /\ v.childRuns = w.childRuns
    BY <1>3 DEF Watcher
  <2>2. QED
    BY <1>3, <2>1
<1>5. CASE SeeGone(w) \/ Confirm(w) \/ NotUp(w)
  <2>1. UNCHANGED <<launcher, file, app, threadVars, installer>>
    BY <1>5 DEF SeeGone, Confirm, NotUp, diskVars
  <2>2. \A v \in watchers' :
           /\ v.from = w.from /\ v.build = w.build /\ v.parentGone
           /\ \/ v.at = "launch" /\ w.at = "old"
              \/ v.at = "kill" /\ w.at = "check" /\ v.childRuns = w.childRuns
    <3>1. CASE SeeGone(w)
      BY <1>4, <3>1 DEF SeeGone, Shifts
    <3>2. CASE Confirm(w)
      BY <1>3, <3>2 DEF Confirm, Done
    <3>3. CASE NotUp(w)
      BY <1>4, <3>3 DEF NotUp, Shifts
    <3>4. QED
      BY <1>5, <3>1, <3>2, <3>3
  <2>3. WatcherNotRefused'
    BY <1>2, <1>3, <2>1, <2>2 DEF WatcherNotRefused
  <2>4. QED
    BY <2>1, <2>3 DEF LauncherNotRefused, AppNotRefused, OfferNotRefused, BeforeNotRefused,
       threadVars
<1>6. CASE Launch(w)
  <2>1. /\ w.at = "launch" /\ app = NoBuild /\ launcher \in onDisk /\ Starts
        /\ UNCHANGED <<works, onDisk, launcher, stuck, threadVars, installer>>
    BY <1>3, <1>6 DEF Launch, WatcherNotRefused, WayBack
  <2>2. LauncherNotRefused' /\ AppNotRefused' /\ OfferNotRefused' /\ BeforeNotRefused'
    BY <1>3, <2>1, StartsRefusal
  <2> DEFINE v == [w EXCEPT !.at = "check", !.childRuns = TRUE]
  <2>3. v \in Watcher /\ v.from = w.from /\ v.build = w.build /\ v.childRuns
        /\ v.at = "check"
    BY <1>3 DEF Watcher
  <2>4. watchers' = {} \/ (watchers' = {v} /\ w.build # NoBuild)
    BY <1>3, <1>6, <2>1, <2>3 DEF Launch, Done
  <2>5. w.build # NoBuild => app' = w.build
    BY <2>1 DEF Starts, WatcherAlone
  <2> HIDE DEF v
  <2>6. WatcherNotRefused'
    BY <1>2, <2>3, <2>4, <2>5 DEF WatcherNotRefused
  <2>7. QED
    BY <2>1, <2>2, <2>6
<1>7. CASE Kill(w)
  <2>1. /\ w.at = "kill" /\ UNCHANGED <<launcher, installer, before>> /\ app' = NoBuild
        /\ file'.skip = file.skip /\ file'.previous = file.previous
        /\ updater' = "tick" /\ offer' \in {offer, NoBuild} /\ (goingBack' => goingBack)
    BY <1>3, <1>7 DEF Kill, Ends, WatcherNotRefused, UpdateTypes, StateFile, threadVars
  <2>2. \A v \in watchers' : v.from = w.from /\ v.build = w.build /\ v.at = "skip"
    <3> DEFINE v == [w EXCEPT !.at = "skip"]
    <3>1. v \in Watcher /\ v.from = w.from /\ v.build = w.build /\ v.at = "skip"
          /\ (watchers \ {w}) \cup {v} = {v}
      BY <1>4
    <3>2. watchers' = {v} \/ watchers' = Orphans({v})
      BY <1>7, <3>1 DEF Kill, Ends, Shifts
    <3> HIDE DEF v
    <3>3. QED
      BY <3>1, <3>2, OrphansLike
  <2>3. WatcherNotRefused'
    <3>1. w.from # w.build
      BY <1>2 DEF WatcherNotRefused
    <3>2. app' = NoBuild
      BY <2>1
    <3>3. \A v \in watchers' : v.from # v.build /\ v.at \notin {"check", "kill"}
      BY <2>2, <3>1
    <3>4. QED
      BY <3>2, <3>3 DEF WatcherNotRefused
  <2>4. QED
    BY <1>3, <2>1, <2>3 DEF LauncherNotRefused, AppNotRefused, OfferNotRefused,
       BeforeNotRefused, Installing, GoesBack
<1>8. CASE RollBack(w)
  <2> DEFINE v == [w EXCEPT !.at = "again"]
  <2>1. v.at = "again" /\ v.from = w.from /\ v.build = w.build
        /\ (watchers \ {w}) \cup {v} = {v}
    BY <1>4
  <2>2. /\ w.at = "skip" /\ UNCHANGED <<app, threadVars, installer>>
        /\ \/ watchers' = {v} /\ launcher' = w.from /\ file' = Refuse(file, w.build)
           \/ watchers' = {} /\ launcher' = launcher /\ file' = file
    BY <1>1, <1>3, <1>8, <2>1 DEF RollBack, Shifts, Done, Incident
  <2>3. /\ Refuse(file, w.build).skip = w.build /\ Refuse(file, w.build).previous = NoBuild
    <3>1. StateFile(file) /\ w.build \in {NoBuild} \cup Build
      BY <1>3 DEF UpdateTypes, Watcher
    <3>2. QED
      BY <3>1, RefuseIs
  <2>4. app = NoBuild /\ w.from # w.build
    BY <1>3, <2>2 DEF WatcherNotRefused
  <2>5. offer = NoBuild
    BY <2>4 DEF AppStays
  <2> HIDE DEF v
  <2>6. WatcherNotRefused'
    BY <2>1, <2>2, <2>4 DEF WatcherNotRefused
  <2>7. LauncherNotRefused' /\ AppNotRefused' /\ OfferNotRefused' /\ BeforeNotRefused'
    BY <1>3, <2>2, <2>3, <2>4, <2>5 DEF LauncherNotRefused, AppNotRefused, OfferNotRefused,
       BeforeNotRefused, Installing, GoesBack, threadVars
  <2>8. QED
    BY <1>3, <2>2, <2>6, <2>7 DEF threadVars
<1>9. CASE Again(w)
  <2>1. /\ app = NoBuild /\ Starts /\ watchers' = {}
        /\ UNCHANGED <<works, onDisk, launcher, stuck, threadVars, installer>>
    BY <1>3, <1>9 DEF Again, Done, WatcherNotRefused
  <2>2. LauncherNotRefused' /\ AppNotRefused' /\ OfferNotRefused' /\ BeforeNotRefused'
    BY <1>3, <2>1, StartsRefusal
  <2>3. QED
    BY <2>1, <2>2 DEF WatcherNotRefused
<1>10. QED
  BY <1>2, <1>5, <1>6, <1>7, <1>8, <1>9

\* Every step without an accident keeps refused builds out.
LEMMA NextRefusal ==
    ASSUME UpdateInv, RefusalInv, [UpdatesNext]_updatesVars
    PROVE  RefusalInv' /\ (launcher' # launcher /\ incidents' = 0 => launcher' # file'.skip)
<1> SUFFICES ASSUME incidents' = 0
             PROVE  Refusals' /\ (launcher' # launcher => updater' # "point_back")
  BY DEF RefusalInv, Refusals, LauncherNotRefused
<1>1. Refusals /\ UNCHANGED incidents
  BY NoAccident
<1>2. CASE WatcherSteps
  BY <1>1, <1>2, WatcherRefusal
<1>3. CASE InstallerSteps \/ InstallerFails
  BY <1>1, <1>3, InstallerRefusal
<1>4. CASE UpdaterSteps
  <2>1. Refusals'
    BY <1>1, <1>4, InstallRefusal, UndoRefusal, BackRefusal DEF UpdaterSteps
  <2>2. launcher' # launcher => updater' # "point_back"
    BY <1>4 DEF UpdaterSteps, Check, ReserveUpdate, SavePrevious, Installed, Manage, Relaunch,
       QuitRefused, Undo, Restore, TakeRollback, SaveBack, PointBack, RelaunchBack,
       BackRefused, Turns, diskVars
  <2>3. QED
    BY <2>1, <2>2
<1>5. CASE DieEarly \/ Quit \/ Crash \/ PowerLoss
  <2>1. Refusals'
    BY <1>1, <1>5, AppEndsRefusal
  <2>2. QED
    BY <1>5, <2>1 DEF DieEarly, Quit, Crash, PowerLoss, diskVars
<1>6. CASE StartByHand \/ ComeUp \/ Release \/ AskRollback \/ RollbackOffline
  <2>1. Refusals'
    BY <1>1, <1>6, QuietRefusal
  <2>2. QED
    BY <1>6, <2>1 DEF StartByHand, ComeUp, Release, AskRollback, RollbackOffline, diskVars
<1>7. CASE UNCHANGED updatesVars
  BY <1>1, <1>7 DEF updatesVars, diskVars, threadVars, Refusals, LauncherNotRefused,
     AppNotRefused, OfferNotRefused, BeforeNotRefused, WatcherNotRefused
<1>8. QED
  BY <1>2, <1>3, <1>4, <1>5, <1>6, <1>7 DEF UpdatesNext

\* As long as nothing crashes and no write fails, the launcher never moves to a version that
\* was rolled back from (skip_build, and going_back while the restart is refused).
THEOREM RefusedKeptOut == UpdatesSpec => RefusedStaysOut
<1>1. UpdatesInit => RefusalInv
  BY InitRefusal
<1>2. UpdateInv /\ RefusalInv /\ [UpdatesNext]_updatesVars => RefusalInv'
  BY NextRefusal
<1>3. UpdateInv /\ RefusalInv /\ [UpdatesNext]_updatesVars
      => [launcher' # launcher /\ incidents' = 0 => launcher' # file'.skip]_updatesVars
  BY NextRefusal
<1>4. QED
  BY <1>1, <1>2, <1>3, UpdateInvariant, PTL DEF UpdatesSpec, RefusedStaysOut
=============================================================================
