----------------------- MODULE DictationEngineProofs -----------------------
(***************************************************************************)
(* Proofs about DictationEngine, for any set of commands and windows, any  *)
(* number of recordings and any bound on the queues.                       *)
(***************************************************************************)
EXTENDS DictationEngine, SequenceTheorems, TLAPS

\* What the engine is blocked in agrees with the status it reports, and a
\* dictation being decoded or formatted has a number.
EngineShape ==
    /\ job \in {"decode", "clean"} => status = "Transcribing" /\ current > 0
    /\ job \in {"prepare", "switch"} => status = "Starting"
    /\ status = "Recording" => current > 0
    /\ media # "none" => status = "Transcribing" /\ job \in {"none", "exit"}

\* Transcripts wait for delivery only between a poll and the end of delivery.
UiShape ==
    /\ phase = "deliver" => completed # <<>>
    /\ phase \in {"commands", "stopping", "gone"} => completed = <<>>

\* The inductive invariant behind TypeOK and PausedOnlyWhileRecording.
ShapeInv == TypeOK /\ EngineShape /\ PausedOnlyWhileRecording /\ UiShape

-----------------------------------------------------------------------------
(* Reports and commands have their types.                                  *)

\* A typed queue has a typed head and a typed tail, and stays typed on appending.
LEMMA QueueTyped ==
    ASSUME NEW S, NEW q \in Seq(S)
    PROVE  /\ q # <<>> => Head(q) \in S /\ Tail(q) \in Seq(S)
           /\ q # <<>> => (Len(q) = 1 <=> Tail(q) = <<>>)
           /\ \A e \in S : Append(q, e) \in Seq(S)
<1>1. ASSUME q # <<>> PROVE Len(q) = 1 <=> Tail(q) = <<>>
  <2>1. Tail(q) \in Seq(S) /\ Len(Tail(q)) = Len(q) - 1 /\ Len(q) \in Nat
    BY <1>1, HeadTailProperties
  <2>2. Len(Tail(q)) = 0 <=> Tail(q) = <<>>
    BY <2>1, EmptySeq
  <2>3. QED
    BY <2>1, <2>2
<1>2. QED
  BY <1>1

\* The three kinds of report are reports.
LEMMA StatusReportTyped ==
    ASSUME NEW s \in Statuses \cup {"Error"}
    PROVE  StatusReport(s) \in Update
BY DEF StatusReport, Update, StatusUpdate

\* A FormattingBusy report is a report.
LEMMA FormattingBusyTyped ==
    ASSUME NEW b \in BOOLEAN
    PROVE  FormattingBusy(b) \in Update
BY DEF FormattingBusy, Update, BusyUpdate

\* A TranscriptReady report is a report.
LEMMA TranscriptReadyTyped ==
    ASSUME NEW s \in Session
    PROVE  TranscriptReady(s) \in Update
BY DEF TranscriptReady, Update, TranscriptUpdate

\* What each handler reports.
LEMMA ReportsTyped ==
    /\ <<>> \in Seq(Update)
    /\ <<StatusReport("Starting")>> \in Seq(Update)
    /\ <<StatusReport("Ready")>> \in Seq(Update)
    /\ <<StatusReport("Recording")>> \in Seq(Update)
    /\ <<StatusReport("Transcribing")>> \in Seq(Update)
    /\ <<StatusReport("Error")>> \in Seq(Update)
    /\ <<StatusReport("Ready"), FormattingBusy(TRUE)>> \in Seq(Update)
    /\ <<FormattingBusy(TRUE)>> \in Seq(Update)
    /\ <<FormattingBusy(FALSE), StatusReport("Ready")>> \in Seq(Update)
    /\ \A n \in Session : <<TranscriptReady(n), StatusReport("Ready")>> \in Seq(Update)
<1>1. \A s \in {"Starting", "Ready", "Recording", "Transcribing", "Error"} :
         StatusReport(s) \in Update
  BY StatusReportTyped DEF Statuses
<1>2. FormattingBusy(TRUE) \in Update /\ FormattingBusy(FALSE) \in Update
  BY FormattingBusyTyped
<1>3. \A n \in Session : TranscriptReady(n) \in Update
  BY TranscriptReadyTyped
<1>4. \A x, y \in Update : <<>> \in Seq(Update) /\ <<x>> \in Seq(Update)
                            /\ <<x, y>> \in Seq(Update)
  OBVIOUS
<1>5. \A n \in Session : <<TranscriptReady(n), StatusReport("Ready")>> \in Seq(Update)
  BY <1>1, <1>3, <1>4
<1>6. QED
  BY <1>1, <1>2, <1>4, <1>5

\* Taking a command leaves commands behind it.
LEMMA ReceiveTyped ==
    ASSUME NEW ops, cmds \in Seq(Command), Receive(ops)
    PROVE  job = "none" /\ outbox = <<>> /\ cmds' \in Seq(Command)
BY DEF Receive, Idle

-----------------------------------------------------------------------------
(* The engine's steps.                                                     *)

\* Settling a dictation keeps the history a history.
LEMMA SettleTyped ==
    ASSUME NEW s, NEW f \in Fates, fate \in [Session -> Fates], Settle(s, f)
    PROVE  fate' \in [Session -> Fates]
BY DEF Settle

\* The program starts with every field of its type and the players unpaused.
LEMMA EngineInitShape == Init => ShapeInv
<1> SUFFICES ASSUME Init PROVE ShapeInv
  OBVIOUS
<1> USE MaxSessionsAssumption
<1>1. EngineTypeOK
  <2>1. outbox \in Seq(Update) /\ cmds \in Seq(Command) /\ upds \in Seq(Update)
    BY ReportsTyped DEF Init, EngineInit, Statuses
  <2>2. fate \in [Session -> Fates] /\ discarded \subseteq Session
    BY DEF Init, EngineInit, Fates
  <2>3. current \in 0..MaxSessions /\ cancelled \in 0..MaxSessions
    BY DEF Init, EngineInit
  <2>4. /\ status \in Statuses /\ job \in Jobs
        /\ media \in {"none", "fetching", "decoding"}
    BY DEF Init, EngineInit, Statuses, Jobs
  <2>5. prep \in BOOLEAN /\ cleaner \in BOOLEAN /\ paused \in BOOLEAN
    BY DEF Init, EngineInit
  <2>6. QED
    BY <2>1, <2>2, <2>3, <2>4, <2>5 DEF EngineTypeOK
<1>2. UiTypeOK
  <2>1. stopFocus \in [Session -> Target] /\ hastyStops \subseteq Session
    BY DEF Init, UiInit, Target
  <2>2. completed \in Seq(Delivery) /\ unsaved \subseteq Session
    BY DEF Init, UiInit
  <2>3. QED
    BY <2>1, <2>2 DEF Init, UiInit, UiTypeOK, Shown, Statuses, Target
<1>3. EngineShape /\ PausedOnlyWhileRecording /\ UiShape
  BY DEF Init, EngineInit, UiInit, EngineShape, PausedOnlyWhileRecording, UiShape
<1>4. QED
  BY <1>1, <1>2, <1>3 DEF ShapeInv, TypeOK

\* Every handler of `run` keeps the invariant.
LEMMA EngineStepShape ==
    ASSUME ShapeInv, NEW shutdown \in BOOLEAN, EngineStep(shutdown)
    PROVE  EngineTypeOK' /\ EngineShape' /\ PausedOnlyWhileRecording'
<1> USE MaxSessionsAssumption, FormattingAssumption, ReportsTyped, ReceiveTyped
    DEF ShapeInv, TypeOK, EngineTypeOK, EngineShape, PausedOnlyWhileRecording,
        Statuses, Jobs, Session, Idle, Blocked, Report, sessions
<1>1. CASE Send
  BY <1>1 DEF Send
<1>2. CASE PrepareSucceeds
  BY <1>2 DEF PrepareSucceeds
<1>3. CASE PrepareFails
  BY <1>3 DEF PrepareFails
<1>4. CASE Quit
  BY <1>4 DEF Quit
<1>5. CASE Exit
  <2>1. fate' \in [Session -> Fates]
    BY <1>5, SettleTyped DEF Exit, Fates
  <2>2. cmds' \in Seq(Command)
    BY <1>5 DEF Exit
  <2>3. QED
    BY <1>5, <2>1, <2>2 DEF Exit
<1>6. CASE StartRecording
  <2>1. fate' \in [Session -> Fates]
    BY <1>6, SettleTyped DEF StartRecording, Fates
  <2>2. QED
    BY <1>6, <2>1 DEF StartRecording
<1>7. CASE StartFails
  BY <1>7 DEF StartFails
<1>8. CASE StopRecording
  BY <1>8, SettleTyped DEF StopRecording, FinishCapture, Fates
<1>9. CASE LimitReached
  BY <1>9, SettleTyped DEF LimitReached, FinishCapture, Fates
<1>10. CASE DecodeSucceeds
  BY <1>10, SettleTyped DEF DecodeSucceeds, Fates
<1>11. CASE DecodeFails
  BY <1>11, SettleTyped DEF DecodeFails, Fates
<1>12. CASE Publish
  <2>1. fate' \in [Session -> Fates]
    BY <1>12, SettleTyped DEF Publish, Fates
  <2>2. outbox' \in Seq(Update)
    BY <1>12 DEF Publish
  <2>3. QED
    BY <1>12, <2>1, <2>2 DEF Publish
<1>13. CASE CancelRecording
  <2>1. fate' \in [Session -> Fates]
    BY <1>13, SettleTyped DEF CancelRecording, Fates
  <2>2. cancelled' \in 0..MaxSessions /\ discarded' \subseteq Session
    BY <1>13 DEF CancelRecording, CancelCurrent
  <2>3. QED
    BY <1>13, <2>1, <2>2 DEF CancelRecording, CancelCurrent
<1>14. CASE BeginMedia
  BY <1>14 DEF BeginMedia
<1>15. CASE RejectMedia
  BY <1>15 DEF RejectMedia
<1>16. CASE MediaFetched
  BY <1>16 DEF MediaFetched
<1>17. CASE MediaEnds
  BY <1>17 DEF MediaEnds
<1>18. CASE BeginSwitch(shutdown)
  BY <1>18 DEF BeginSwitch
<1>19. CASE FinishSwitch
  BY <1>19 DEF FinishSwitch
<1>20. CASE BeginFormatting
  BY <1>20 DEF BeginFormatting
<1>21. CASE SaveFormatting
  BY <1>21 DEF SaveFormatting
<1>22. CASE FormattingPrepared
  BY <1>22 DEF FormattingPrepared
<1>23. CASE IgnoreCommand
  BY <1>23 DEF IgnoreCommand
<1>24. QED
  BY <1>1, <1>2, <1>3, <1>4, <1>5, <1>6, <1>7, <1>8, <1>9, <1>10, <1>11, <1>12,
     <1>13, <1>14, <1>15, <1>16, <1>17, <1>18, <1>19, <1>20, <1>21, <1>22, <1>23
     DEF EngineStep

-----------------------------------------------------------------------------
(* The loop's and the update thread's steps.                               *)

\* A report says what its kind promises.
LEMMA UpdateTyped ==
    ASSUME NEW u \in Update
    PROVE  /\ u.kind = "Status" => u.status \in Shown
           /\ u.kind = "FormattingBusy" => u.busy \in BOOLEAN
           /\ u.kind = "TranscriptReady" => u.session \in Session
BY DEF Update, StatusUpdate, BusyUpdate, TranscriptUpdate, Shown

\* Cancelling marks a dictation that has begun.
LEMMA CancelTyped ==
    ASSUME EngineTypeOK, CancelCurrent
    PROVE  /\ current' = current /\ cancelled' = current
           /\ cancelled' \in 0..MaxSessions /\ discarded' \subseteq Session
BY MaxSessionsAssumption DEF EngineTypeOK, CancelCurrent, Session

\* LinuxEngine::command keeps the invariant, whether it accepts or refuses.
LEMMA UserCommandShape ==
    ASSUME ShapeInv, NEW op \in Commands, UserCommand(op)
    PROVE  ShapeInv'
<1> USE CommandsAssumption
    DEF ShapeInv, TypeOK, EngineShape, PausedOnlyWhileRecording, UiShape, UserCommand
<1>1. CASE AcceptCommand(op)
  <2>1. UiTypeOK'
    <3>1. pasteTarget' \in Target
      BY <1>1 DEF AcceptCommand, TargetAfter, FocusAt, UiTypeOK, Target
    <3>2. stopFocus' \in [Session -> Target] /\ hastyStops' \subseteq Session
      <4>1. current \in Session \/ status # "Recording"
        BY DEF EngineTypeOK, Session
      <4>2. \A focus \in FocusAt(op) : focus \in Target
        BY DEF FocusAt, Target
      <4>3. PICK focus \in FocusAt(op) : StopTap(op, focus)
        BY <1>1 DEF AcceptCommand
      <4>4. QED
        BY <4>1, <4>2, <4>3 DEF StopTap, UiTypeOK
    <3>3. shown' \in Shown
      BY <1>1 DEF AcceptCommand, SendCommand, RestartEngine, UiTypeOK, Shown, Statuses
    <3>4. configPending' \in BOOLEAN /\ capturePending' \in BOOLEAN
          /\ quitBusy' \in BOOLEAN /\ stopSent' \in BOOLEAN
      BY <1>1 DEF AcceptCommand, UiTypeOK
    <3>5. QED
      BY <3>1, <3>2, <3>3, <3>4 DEF UiTypeOK, updateVars
  <2>2. CASE SendCommand(op)
    <3>1. cmds' \in Seq(Command)
      BY <2>2 DEF SendCommand, EngineTypeOK, Command
    <3>2. QED
      BY <2>1, <2>2, <3>1, CancelTyped DEF SendCommand, sessions, EngineTypeOK
  <2>3. CASE RestartEngine
    <3>1. outbox' \in Seq(Update) /\ upds' \in Seq(Update)
      BY <2>3, ReportsTyped DEF RestartEngine, EngineTypeOK
    <3>2. QED
      BY <2>1, <2>3, <3>1, MaxSessionsAssumption
      DEF RestartEngine, EngineTypeOK, Statuses, Jobs
  <2>4. QED
    BY <1>1, <2>2, <2>3 DEF AcceptCommand
<1>2. CASE RefuseCancel(op)
  BY <1>2, CancelTyped DEF RefuseCancel, EngineTypeOK, UiTypeOK, updateVars
<1>3. QED
  BY <1>1, <1>2

\* Quitting keeps the invariant, from the user or from the update thread.
LEMMA QuitShape ==
    ASSUME ShapeInv, NEW anyway \in BOOLEAN, HandleQuit(anyway), quitQueued' \in BOOLEAN
    PROVE  ShapeInv'
<1> USE DEF ShapeInv, TypeOK, EngineShape, PausedOnlyWhileRecording, UiShape,
        HandleQuit, sessions
<1>1. cmds' \in Seq(Command)
  <2>1. [op |-> "Quit"] \in Command
    BY DEF Command
  <2>2. cmds \in Seq(Command)
    BY DEF EngineTypeOK
  <2>3. QED
    BY <2>1, <2>2, QueueTyped DEF StopEngine
<1>2. unsaved' \subseteq Session
  BY DEF Unwritten, UiTypeOK
<1>3. phase' \in {"commands", "poll", "deliver", "stopping", "gone"} /\ UiShape'
  BY DEF StopEngine, UiTypeOK
<1>4. QED
  BY <1>1, <1>2, <1>3 DEF EngineTypeOK, UiTypeOK

\* LinuxEngine::poll keeps the invariant, whatever report it takes.
LEMMA PollShape ==
    ASSUME ShapeInv, PollStatus \/ PollFormattingBusy \/ PollTranscript
    PROVE  ShapeInv'
<1> USE DEF ShapeInv, TypeOK, EngineShape, PausedOnlyWhileRecording, UiShape,
        TakeUpdate, sessions, updateVars
<1>1. /\ Head(upds) \in Update /\ upds' \in Seq(Update)
      /\ Head(upds).kind = "Status" => Head(upds).status \in Shown
      /\ Head(upds).kind = "FormattingBusy" => Head(upds).busy \in BOOLEAN
      /\ Head(upds).kind = "TranscriptReady" => Head(upds).session \in Session
  <2>1. Head(upds) \in Update /\ upds' \in Seq(Update)
    <3>1. upds \in Seq(Update) /\ upds # <<>> /\ upds' = Tail(upds)
      BY DEF PollStatus, PollFormattingBusy, PollTranscript, EngineTypeOK
    <3>2. QED
      BY <3>1, QueueTyped
  <2>2. QED
    BY <2>1, UpdateTyped
<1>2. CASE PollStatus
  <2>1. shown' \in Shown /\ upds' \in Seq(Update)
    BY <1>1, <1>2 DEF PollStatus
  <2>2. quitBusy' \in BOOLEAN
    BY <1>2 DEF PollStatus
  <2>3. QED
    BY <1>2, <2>1, <2>2 DEF PollStatus, EngineTypeOK, UiTypeOK
<1>3. CASE PollFormattingBusy
  BY <1>1, <1>3 DEF PollFormattingBusy, EngineTypeOK, UiTypeOK
<1>4. CASE PollTranscript
  <2>1. Head(upds).session \in Session
    BY <1>1, <1>4 DEF PollTranscript
  <2>2. fate' \in [Session -> Fates]
    BY <1>4, SettleTyped DEF PollTranscript, EngineTypeOK, Fates
  <2>3. completed' \in Seq(Delivery)
    <3>1. [session |-> Head(upds).session, target |-> pasteTarget] \in Delivery
      BY <2>1 DEF Delivery, UiTypeOK
    <3>2. completed \in Seq(Delivery)
      BY DEF UiTypeOK
    <3>3. \A d \in Delivery : Append(completed, d) \in Seq(Delivery)
      BY <3>2, QueueTyped
    <3>4. CASE HandOver(Head(upds).session)
      BY <3>1, <3>3, <3>4 DEF HandOver
    <3>5. CASE UNCHANGED completed
      BY <3>2, <3>5
    <3>6. QED
      BY <1>4, <3>4, <3>5 DEF PollTranscript
  <2>4. QED
    BY <1>1, <1>4, <2>2, <2>3 DEF PollTranscript, EngineTypeOK, UiTypeOK, Target
<1>5. QED
  BY <1>2, <1>3, <1>4

\* Delivering and saving a transcript keep the invariant.
LEMMA DeliverShape ==
    ASSUME ShapeInv, Deliver
    PROVE  ShapeInv'
<1> USE DEF ShapeInv, TypeOK, EngineShape, PausedOnlyWhileRecording, UiShape,
        Deliver, sessions, updateVars
<1>1. fate' \in [Session -> Fates]
  BY SettleTyped DEF EngineTypeOK, Fates
<1>2. completed \in Seq(Delivery) /\ completed # <<>>
  BY DEF UiTypeOK
<1>3. Head(completed).session \in Session /\ completed' \in Seq(Delivery)
  <2>1. Head(completed) \in Delivery /\ completed' \in Seq(Delivery)
    BY <1>2, QueueTyped
  <2>2. QED
    BY <2>1 DEF Delivery
<1>4. phase' \in {"commands", "deliver"} /\ UiShape'
  <2>1. Len(completed) = 1 <=> Tail(completed) = <<>>
    BY <1>2, QueueTyped
  <2>2. QED
    BY <2>1
<1>5. unsaved' \subseteq Session
  BY <1>3 DEF Unwritten, UiTypeOK
<1>6. QED
  BY <1>1, <1>3, <1>4, <1>5 DEF EngineTypeOK, UiTypeOK

\* Every step of the program keeps the invariant.
LEMMA NextShape ==
    ASSUME ShapeInv, [Next]_vars
    PROVE  ShapeInv'
<1> USE DEF ShapeInv, TypeOK
<1>1. CASE Engine
  <2>1. UiTypeOK' /\ UiShape'
    BY <1>1 DEF Engine, uiVars, updateVars, UiTypeOK, UiShape
  <2>2. QED
    BY <1>1, <2>1, EngineStepShape DEF Engine
<1>2. ASSUME NEW op \in Commands, UserCommand(op) PROVE ShapeInv'
  BY <1>2, UserCommandShape
<1>3. CASE UserQuit
  BY <1>3, QuitShape DEF UserQuit, UiTypeOK
<1>4. CASE UpdaterQuit
  BY <1>4, QuitShape DEF UpdaterQuit
<1>5. CASE PollStatus \/ PollFormattingBusy \/ PollTranscript
  BY <1>5, PollShape
<1>6. CASE Deliver
  BY <1>6, DeliverShape
<1>7. CASE RetryUnsaved \/ Gone \/ BeginPoll \/ EndPoll
  <2>1. unsaved' \subseteq Session
    BY <1>7 DEF RetryUnsaved, Gone, BeginPoll, EndPoll, Unwritten, UiTypeOK
  <2>2. QED
    BY <1>7, <2>1 DEF RetryUnsaved, Gone, BeginPoll, EndPoll, AfterPoll, engineVars,
       updateVars, EngineTypeOK, UiTypeOK, EngineShape, PausedOnlyWhileRecording, UiShape
<1>8. CASE Updater \/ UNCHANGED vars
  <2>1. UNCHANGED engineVars /\ UNCHANGED uiVars
    BY <1>8 DEF Updater, Reserve, Release, Restart, vars
  <2>2. /\ install' \in {"none", "installing", "restarting"}
        /\ quitQueued' \in BOOLEAN
    BY <1>8 DEF Updater, Reserve, Release, Restart, vars, updateVars, UiTypeOK
  <2>3. EngineTypeOK' /\ EngineShape' /\ PausedOnlyWhileRecording'
    BY <2>1 DEF engineVars, EngineTypeOK, EngineShape, PausedOnlyWhileRecording
  <2>4. QED
    BY <2>1, <2>2, <2>3 DEF uiVars, UiTypeOK, UiShape
<1>9. QED
  BY <1>1, <1>2, <1>3, <1>4, <1>5, <1>6, <1>7, <1>8 DEF Next, Loop

\* In every reachable state the fields have their types, the session numbers agree
\* with the histories, and the players are paused only while recording.
THEOREM ShapeInvariant == Spec => []ShapeInv
BY EngineInitShape, NextShape, PTL DEF Spec

\* Every variable keeps to its type.
THEOREM TypeCorrect == Spec => []TypeOK
<1>1. ShapeInv => TypeOK
  BY DEF ShapeInv
<1>2. QED
  BY <1>1, ShapeInvariant, PTL

\* Media players are paused only while the microphone records (runtime.rs, `run`).
THEOREM PauseCorrect == Spec => []PausedOnlyWhileRecording
<1>1. ShapeInv => PausedOnlyWhileRecording
  BY DEF ShapeInv
<1>2. QED
  BY <1>1, ShapeInvariant, PTL

-----------------------------------------------------------------------------
(* Cancelling.                                                             *)

Leaving == phase \in {"stopping", "gone"}

\* A Cancel is remembered for the latest dictation: it is overwritten only by the
\* next Cancel, and a new dictation is not yet marked.
CancelRemembered ==
    /\ discarded \subseteq 1..current
    /\ current \in discarded => cancelled = current

\* What is being delivered is in the list the loop works through.
HandedOver ==
    \A s \in Session :
        fate[s] = "delivering" => \E i \in DOMAIN completed : completed[i].session = s

\* Until the loop quits, an engine that starts, or has ended, recorded nothing:
\* the engine that takes its place numbers its dictations from 1 again.
NoneBeforeStart ==
    /\ job = "prepare" => current = 0
    /\ job \in {"exit", "dead"} /\ ~Leaving => current = 0
    /\ \A i \in DOMAIN cmds : cmds[i].op = "Quit" => Leaving

\* The inductive invariant behind LatestCancelHolds.
CancelInv ==
    ShapeInv /\ CancelRemembered /\ HandedOver /\ NoneBeforeStart /\ LatestCancelHolds

\* No dictation is cancelled or under way when the program starts.
LEMMA EngineInitCancel == Init => CancelInv
<1> SUFFICES ASSUME Init PROVE CancelInv
  OBVIOUS
<1>1. fate = [s \in Session |-> "unused"]
  BY DEF Init, EngineInit
<1>2. CancelRemembered /\ NoneBeforeStart
  BY DEF Init, EngineInit, CancelRemembered, NoneBeforeStart
<1>3. HandedOver
  BY <1>1 DEF HandedOver
<1>4. LatestCancelHolds
  BY DEF Init, EngineInit, LatestCancelHolds
<1>5. QED
  BY <1>2, <1>3, <1>4, EngineInitShape DEF CancelInv

\* What an engine step may do to the commands, the dictations and its own job.
EngineEffect(shutdown) ==
    /\ cmds' = cmds \/ (cmds # <<>> /\ cmds' = Tail(cmds)) \/ cmds' = <<>>
    /\ \A s \in Session : fate'[s] = "delivering" => fate[s] = "delivering"
    /\ UNCHANGED sessions \/ StartRecording \/ CancelRecording
    /\ job' = "prepare" => job = "prepare"
    /\ job' \in {"exit", "dead"} =>
         \/ job \in {"exit", "dead", "prepare"}
         \/ cmds # <<>> /\ Head(cmds).op = "Quit"
         \/ shutdown

\* What an engine step may do to the dictations and their marks.
LEMMA EngineEffects ==
    ASSUME EngineTypeOK, NEW shutdown \in BOOLEAN, EngineStep(shutdown)
    PROVE  EngineEffect(shutdown)
<1> USE DEF EngineEffect, EngineTypeOK, Receive, Idle, Blocked, Report, sessions, Settle
<1>1. CASE Send \/ PrepareSucceeds \/ PrepareFails
  BY <1>1 DEF Send, PrepareSucceeds, PrepareFails
<1>2. CASE Quit \/ Exit
  BY <1>2 DEF Quit, Exit
<1>3. CASE StartRecording \/ StartFails
  BY <1>3 DEF StartRecording, StartFails
<1>4. CASE StopRecording \/ LimitReached
  BY <1>4 DEF StopRecording, LimitReached, FinishCapture
<1>5. CASE DecodeSucceeds \/ DecodeFails \/ Publish
  BY <1>5 DEF DecodeSucceeds, DecodeFails, Publish
<1>6. CASE CancelRecording
  BY <1>6 DEF CancelRecording, CancelCurrent
<1>7. CASE BeginMedia \/ RejectMedia \/ MediaFetched \/ MediaEnds
  BY <1>7 DEF BeginMedia, RejectMedia, MediaFetched, MediaEnds
<1>8. CASE BeginSwitch(shutdown) \/ FinishSwitch
  BY <1>8 DEF BeginSwitch, FinishSwitch
<1>9. CASE BeginFormatting \/ SaveFormatting \/ FormattingPrepared \/ IgnoreCommand
  BY <1>9 DEF BeginFormatting, SaveFormatting, FormattingPrepared, IgnoreCommand
<1>10. QED
  BY <1>1, <1>2, <1>3, <1>4, <1>5, <1>6, <1>7, <1>8, <1>9 DEF EngineStep

\* Every handler of `run` keeps the invariant of cancellation.
LEMMA EngineStepCancel ==
    ASSUME CancelInv, Engine
    PROVE  CancelRemembered' /\ HandedOver' /\ NoneBeforeStart' /\ LatestCancelHolds'
<1> USE MaxSessionsAssumption DEF CancelInv, ShapeInv, TypeOK
<1>1. EngineEffect(phase = "stopping") /\ UNCHANGED uiVars
  BY EngineEffects DEF Engine
<1>2. HandedOver'
  BY <1>1 DEF EngineEffect, HandedOver, uiVars
<1>3. \A i \in DOMAIN cmds' : cmds'[i].op = "Quit" => Leaving'
  <2>1. CASE cmds # <<>> /\ cmds' = Tail(cmds)
    <3>1. cmds \in Seq(Command)
      BY DEF EngineTypeOK
    <3>2. \A i \in DOMAIN Tail(cmds) :
             i + 1 \in DOMAIN cmds /\ Tail(cmds)[i] = cmds[i + 1]
      BY <2>1, <3>1
    <3>3. QED
      BY <1>1, <2>1, <3>2 DEF NoneBeforeStart, Leaving, uiVars
  <2>2. QED
    BY <1>1, <2>1 DEF EngineEffect, NoneBeforeStart, Leaving, uiVars
<1>4. cmds # <<>> /\ Head(cmds).op = "Quit" => Leaving
  <2>1. cmds # <<>> => 1 \in DOMAIN cmds /\ Head(cmds) = cmds[1]
    BY DEF EngineTypeOK
  <2>2. QED
    BY <2>1 DEF NoneBeforeStart
<1>5. CASE UNCHANGED sessions
  <2>1. CancelRemembered'
    BY <1>5 DEF CancelRemembered, sessions
  <2>2. LatestCancelHolds'
    BY <1>1, <1>5 DEF EngineEffect, LatestCancelHolds, sessions, EngineTypeOK, Session
  <2>3. NoneBeforeStart'
    BY <1>1, <1>3, <1>4, <1>5
    DEF EngineEffect, NoneBeforeStart, Leaving, uiVars, sessions
  <2>4. QED
    BY <1>2, <2>1, <2>2, <2>3
<1>6. CASE StartRecording
  <2>1. /\ current' = current + 1 /\ current + 1 \in Session /\ job' = "none"
        /\ fate'[current + 1] = "recording"
        /\ cancelled' = cancelled /\ discarded' = discarded
    BY <1>6 DEF StartRecording, Receive, Idle, Settle, EngineTypeOK, Session
  <2>2. CancelRemembered' /\ current' \notin discarded'
    BY <2>1 DEF CancelRemembered, EngineTypeOK
  <2>3. QED
    BY <1>2, <1>3, <2>1, <2>2 DEF NoneBeforeStart, LatestCancelHolds
<1>7. CASE CancelRecording
  <2>1. /\ current' = current /\ current \in Session /\ job' = "none"
        /\ fate'[current] = "ended"
        /\ cancelled' = current /\ discarded' = discarded \cup {current}
    BY <1>7 DEF CancelRecording, CancelCurrent, Receive, Idle, Settle, EngineTypeOK,
       EngineShape, Session
  <2>2. CancelRemembered'
    BY <2>1 DEF CancelRemembered, EngineTypeOK, Session
  <2>3. QED
    BY <1>2, <1>3, <2>1, <2>2 DEF NoneBeforeStart, LatestCancelHolds
<1>8. QED
  BY <1>1, <1>2, <1>5, <1>6, <1>7 DEF EngineEffect

\* LinuxEngine::command keeps the invariant of cancellation.
LEMMA UserCommandCancel ==
    ASSUME CancelInv, NEW op \in Commands, UserCommand(op)
    PROVE  CancelRemembered' /\ HandedOver' /\ NoneBeforeStart' /\ LatestCancelHolds'
<1> USE CommandsAssumption, MaxSessionsAssumption
    DEF CancelInv, ShapeInv, TypeOK, UserCommand
<1>1. /\ fate' = fate /\ completed' = completed /\ completed = <<>>
      /\ phase' = phase /\ ~Leaving
  BY DEF AcceptCommand, SendCommand, RestartEngine, RefuseCancel, UiShape, Leaving
<1>2. \A s \in Session : fate[s] # "delivering"
  BY <1>1 DEF HandedOver
<1>3. HandedOver' /\ ~Leaving'
  BY <1>1, <1>2 DEF HandedOver, Leaving
<1>4. LatestCancelHolds'
  <2>1. current' \in 0..MaxSessions
    BY UserCommandShape DEF EngineTypeOK
  <2>2. QED
    BY <1>1, <1>2, <2>1 DEF LatestCancelHolds, Session
<1>5. \A i \in DOMAIN cmds' : cmds'[i].op # "Quit"
  <2>1. \A i \in DOMAIN cmds : cmds[i].op # "Quit"
    BY <1>1 DEF NoneBeforeStart
  <2>2. CASE SendCommand(op)
    <3>1. PICK c : c.op = op /\ cmds' = Append(cmds, c)
      BY <2>2 DEF SendCommand
    <3>2. \A i \in DOMAIN cmds' :
             \/ i \in DOMAIN cmds /\ cmds'[i] = cmds[i]
             \/ cmds'[i] = c
      BY <3>1 DEF EngineTypeOK
    <3>3. QED
      BY <2>1, <3>1, <3>2 DEF UserOps, DictationOps, CaptureOps, FormatOps, MediaOps
  <2>3. QED
    BY <2>1, <2>2 DEF AcceptCommand, RestartEngine, RefuseCancel
<1>6. CASE CancelCurrent /\ job' = job
  <2>1. current' = current /\ cancelled' = current
        /\ discarded' = discarded \cup ({current} \ {0})
    BY <1>6 DEF CancelCurrent
  <2>2. CancelRemembered'
    BY <2>1 DEF CancelRemembered, EngineTypeOK
  <2>3. QED
    BY <1>1, <1>3, <1>4, <1>5, <1>6, <2>1, <2>2 DEF NoneBeforeStart
<1>7. CASE UNCHANGED sessions /\ job' = job
  BY <1>1, <1>3, <1>4, <1>5, <1>7 DEF CancelRemembered, NoneBeforeStart, sessions
<1>8. CASE RestartEngine
  <2>1. current = 0 /\ current' = 0 /\ discarded' = discarded
    BY <1>1, <1>8 DEF RestartEngine, NoneBeforeStart
  <2>2. CancelRemembered'
    BY <2>1 DEF CancelRemembered
  <2>3. QED
    BY <1>3, <1>4, <1>5, <2>1, <2>2 DEF NoneBeforeStart
<1>9. QED
  BY <1>6, <1>7, <1>8 DEF AcceptCommand, SendCommand, RefuseCancel

\* Taking a transcript from the channel keeps it: a cancelled one is dropped.
LEMMA PollTranscriptCancel ==
    ASSUME CancelInv, PollTranscript
    PROVE  HandedOver' /\ LatestCancelHolds'
<1> USE DEF CancelInv, ShapeInv, TypeOK
<1> DEFINE s == Head(upds).session
           d == [session |-> s, target |-> pasteTarget]
<1>1. CASE fate' = [fate EXCEPT ![s] = "ended"] /\ UNCHANGED completed
  BY <1>1 DEF HandedOver, LatestCancelHolds, PollTranscript, TakeUpdate, sessions,
     EngineTypeOK, Session
<1>2. CASE /\ ~IsCancelled(s) /\ s \in Session
           /\ fate' = [fate EXCEPT ![s] = "delivering"]
           /\ completed' = Append(completed, d)
  <2>1. completed \in Seq(Delivery)
    BY DEF UiTypeOK
  <2>2. /\ \A i \in DOMAIN completed : i \in DOMAIN completed' /\ completed'[i] = completed[i]
        /\ \E i \in DOMAIN completed' : completed'[i] = d
    BY <1>2, <2>1
  <2>3. HandedOver'
    BY <1>2, <2>2 DEF HandedOver, EngineTypeOK
  <2>4. s = current => current \notin discarded
    BY <1>2 DEF IsCancelled, CancelRemembered, Session
  <2>5. LatestCancelHolds'
    BY <1>2, <2>4 DEF LatestCancelHolds, PollTranscript, TakeUpdate, sessions,
       EngineTypeOK, Session
  <2>6. QED
    BY <2>3, <2>5
<1>3. s \in Session
  <2>1. Head(upds) \in Update
    BY QueueTyped DEF PollTranscript, TakeUpdate, EngineTypeOK
  <2>2. QED
    BY <2>1, UpdateTyped DEF PollTranscript, TakeUpdate
<1>4. QED
  BY <1>1, <1>2, <1>3 DEF PollTranscript, Settle, HandOver

\* Delivering keeps it: only transcripts already handed over are delivered.
LEMMA DeliverCancel ==
    ASSUME CancelInv, Deliver
    PROVE  HandedOver' /\ LatestCancelHolds'
<1> USE DEF CancelInv, ShapeInv, TypeOK, Deliver
<1> DEFINE s == Head(completed).session
<1>1. \A t \in Session : fate'[t] = "delivering" => fate[t] = "delivering" /\ t # s
  BY DEF Settle, EngineTypeOK
<1>2. /\ completed \in Seq(Delivery) /\ completed # <<>>
      /\ completed' = Tail(completed)
  BY DEF UiTypeOK, UiShape
<1>3. \A i \in DOMAIN completed :
         i # 1 => i - 1 \in DOMAIN completed' /\ completed'[i - 1] = completed[i]
  BY <1>2
<1>4. completed[1].session = s
  BY <1>2
<1>5. HandedOver'
  BY <1>1, <1>3, <1>4 DEF HandedOver
<1>6. LatestCancelHolds'
  BY <1>1 DEF LatestCancelHolds, sessions, EngineTypeOK, Session
<1>7. QED
  BY <1>5, <1>6

\* HandleQuit and what leaves the engine and the list alone.
LEMMA QuitCancel ==
    ASSUME CancelInv, NEW anyway \in BOOLEAN, HandleQuit(anyway)
    PROVE  CancelRemembered' /\ HandedOver' /\ NoneBeforeStart' /\ LatestCancelHolds'
<1> USE DEF CancelInv, ShapeInv, TypeOK, HandleQuit, sessions
<1>1. CancelRemembered' /\ HandedOver' /\ LatestCancelHolds'
  BY DEF CancelRemembered, HandedOver, LatestCancelHolds
<1>2. CASE phase' = phase /\ cmds' = cmds
  BY <1>1, <1>2 DEF NoneBeforeStart, Leaving
<1>3. CASE phase' = "stopping"
  BY <1>1, <1>3 DEF NoneBeforeStart, Leaving
<1>4. QED
  BY <1>2, <1>3 DEF StopEngine

\* Every step of the program keeps the invariant of cancellation.
LEMMA NextCancel ==
    ASSUME CancelInv, [Next]_vars
    PROVE  CancelInv'
<1>1. ShapeInv'
  BY NextShape DEF CancelInv
<1>2. CASE Engine
  BY <1>1, <1>2, EngineStepCancel DEF CancelInv
<1>3. ASSUME NEW op \in Commands, UserCommand(op) PROVE CancelInv'
  BY <1>1, <1>3, UserCommandCancel DEF CancelInv
<1>4. CASE UserQuit \/ UpdaterQuit
  BY <1>1, <1>4, QuitCancel DEF CancelInv, UserQuit, UpdaterQuit
<1>5. CASE PollTranscript
  <2>1. CancelRemembered' /\ NoneBeforeStart'
    BY <1>5 DEF CancelInv, CancelRemembered, NoneBeforeStart, Leaving, PollTranscript,
       TakeUpdate, sessions
  <2>2. QED
    BY <1>1, <1>5, <2>1, PollTranscriptCancel DEF CancelInv
<1>6. CASE Deliver
  <2>1. CancelRemembered' /\ NoneBeforeStart'
    BY <1>6 DEF CancelInv, ShapeInv, TypeOK, UiTypeOK, CancelRemembered, NoneBeforeStart,
       Leaving, Deliver, sessions
  <2>2. QED
    BY <1>1, <1>6, <2>1, DeliverCancel DEF CancelInv
<1>7. CASE /\ UNCHANGED <<job, cmds, fate, current, cancelled, discarded, completed>>
           /\ Leaving => Leaving'
  BY <1>1, <1>7 DEF CancelInv, CancelRemembered, HandedOver, NoneBeforeStart, LatestCancelHolds
<1>8. CASE PollStatus \/ PollFormattingBusy
  BY <1>7, <1>8 DEF PollStatus, PollFormattingBusy, TakeUpdate, sessions, Leaving
<1>9. CASE RetryUnsaved \/ Gone \/ BeginPoll \/ EndPoll
  BY <1>7, <1>9 DEF RetryUnsaved, Gone, BeginPoll, EndPoll, engineVars, Leaving
<1>10. CASE Updater \/ UNCHANGED vars
  BY <1>7, <1>10 DEF Updater, Reserve, Release, Restart, vars, engineVars, uiVars, Leaving
<1>11. QED
  BY <1>2, <1>3, <1>4, <1>5, <1>6, <1>8, <1>9, <1>10 DEF Next, Loop

\* Cancelling the latest dictation holds wherever it is by then (runtime.rs,
\* DictationSessions; linux.rs, LinuxEngine::poll).
THEOREM CancelCorrect == Spec => []LatestCancelHolds
<1>1. CancelInv => LatestCancelHolds
  BY DEF CancelInv
<1>2. QED
  BY <1>1, EngineInitCancel, NextCancel, PTL DEF Spec

-----------------------------------------------------------------------------
(* The channel of reports.                                                 *)

\* Every report of the engine that the loop has not taken, in order.
Pending == upds \o outbox

\* The reports under way are a queue of reports.
LEMMA PendingTyped ==
    ASSUME EngineTypeOK
    PROVE  /\ Pending \in Seq(Update) /\ Len(Pending) \in Nat
           /\ DOMAIN Pending = 1..Len(Pending)
           /\ \A i \in DOMAIN Pending : Pending[i] \in Update
           /\ Pending = <<>> <=> upds = <<>> /\ outbox = <<>>
BY ConcatEqualIffEmpty DEF Pending, EngineTypeOK

\* Sending a report leaves the reports under way as they are.
LEMMA SendKeepsPending ==
    ASSUME EngineTypeOK, Send
    PROVE  Pending' = Pending
<1>1. upds \in Seq(Update) /\ outbox \in Seq(Update) /\ outbox # <<>>
  BY DEF EngineTypeOK, Send
<1>2. Head(outbox) \in Update /\ Tail(outbox) \in Seq(Update)
  BY <1>1, HeadTailProperties
<1>3. <<Head(outbox)>> \in Seq(Update) /\ Append(upds, Head(outbox)) = upds \o <<Head(outbox)>>
  BY <1>1, <1>2, AppendIsConcat
<1>4. <<Head(outbox)>> \o Tail(outbox) = outbox
  <2>1. /\ <<Head(outbox)>> \o Tail(outbox) \in Seq(Update)
        /\ Len(<<Head(outbox)>> \o Tail(outbox)) = Len(outbox)
        /\ \A i \in 1..Len(outbox) : (<<Head(outbox)>> \o Tail(outbox))[i] = outbox[i]
    BY <1>1, <1>2
  <2>2. QED
    BY <1>1, <2>1, SeqEqual
<1>5. QED
  BY <1>1, <1>2, <1>3, <1>4, ConcatAssociative DEF Send, Pending

\* A handler's reports come after all others.
LEMMA ReportsQueue ==
    ASSUME EngineTypeOK, EngineTypeOK', outbox = <<>>, upds' = upds
    PROVE  /\ Len(Pending') = Len(Pending) + Len(outbox')
           /\ DOMAIN Pending' = 1..Len(Pending')
           /\ \A i \in DOMAIN Pending : i \in DOMAIN Pending' /\ Pending'[i] = Pending[i]
           /\ \A k \in DOMAIN outbox' : /\ Len(Pending) + k \in DOMAIN Pending'
                                        /\ Pending'[Len(Pending) + k] = outbox'[k]
           /\ \A i \in DOMAIN Pending' : i \notin DOMAIN Pending =>
                \E k \in DOMAIN outbox' : i = Len(Pending) + k
<1>1. upds \in Seq(Update) /\ outbox' \in Seq(Update)
  BY DEF EngineTypeOK
<1>2. Pending = upds /\ Pending' = upds \o outbox'
  BY <1>1 DEF Pending
<1>3. /\ Len(Pending') = Len(upds) + Len(outbox') /\ DOMAIN Pending' = 1..Len(Pending')
      /\ DOMAIN Pending = 1..Len(upds) /\ DOMAIN outbox' = 1..Len(outbox')
      /\ Len(upds) \in Nat /\ Len(outbox') \in Nat
  BY <1>1, <1>2
<1>4. \A i \in 1..Len(upds) + Len(outbox') :
         Pending'[i] = IF i <= Len(upds) THEN upds[i] ELSE outbox'[i - Len(upds)]
  BY <1>1, <1>2
<1>5. \A i \in DOMAIN Pending' : i \notin DOMAIN Pending =>
         i - Len(upds) \in DOMAIN outbox' /\ i = Len(upds) + (i - Len(upds))
  BY <1>3
<1>6. QED
  BY <1>2, <1>3, <1>4, <1>5

\* Without its head, a queue has lost its first element and kept the others.
LEMMA TailShape ==
    ASSUME NEW S, NEW q \in Seq(S), q # <<>>
    PROVE  /\ DOMAIN q = 1..Len(q) /\ Len(q) \in Nat \ {0} /\ q[1] = Head(q)
           /\ Tail(q) \in Seq(S) /\ Len(Tail(q)) = Len(q) - 1
           /\ DOMAIN Tail(q) = 1..Len(Tail(q))
           /\ \A i \in DOMAIN Tail(q) : i + 1 \in DOMAIN q /\ Tail(q)[i] = q[i + 1]
           /\ \A i \in DOMAIN q : i > 1 => i - 1 \in DOMAIN Tail(q) /\ Tail(q)[i - 1] = q[i]
<1>1. DOMAIN q = 1..Len(q) /\ Len(q) \in Nat \ {0} /\ q[1] = Head(q)
  BY EmptySeq
<1>2. /\ Tail(q) \in Seq(S) /\ Len(Tail(q)) = Len(q) - 1
      /\ \A i \in 1..Len(Tail(q)) : Tail(q)[i] = q[i + 1]
  BY HeadTailProperties
<1>3. DOMAIN Tail(q) = 1..Len(Tail(q))
  BY <1>2
<1>4. QED
  BY <1>1, <1>2, <1>3

\* Taking a report takes the first of those under way.
LEMMA PollTakes ==
    ASSUME EngineTypeOK, upds # <<>>, upds' = Tail(upds), outbox' = outbox
    PROVE  /\ Pending \in Seq(Update) /\ Pending # <<>>
           /\ Pending' = Tail(Pending) /\ Head(Pending) = Head(upds)
<1>1. upds \in Seq(Update) /\ outbox \in Seq(Update)
  BY DEF EngineTypeOK
<1>2. Head(upds) \in Update /\ Tail(upds) \in Seq(Update)
  BY <1>1, HeadTailProperties
<1>3. /\ DOMAIN upds = 1..Len(upds) /\ Len(upds) \in Nat \ {0}
      /\ Len(Tail(upds)) = Len(upds) - 1
      /\ \A i \in 1..Len(upds) - 1 : Tail(upds)[i] = upds[i + 1]
  BY <1>1, TailShape
<1>4. /\ Pending \in Seq(Update) /\ Len(Pending) = Len(upds) + Len(outbox)
      /\ \A i \in 1..Len(Pending) :
           Pending[i] = IF i <= Len(upds) THEN upds[i] ELSE outbox[i - Len(upds)]
  BY <1>1, ConcatProperties DEF Pending
<1>5. Len(outbox) \in Nat
  BY <1>1
<1>6. Pending # <<>> /\ Head(Pending) = Head(upds)
  BY <1>1, <1>3, <1>4, <1>5
<1>7. /\ Tail(Pending) \in Seq(Update) /\ Len(Tail(Pending)) = Len(Pending) - 1
      /\ \A i \in 1..Len(Pending) - 1 : Tail(Pending)[i] = Pending[i + 1]
  BY <1>4, <1>6, TailShape
<1>8. /\ Tail(upds) \o outbox \in Seq(Update)
      /\ Len(Tail(upds) \o outbox) = Len(upds) - 1 + Len(outbox)
      /\ \A i \in 1..Len(upds) - 1 + Len(outbox) :
           (Tail(upds) \o outbox)[i] = IF i <= Len(upds) - 1 THEN Tail(upds)[i]
                                       ELSE outbox[i - (Len(upds) - 1)]
  BY <1>1, <1>2, <1>3, ConcatProperties
<1>9. \A i \in 1..Len(Tail(Pending)) : Tail(Pending)[i] = (Tail(upds) \o outbox)[i]
  BY <1>3, <1>4, <1>5, <1>7, <1>8
<1>10. Len(Tail(Pending)) = Len(Tail(upds) \o outbox)
  BY <1>3, <1>4, <1>5, <1>7, <1>8
<1>11. Tail(Pending) = Tail(upds) \o outbox
  BY <1>7, <1>8, <1>9, <1>10, SeqEqual
<1>12. QED
  BY <1>4, <1>6, <1>11 DEF Pending

-----------------------------------------------------------------------------
(* What the loop shows.                                                    *)

\* A status that agrees with what the engine does.
Truth(s) ==
    \/ s = status /\ (job \in {"exit", "dead"} => Leaving)
    \/ s = "Error" /\ (status = "Ready" \/ job \in {"exit", "dead"})

IsStatus(u) == u.kind = "Status"

\* The last status under way, or with none under way the one that is shown, agrees
\* with the engine.
LastWord ==
    \/ (\A i \in DOMAIN Pending : ~IsStatus(Pending[i])) /\ Truth(shown)
    \/ \E i \in DOMAIN Pending :
         /\ IsStatus(Pending[i]) /\ Truth(Pending[i].status)
         /\ \A j \in DOMAIN Pending : j > i => ~IsStatus(Pending[j])

\* An engine that takes commands is past its start.
AtRest == job = "none" => status # "Starting"

\* Until the loop quits, an engine that starts or has ended never was Ready.
NeverReady ==
    job \in {"prepare", "exit", "dead"} /\ ~Leaving =>
        /\ shown \in {"Starting", "Error"} /\ ~capturePending /\ ~prep
        /\ configPending => MediaOps \cap Commands # {}
        /\ \A i \in DOMAIN Pending :
             IsStatus(Pending[i]) /\ Pending[i].status \in {"Starting", "Error"}

\* The inductive invariant behind ViewCatchesUp.
ViewInv == CancelInv /\ LastWord /\ AtRest /\ NeverReady

\* The last status among a handler's reports agrees with the engine.
OutboxTells ==
    \E k \in DOMAIN outbox :
        /\ IsStatus(outbox[k]) /\ Truth(outbox[k].status)
        /\ \A j \in DOMAIN outbox : j > k => ~IsStatus(outbox[j])

\* A handler that reports no status leaves what the engine does as it was.
KeepsStatus ==
    /\ \A k \in DOMAIN outbox' : ~IsStatus(outbox'[k])
    /\ status' = status
    /\ job' \in {"exit", "dead"} => Leaving \/ job \in {"exit", "dead"}
    /\ job \in {"exit", "dead"} => job' \in {"exit", "dead"}

\* Every handler sends, or has its reports sent after all others.
LEMMA EngineReports ==
    ASSUME ViewInv, Engine
    PROVE  \/ Send
           \/ outbox = <<>> /\ upds' = upds /\ (OutboxTells' \/ KeepsStatus)
<1>1. UNCHANGED uiVars /\ Leaving' = Leaving /\ EngineStep(phase = "stopping")
  BY DEF Engine, uiVars, Leaving
<1>2. phase = "stopping" => Leaving
  BY DEF Leaving
<1>3. cmds # <<>> /\ Head(cmds).op = "Quit" => Leaving
  <2>1. cmds # <<>> => 1 \in DOMAIN cmds /\ Head(cmds) = cmds[1]
    BY DEF ViewInv, CancelInv, ShapeInv, TypeOK, EngineTypeOK
  <2>2. QED
    BY <2>1 DEF ViewInv, CancelInv, NoneBeforeStart
<1>4. EngineShape
  BY DEF ViewInv, CancelInv, ShapeInv
<1>5. \A s \in Shown : Truth(s)' /\ outbox' = <<StatusReport(s)>> => OutboxTells'
  <2>1. ASSUME NEW s \in Shown, Truth(s)', outbox' = <<StatusReport(s)>>
        PROVE  OutboxTells'
    <3>1. DOMAIN outbox' = {1} /\ outbox'[1] = StatusReport(s)
      BY <2>1
    <3>2. IsStatus(outbox'[1]) /\ outbox'[1].status = s
      BY <3>1 DEF IsStatus, StatusReport
    <3>3. Truth(outbox[1].status)'
      BY <2>1, <3>2 DEF Truth
    <3>4. QED
      BY <3>1, <3>2, <3>3 DEF OutboxTells
  <2>2. QED
    BY <2>1
<1>6. ASSUME status' = "Ready", job' = "none", DOMAIN outbox' = 1..2,
             \/ outbox'[2] = StatusReport("Ready")
             \/ outbox'[1] = StatusReport("Ready") /\ outbox'[2] = FormattingBusy(TRUE)
      PROVE  OutboxTells'
  <2>1. CASE outbox'[2] = StatusReport("Ready")
    <3>1. IsStatus(outbox'[2]) /\ outbox'[2].status = "Ready"
      BY <2>1 DEF IsStatus, StatusReport
    <3>2. Truth(outbox[2].status)'
      BY <1>6, <3>1 DEF Truth
    <3>3. 2 \in DOMAIN outbox' /\ \A j \in DOMAIN outbox' : ~(j > 2)
      BY <1>6
    <3>4. QED
      BY <3>1, <3>2, <3>3 DEF OutboxTells
  <2>2. CASE outbox'[1] = StatusReport("Ready") /\ outbox'[2] = FormattingBusy(TRUE)
    <3>1. IsStatus(outbox'[1]) /\ outbox'[1].status = "Ready" /\ ~IsStatus(outbox'[2])
      BY <2>2 DEF IsStatus, StatusReport, FormattingBusy
    <3>2. Truth(outbox[1].status)'
      BY <1>6, <3>1 DEF Truth
    <3>3. 1 \in DOMAIN outbox' /\ \A j \in DOMAIN outbox' : j > 1 => j = 2
      BY <1>6
    <3>4. QED
      BY <3>1, <3>2, <3>3 DEF OutboxTells
  <2>3. QED
    BY <1>6, <2>1, <2>2
<1>7. FormattingBusy(TRUE).kind # "Status"
  BY DEF FormattingBusy
<1> USE DEF Receive, Idle, Blocked, Report, KeepsStatus, Truth, Shown, Statuses
<1>8. CASE Send
  BY <1>8
<1>9. CASE PrepareSucceeds
  <2>1. status' = "Ready" /\ job' = "none" /\ outbox = <<>> /\ upds' = upds
    BY <1>9 DEF PrepareSucceeds
  <2>2. CASE FormattingEnabled
    <3>1. outbox' = <<StatusReport("Ready"), FormattingBusy(TRUE)>>
      BY <1>9, <2>2 DEF PrepareSucceeds
    <3>2. QED
      BY <1>6, <2>1, <3>1
  <2>3. CASE ~FormattingEnabled
    BY <1>5, <1>9, <2>1, <2>3 DEF PrepareSucceeds
  <2>4. QED
    BY <2>2, <2>3
<1>10. CASE PrepareFails
  BY <1>5, <1>10 DEF PrepareFails
<1>11. CASE Quit \/ Exit
  BY <1>1, <1>3, <1>11 DEF Quit, Exit
<1>12. CASE StartRecording \/ StartFails
  BY <1>5, <1>12 DEF StartRecording, StartFails
<1>13. CASE StopRecording \/ LimitReached
  BY <1>5, <1>13 DEF StopRecording, LimitReached, FinishCapture
<1>14. CASE DecodeSucceeds \/ DecodeFails
  BY <1>5, <1>14 DEF DecodeSucceeds, DecodeFails
<1>15. CASE Publish \/ SaveFormatting \/ FormattingPrepared
  <2>1. /\ status' = "Ready" /\ job' = "none" /\ outbox = <<>> /\ upds' = upds
        /\ \/ outbox' = <<TranscriptReady(current), StatusReport("Ready")>>
           \/ outbox' = <<FormattingBusy(FALSE), StatusReport("Ready")>>
    BY <1>15 DEF Publish, SaveFormatting, FormattingPrepared
  <2>2. ASSUME NEW u, outbox' = <<u, StatusReport("Ready")>>
        PROVE  DOMAIN outbox' = 1..2 /\ outbox'[2] = StatusReport("Ready")
    BY <2>2
  <2>3. DOMAIN outbox' = 1..2 /\ outbox'[2] = StatusReport("Ready")
    BY <2>1, <2>2
  <2>4. QED
    BY <1>6, <2>1, <2>3
<1>16. CASE CancelRecording
  BY <1>5, <1>16 DEF CancelRecording
<1>17. CASE BeginMedia \/ MediaEnds
  BY <1>4, <1>5, <1>17 DEF BeginMedia, MediaEnds, EngineShape
<1>18. CASE RejectMedia \/ MediaFetched \/ IgnoreCommand
  BY <1>18 DEF RejectMedia, MediaFetched, IgnoreCommand
<1>19. CASE BeginSwitch(phase = "stopping")
  BY <1>1, <1>2, <1>5, <1>19 DEF BeginSwitch
<1>20. CASE FinishSwitch
  BY <1>5, <1>20 DEF FinishSwitch
<1>21. CASE BeginFormatting
  <2>1. outbox' = <<FormattingBusy(TRUE)>> /\ status' = status /\ job' = job /\ job = "none"
        /\ outbox = <<>> /\ upds' = upds
    BY <1>21 DEF BeginFormatting
  <2>2. DOMAIN outbox' = {1} /\ outbox'[1] = FormattingBusy(TRUE)
    BY <2>1
  <2>3. QED
    BY <1>7, <2>1, <2>2 DEF IsStatus
<1>22. QED
  BY <1>1, <1>8, <1>9, <1>10, <1>11, <1>12, <1>13, <1>14, <1>15, <1>16, <1>17, <1>18,
     <1>19, <1>20, <1>21 DEF EngineStep

\* What the engine does is as it was, or the loop is quitting.
SameTruth ==
    /\ status' = status
    /\ job' \in {"exit", "dead"} => Leaving' \/ job \in {"exit", "dead"}
    /\ job \in {"exit", "dead"} => job' \in {"exit", "dead"}
    /\ Leaving => Leaving'

\* A status that agreed with the engine still does.
LEMMA TruthKept ==
    ASSUME SameTruth, NEW s, Truth(s)
    PROVE  \/ s = status' /\ (job' \in {"exit", "dead"} => Leaving')
           \/ s = "Error" /\ (status' = "Ready" \/ job' \in {"exit", "dead"})
BY DEF SameTruth, Truth, Leaving

\* Reports that name no status leave the last word to the statuses before them.
LEMMA LastWordKept ==
    ASSUME EngineTypeOK, LastWord, SameTruth, shown' = shown,
           \A i \in DOMAIN Pending : i \in DOMAIN Pending' /\ Pending'[i] = Pending[i],
           \A i \in DOMAIN Pending' : i \notin DOMAIN Pending => ~IsStatus(Pending'[i])
    PROVE  LastWord'
<1>1. CASE (\A i \in DOMAIN Pending : ~IsStatus(Pending[i])) /\ Truth(shown)
  <2>1. \A i \in DOMAIN Pending' : ~IsStatus(Pending'[i])
    BY <1>1
  <2>2. Truth(shown)'
    BY <1>1, TruthKept DEF Truth
  <2>3. QED
    BY <2>1, <2>2 DEF LastWord, IsStatus
<1>2. ASSUME NEW i \in DOMAIN Pending, IsStatus(Pending[i]), Truth(Pending[i].status),
             \A j \in DOMAIN Pending : j > i => ~IsStatus(Pending[j])
      PROVE  LastWord'
  <2>1. i \in DOMAIN Pending' /\ Pending'[i] = Pending[i] /\ IsStatus(Pending'[i])
    BY <1>2
  <2>2. Truth(Pending[i].status)'
    BY <1>2, <2>1, TruthKept DEF Truth
  <2>3. \A j \in DOMAIN Pending' : j > i => ~IsStatus(Pending'[j])
    BY <1>2
  <2>4. QED
    BY <2>1, <2>2, <2>3 DEF LastWord, IsStatus
<1>3. QED
  BY <1>1, <1>2 DEF LastWord

\* A handler that reports a status has the last word.
LEMMA LastWordReported ==
    ASSUME EngineTypeOK, EngineTypeOK', outbox = <<>>, upds' = upds, OutboxTells'
    PROVE  LastWord'
<1>1. PICK k \in DOMAIN outbox' :
         /\ IsStatus(outbox'[k]) /\ Truth(outbox[k].status)'
         /\ \A j \in DOMAIN outbox' : j > k => ~IsStatus(outbox'[j])
  BY DEF OutboxTells, IsStatus
<1>2. PICK n : /\ n = Len(Pending) + k
               /\ n \in DOMAIN Pending' /\ Pending'[n] = outbox'[k]
  BY ReportsQueue
<1>3. IsStatus(Pending'[n]) /\ Truth(Pending[n].status)'
  BY <1>1, <1>2 DEF Truth
<1>4. \A j \in DOMAIN Pending' : j > n => ~IsStatus(Pending'[j])
  <2>1. SUFFICES ASSUME NEW j \in DOMAIN Pending', j > n
                 PROVE  ~IsStatus(Pending'[j])
    OBVIOUS
  <2>2. DOMAIN Pending = 1..Len(Pending) /\ Len(Pending) \in Nat
        /\ DOMAIN outbox' = 1..Len(outbox') /\ Len(outbox') \in Nat
    BY PendingTyped DEF EngineTypeOK
  <2>3. j \notin DOMAIN Pending /\ j \in Int
    BY <1>2, <2>1, <2>2, ReportsQueue
  <2>4. PICK m \in DOMAIN outbox' : j = Len(Pending) + m
    BY <2>3, ReportsQueue
  <2>5. m > k /\ Pending'[j] = outbox'[m]
    BY <1>2, <2>1, <2>2, <2>4, ReportsQueue
  <2>6. QED
    BY <1>1, <2>5
<1>5. QED
  BY <1>2, <1>3, <1>4 DEF LastWord, IsStatus

\* Whoever takes the next command is past the start.
LEMMA EngineAtRest ==
    ASSUME ViewInv, Engine
    PROVE  AtRest'
<1> USE DEF ViewInv, AtRest, Receive, Idle, Blocked
<1>1. EngineStep(phase = "stopping")
  BY DEF Engine
<1>2. CASE Send \/ PrepareSucceeds \/ PrepareFails \/ Quit \/ Exit
  BY <1>2 DEF Send, PrepareSucceeds, PrepareFails, Quit, Exit
<1>3. CASE StartRecording \/ StartFails \/ StopRecording \/ LimitReached
  BY <1>3 DEF StartRecording, StartFails, StopRecording, LimitReached, FinishCapture
<1>4. CASE DecodeSucceeds \/ DecodeFails \/ Publish \/ CancelRecording
  BY <1>4 DEF DecodeSucceeds, DecodeFails, Publish, CancelRecording
<1>5. CASE BeginMedia \/ RejectMedia \/ MediaFetched \/ MediaEnds
  BY <1>5 DEF BeginMedia, RejectMedia, MediaFetched, MediaEnds
<1>6. CASE BeginSwitch(phase = "stopping") \/ FinishSwitch
  BY <1>6 DEF BeginSwitch, FinishSwitch
<1>7. CASE BeginFormatting \/ SaveFormatting \/ FormattingPrepared \/ IgnoreCommand
  BY <1>7 DEF BeginFormatting, SaveFormatting, FormattingPrepared, IgnoreCommand
<1>8. QED
  BY <1>1, <1>2, <1>3, <1>4, <1>5, <1>6, <1>7 DEF EngineStep

\* Every handler has the last word, or leaves it as it was.
LEMMA EngineLastWord ==
    ASSUME ViewInv, Engine
    PROVE  LastWord'
<1>1. EngineTypeOK /\ EngineTypeOK'
  BY EngineStepShape DEF ViewInv, CancelInv, ShapeInv, TypeOK, Engine
<1>2. shown' = shown /\ Leaving' = Leaving
  BY DEF Engine, uiVars, Leaving
<1>3. CASE Send
  <2>1. Pending' = Pending /\ SameTruth
    BY <1>1, <1>2, <1>3, SendKeepsPending DEF Send, SameTruth, Leaving
  <2>2. QED
    BY <1>1, <1>2, <2>1, LastWordKept DEF ViewInv
<1>4. CASE outbox = <<>> /\ upds' = upds /\ KeepsStatus
  <2>1. SameTruth
    BY <1>2, <1>4 DEF KeepsStatus, SameTruth, Leaving
  <2>2. \A i \in DOMAIN Pending' : i \notin DOMAIN Pending => ~IsStatus(Pending'[i])
    BY <1>1, <1>4, ReportsQueue DEF KeepsStatus
  <2>3. QED
    BY <1>1, <1>2, <1>4, <2>1, <2>2, LastWordKept, ReportsQueue DEF ViewInv
<1>5. CASE outbox = <<>> /\ upds' = upds /\ OutboxTells'
  BY <1>1, <1>5, LastWordReported
<1>6. QED
  BY <1>3, <1>4, <1>5, EngineReports

\* Every handler keeps what is known of an engine that never was Ready.
LEMMA EngineNeverReady ==
    ASSUME ViewInv, Engine
    PROVE  NeverReady'
<1>1. EngineTypeOK /\ EngineTypeOK'
  BY EngineStepShape DEF ViewInv, CancelInv, ShapeInv, TypeOK, Engine
<1>2. UNCHANGED uiVars /\ Leaving' = Leaving /\ EngineStep(phase = "stopping")
  BY DEF Engine, uiVars, Leaving
<1>3. SUFFICES ASSUME job' \in {"prepare", "exit", "dead"}, ~Leaving
               PROVE  /\ job \in {"prepare", "exit", "dead"} /\ prep' = FALSE
                      /\ \A i \in DOMAIN Pending' :
                           IsStatus(Pending'[i]) /\ Pending'[i].status \in {"Starting", "Error"}
  BY <1>2 DEF NeverReady, ViewInv, uiVars, IsStatus
<1>4. cmds # <<>> /\ Head(cmds).op = "Quit" => Leaving
  <2>1. cmds # <<>> => 1 \in DOMAIN cmds /\ Head(cmds) = cmds[1]
    BY <1>1 DEF EngineTypeOK
  <2>2. QED
    BY <2>1 DEF ViewInv, CancelInv, NoneBeforeStart
<1>5. job \in {"prepare", "exit", "dead"}
  <2>1. EngineEffect(phase = "stopping")
    BY <1>1, <1>2, EngineEffects
  <2>2. QED
    BY <1>3, <1>4, <2>1 DEF EngineEffect, Leaving
<1>6. NeverReady /\ ~prep
  BY <1>3, <1>5 DEF ViewInv, NeverReady
<1>7. Send \/ PrepareFails \/ Exit
  BY <1>2, <1>3, <1>5 DEF EngineStep, Receive, Idle, Blocked, PrepareSucceeds, Quit,
     StartRecording, StartFails, StopRecording, LimitReached, FinishCapture, DecodeSucceeds,
     DecodeFails, Publish, CancelRecording, BeginMedia, RejectMedia, MediaFetched, MediaEnds,
     BeginSwitch, FinishSwitch, BeginFormatting, SaveFormatting, FormattingPrepared,
     IgnoreCommand
<1>8. CASE Send
  BY <1>1, <1>3, <1>5, <1>6, <1>8, SendKeepsPending DEF Send, NeverReady
<1>9. CASE PrepareFails
  <2>1. outbox = <<>> /\ upds' = upds /\ prep' = prep /\ outbox' = <<StatusReport("Error")>>
    BY <1>9 DEF PrepareFails, Blocked, Report
  <2>2. \A k \in DOMAIN outbox' : IsStatus(outbox'[k]) /\ outbox'[k].status = "Error"
    BY <2>1 DEF IsStatus, StatusReport
  <2>3. QED
    BY <1>1, <1>3, <1>5, <1>6, <2>1, <2>2, ReportsQueue DEF NeverReady
<1>10. CASE Exit
  <2>1. outbox = <<>> /\ UNCHANGED <<outbox, upds>> /\ prep' = FALSE
    BY <1>10 DEF Exit, Blocked
  <2>2. QED
    BY <1>3, <1>5, <1>6, <2>1 DEF NeverReady, Pending
<1>11. QED
  BY <1>7, <1>8, <1>9, <1>10

\* The engine's part of the invariant at the start.
LEMMA InitView == Init => ViewInv
<1> SUFFICES ASSUME Init PROVE ViewInv
  OBVIOUS
<1>1. CancelInv
  BY EngineInitCancel
<1>2. /\ shown = "Starting" /\ status = "Starting" /\ job = "prepare" /\ ~prep
      /\ ~capturePending /\ ~configPending
      /\ upds = <<>> /\ outbox = <<StatusReport("Starting")>>
  BY DEF Init, EngineInit, UiInit
<1>3. DOMAIN Pending = {1} /\ Pending[1] = StatusReport("Starting")
  <2>1. Pending = <<StatusReport("Starting")>>
    BY <1>2, ConcatEmptySeq DEF Pending
  <2>2. QED
    BY <2>1
<1>4. IsStatus(Pending[1]) /\ Pending[1].status = "Starting"
  BY <1>3 DEF IsStatus, StatusReport
<1>5. LastWord
  BY <1>2, <1>3, <1>4 DEF LastWord, Truth
<1>6. QED
  BY <1>1, <1>2, <1>3, <1>4, <1>5 DEF ViewInv, AtRest, NeverReady

\* Whatever leaves the reports and the engine alone keeps the invariant.
LEMMA ViewUnchanged ==
    ASSUME ViewInv, UNCHANGED <<status, job, prep, outbox, upds, shown>>, Leaving => Leaving',
           ~Leaving /\ ~Leaving' /\ job \in {"prepare", "exit", "dead"} =>
             ~capturePending' /\ (configPending' => configPending \/ MediaOps \cap Commands # {})
    PROVE  LastWord' /\ AtRest' /\ NeverReady'
<1>1. EngineTypeOK /\ Pending' = Pending
  BY DEF ViewInv, CancelInv, ShapeInv, TypeOK, Pending
<1>2. SameTruth
  BY DEF SameTruth, Leaving
<1>3. LastWord'
  BY <1>1, <1>2, LastWordKept DEF ViewInv
<1>4. AtRest' /\ NeverReady'
  BY <1>1 DEF ViewInv, AtRest, NeverReady, IsStatus, Leaving
<1>5. QED
  BY <1>3, <1>4

\* LinuxEngine::command keeps the last word, also when it starts a new engine.
LEMMA UserCommandView ==
    ASSUME ViewInv, NEW op \in Commands, UserCommand(op)
    PROVE  LastWord' /\ AtRest' /\ NeverReady'
<1>1. ~Leaving /\ ~Leaving'
  BY DEF UserCommand, Leaving
<1>2. EngineTypeOK
  BY DEF ViewInv, CancelInv, ShapeInv, TypeOK
<1>3. CASE RefuseCancel(op)
  <2>1. UNCHANGED <<status, job, prep, outbox, upds, shown, capturePending, configPending>>
    BY <1>3 DEF RefuseCancel
  <2>2. ~Leaving /\ job \in {"prepare", "exit", "dead"} => ~capturePending
    BY DEF ViewInv, NeverReady
  <2>3. QED
    BY <1>1, <2>1, <2>2, ViewUnchanged
<1>4. ASSUME AcceptCommand(op), job \in {"prepare", "exit", "dead"}
      PROVE  /\ ~capturePending'
             /\ configPending' => configPending \/ MediaOps \cap Commands # {}
  <2>1. ~capturePending /\ shown # "Ready"
    BY <1>1, <1>4 DEF ViewInv, NeverReady
  <2>2. ~capturePending'
    BY <1>4, <2>1 DEF AcceptCommand
  <2>3. op \in FormatOps \cup {"SwitchModel"} => Refused(op)
    BY <2>1 DEF Refused
  <2>4. configPending' => configPending \/ op \in MediaOps
    BY <1>4, <2>3 DEF AcceptCommand
  <2>5. QED
    BY <2>2, <2>4
<1>5. CASE AcceptCommand(op) /\ SendCommand(op)
  <2>1. UNCHANGED <<status, job, prep, outbox, upds, shown>>
    BY <1>5 DEF SendCommand
  <2>2. QED
    BY <1>1, <1>4, <1>5, <2>1, ViewUnchanged
<1>6. ASSUME AcceptCommand(op), RestartEngine, status' = "Starting", job' = "prepare",
             outbox' = <<StatusReport("Starting")>>, upds' = <<>>, shown' = "Starting"
      PROVE  LastWord' /\ AtRest' /\ NeverReady'
  <2>1. Pending' = <<StatusReport("Starting")>>
    BY <1>6, ConcatEmptySeq DEF Pending
  <2>2. DOMAIN Pending' = {1} /\ Pending'[1] = StatusReport("Starting")
    BY <2>1
  <2>3. IsStatus(Pending'[1]) /\ Pending'[1].status = "Starting"
    BY <2>2 DEF IsStatus, StatusReport
  <2>4. LastWord'
    BY <1>6, <2>2, <2>3 DEF LastWord, Truth, IsStatus
  <2>5. job = "dead" /\ prep' = prep
    BY <1>6 DEF RestartEngine
  <2>6. NeverReady'
    <3>1. ~prep /\ (configPending => MediaOps \cap Commands # {})
      BY <1>1, <2>5 DEF ViewInv, NeverReady
    <3>2. ~capturePending' /\ (configPending' => configPending \/ MediaOps \cap Commands # {})
      BY <1>4, <1>6, <2>5
    <3>3. QED
      BY <1>6, <2>2, <2>3, <2>5, <3>1, <3>2 DEF NeverReady, IsStatus
  <2>7. QED
    BY <1>6, <2>4, <2>6 DEF AtRest
<1>7. ASSUME AcceptCommand(op), RestartEngine, shown' = "Error",
             UNCHANGED <<status, job, outbox, upds>>
      PROVE  LastWord' /\ AtRest' /\ NeverReady'
  <2>1. job = "dead" /\ prep' = prep /\ Pending' = Pending
    BY <1>7 DEF RestartEngine, Pending
  <2>2. NeverReady'
    BY <1>1, <1>4, <1>7, <2>1 DEF ViewInv, NeverReady, IsStatus
  <2>3. LastWord'
    <3>1. CASE \A i \in DOMAIN Pending : ~IsStatus(Pending[i])
      BY <1>7, <2>1, <3>1 DEF LastWord, Truth, IsStatus
    <3>2. ASSUME NEW i \in DOMAIN Pending, IsStatus(Pending[i]), Truth(Pending[i].status),
                 \A j \in DOMAIN Pending : j > i => ~IsStatus(Pending[j])
          PROVE  LastWord'
      BY <1>1, <1>7, <2>1, <3>2 DEF LastWord, Truth, IsStatus
    <3>3. QED
      BY <3>1, <3>2 DEF ViewInv, LastWord
  <2>4. QED
    BY <1>7, <2>2, <2>3 DEF ViewInv, AtRest
<1>8. QED
  BY <1>3, <1>5, <1>6, <1>7 DEF UserCommand, AcceptCommand, RestartEngine

\* Taking a report keeps the last word: a status is shown as it is taken.
LEMMA PollView ==
    ASSUME ViewInv, PollStatus \/ PollFormattingBusy \/ PollTranscript
    PROVE  LastWord' /\ AtRest' /\ NeverReady'
<1>1. EngineTypeOK
  BY DEF ViewInv, CancelInv, ShapeInv, TypeOK
<1>2. /\ upds # <<>> /\ upds' = Tail(upds) /\ ~Leaving /\ ~Leaving'
      /\ UNCHANGED <<status, job, prep, outbox>>
  BY DEF PollStatus, PollFormattingBusy, PollTranscript, TakeUpdate, Leaving
<1>3. /\ 1 \in DOMAIN Pending /\ Pending[1] = Head(upds) /\ DOMAIN Pending \subseteq Nat
      /\ \A i \in DOMAIN Pending : i > 1 => i - 1 \in DOMAIN Pending' /\ Pending'[i - 1] = Pending[i]
      /\ \A i \in DOMAIN Pending' : i + 1 \in DOMAIN Pending /\ Pending'[i] = Pending[i + 1]
      /\ DOMAIN Pending' \subseteq Nat \ {0}
  <2>1. Pending \in Seq(Update) /\ Pending # <<>>
        /\ Pending' = Tail(Pending) /\ Head(Pending) = Head(upds)
    BY <1>1, <1>2, PollTakes
  <2>2. QED
    BY <2>1, TailShape
<1>4. \/ IsStatus(Pending[1]) /\ shown' = Pending[1].status /\ ~configPending' /\ ~capturePending'
      \/ ~IsStatus(Pending[1]) /\ shown' = shown
  BY <1>3 DEF PollStatus, PollFormattingBusy, PollTranscript, TakeUpdate, IsStatus
<1>5. AtRest' /\ NeverReady'
  <2>1. AtRest'
    BY <1>2 DEF ViewInv, AtRest
  <2>2. NeverReady'
    BY <1>2, <1>3, <1>4 DEF ViewInv, NeverReady, IsStatus
  <2>3. QED
    BY <2>1, <2>2
<1>6. CASE (\A i \in DOMAIN Pending : ~IsStatus(Pending[i])) /\ Truth(shown)
  <2>1. \A i \in DOMAIN Pending' : ~IsStatus(Pending'[i])
    BY <1>3, <1>6
  <2>2. shown' = shown
    BY <1>3, <1>4, <1>6
  <2>3. Truth(shown)'
    BY <1>2, <1>6, <2>2 DEF Truth
  <2>4. QED
    BY <1>5, <2>1, <2>3 DEF LastWord, IsStatus
<1>7. ASSUME NEW i \in DOMAIN Pending, IsStatus(Pending[i]), Truth(Pending[i].status),
             \A j \in DOMAIN Pending : j > i => ~IsStatus(Pending[j])
      PROVE  LastWord'
  <2>1. CASE i = 1
    <3>1. \A j \in DOMAIN Pending' : ~IsStatus(Pending'[j])
      BY <1>3, <1>7, <2>1
    <3>2. shown' = Pending[i].status
      BY <1>4, <1>7, <2>1
    <3>3. QED
      BY <1>2, <1>7, <3>1, <3>2 DEF LastWord, Truth, IsStatus
  <2>2. CASE i > 1
    <3>1. i - 1 \in DOMAIN Pending' /\ Pending'[i - 1] = Pending[i]
      BY <1>3, <2>2
    <3>2. \A j \in DOMAIN Pending' : j > i - 1 => ~IsStatus(Pending'[j])
      BY <1>3, <1>7
    <3>3. QED
      BY <1>2, <1>7, <3>1, <3>2 DEF LastWord, Truth, IsStatus
  <2>3. i = 1 \/ i > 1
    <3>1. i \in Nat \ {0}
      BY <1>1, PendingTyped
    <3>2. QED
      BY <3>1
  <2>4. QED
    BY <2>1, <2>2, <2>3
<1>8. QED
  BY <1>5, <1>6, <1>7 DEF ViewInv, LastWord

\* Every step of the program keeps it.
LEMMA NextView ==
    ASSUME ViewInv, [Next]_vars
    PROVE  ViewInv'
<1>1. CancelInv'
  BY NextCancel DEF ViewInv
<1>2. SUFFICES LastWord' /\ AtRest' /\ NeverReady'
  BY <1>1 DEF ViewInv
<1>3. CASE Engine
  BY <1>3, EngineLastWord, EngineAtRest, EngineNeverReady
<1>4. ASSUME NEW op \in Commands, UserCommand(op)
      PROVE  LastWord' /\ AtRest' /\ NeverReady'
  BY <1>4, UserCommandView
<1>5. CASE PollStatus \/ PollFormattingBusy \/ PollTranscript
  BY <1>5, PollView
<1>6. CASE UNCHANGED <<status, job, prep, outbox, upds, shown, capturePending, configPending>>
           /\ (Leaving => Leaving')
  <2>1. ~Leaving /\ job \in {"prepare", "exit", "dead"} => ~capturePending
    BY DEF ViewInv, NeverReady
  <2>2. QED
    BY <1>6, <2>1, ViewUnchanged
<1>7. CASE UserQuit \/ UpdaterQuit
  BY <1>6, <1>7 DEF UserQuit, UpdaterQuit, HandleQuit, StopEngine, Leaving
<1>8. CASE Deliver
  <2>1. phase' \in {"commands", "deliver"}
    BY <1>8 DEF Deliver
  <2>2. QED
    BY <1>6, <1>8, <2>1 DEF Deliver, Leaving
<1>9. CASE RetryUnsaved \/ Gone \/ BeginPoll \/ EndPoll
  BY <1>6, <1>9 DEF RetryUnsaved, Gone, BeginPoll, EndPoll, engineVars, Leaving
<1>10. CASE Updater \/ UNCHANGED vars
  BY <1>6, <1>10 DEF Updater, Reserve, Release, Restart, vars, engineVars, uiVars, Leaving
<1>11. QED
  BY <1>3, <1>4, <1>5, <1>7, <1>8, <1>9, <1>10 DEF Next, Loop

\* With all reports read, the app shows what the engine does, or an error (runtime.rs,
\* `run`; linux.rs, LinuxEngine::poll).
THEOREM ViewCorrect == Spec => []ViewCatchesUp
<1>1. ViewInv => ViewCatchesUp
  <2>1. SUFFICES ASSUME ViewInv, outbox = <<>>, upds = <<>> PROVE Truth(shown)
    BY DEF ViewCatchesUp, Truth
  <2>2. DOMAIN Pending = {}
    <3>1. Pending = <<>>
      BY <2>1, ConcatEmptySeq DEF Pending
    <3>2. QED
      BY <3>1
  <2>3. QED
    BY <2>1, <2>2 DEF ViewInv, LastWord
<1>2. QED
  BY <1>1, InitView, NextView, PTL DEF Spec

-----------------------------------------------------------------------------
(* Quitting.                                                               *)

ConfigOps == FormatOps \cup MediaOps \cup {"SwitchModel"}

\* A status report is under way; the engine has something to report the end of; one
\* of these commands waits for the engine.
Coming == \E i \in DOMAIN Pending : IsStatus(Pending[i])
Working == prep \/ status \in {"Recording", "Transcribing"} \/ job \notin {"none", "dead"}
Queued(ops) == \E i \in DOMAIN cmds : cmds[i].op \in ops

\* The engine is sent the user's commands and Quit.
CmdsKnown == \A i \in DOMAIN cmds : cmds[i].op \in Commands \cup {"Quit"}

\* A flag that is set has a report to come that clears it.
CaptureOwed == capturePending /\ ~Leaving => Queued(CaptureOps) \/ Coming \/ Working
ConfigOwed ==
    configPending /\ ~Leaving /\ "MediaInvalid" \notin Commands =>
        Queued(ConfigOps) \/ Coming \/ Working \/ job = "dead"

\* So has a report that sets one.
IsBusy(u) == u.kind = "FormattingBusy" /\ u.busy = TRUE
BusyOwed ==
    ~Leaving => \A i \in DOMAIN Pending : IsBusy(Pending[i]) =>
        prep \/ \E j \in DOMAIN Pending : j > i /\ IsStatus(Pending[j])

\* The inductive invariant behind QuietMeansQuittable.
QuitInv == ViewInv /\ CmdsKnown /\ CaptureOwed /\ ConfigOwed /\ BusyOwed

\* What a handler does to the commands and the work, if it reports no status.
TakesOn ==
    /\ Working => Working'
    /\ \/ cmds' = cmds
       \/ /\ cmds # <<>> /\ cmds' = Tail(cmds)
          /\ Head(cmds).op \in CaptureOps \cup ConfigOps =>
               Working' \/ Head(cmds).op = "MediaInvalid"

\* A command is answered with a status, or with work that will be.
LEMMA EngineAnswers ==
    ASSUME ViewInv, Engine, ~OutboxTells'
    PROVE  /\ TakesOn \/ job' = "dead"
           /\ prep => prep' \/ job = "exit"
<1>1. EngineStep(phase = "stopping")
  BY DEF Engine
<1>2. EngineShape /\ AtRest
  BY DEF ViewInv, CancelInv, ShapeInv
<1>3. \/ Send
      \/ outbox = <<>> /\ upds' = upds /\ KeepsStatus
  BY EngineReports
<1>4. CASE Send
  BY <1>4 DEF Send, TakesOn, Working
<1>5. outbox = <<>> /\ KeepsStatus => \A k \in DOMAIN outbox' : ~IsStatus(outbox'[k])
  BY DEF KeepsStatus
<1> USE DEF TakesOn, Working, Receive, Idle, Blocked, Report
<1>6. CASE ~Send /\ (PrepareSucceeds \/ FinishSwitch \/ MediaEnds \/ DecodeFails \/ Publish)
  BY <1>2, <1>3, <1>6 DEF KeepsStatus, EngineShape, PrepareSucceeds, FinishSwitch, MediaEnds,
     DecodeFails, Publish
<1>7. CASE ~Send /\ (StartRecording \/ StopRecording \/ LimitReached \/ CancelRecording
                     \/ BeginMedia)
  BY <1>3, <1>7 DEF KeepsStatus, StartRecording, StopRecording, LimitReached, FinishCapture,
     CancelRecording, BeginMedia
<1>8. CASE ~Send /\ (PrepareFails \/ StartFails)
  <2>1. outbox' = <<StatusReport("Error")>>
    BY <1>8 DEF PrepareFails, StartFails
  <2>2. 1 \in DOMAIN outbox' /\ IsStatus(outbox'[1])
    BY <2>1 DEF IsStatus, StatusReport
  <2>3. QED
    BY <1>3, <1>5, <1>8, <2>2
<1>9. CASE ~Send /\ (SaveFormatting \/ FormattingPrepared)
  <2>1. outbox' = <<FormattingBusy(FALSE), StatusReport("Ready")>>
    BY <1>9 DEF SaveFormatting, FormattingPrepared
  <2>2. 2 \in DOMAIN outbox' /\ outbox'[2] = StatusReport("Ready")
    BY <2>1
  <2>3. IsStatus(outbox'[2])
    BY <2>2 DEF IsStatus, StatusReport
  <2>4. QED
    BY <1>3, <1>5, <1>9, <2>2, <2>3
<1>10. CASE BeginFormatting
  BY <1>10 DEF BeginFormatting
<1>11. CASE Quit \/ Exit \/ DecodeSucceeds
  <2>1. outbox' = <<>> \/ DecodeSucceeds
    BY <1>11 DEF Quit, Exit
  <2>2. CASE outbox' = <<>>
    BY <1>11, <2>2 DEF Quit, Exit, DecodeSucceeds, CaptureOps, ConfigOps, FormatOps, MediaOps
  <2>3. CASE DecodeSucceeds /\ outbox' # <<>>
    <3>1. outbox' = <<StatusReport("Ready")>>
      BY <2>3 DEF DecodeSucceeds
    <3>2. 1 \in DOMAIN outbox' /\ IsStatus(outbox'[1])
      BY <3>1 DEF IsStatus, StatusReport
    <3>3. QED
      BY <1>3, <1>5, <2>3, <3>2 DEF Send, DecodeSucceeds
  <2>4. QED
    BY <2>1, <2>2, <2>3
<1>12. CASE RejectMedia \/ MediaFetched
  BY <1>12 DEF RejectMedia, MediaFetched
<1>13. CASE ~Send /\ BeginSwitch(phase = "stopping")
  BY <1>3, <1>13 DEF BeginSwitch, KeepsStatus
<1>14. CASE IgnoreCommand
  <2>1. status \in Statuses
    BY DEF ViewInv, CancelInv, ShapeInv, TypeOK, EngineTypeOK
  <2>2. status = "Ready" \/ status \in {"Recording", "Transcribing"}
    BY <1>2, <1>14, <2>1 DEF IgnoreCommand, AtRest, Statuses
  <2>3. Head(cmds).op \in CaptureOps \cup ConfigOps => Working
    BY <1>14, <2>2 DEF IgnoreCommand, Ignored, CaptureOps, ConfigOps, FormatOps, MediaOps
  <2>4. QED
    BY <1>14, <2>3 DEF IgnoreCommand
<1>15. QED
  BY <1>1, <1>4, <1>6, <1>7, <1>8, <1>9, <1>10, <1>11, <1>12, <1>13, <1>14 DEF EngineStep

\* A handler that says that formatting is being prepared is preparing it.
LEMMA EngineBusy ==
    ASSUME ViewInv, Engine, outbox = <<>>
    PROVE  \A k \in DOMAIN outbox' : IsBusy(outbox'[k]) => prep'
<1>1. EngineStep(phase = "stopping") /\ ~Send
  BY DEF Engine, Send
<1>2. ASSUME NEW s, outbox' = <<StatusReport(s)>>
      PROVE  \A k \in DOMAIN outbox' : ~IsBusy(outbox'[k])
  <2>1. DOMAIN outbox' = {1} /\ outbox'[1] = StatusReport(s)
    BY <1>2
  <2>2. ~IsBusy(StatusReport(s))
    BY DEF IsBusy, StatusReport
  <2>3. QED
    BY <2>1, <2>2
<1>3. ASSUME NEW u, outbox' = <<u, StatusReport("Ready")>>, ~IsBusy(u)
      PROVE  \A k \in DOMAIN outbox' : ~IsBusy(outbox'[k])
  <2>1. DOMAIN outbox' = 1..2 /\ outbox'[1] = u /\ outbox'[2] = StatusReport("Ready")
    BY <1>3
  <2>2. ~IsBusy(StatusReport("Ready"))
    BY DEF IsBusy, StatusReport
  <2>3. \A k \in 1..2 : k = 1 \/ k = 2
    OBVIOUS
  <2>4. QED
    BY <1>3, <2>1, <2>2, <2>3
<1>4. ~IsBusy(FormattingBusy(FALSE)) /\ \A n : ~IsBusy(TranscriptReady(n))
  BY DEF IsBusy, FormattingBusy, TranscriptReady
<1>5. outbox' = <<>> => \A k \in DOMAIN outbox' : FALSE
  OBVIOUS
<1> USE DEF Receive, Idle, Blocked, Report
<1>6. CASE PrepareSucceeds
  <2>1. CASE FormattingEnabled
    BY <1>6, <2>1 DEF PrepareSucceeds
  <2>2. CASE ~FormattingEnabled
    BY <1>2, <1>6, <2>2 DEF PrepareSucceeds
  <2>3. QED
    BY <2>1, <2>2
<1>7. CASE PrepareFails \/ Quit \/ Exit \/ StartRecording \/ StartFails
  BY <1>2, <1>5, <1>7 DEF PrepareFails, Quit, Exit, StartRecording, StartFails
<1>8. CASE StopRecording \/ LimitReached
  BY <1>2, <1>8 DEF StopRecording, LimitReached, FinishCapture
<1>9. CASE DecodeSucceeds \/ DecodeFails \/ CancelRecording
  BY <1>2, <1>5, <1>9 DEF DecodeSucceeds, DecodeFails, CancelRecording
<1>10. CASE Publish \/ SaveFormatting \/ FormattingPrepared
  BY <1>3, <1>4, <1>10 DEF Publish, SaveFormatting, FormattingPrepared
<1>11. CASE BeginMedia \/ RejectMedia \/ MediaFetched \/ MediaEnds
  BY <1>2, <1>5, <1>11 DEF BeginMedia, RejectMedia, MediaFetched, MediaEnds
<1>12. CASE BeginSwitch(phase = "stopping") \/ FinishSwitch
  BY <1>2, <1>5, <1>12 DEF BeginSwitch, FinishSwitch
<1>13. CASE BeginFormatting \/ IgnoreCommand
  BY <1>5, <1>13 DEF BeginFormatting, IgnoreCommand
<1>14. QED
  BY <1>1, <1>6, <1>7, <1>8, <1>9, <1>10, <1>11, <1>12, <1>13 DEF EngineStep

\* A status report in the outbox is under way.
LEMMA OutboxComes ==
    ASSUME EngineTypeOK', NEW k \in DOMAIN outbox'
    PROVE  \E i \in DOMAIN Pending' : Pending'[i] = outbox'[k]
<1>1. upds' \in Seq(Update) /\ outbox' \in Seq(Update)
  BY DEF EngineTypeOK
<1>2. Pending' = upds' \o outbox'
  BY DEF Pending
<1>3. /\ Len(upds') + k \in DOMAIN Pending'
      /\ Pending'[Len(upds') + k] = outbox'[k]
  BY <1>1, <1>2
<1>4. QED
  BY <1>3

\* Reports are never taken back.
LEMMA EngineComing ==
    ASSUME ViewInv, ViewInv', Engine
    PROVE  Coming \/ OutboxTells' => Coming'
<1>1. EngineTypeOK /\ EngineTypeOK'
  BY DEF ViewInv, CancelInv, ShapeInv, TypeOK
<1>2. Send \/ (outbox = <<>> /\ upds' = upds)
  BY EngineReports
<1>3. Coming => Coming'
  BY <1>1, <1>2, SendKeepsPending, ReportsQueue DEF Coming, IsStatus
<1>4. OutboxTells' => Coming'
  <2>1. SUFFICES ASSUME NEW k \in DOMAIN outbox', IsStatus(outbox'[k]) PROVE Coming'
    BY DEF OutboxTells, IsStatus
  <2>2. QED
    BY <1>1, <2>1, OutboxComes DEF Coming, IsStatus
<1>5. QED
  BY <1>3, <1>4

\* The engine takes commands from the front, and invents none.
LEMMA EngineCommands ==
    ASSUME QuitInv, Engine
    PROVE  CmdsKnown'
<1>1. EngineEffect(phase = "stopping")
  BY EngineEffects DEF QuitInv, ViewInv, CancelInv, ShapeInv, TypeOK, Engine
<1>2. CASE cmds # <<>> /\ cmds' = Tail(cmds)
  <2>1. cmds \in Seq(Command)
    BY DEF QuitInv, ViewInv, CancelInv, ShapeInv, TypeOK, EngineTypeOK
  <2>2. \A i \in DOMAIN Tail(cmds) : i + 1 \in DOMAIN cmds /\ Tail(cmds)[i] = cmds[i + 1]
    BY <1>2, <2>1, TailShape
  <2>3. QED
    BY <1>2, <2>2 DEF QuitInv, CmdsKnown
<1>3. QED
  BY <1>1, <1>2 DEF EngineEffect, QuitInv, CmdsKnown

\* Until a status is reported, the command that asked for it waits or is worked on.
LEMMA EngineQueued ==
    ASSUME QuitInv, TakesOn, NEW ops, ops \subseteq CaptureOps \cup ConfigOps,
           "MediaInvalid" \in Commands => "MediaInvalid" \notin ops
    PROVE  Queued(ops) => Queued(ops)' \/ Working'
<1>1. cmds \in Seq(Command)
  BY DEF QuitInv, ViewInv, CancelInv, ShapeInv, TypeOK, EngineTypeOK
<1>2. CASE cmds' = cmds
  BY <1>2 DEF Queued
<1>3. ASSUME cmds # <<>>, cmds' = Tail(cmds), NEW i \in DOMAIN cmds, cmds[i].op \in ops,
             Head(cmds).op \in CaptureOps \cup ConfigOps =>
               Working' \/ Head(cmds).op = "MediaInvalid"
      PROVE  (\E j \in DOMAIN cmds' : cmds'[j].op \in ops) \/ Working'
  <2>1. /\ 1 \in DOMAIN cmds /\ cmds[1] = Head(cmds)
        /\ i = 1 \/ i > 1
        /\ i > 1 => i - 1 \in DOMAIN cmds' /\ cmds'[i - 1] = cmds[i]
    BY <1>1, <1>3, TailShape
  <2>2. CASE i = 1
    <3>1. Head(cmds).op \in ops /\ Head(cmds).op \in Commands \cup {"Quit"}
      BY <1>1, <1>3, <2>2, TailShape DEF QuitInv, CmdsKnown
    <3>2. QED
      BY <1>3, <3>1 DEF CaptureOps, ConfigOps, FormatOps, MediaOps
  <2>3. QED
    BY <1>3, <2>1, <2>2
<1>4. QED
  BY <1>2, <1>3 DEF TakesOn, Queued

\* Every handler keeps what is owed.
LEMMA EngineQuit ==
    ASSUME QuitInv, ViewInv', Engine
    PROVE  CmdsKnown' /\ CaptureOwed' /\ ConfigOwed' /\ BusyOwed'
<1>1. /\ UNCHANGED <<phase, capturePending, configPending>> /\ Leaving' = Leaving
      /\ EngineTypeOK /\ EngineTypeOK' /\ ViewInv
  BY DEF QuitInv, ViewInv, CancelInv, ShapeInv, TypeOK, Engine, uiVars, Leaving
<1>2. CmdsKnown'
  BY EngineCommands
<1>3. /\ Coming \/ OutboxTells' => Coming'
      /\ ~OutboxTells' => (TakesOn \/ job' = "dead") /\ (prep => prep' \/ job = "exit")
  BY <1>1, EngineComing, EngineAnswers
<1>4. job = "dead" => job' \in {"exit", "dead"} \/ OutboxTells'
  BY <1>1, EngineReports DEF KeepsStatus, Send
<1>5. job' = "dead" /\ ~Leaving' => ~capturePending'
  BY <1>1 DEF ViewInv, NeverReady
<1>6. CaptureOwed'
  <2>1. ASSUME TakesOn PROVE Queued(CaptureOps) => Queued(CaptureOps)' \/ Working'
    BY <2>1, EngineQueued DEF CaptureOps
  <2>2. QED
    BY <1>1, <1>3, <1>5, <2>1 DEF QuitInv, CaptureOwed, TakesOn
<1>7. ConfigOwed'
  <2>1. ASSUME TakesOn, "MediaInvalid" \notin Commands
        PROVE  Queued(ConfigOps) => Queued(ConfigOps)' \/ Working'
    BY <2>1, EngineQueued
  <2>2. job' = "exit" => Working'
    BY DEF Working
  <2>3. QED
    BY <1>1, <1>3, <1>4, <2>1, <2>2 DEF QuitInv, ConfigOwed, TakesOn
<1>8. BusyOwed'
  <2>1. SUFFICES ASSUME ~Leaving, NEW i \in DOMAIN Pending', IsBusy(Pending'[i])
                 PROVE  prep' \/ \E j \in DOMAIN Pending' : j > i /\ IsStatus(Pending'[j])
    BY <1>1 DEF BusyOwed, IsBusy, IsStatus
  <2>2. CASE Send
    BY <1>1, <2>1, <2>2, SendKeepsPending DEF Send, QuitInv, BusyOwed
  <2>3. CASE outbox = <<>> /\ upds' = upds
    <3>1. CASE i \in DOMAIN Pending
      <4>1. Pending'[i] = Pending[i]
        BY <1>1, <2>3, <3>1, ReportsQueue
      <4>2. prep \/ \E j \in DOMAIN Pending : j > i /\ IsStatus(Pending[j])
        BY <2>1, <3>1, <4>1 DEF QuitInv, BusyOwed
      <4>3. ASSUME NEW j \in DOMAIN Pending, j > i, IsStatus(Pending[j])
            PROVE  \E m \in DOMAIN Pending' : m > i /\ IsStatus(Pending'[m])
        BY <1>1, <2>3, <4>3, ReportsQueue
      <4>4. CASE prep /\ OutboxTells'
        <5>1. PICK k \in DOMAIN outbox' : IsStatus(outbox'[k])
          BY <4>4 DEF OutboxTells, IsStatus
        <5>2. Len(Pending) + k > i
          BY <1>1, <3>1, <5>1, PendingTyped DEF EngineTypeOK
        <5>3. QED
          BY <1>1, <2>3, <5>1, <5>2, ReportsQueue
      <4>5. prep => job # "exit"
        BY <1>1, <2>1 DEF ViewInv, NeverReady
      <4>6. QED
        BY <1>3, <4>2, <4>3, <4>4, <4>5
    <3>2. CASE i \notin DOMAIN Pending
      <4>1. PICK k \in DOMAIN outbox' : i = Len(Pending) + k
        BY <1>1, <2>1, <2>3, <3>2, ReportsQueue
      <4>2. IsBusy(outbox'[k])
        BY <1>1, <2>1, <2>3, <4>1, ReportsQueue
      <4>3. QED
        BY <1>1, <2>3, <4>1, <4>2, EngineBusy
    <3>3. QED
      BY <3>1, <3>2
  <2>4. QED
    BY <1>1, <2>2, <2>3, EngineReports
<1>9. QED
  BY <1>2, <1>6, <1>7, <1>8

\* A command that is sent waits behind those sent before.
LEMMA SentWaits ==
    ASSUME QuitInv, NEW op, SendCommand(op)
    PROVE  /\ \A i \in DOMAIN cmds : i \in DOMAIN cmds' /\ cmds'[i] = cmds[i]
           /\ \A i \in DOMAIN cmds' : i \in DOMAIN cmds \/ cmds'[i].op = op
           /\ \E i \in DOMAIN cmds' : cmds'[i].op = op
<1>1. cmds \in Seq(Command)
  BY DEF QuitInv, ViewInv, CancelInv, ShapeInv, TypeOK, EngineTypeOK
<1>2. PICK c : c.op = op /\ cmds' = Append(cmds, c)
  BY DEF SendCommand
<1>3. /\ DOMAIN cmds' = 1..Len(cmds) + 1 /\ cmds'[Len(cmds) + 1] = c
      /\ DOMAIN cmds = 1..Len(cmds) /\ Len(cmds) \in Nat
      /\ \A i \in 1..Len(cmds) : cmds'[i] = cmds[i]
  BY <1>1, <1>2
<1>4. \A i \in 1..Len(cmds) + 1 : i \in 1..Len(cmds) \/ i = Len(cmds) + 1
  BY <1>3
<1>5. QED
  BY <1>2, <1>3, <1>4

\* LinuxEngine::command sets a flag for a command it sends, or for none.
LEMMA UserCommandQuit ==
    ASSUME QuitInv, ViewInv', NEW op \in Commands, UserCommand(op)
    PROVE  CmdsKnown' /\ CaptureOwed' /\ ConfigOwed' /\ BusyOwed'
<1>1. ~Leaving /\ ~Leaving'
  BY DEF UserCommand, Leaving
<1>2. CASE RefuseCancel(op)
  <2>1. UNCHANGED <<status, job, prep, cmds, outbox, upds, capturePending, configPending>>
    BY <1>2 DEF RefuseCancel
  <2>2. QED
    BY <1>1, <2>1 DEF QuitInv, CmdsKnown, CaptureOwed, ConfigOwed, BusyOwed, Queued, Coming,
       Working, Pending, IsStatus, IsBusy
<1>3. ASSUME AcceptCommand(op)
      PROVE  /\ capturePending' => capturePending \/ op \in CaptureOps
             /\ configPending' => configPending \/ op \in ConfigOps
  BY <1>3 DEF AcceptCommand, ConfigOps
<1>4. CASE AcceptCommand(op) /\ SendCommand(op)
  <2>1. UNCHANGED <<status, job, prep, outbox, upds>>
    BY <1>4 DEF SendCommand
  <2>2. /\ Coming' = Coming /\ Working' = Working /\ BusyOwed'
    BY <1>1, <2>1 DEF QuitInv, BusyOwed, Coming, Working, Pending, IsStatus, IsBusy
  <2>3. CmdsKnown'
    BY <1>4, SentWaits DEF QuitInv, CmdsKnown
  <2>4. \A ops : op \in ops \/ Queued(ops) => \E i \in DOMAIN cmds' : cmds'[i].op \in ops
    BY <1>4, SentWaits DEF Queued
  <2>5. /\ op \in CaptureOps \/ Queued(CaptureOps) => Queued(CaptureOps)'
        /\ op \in ConfigOps \/ Queued(ConfigOps) => Queued(ConfigOps)'
    BY <2>4 DEF Queued, CaptureOps, ConfigOps, FormatOps, MediaOps
  <2>6. CaptureOwed' /\ ConfigOwed'
    BY <1>1, <1>3, <1>4, <2>1, <2>2, <2>5 DEF QuitInv, CaptureOwed, ConfigOwed
  <2>7. QED
    BY <2>2, <2>3, <2>6
<1>5. CASE AcceptCommand(op) /\ RestartEngine
  <2>1. cmds' = cmds /\ CmdsKnown'
    BY <1>5 DEF RestartEngine, QuitInv, CmdsKnown
  <2>2. ASSUME job' = "prepare", outbox' = <<StatusReport("Starting")>>, upds' = <<>>
        PROVE  CaptureOwed' /\ ConfigOwed' /\ BusyOwed'
    <3>1. Pending' = <<StatusReport("Starting")>>
      BY <2>2, ConcatEmptySeq DEF Pending
    <3>2. DOMAIN Pending' = {1} /\ Pending'[1] = StatusReport("Starting")
      BY <3>1
    <3>3. BusyOwed'
      BY <3>2 DEF BusyOwed, IsBusy, StatusReport
    <3>4. Working'
      BY <2>2 DEF Working
    <3>5. QED
      BY <3>3, <3>4 DEF CaptureOwed, ConfigOwed
  <2>3. ASSUME job = "dead", UNCHANGED <<status, job, outbox, upds>>
        PROVE  CaptureOwed' /\ ConfigOwed' /\ BusyOwed'
    <3>1. ~capturePending'
      BY <1>1, <2>3 DEF ViewInv, NeverReady
    <3>2. prep' = prep /\ BusyOwed'
      BY <1>1, <1>5, <2>3 DEF RestartEngine, QuitInv, BusyOwed, Pending, IsBusy, IsStatus
    <3>3. QED
      BY <2>3, <3>1, <3>2 DEF CaptureOwed, ConfigOwed
  <2>4. QED
    BY <1>5, <2>1, <2>2, <2>3 DEF RestartEngine
<1>6. QED
  BY <1>2, <1>4, <1>5 DEF UserCommand, AcceptCommand

\* Taking a report clears the flags, or leaves the report that will.
LEMMA PollQuit ==
    ASSUME QuitInv, PollStatus \/ PollFormattingBusy \/ PollTranscript
    PROVE  CmdsKnown' /\ CaptureOwed' /\ ConfigOwed' /\ BusyOwed'
<1>1. EngineTypeOK
  BY DEF QuitInv, ViewInv, CancelInv, ShapeInv, TypeOK
<1>2. /\ upds # <<>> /\ upds' = Tail(upds) /\ ~Leaving
      /\ UNCHANGED <<status, job, prep, cmds, outbox>>
  BY DEF PollStatus, PollFormattingBusy, PollTranscript, TakeUpdate, Leaving
<1>3. /\ 1 \in DOMAIN Pending /\ Pending[1] = Head(upds) /\ DOMAIN Pending \subseteq Nat \ {0}
      /\ \A i \in DOMAIN Pending : i > 1 => i - 1 \in DOMAIN Pending' /\ Pending'[i - 1] = Pending[i]
      /\ \A i \in DOMAIN Pending' : i + 1 \in DOMAIN Pending /\ Pending'[i] = Pending[i + 1]
      /\ DOMAIN Pending' \subseteq Nat \ {0}
  <2>1. Pending \in Seq(Update) /\ Pending # <<>>
        /\ Pending' = Tail(Pending) /\ Head(Pending) = Head(upds)
    BY <1>1, <1>2, PollTakes
  <2>2. QED
    BY <2>1, TailShape
<1>4. CmdsKnown'
  BY <1>2 DEF QuitInv, CmdsKnown
<1>5. BusyOwed'
  <2>1. SUFFICES ASSUME NEW i \in DOMAIN Pending', IsBusy(Pending'[i])
                 PROVE  prep' \/ \E j \in DOMAIN Pending' : j > i /\ IsStatus(Pending'[j])
    BY DEF BusyOwed, IsBusy, IsStatus
  <2>2. prep \/ \E j \in DOMAIN Pending : j > i + 1 /\ IsStatus(Pending[j])
    BY <1>2, <1>3, <2>1 DEF QuitInv, BusyOwed
  <2>3. ASSUME NEW j \in DOMAIN Pending, j > i + 1, IsStatus(Pending[j])
        PROVE  \E m \in DOMAIN Pending' : m > i /\ IsStatus(Pending'[m])
    <3>1. j > 1 /\ j - 1 > i
      BY <1>3, <2>1, <2>3
    <3>2. QED
      BY <1>3, <2>3, <3>1
  <2>4. QED
    BY <1>2, <2>2, <2>3
<1>6. Working' = Working /\ \A ops : Queued(ops) => \E i \in DOMAIN cmds' : cmds'[i].op \in ops
  BY <1>2 DEF Working, Queued
<1>7. /\ Queued(CaptureOps) => Queued(CaptureOps)'
      /\ Queued(ConfigOps) => Queued(ConfigOps)'
  BY <1>6 DEF Queued, CaptureOps, ConfigOps, FormatOps, MediaOps
<1>8. CASE PollStatus
  BY <1>4, <1>5, <1>8 DEF PollStatus, CaptureOwed, ConfigOwed
<1>9. ASSUME ~IsStatus(Pending[1]), Coming PROVE Coming'
  <2>1. PICK i \in DOMAIN Pending : IsStatus(Pending[i])
    BY <1>9 DEF Coming
  <2>2. i > 1
    BY <1>3, <1>9, <2>1
  <2>3. QED
    BY <1>3, <2>1, <2>2 DEF Coming, IsStatus
<1>10. CASE PollFormattingBusy
  <2>1. ~IsStatus(Pending[1]) /\ capturePending' = capturePending /\ configPending' = Pending[1].busy
    BY <1>3, <1>10 DEF PollFormattingBusy, TakeUpdate, IsStatus
  <2>2. CaptureOwed'
    BY <1>2, <1>6, <1>7, <1>9, <2>1 DEF QuitInv, CaptureOwed
  <2>3. configPending' => Working' \/ Coming'
    <3>1. SUFFICES ASSUME configPending' PROVE Working' \/ Coming'
      OBVIOUS
    <3>2. Pending[1] \in Update /\ Pending[1].kind = "FormattingBusy"
      BY <1>1, <1>3, <1>10, PendingTyped DEF PollFormattingBusy, TakeUpdate
    <3>3. IsBusy(Pending[1])
      BY <2>1, <3>1, <3>2, UpdateTyped DEF IsBusy
    <3>4. prep \/ \E j \in DOMAIN Pending : j > 1 /\ IsStatus(Pending[j])
      BY <1>2, <1>3, <3>3 DEF QuitInv, BusyOwed
    <3>5. QED
      BY <1>2, <1>9, <2>1, <3>4 DEF Working, Coming
  <2>4. QED
    BY <1>4, <1>5, <2>2, <2>3 DEF ConfigOwed
<1>11. CASE PollTranscript
  <2>1. /\ ~IsStatus(Pending[1])
        /\ capturePending' = capturePending /\ configPending' = configPending
    BY <1>3, <1>11 DEF PollTranscript, TakeUpdate, IsStatus
  <2>2. CaptureOwed' /\ ConfigOwed'
    BY <1>2, <1>6, <1>7, <1>9, <2>1 DEF QuitInv, CaptureOwed, ConfigOwed
  <2>3. QED
    BY <1>4, <1>5, <2>2
<1>12. QED
  BY <1>8, <1>10, <1>11

\* Nothing is owed when the program starts.
LEMMA InitQuit == Init => QuitInv
<1> SUFFICES ASSUME Init PROVE QuitInv
  OBVIOUS
<1>1. cmds = <<>> /\ ~capturePending /\ ~configPending /\ upds = <<>>
      /\ outbox = <<StatusReport("Starting")>>
  BY DEF Init, EngineInit, UiInit
<1>2. Pending = <<StatusReport("Starting")>>
  BY <1>1, ConcatEmptySeq DEF Pending
<1>3. DOMAIN Pending = {1} /\ Pending[1] = StatusReport("Starting")
  BY <1>2
<1>4. BusyOwed
  BY <1>3 DEF BusyOwed, IsBusy, StatusReport
<1>5. CmdsKnown
  BY <1>1 DEF CmdsKnown
<1>6. QED
  BY <1>1, <1>4, <1>5, InitView DEF QuitInv, CaptureOwed, ConfigOwed

\* Every step of the program keeps what is owed.
LEMMA NextQuit ==
    ASSUME QuitInv, [Next]_vars
    PROVE  QuitInv'
<1>1. ViewInv'
  BY NextView DEF QuitInv
<1>2. SUFFICES CmdsKnown' /\ CaptureOwed' /\ ConfigOwed' /\ BusyOwed'
  BY <1>1 DEF QuitInv
<1>3. CASE Engine
  BY <1>1, <1>3, EngineQuit
<1>4. ASSUME NEW op \in Commands, UserCommand(op)
      PROVE  CmdsKnown' /\ CaptureOwed' /\ ConfigOwed' /\ BusyOwed'
  BY <1>1, <1>4, UserCommandQuit
<1>5. CASE PollStatus \/ PollFormattingBusy \/ PollTranscript
  BY <1>5, PollQuit
<1>6. CASE /\ UNCHANGED <<status, job, prep, cmds, outbox, upds, capturePending, configPending>>
           /\ Leaving => Leaving'
  BY <1>6 DEF QuitInv, CmdsKnown, CaptureOwed, ConfigOwed, BusyOwed, Queued, Coming, Working,
     Pending, IsStatus, IsBusy, Leaving
<1>7. CASE UserQuit \/ UpdaterQuit
  <2>1. CASE StopEngine
    <3>1. Leaving'
      BY <2>1 DEF StopEngine, Leaving
    <3>2. \A i \in DOMAIN cmds' : (i \in DOMAIN cmds /\ cmds'[i] = cmds[i]) \/ cmds'[i].op = "Quit"
      <4>1. cmds \in Seq(Command)
        BY DEF QuitInv, ViewInv, CancelInv, ShapeInv, TypeOK, EngineTypeOK
      <4>2. PICK c : c.op = "Quit" /\ (cmds' = cmds \/ cmds' = Append(cmds, c))
        BY <2>1 DEF StopEngine
      <4>3. ASSUME cmds' = Append(cmds, c)
            PROVE  \A i \in DOMAIN cmds' : (i \in DOMAIN cmds /\ cmds'[i] = cmds[i]) \/ cmds'[i] = c
        BY <4>1, <4>3
      <4>4. QED
        BY <4>2, <4>3
    <3>3. QED
      BY <3>1, <3>2 DEF QuitInv, CmdsKnown, CaptureOwed, ConfigOwed, BusyOwed
  <2>2. CASE UNCHANGED <<phase, cmds>>
    BY <1>6, <1>7, <2>2 DEF UserQuit, UpdaterQuit, HandleQuit, Leaving
  <2>3. QED
    BY <1>7, <2>1, <2>2 DEF UserQuit, UpdaterQuit, HandleQuit
<1>8. CASE Deliver
  <2>1. phase' \in {"commands", "deliver"} /\ phase = "deliver"
    BY <1>8 DEF Deliver
  <2>2. QED
    BY <1>6, <1>8, <2>1 DEF Deliver, Leaving
<1>9. CASE RetryUnsaved \/ Gone \/ BeginPoll \/ EndPoll
  BY <1>6, <1>9 DEF RetryUnsaved, Gone, BeginPoll, EndPoll, engineVars, Leaving
<1>10. CASE Updater \/ UNCHANGED vars
  BY <1>6, <1>10 DEF Updater, Reserve, Release, Restart, vars, engineVars, uiVars, Leaving
<1>11. QED
  BY <1>3, <1>4, <1>5, <1>7, <1>8, <1>9, <1>10 DEF Next, Loop

\* What is left of a quiet app that refuses to quit: a media source that was refused
\* without a status, or a media command sent to an engine that has ended.
LEMMA QuitRefused ==
    ASSUME QuitInv, Quiet, QuitBusy
    PROVE  /\ configPending
           /\ \/ "MediaInvalid" \in Commands
              \/ job = "dead" /\ MediaOps \cap Commands # {}
<1>1. ~Leaving /\ ~Working /\ job \in {"none", "dead"}
  BY DEF Quiet, Leaving, Working
<1>2. DOMAIN Pending = {} /\ DOMAIN cmds = {}
  <2>1. Pending = <<>> /\ cmds = <<>>
    BY ConcatEmptySeq DEF Quiet, Pending
  <2>2. QED
    BY <2>1
<1>3. ~Coming /\ \A ops : ~Queued(ops)
  BY <1>2 DEF Coming, Queued
<1>4. shown \notin BusyStatuses
  <2>1. Truth(shown)
    BY <1>2 DEF QuitInv, ViewInv, LastWord
  <2>2. QED
    BY <1>1, <2>1 DEF QuitInv, ViewInv, AtRest, Truth, Quiet, BusyStatuses, NeverReady
<1>5. ~capturePending
  BY <1>1, <1>3 DEF QuitInv, CaptureOwed
<1>6. configPending
  BY <1>4, <1>5 DEF QuitBusy
<1>7. "MediaInvalid" \notin Commands => job = "dead"
  BY <1>1, <1>3, <1>6 DEF QuitInv, ConfigOwed
<1>8. QED
  BY <1>1, <1>6, <1>7 DEF QuitInv, ViewInv, NeverReady

\* Nothing but a media command can keep an idle app from quitting: every other flag
\* is cleared by the report of the work it stands for (linux.rs, LinuxEngine::command
\* and poll).
THEOREM QuitRefusedForMedia ==
    Spec => [](Quiet /\ QuitBusy =>
                 /\ configPending
                 /\ \/ "MediaInvalid" \in Commands
                    \/ job = "dead" /\ MediaOps \cap Commands # {})
<1>1. QuitInv => (Quiet /\ QuitBusy =>
                    /\ configPending
                    /\ \/ "MediaInvalid" \in Commands
                       \/ job = "dead" /\ MediaOps \cap Commands # {})
  BY QuitRefused
<1>2. QED
  BY <1>1, InitQuit, NextQuit, PTL DEF Spec

\* Without media commands, the app can be quit whenever nothing runs and nothing is
\* under way (linux.rs, QUIT_BUSY).
THEOREM QuitCorrect ==
    ASSUME MediaOps \cap Commands = {}
    PROVE  Spec => []QuietMeansQuittable
<1>1. QuitInv => QuietMeansQuittable
  BY QuitRefused DEF QuietMeansQuittable, MediaOps
<1>2. QED
  BY <1>1, InitQuit, NextQuit, PTL DEF Spec

-----------------------------------------------------------------------------
(* The order of the dictations.                                            *)

IsTranscript(u) == u.kind = "TranscriptReady"

\* The history of each dictation agrees with what the engine does.
FateFits ==
    /\ \A s \in Session : fate[s] = "unused" <=> s > current
    /\ \A s \in Session : fate[s] = "recording" =>
         s = current /\ status = "Recording" /\ job # "dead"
    /\ \A s \in Session : fate[s] = "decoding" => s = current /\ job \in {"decode", "clean"}
    /\ status = "Recording" /\ job # "dead" => fate[current] = "recording"
    /\ job \in {"decode", "clean"} => fate[current] = "decoding"

\* The published transcripts are those under way, the oldest first.
InChannel ==
    /\ \A s \in Session : fate[s] = "published" =>
         \E i \in DOMAIN Pending : IsTranscript(Pending[i]) /\ Pending[i].session = s
    /\ \A i \in DOMAIN Pending : IsTranscript(Pending[i]) =>
         fate[Pending[i].session] = "published"
    /\ \A i, j \in DOMAIN Pending :
         i < j /\ IsTranscript(Pending[i]) /\ IsTranscript(Pending[j]) =>
           Pending[i].session < Pending[j].session

\* The transcripts the loop holds are being delivered, the oldest first.
InHands ==
    /\ \A i \in DOMAIN completed : fate[completed[i].session] = "delivering"
    /\ \A i, j \in DOMAIN completed :
         i < j => completed[i].session < completed[j].session

\* The inductive invariant behind DeliveredInOrder.
OrderInv == ViewInv /\ FateFits /\ InChannel /\ InHands /\ DeliveredInOrder

\* How far a dictation of this fate has come.
Rank(f) ==
    CASE f = "unused" -> 0
      [] f = "recording" -> 1
      [] f = "decoding" -> 2
      [] f = "published" -> 3
      [] f = "delivering" -> 4
      [] OTHER -> 5

\* The stages of two dictations compare as the ranks of their fates.
LEMMA OrderByRank ==
    /\ DeliveredInOrder <=>
         \A s, t \in Session : s < t /\ fate[t] \notin {"ended", "dropped"} =>
           Rank(fate[s]) >= Rank(fate[t])
    /\ DeliveredInOrder' <=>
         \A s, t \in Session : s < t /\ fate'[t] \notin {"ended", "dropped"} =>
           Rank(fate'[s]) >= Rank(fate'[t])
<1>1. \A s \in Session : Stage(s) = Rank(fate[s]) /\ Stage(s)' = Rank(fate'[s])
  BY DEF Stage, Rank
<1>2. QED
  BY <1>1 DEF DeliveredInOrder

\* The dictation t goes from one fate to another.
Moves(t, f, g) == t \in Session /\ fate[t] = f /\ fate' = [fate EXCEPT ![t] = g]

\* A dictation that moves on, with no earlier one behind it, keeps the order.
LEMMA MoveKeepsOrder ==
    ASSUME EngineTypeOK, DeliveredInOrder, NEW t, NEW f, NEW g, Moves(t, f, g),
           Rank(f) <= Rank(g),
           g \in {"ended", "dropped"} \/ \A s \in Session : s < t => Rank(fate[s]) >= Rank(g)
    PROVE  DeliveredInOrder'
<1>1. /\ t \in Session /\ fate'[t] = g /\ fate[t] = f
      /\ \A s \in Session : s # t => fate'[s] = fate[s]
  BY DEF Moves, EngineTypeOK
<1>2. \A h : Rank(h) \in 0..5
  BY DEF Rank
<1>3. \A s, r \in Session : s < r /\ fate[r] \notin {"ended", "dropped"} =>
         Rank(fate[s]) >= Rank(fate[r])
  BY OrderByRank
<1>4. SUFFICES ASSUME NEW s \in Session, NEW r \in Session, s < r,
                      fate'[r] \notin {"ended", "dropped"}
               PROVE  Rank(fate'[s]) >= Rank(fate'[r])
  BY OrderByRank
<1>5. CASE r = t
  <2>1. s # t /\ s < t
    BY <1>4, <1>5 DEF Session
  <2>2. QED
    BY <1>1, <1>4, <1>5, <2>1
<1>6. CASE r # t /\ s = t
  <2>1. Rank(f) >= Rank(fate[r])
    BY <1>1, <1>3, <1>4, <1>6
  <2>2. QED
    BY <1>1, <1>2, <1>6, <2>1
<1>7. CASE r # t /\ s # t
  BY <1>1, <1>3, <1>4, <1>7
<1>8. QED
  BY <1>5, <1>6, <1>7

\* What a handler may do to the dictations, and what it does meanwhile.
EngineMoves ==
    \/ /\ fate' = fate /\ current' = current
       /\ status' = "Recording" /\ job' # "dead" <=> status = "Recording" /\ job # "dead"
       /\ job' \in {"decode", "clean"} <=> job \in {"decode", "clean"}
    \/ /\ Moves(current + 1, "unused", "recording") /\ current' = current + 1
       /\ status = "Ready" /\ status' = "Recording" /\ job = "none" /\ job' = "none"
    \/ /\ Moves(current, "recording", "decoding") /\ current' = current
       /\ status' = "Transcribing" /\ job' = "decode"
    \/ /\ \E g \in {"ended", "dropped"} : Moves(current, "recording", g)
       /\ current' = current
       /\ ~(status' = "Recording" /\ job' # "dead") /\ job' \notin {"decode", "clean"}
    \/ /\ \E g \in {"published", "ended"} :
            Moves(current, "decoding", g) /\ (g = "published" => Publish)
       /\ current' = current /\ status' = "Ready" /\ job' = "none"

\* Every handler moves at most the current dictation, or begins the next.
LEMMA EngineMovesOne ==
    ASSUME OrderInv, Engine
    PROVE  EngineMoves
<1>1. EngineStep(phase = "stopping") /\ EngineTypeOK /\ EngineShape
  BY DEF Engine, OrderInv, ViewInv, CancelInv, ShapeInv, TypeOK
<1>2. status = "Recording" => current \in Session
  BY <1>1 DEF EngineShape, EngineTypeOK, Session
<1>3. job \in {"decode", "clean"} => current \in Session /\ fate[current] = "decoding"
  BY <1>1 DEF EngineShape, EngineTypeOK, Session, OrderInv, FateFits
<1>4. status = "Recording" /\ job # "dead" => fate[current] = "recording"
  BY DEF OrderInv, FateFits
<1> USE DEF Receive, Idle, Blocked, Report, sessions, EngineMoves, Settle, Moves
<1>5. CASE Send \/ PrepareSucceeds \/ PrepareFails
  BY <1>1, <1>5 DEF Send, PrepareSucceeds, PrepareFails, EngineShape
<1>6. CASE Quit
  BY <1>6 DEF Quit
<1>7. CASE Exit
  BY <1>2, <1>4, <1>7 DEF Exit
<1>8. CASE StartRecording
  <2>1. current + 1 \in Session
    BY <1>1, <1>8, MaxSessionsAssumption DEF StartRecording, EngineTypeOK, Session
  <2>2. fate[current + 1] = "unused"
    BY <1>1, <2>1 DEF OrderInv, FateFits, EngineTypeOK
  <2>3. QED
    BY <1>8, <2>1, <2>2 DEF StartRecording
<1>9. CASE StopRecording \/ LimitReached
  BY <1>2, <1>4, <1>9 DEF StopRecording, LimitReached, FinishCapture
<1>10. CASE DecodeSucceeds \/ DecodeFails \/ Publish
  BY <1>1, <1>3, <1>10 DEF DecodeSucceeds, DecodeFails, Publish, EngineShape
<1>11. CASE CancelRecording
  BY <1>2, <1>4, <1>11 DEF CancelRecording, CancelCurrent
<1>12. CASE StartFails \/ BeginMedia \/ RejectMedia
  BY <1>12 DEF StartFails, BeginMedia, RejectMedia
<1>13. CASE MediaFetched \/ MediaEnds
  BY <1>1, <1>13 DEF MediaFetched, MediaEnds, EngineShape
<1>14. CASE BeginSwitch(phase = "stopping") \/ FinishSwitch
  BY <1>1, <1>14 DEF BeginSwitch, FinishSwitch, EngineShape
<1>15. CASE BeginFormatting \/ SaveFormatting \/ FormattingPrepared \/ IgnoreCommand
  BY <1>15 DEF BeginFormatting, SaveFormatting, FormattingPrepared, IgnoreCommand
<1>16. QED
  BY <1>1, <1>5, <1>6, <1>7, <1>8, <1>9, <1>10, <1>11, <1>12, <1>13, <1>14, <1>15
     DEF EngineStep

\* A handler reports no transcript, or publishes the current dictation and is Ready.
LEMMA EngineTranscripts ==
    ASSUME Engine, outbox = <<>>
    PROVE  \/ (\A k \in DOMAIN outbox' : ~IsTranscript(outbox'[k])) /\ ~Publish
           \/ /\ Publish /\ DOMAIN outbox' = 1..2
              /\ outbox'[1] = TranscriptReady(current) /\ outbox'[2] = StatusReport("Ready")
<1>1. EngineStep(phase = "stopping") /\ ~Send
  BY DEF Engine, Send
<1>2. ASSUME NEW s, outbox' = <<StatusReport(s)>>
      PROVE  \A k \in DOMAIN outbox' : ~IsTranscript(outbox'[k])
  <2>1. DOMAIN outbox' = {1} /\ outbox'[1] = StatusReport(s)
    BY <1>2
  <2>2. ~IsTranscript(StatusReport(s))
    BY DEF IsTranscript, StatusReport
  <2>3. QED
    BY <2>1, <2>2
<1>3. ASSUME NEW u, NEW v, outbox' = <<u, v>>, ~IsTranscript(u), ~IsTranscript(v)
      PROVE  \A k \in DOMAIN outbox' : ~IsTranscript(outbox'[k])
  <2>1. DOMAIN outbox' = 1..2 /\ outbox'[1] = u /\ outbox'[2] = v
    BY <1>3
  <2>2. \A k \in 1..2 : k = 1 \/ k = 2
    OBVIOUS
  <2>3. QED
    BY <1>3, <2>1, <2>2
<1>4. /\ ~IsTranscript(FormattingBusy(FALSE)) /\ ~IsTranscript(FormattingBusy(TRUE))
      /\ ~IsTranscript(StatusReport("Ready"))
  BY DEF IsTranscript, FormattingBusy, StatusReport
<1>5. outbox' = <<>> => \A k \in DOMAIN outbox' : FALSE
  OBVIOUS
<1>6. outbox' = <<FormattingBusy(TRUE)>> => \A k \in DOMAIN outbox' : ~IsTranscript(outbox'[k])
  <2>1. SUFFICES ASSUME outbox' = <<FormattingBusy(TRUE)>>
                 PROVE  \A k \in DOMAIN outbox' : ~IsTranscript(outbox'[k])
    OBVIOUS
  <2>2. DOMAIN outbox' = {1} /\ outbox'[1] = FormattingBusy(TRUE)
    BY <2>1
  <2>3. QED
    BY <1>4, <2>2
<1> USE DEF Receive, Idle, Blocked, Report
<1>7. CASE Publish
  <2>1. outbox' = <<TranscriptReady(current), StatusReport("Ready")>>
    BY <1>7 DEF Publish
  <2>2. DOMAIN outbox' = 1..2 /\ outbox'[1] = TranscriptReady(current)
        /\ outbox'[2] = StatusReport("Ready")
    BY <2>1
  <2>3. QED
    BY <1>7, <2>2
<1>8. SUFFICES ASSUME ~Publish PROVE \A k \in DOMAIN outbox' : ~IsTranscript(outbox'[k])
  BY <1>7
<1>9. CASE PrepareSucceeds
  <2>1. \/ outbox' = <<StatusReport("Ready"), FormattingBusy(TRUE)>>
        \/ outbox' = <<StatusReport("Ready")>>
    BY <1>9 DEF PrepareSucceeds
  <2>2. QED
    BY <1>2, <1>3, <1>4, <2>1
<1>10. CASE PrepareFails \/ Quit \/ Exit \/ StartRecording \/ StartFails
  BY <1>2, <1>5, <1>10 DEF PrepareFails, Quit, Exit, StartRecording, StartFails
<1>11. CASE StopRecording \/ LimitReached
  BY <1>2, <1>11 DEF StopRecording, LimitReached, FinishCapture
<1>12. CASE DecodeSucceeds \/ DecodeFails \/ CancelRecording
  BY <1>2, <1>5, <1>12 DEF DecodeSucceeds, DecodeFails, CancelRecording
<1>13. CASE SaveFormatting \/ FormattingPrepared
  BY <1>3, <1>4, <1>13 DEF SaveFormatting, FormattingPrepared
<1>14. CASE BeginMedia \/ RejectMedia \/ MediaFetched \/ MediaEnds
  BY <1>2, <1>5, <1>14 DEF BeginMedia, RejectMedia, MediaFetched, MediaEnds
<1>15. CASE BeginSwitch(phase = "stopping") \/ FinishSwitch
  BY <1>2, <1>5, <1>15 DEF BeginSwitch, FinishSwitch
<1>16. CASE BeginFormatting \/ IgnoreCommand
  BY <1>5, <1>6, <1>16 DEF BeginFormatting, IgnoreCommand
<1>17. QED
  BY <1>1, <1>8, <1>9, <1>10, <1>11, <1>12, <1>13, <1>14, <1>15, <1>16 DEF EngineStep

\* A handler keeps the histories in agreement with the engine.
LEMMA EngineFateFits ==
    ASSUME OrderInv, EngineTypeOK', EngineMoves
    PROVE  FateFits'
<1>1. /\ current \in Nat /\ fate \in [Session -> Fates] /\ Session \subseteq Int
      /\ FateFits
  BY MaxSessionsAssumption
     DEF OrderInv, ViewInv, CancelInv, ShapeInv, TypeOK, EngineTypeOK, Session
<1>2. CASE fate' = fate
  BY <1>1, <1>2 DEF EngineMoves, FateFits, Moves
<1>3. ASSUME NEW t, NEW g, t \in Session, fate' = [fate EXCEPT ![t] = g]
      PROVE  fate'[t] = g /\ \A s \in Session : s # t => fate'[s] = fate[s]
  BY <1>1, <1>3
<1>4. CASE Moves(current + 1, "unused", "recording") /\ current' = current + 1
           /\ status = "Ready" /\ status' = "Recording" /\ job = "none" /\ job' = "none"
  <2>1. /\ current + 1 \in Session /\ fate'[current + 1] = "recording"
        /\ \A s \in Session : s # current + 1 => fate'[s] = fate[s]
    BY <1>3, <1>4 DEF Moves
  <2>2. \A s \in Session : s # current + 1 => fate[s] \notin {"recording", "decoding"}
    BY <1>1, <1>4 DEF FateFits
  <2>3. QED
    BY <1>1, <1>4, <2>1, <2>2 DEF FateFits
<1>5. ASSUME NEW g \in {"decoding", "ended", "dropped"}, Moves(current, "recording", g),
             current' = current,
             \/ g = "decoding" /\ status' = "Transcribing" /\ job' = "decode"
             \/ /\ g # "decoding" /\ job' \notin {"decode", "clean"}
                /\ ~(status' = "Recording" /\ job' # "dead")
      PROVE  FateFits'
  BY <1>1, <1>3, <1>5 DEF FateFits, Moves
<1>6. ASSUME NEW g \in {"published", "ended"}, Moves(current, "decoding", g),
             current' = current, status' = "Ready", job' = "none"
      PROVE  FateFits'
  BY <1>1, <1>3, <1>6 DEF FateFits, Moves
<1>7. QED
  BY <1>2, <1>4, <1>5, <1>6 DEF EngineMoves

\* The dictations before the current one have left the engine.
LEMMA EarlierLeft ==
    ASSUME OrderInv, NEW s \in Session, s < current
    PROVE  fate[s] \notin {"unused", "recording", "decoding"}
BY MaxSessionsAssumption
   DEF OrderInv, FateFits, ViewInv, CancelInv, ShapeInv, TypeOK, EngineTypeOK, Session

\* A handler keeps the dictations in order.
LEMMA EngineOrdered ==
    ASSUME OrderInv, EngineMoves
    PROVE  DeliveredInOrder'
<1>1. EngineTypeOK /\ DeliveredInOrder
  BY DEF OrderInv, ViewInv, CancelInv, ShapeInv, TypeOK
<1>2. \A s \in Session : s < current + 1 => s = current \/ s < current
  BY <1>1 DEF EngineTypeOK, Session
<1>3. \A s \in Session : s < current => Rank(fate[s]) >= 3
  BY EarlierLeft DEF Rank
<1>4. CASE fate' = fate
  BY <1>1, <1>4, OrderByRank
<1>5. CASE Moves(current + 1, "unused", "recording")
  <2>1. \A s \in Session : s < current + 1 => fate[s] # "unused"
    BY <1>1, <1>2 DEF OrderInv, FateFits, EngineTypeOK, Session
  <2>2. \A s \in Session : s < current + 1 => Rank(fate[s]) >= 1
    BY <2>1 DEF Rank
  <2>3. Rank("unused") = 0 /\ Rank("recording") = 1
    BY DEF Rank
  <2>4. QED
    BY <1>1, <1>5, <2>2, <2>3, MoveKeepsOrder
<1>6. Rank("recording") = 1 /\ Rank("decoding") = 2 /\ Rank("published") = 3
      /\ Rank("ended") = 5 /\ Rank("dropped") = 5
  BY DEF Rank
<1>7. \A s \in Session : s < current => Rank(fate[s]) >= 2
  BY <1>3 DEF Rank
<1>8. CASE Moves(current, "recording", "decoding")
  BY <1>1, <1>6, <1>7, <1>8, MoveKeepsOrder
<1>9. ASSUME NEW g \in {"ended", "dropped"}, Moves(current, "recording", g)
      PROVE  DeliveredInOrder'
  BY <1>1, <1>6, <1>9, MoveKeepsOrder
<1>10. ASSUME NEW g \in {"published", "ended"}, Moves(current, "decoding", g)
       PROVE  DeliveredInOrder'
  BY <1>1, <1>3, <1>6, <1>10, MoveKeepsOrder
<1>11. QED
  BY <1>4, <1>5, <1>8, <1>9, <1>10 DEF EngineMoves

\* A handler publishes behind the transcripts under way.
LEMMA EngineInChannel ==
    ASSUME OrderInv, EngineTypeOK', Engine
    PROVE  InChannel'
<1>1. EngineTypeOK /\ InChannel /\ EngineMoves
  BY EngineMovesOne DEF OrderInv, ViewInv, CancelInv, ShapeInv, TypeOK
<1>2. /\ fate \in [Session -> Fates] /\ current \in Nat
      /\ \A i \in DOMAIN Pending : IsTranscript(Pending[i]) => Pending[i].session \in Session
  BY <1>1, PendingTyped, UpdateTyped, MaxSessionsAssumption DEF EngineTypeOK, IsTranscript
<1>3. CASE Send
  <2>1. Pending' = Pending /\ fate' = fate
    BY <1>1, <1>3, SendKeepsPending DEF Send
  <2>2. QED
    BY <1>1, <2>1 DEF InChannel, IsTranscript
<1>4. ASSUME outbox = <<>>, upds' = upds, \A k \in DOMAIN outbox' : ~IsTranscript(outbox'[k]),
             ~Publish
      PROVE  InChannel'
  <2>1. \A s \in Session : fate'[s] = "published" <=> fate[s] = "published"
    BY <1>1, <1>2, <1>4 DEF EngineMoves, Moves
  <2>2. /\ \A i \in DOMAIN Pending : i \in DOMAIN Pending' /\ Pending'[i] = Pending[i]
        /\ \A i \in DOMAIN Pending' : IsTranscript(Pending'[i]) =>
             i \in DOMAIN Pending /\ Pending'[i] = Pending[i]
    BY <1>1, <1>4, ReportsQueue
  <2>3. QED
    BY <1>1, <1>2, <2>1, <2>2 DEF InChannel, IsTranscript
<1>5. ASSUME Publish, DOMAIN outbox' = 1..2, outbox = <<>>, upds' = upds,
             outbox'[1] = TranscriptReady(current), outbox'[2] = StatusReport("Ready")
      PROVE  InChannel'
  <2>1. /\ IsTranscript(outbox'[1]) /\ outbox'[1].session = current /\ ~IsTranscript(outbox'[2])
    BY <1>5 DEF IsTranscript, TranscriptReady, StatusReport
  <2>2. job = "clean" /\ fate' = [fate EXCEPT ![current] = "published"]
    BY <1>5 DEF Publish, Blocked, Settle
  <2>3. current \in Session /\ fate[current] = "decoding"
    BY <1>1, <2>2 DEF OrderInv, FateFits, ViewInv, CancelInv, ShapeInv, EngineShape,
       EngineTypeOK, Session
  <2>4. PICK n : /\ n = Len(Pending) + 1 /\ n \in DOMAIN Pending' /\ Pending'[n] = outbox'[1]
    BY <1>1, <1>5, ReportsQueue
  <2>5. /\ \A i \in DOMAIN Pending : i \in DOMAIN Pending' /\ Pending'[i] = Pending[i] /\ i < n
        /\ \A i \in DOMAIN Pending' : IsTranscript(Pending'[i]) =>
             i = n \/ (i \in DOMAIN Pending /\ Pending'[i] = Pending[i])
    <3>1. \A k \in DOMAIN outbox' : k = 1 \/ k = 2
      BY <1>5
    <3>2. \A i \in DOMAIN Pending' : i \in DOMAIN Pending \/ i = n \/ Pending'[i] = outbox'[2]
      BY <1>1, <1>5, <2>4, <3>1, ReportsQueue
    <3>3. \A i \in DOMAIN Pending : i \in DOMAIN Pending' /\ Pending'[i] = Pending[i] /\ i < n
      BY <1>1, <1>5, <2>4, ReportsQueue, PendingTyped
    <3>4. QED
      BY <2>1, <3>2, <3>3
  <2>6. \A i \in DOMAIN Pending : IsTranscript(Pending[i]) => Pending[i].session < current
    <3>1. SUFFICES ASSUME NEW i \in DOMAIN Pending, IsTranscript(Pending[i])
                   PROVE  Pending[i].session < current
      OBVIOUS
    <3>2. Pending[i].session \in Session /\ fate[Pending[i].session] = "published"
      BY <1>1, <1>2, <3>1 DEF InChannel
    <3>3. Pending[i].session # current /\ ~(Pending[i].session > current)
      BY <2>3, <3>2 DEF OrderInv, FateFits
    <3>4. QED
      BY <1>2, <3>2, <3>3 DEF Session
  <2>7. /\ \A s \in Session : fate'[s] = "published" => s = current \/ fate[s] = "published"
        /\ fate'[current] = "published"
        /\ \A s \in Session : fate[s] = "published" => fate'[s] = "published"
    BY <1>2, <2>2, <2>3
  <2>8. \A s \in Session : fate'[s] = "published" =>
           \E i \in DOMAIN Pending' : IsTranscript(Pending'[i]) /\ Pending'[i].session = s
    BY <1>1, <2>1, <2>4, <2>5, <2>7 DEF InChannel
  <2>9. \A i \in DOMAIN Pending' : IsTranscript(Pending'[i]) =>
           fate'[Pending'[i].session] = "published"
    BY <1>1, <1>2, <2>1, <2>4, <2>5, <2>7 DEF InChannel
  <2>10. \A i, j \in DOMAIN Pending' :
           i < j /\ IsTranscript(Pending'[i]) /\ IsTranscript(Pending'[j]) =>
             Pending'[i].session < Pending'[j].session
    <3>1. SUFFICES ASSUME NEW i \in DOMAIN Pending', NEW j \in DOMAIN Pending', i < j,
                          IsTranscript(Pending'[i]), IsTranscript(Pending'[j])
                   PROVE  Pending'[i].session < Pending'[j].session
      OBVIOUS
    <3>2. DOMAIN Pending \subseteq Int /\ DOMAIN Pending' \subseteq Int
      BY <1>1, <1>5, PendingTyped, ReportsQueue
    <3>3. i \in DOMAIN Pending /\ Pending'[i] = Pending[i]
      <4>1. i # n
        BY <2>4, <2>5, <3>1, <3>2
      <4>2. QED
        BY <2>5, <3>1, <4>1
    <3>4. CASE j = n
      BY <2>1, <2>4, <2>6, <3>1, <3>3, <3>4
    <3>5. CASE j \in DOMAIN Pending /\ Pending'[j] = Pending[j]
      BY <1>1, <3>1, <3>3, <3>5 DEF InChannel
    <3>6. QED
      BY <2>5, <3>1, <3>4, <3>5
  <2>11. QED
    BY <2>8, <2>9, <2>10 DEF InChannel, IsTranscript
<1>6. Send \/ (outbox = <<>> /\ upds' = upds)
  BY EngineReports DEF OrderInv
<1>7. QED
  BY <1>3, <1>4, <1>5, <1>6, EngineTranscripts

\* The transcripts the loop holds are a queue of deliveries.
LEMMA CompletedTyped ==
    ASSUME UiTypeOK
    PROVE  /\ completed \in Seq(Delivery)
           /\ DOMAIN completed = 1..Len(completed) /\ Len(completed) \in Nat
           /\ \A i \in DOMAIN completed : /\ completed[i].session \in Session
                                          /\ completed[i].target \in Target
<1>1. completed \in Seq(Delivery)
  BY DEF UiTypeOK
<1>2. DOMAIN completed = 1..Len(completed) /\ Len(completed) \in Nat
      /\ \A i \in DOMAIN completed : completed[i] \in Delivery
  BY <1>1
<1>3. \A d \in Delivery : d.session \in Session /\ d.target \in Target
  BY DEF Delivery
<1>4. QED
  BY <1>1, <1>2, <1>3

\* Every handler keeps the order.
LEMMA EngineOrder ==
    ASSUME OrderInv, ViewInv', Engine
    PROVE  FateFits' /\ InChannel' /\ InHands' /\ DeliveredInOrder'
<1>1. EngineTypeOK /\ UiTypeOK /\ EngineTypeOK' /\ EngineMoves
  BY EngineMovesOne DEF OrderInv, ViewInv, CancelInv, ShapeInv, TypeOK
<1>2. FateFits' /\ InChannel' /\ DeliveredInOrder'
  BY <1>1, EngineFateFits, EngineInChannel, EngineOrdered
<1>3. completed' = completed
  BY DEF Engine, uiVars
<1>4. \A s \in Session : fate[s] = "delivering" => fate'[s] = "delivering"
  BY <1>1 DEF EngineMoves, Moves, EngineTypeOK
<1>5. InHands'
  BY <1>1, <1>3, <1>4, CompletedTyped DEF OrderInv, InHands
<1>6. QED
  BY <1>2, <1>5

\* Whatever leaves the dictations and the engine alone keeps the order.
LEMMA OrderUnchanged ==
    ASSUME OrderInv, UNCHANGED <<status, job, outbox, upds, current, fate, completed>>
    PROVE  FateFits' /\ InChannel' /\ InHands' /\ DeliveredInOrder'
<1>1. DeliveredInOrder'
  BY OrderByRank DEF OrderInv
<1>2. QED
  BY <1>1 DEF OrderInv, FateFits, InChannel, InHands, Pending, IsTranscript

\* LinuxEngine::command moves no dictation; an engine that has ended had none.
LEMMA UserCommandOrder ==
    ASSUME OrderInv, NEW op \in Commands, UserCommand(op)
    PROVE  FateFits' /\ InChannel' /\ InHands' /\ DeliveredInOrder'
<1>1. ~Leaving /\ fate' = fate /\ completed' = completed
  BY DEF UserCommand, Leaving, AcceptCommand, SendCommand, RestartEngine, RefuseCancel
<1>2. CASE UNCHANGED <<status, job, outbox, upds, current>>
  BY <1>1, <1>2, OrderUnchanged
<1>3. CASE job = "dead" /\ job' = "prepare" /\ status' = "Starting" /\ current' = 0
           /\ outbox' = <<StatusReport("Starting")>> /\ upds' = <<>>
  <2>1. current = 0
    BY <1>1, <1>3 DEF OrderInv, ViewInv, CancelInv, NoneBeforeStart
  <2>2. FateFits'
    BY <1>1, <1>3, <2>1 DEF OrderInv, FateFits
  <2>3. \A s \in Session : fate[s] # "published"
    BY <1>1, <1>3 DEF OrderInv, InChannel, ViewInv, NeverReady, IsTranscript, IsStatus
  <2>4. Pending' = <<StatusReport("Starting")>>
    BY <1>3, ConcatEmptySeq DEF Pending
  <2>5. DOMAIN Pending' = {1} /\ Pending'[1] = StatusReport("Starting")
    BY <2>4
  <2>6. InChannel'
    BY <1>1, <2>3, <2>5 DEF InChannel, IsTranscript, StatusReport
  <2>7. InHands' /\ DeliveredInOrder'
    BY <1>1, OrderByRank DEF OrderInv, InHands
  <2>8. QED
    BY <2>2, <2>6, <2>7
<1>4. QED
  BY <1>2, <1>3 DEF UserCommand, AcceptCommand, SendCommand, RestartEngine, RefuseCancel,
     CancelCurrent, sessions

\* Taking a transcript takes the oldest that is published.
LEMMA PollTranscriptOrder ==
    ASSUME OrderInv, PollTranscript
    PROVE  FateFits' /\ InChannel' /\ InHands' /\ DeliveredInOrder'
<1>1. /\ EngineTypeOK /\ UiTypeOK /\ DeliveredInOrder
      /\ FateFits /\ InChannel /\ InHands
      /\ fate \in [Session -> Fates] /\ current \in Nat /\ Session \subseteq Int
  BY MaxSessionsAssumption
     DEF OrderInv, ViewInv, CancelInv, ShapeInv, TypeOK, EngineTypeOK, Session
<1>2. /\ upds # <<>> /\ upds' = Tail(upds) /\ Head(upds).kind = "TranscriptReady"
      /\ UNCHANGED <<status, job, outbox, current>>
  BY DEF PollTranscript, TakeUpdate, sessions
<1>3. /\ 1 \in DOMAIN Pending /\ Pending[1] = Head(upds) /\ DOMAIN Pending \subseteq Nat \ {0}
      /\ \A i \in DOMAIN Pending : i > 1 => i - 1 \in DOMAIN Pending' /\ Pending'[i - 1] = Pending[i]
      /\ \A i \in DOMAIN Pending' : i + 1 \in DOMAIN Pending /\ Pending'[i] = Pending[i + 1]
      /\ DOMAIN Pending' \subseteq Nat \ {0}
  <2>1. Pending \in Seq(Update) /\ Pending # <<>>
        /\ Pending' = Tail(Pending) /\ Head(Pending) = Head(upds)
    BY <1>1, <1>2, PollTakes
  <2>2. QED
    BY <2>1, TailShape
<1>4. PICK s : s = Head(upds).session
  OBVIOUS
<1>5. IsTranscript(Pending[1]) /\ Pending[1].session = s
  BY <1>2, <1>3, <1>4 DEF IsTranscript
<1>6. s \in Session /\ fate[s] = "published"
  <2>1. Pending[1] \in Update
    BY <1>1, <1>3, PendingTyped
  <2>2. QED
    BY <1>1, <1>3, <1>5, <2>1, UpdateTyped DEF IsTranscript, InChannel
<1>7. /\ \A i \in DOMAIN Pending : i > 1 /\ IsTranscript(Pending[i]) => Pending[i].session > s
      /\ \A i \in DOMAIN Pending : IsTranscript(Pending[i]) => Pending[i].session \in Session
  BY <1>1, <1>3, <1>5, PendingTyped, UpdateTyped DEF InChannel, IsTranscript
<1>8. PICK g \in {"ended", "delivering"} :
         /\ fate' = [fate EXCEPT ![s] = g]
         /\ \/ completed' = completed
            \/ g = "delivering" /\ completed' = Append(completed, [session |-> s, target |-> pasteTarget])
         /\ g = "delivering" => ~(completed' = completed)
  <2>1. \A d : Append(completed, d) # completed
    <3>1. completed \in Seq(Delivery)
      BY <1>1, CompletedTyped
    <3>2. \A d : Len(Append(completed, d)) # Len(completed)
      BY <3>1
    <3>3. QED
      BY <3>2
  <2>2. QED
    BY <1>4, <2>1 DEF PollTranscript, Settle, HandOver
<1>9. fate'[s] = g /\ \A t \in Session : t # s => fate'[t] = fate[t]
  BY <1>1, <1>6, <1>8
<1>10. FateFits'
  <2>1. /\ status' = status /\ job' = job /\ current' = current
        /\ fate'[s] \notin {"unused", "recording", "decoding"}
    BY <1>2, <1>9
  <2>2. s = current =>
          job \notin {"decode", "clean"} /\ (status = "Recording" => job = "dead")
    BY <1>1, <1>6 DEF FateFits
  <2>3. ~(s > current)
    BY <1>1, <1>6 DEF FateFits
  <2>4. (status = "Recording" /\ job # "dead") \/ job \in {"decode", "clean"} => current \in Session
    BY DEF OrderInv, ViewInv, CancelInv, ShapeInv, TypeOK, EngineTypeOK, EngineShape, Session
  <2>5. \A t \in Session : fate'[t] = fate[t] \/ t = s
    BY <1>9
  <2>6. QED
    BY <1>1, <1>6, <2>1, <2>2, <2>3, <2>4, <2>5 DEF FateFits
<1>11. InChannel'
  <2>1. ASSUME NEW t \in Session, fate'[t] = "published"
        PROVE  \E i \in DOMAIN Pending' : IsTranscript(Pending'[i]) /\ Pending'[i].session = t
    <3>1. t # s /\ fate[t] = "published"
      BY <1>9, <2>1
    <3>2. PICK i \in DOMAIN Pending : IsTranscript(Pending[i]) /\ Pending[i].session = t
      BY <1>1, <3>1 DEF InChannel
    <3>3. i > 1
      BY <1>3, <1>5, <3>1, <3>2
    <3>4. QED
      BY <1>3, <3>2, <3>3
  <2>2. ASSUME NEW i \in DOMAIN Pending', IsTranscript(Pending'[i])
        PROVE  fate'[Pending'[i].session] = "published"
    <3>1. i + 1 > 1 /\ i + 1 \in DOMAIN Pending /\ Pending'[i] = Pending[i + 1]
      BY <1>3, <2>2
    <3>2. /\ fate[Pending'[i].session] = "published"
          /\ Pending'[i].session > s /\ Pending'[i].session \in Session
      BY <1>1, <1>7, <2>2, <3>1 DEF InChannel
    <3>3. Pending'[i].session # s
      BY <1>1, <1>6, <3>2
    <3>4. QED
      BY <1>9, <3>2, <3>3
  <2>3. ASSUME NEW i \in DOMAIN Pending', NEW j \in DOMAIN Pending', i < j,
               IsTranscript(Pending'[i]), IsTranscript(Pending'[j])
        PROVE  Pending'[i].session < Pending'[j].session
    <3>1. i + 1 < j + 1
      BY <1>3, <2>3
    <3>2. QED
      BY <1>1, <1>3, <2>3, <3>1 DEF InChannel
  <2>4. QED
    BY <2>1, <2>2, <2>3 DEF InChannel, IsTranscript
<1>12. InHands'
  <2>1. \A i \in DOMAIN completed : /\ completed[i].session \in Session
                                    /\ completed[i].session # s
                                    /\ fate'[completed[i].session] = "delivering"
    BY <1>1, <1>6, <1>9, CompletedTyped DEF InHands
  <2>2. CASE completed' = completed
    BY <1>1, <2>1, <2>2 DEF InHands
  <2>3. ASSUME g = "delivering",
               completed' = Append(completed, [session |-> s, target |-> pasteTarget])
        PROVE  InHands'
    <3>1. \A i \in DOMAIN completed : completed[i].session < s
      <4>1. SUFFICES ASSUME NEW i \in DOMAIN completed, s < completed[i].session PROVE FALSE
        <5>1. \A t \in Session : t < s \/ t = s \/ s < t
          BY <1>6 DEF Session
        <5>2. QED
          BY <2>1, <5>1
      <4>2. Rank(fate[s]) >= Rank(fate[completed[i].session])
        BY <1>1, <1>6, <2>1, <4>1, OrderByRank DEF InHands
      <4>3. QED
        BY <1>1, <1>6, <4>1, <4>2 DEF InHands, Rank
    <3>2. completed \in Seq(Delivery) /\ Len(completed) \in Nat
      BY <1>1, CompletedTyped
    <3>3. PICK n : n = Len(completed) + 1
      OBVIOUS
    <3>4. /\ DOMAIN completed' = 1..n /\ DOMAIN completed = 1..Len(completed)
          /\ \A i \in DOMAIN completed : completed'[i] = completed[i]
          /\ completed'[n].session = s
      BY <2>3, <3>2, <3>3
    <3>5. \A i \in DOMAIN completed' : i \in DOMAIN completed \/ i = n
      BY <3>2, <3>3, <3>4
    <3>6. ASSUME NEW i \in DOMAIN completed', NEW j \in DOMAIN completed', i < j
          PROVE  completed'[i].session < completed'[j].session
      <4>1. i \in DOMAIN completed
        BY <3>2, <3>3, <3>4, <3>6
      <4>2. QED
        BY <1>1, <3>1, <3>4, <3>5, <3>6, <4>1 DEF InHands
    <3>7. QED
      BY <1>9, <2>1, <2>3, <3>4, <3>5, <3>6 DEF InHands
  <2>4. QED
    BY <1>8, <2>2, <2>3
<1>13. DeliveredInOrder'
  <2>1. Rank("published") = 3 /\ Rank("delivering") = 4 /\ Rank("ended") = 5
    BY DEF Rank
  <2>2. \A t \in Session : t < s => Rank(fate[t]) >= 4
    <3>1. SUFFICES ASSUME NEW t \in Session, t < s PROVE Rank(fate[t]) >= 4
      OBVIOUS
    <3>2. Rank(fate[t]) >= 3
      BY <1>1, <1>6, <2>1, <3>1, OrderByRank
    <3>3. fate[t] # "published"
      <4>1. SUFFICES ASSUME fate[t] = "published" PROVE FALSE
        OBVIOUS
      <4>2. PICK i \in DOMAIN Pending : IsTranscript(Pending[i]) /\ Pending[i].session = t
        BY <1>1, <3>1, <4>1 DEF InChannel
      <4>3. i = 1 \/ i > 1
        BY <1>3, <4>2
      <4>4. ~(t > s) /\ t # s
        BY <1>6, <3>1 DEF Session
      <4>5. QED
        BY <1>5, <1>7, <4>2, <4>3, <4>4
    <3>4. QED
      BY <3>2, <3>3 DEF Rank
  <2>3. Moves(s, "published", g)
    BY <1>6, <1>8 DEF Moves
  <2>4. QED
    BY <1>1, <2>1, <2>2, <2>3, MoveKeepsOrder
<1>14. QED
  BY <1>10, <1>11, <1>12, <1>13

\* Delivering delivers the oldest of the transcripts the loop holds.
LEMMA DeliverOrder ==
    ASSUME OrderInv, Deliver
    PROVE  FateFits' /\ InChannel' /\ InHands' /\ DeliveredInOrder'
<1>1. /\ EngineTypeOK /\ UiTypeOK /\ DeliveredInOrder /\ FateFits /\ InChannel /\ InHands
      /\ fate \in [Session -> Fates] /\ Session \subseteq Int
  BY DEF OrderInv, ViewInv, CancelInv, ShapeInv, TypeOK, EngineTypeOK, Session
<1>2. /\ UNCHANGED <<status, job, current, outbox, upds>> /\ completed' = Tail(completed)
      /\ completed # <<>> /\ completed \in Seq(Delivery)
  BY <1>1, CompletedTyped DEF Deliver, sessions, OrderInv, ViewInv, CancelInv, ShapeInv, UiShape
<1>3. /\ 1 \in DOMAIN completed /\ completed[1] = Head(completed)
      /\ \A i \in DOMAIN completed' : i + 1 \in DOMAIN completed /\ completed'[i] = completed[i + 1]
      /\ \A i \in DOMAIN completed : i = 1 \/ i > 1
      /\ DOMAIN completed' \subseteq Nat \ {0}
  BY <1>2, TailShape
<1>4. PICK s : s = Head(completed).session
  OBVIOUS
<1>5. s \in Session /\ fate[s] = "delivering"
  BY <1>1, <1>3, <1>4, CompletedTyped DEF InHands
<1>6. PICK g \in {"ended", "delivered"} : fate' = [fate EXCEPT ![s] = g]
  BY <1>4 DEF Deliver, Settle
<1>7. fate'[s] = g /\ \A t \in Session : t # s => fate'[t] = fate[t]
  BY <1>1, <1>5, <1>6
<1>8. FateFits'
  <2>1. s = current =>
          job \notin {"decode", "clean"} /\ (status = "Recording" => job = "dead")
    BY <1>1, <1>5 DEF FateFits
  <2>2. ~(s > current)
    BY <1>1, <1>5 DEF FateFits
  <2>3. (status = "Recording" /\ job # "dead") \/ job \in {"decode", "clean"} => current \in Session
    BY DEF OrderInv, ViewInv, CancelInv, ShapeInv, TypeOK, EngineTypeOK, EngineShape, Session
  <2>4. \A t \in Session : fate'[t] = fate[t] \/ (t = s /\ fate'[t] \in {"ended", "delivered"})
    BY <1>7
  <2>5. QED
    BY <1>1, <1>2, <1>5, <2>1, <2>2, <2>3, <2>4 DEF FateFits
<1>9. InChannel'
  <2>1. Pending' = Pending
    BY <1>2 DEF Pending
  <2>2. \A t \in Session : fate'[t] = "published" <=> fate[t] = "published"
    BY <1>5, <1>7
  <2>3. \A i \in DOMAIN Pending : IsTranscript(Pending[i]) => Pending[i].session \in Session
    BY <1>1, PendingTyped, UpdateTyped DEF IsTranscript
  <2>4. QED
    BY <1>1, <2>1, <2>2, <2>3 DEF InChannel, IsTranscript
<1>10. InHands'
  <2>1. ASSUME NEW i \in DOMAIN completed' PROVE fate'[completed'[i].session] = "delivering"
    <3>1. /\ i + 1 > 1 /\ i + 1 \in DOMAIN completed /\ completed'[i] = completed[i + 1]
      BY <1>3, <2>1
    <3>2. /\ completed[1].session < completed[i + 1].session
          /\ fate[completed[i + 1].session] = "delivering"
      BY <1>1, <1>3, <3>1 DEF InHands
    <3>3. completed[i + 1].session \in Session
      BY <1>1, <3>1, CompletedTyped
    <3>4. completed[i + 1].session # s
      BY <1>1, <1>3, <1>4, <1>5, <3>2, <3>3
    <3>5. QED
      BY <1>7, <3>1, <3>2, <3>3, <3>4
  <2>2. ASSUME NEW i \in DOMAIN completed', NEW j \in DOMAIN completed', i < j
        PROVE  completed'[i].session < completed'[j].session
    <3>1. i + 1 < j + 1
      BY <1>3, <2>2
    <3>2. QED
      BY <1>1, <1>3, <2>2, <3>1 DEF InHands
  <2>3. QED
    BY <2>1, <2>2 DEF InHands
<1>11. DeliveredInOrder'
  <2>1. Rank("delivering") = 4 /\ Rank("ended") = 5 /\ Rank("delivered") = 5
    BY DEF Rank
  <2>2. \A t \in Session : t < s => Rank(fate[t]) >= 5
    <3>1. SUFFICES ASSUME NEW t \in Session, t < s PROVE Rank(fate[t]) >= 5
      OBVIOUS
    <3>2. Rank(fate[t]) >= 4
      BY <1>1, <1>5, <2>1, <3>1, OrderByRank
    <3>3. fate[t] # "delivering"
      <4>1. SUFFICES ASSUME fate[t] = "delivering" PROVE FALSE
        OBVIOUS
      <4>2. PICK i \in DOMAIN completed : completed[i].session = t
        BY <3>1, <4>1 DEF OrderInv, ViewInv, CancelInv, HandedOver
      <4>3. i # 1 => s < t
        BY <1>1, <1>3, <1>4, <4>2 DEF InHands
      <4>4. ~(s < t) /\ t # s
        BY <1>5, <3>1 DEF Session
      <4>5. QED
        BY <1>3, <1>4, <4>2, <4>3, <4>4
    <3>4. QED
      BY <3>2, <3>3 DEF Rank
  <2>3. Moves(s, "delivering", g)
    BY <1>5, <1>6 DEF Moves
  <2>4. QED
    BY <1>1, <2>1, <2>2, <2>3, MoveKeepsOrder
<1>12. QED
  BY <1>8, <1>9, <1>10, <1>11

\* No dictation has begun when the program starts.
LEMMA InitOrder == Init => OrderInv
<1> SUFFICES ASSUME Init PROVE OrderInv
  OBVIOUS
<1>1. /\ fate = [s \in Session |-> "unused"] /\ current = 0 /\ completed = <<>>
      /\ status = "Starting" /\ job = "prepare" /\ upds = <<>>
      /\ outbox = <<StatusReport("Starting")>>
  BY DEF Init, EngineInit, UiInit
<1>2. FateFits /\ InHands
  BY <1>1 DEF FateFits, InHands, Session
<1>3. InChannel
  <2>1. Pending = <<StatusReport("Starting")>>
    BY <1>1, ConcatEmptySeq DEF Pending
  <2>2. DOMAIN Pending = {1} /\ Pending[1] = StatusReport("Starting")
    BY <2>1
  <2>3. QED
    BY <1>1, <2>2 DEF InChannel, IsTranscript, StatusReport
<1>4. DeliveredInOrder
  <2>1. Rank("unused") = 0
    BY DEF Rank
  <2>2. QED
    BY <1>1, <2>1, OrderByRank
<1>5. QED
  BY <1>2, <1>3, <1>4, InitView DEF OrderInv

\* Every step of the program keeps the order.
LEMMA NextOrder ==
    ASSUME OrderInv, [Next]_vars
    PROVE  OrderInv'
<1>1. ViewInv'
  BY NextView DEF OrderInv
<1>2. SUFFICES FateFits' /\ InChannel' /\ InHands' /\ DeliveredInOrder'
  BY <1>1 DEF OrderInv
<1>3. CASE Engine
  BY <1>1, <1>3, EngineOrder
<1>4. ASSUME NEW op \in Commands, UserCommand(op)
      PROVE  FateFits' /\ InChannel' /\ InHands' /\ DeliveredInOrder'
  BY <1>4, UserCommandOrder
<1>5. CASE PollStatus \/ PollFormattingBusy
  <2>1. /\ upds # <<>> /\ upds' = Tail(upds) /\ Head(upds).kind # "TranscriptReady"
        /\ UNCHANGED <<status, job, outbox, current, fate, completed>>
    BY <1>5 DEF PollStatus, PollFormattingBusy, TakeUpdate, sessions
  <2>2. EngineTypeOK
    BY DEF OrderInv, ViewInv, CancelInv, ShapeInv, TypeOK
  <2>3. /\ 1 \in DOMAIN Pending /\ Pending[1] = Head(upds) /\ DOMAIN Pending \subseteq Nat \ {0}
        /\ \A i \in DOMAIN Pending : i > 1 => i - 1 \in DOMAIN Pending' /\ Pending'[i - 1] = Pending[i]
        /\ \A i \in DOMAIN Pending' : i + 1 \in DOMAIN Pending /\ Pending'[i] = Pending[i + 1]
        /\ DOMAIN Pending' \subseteq Nat \ {0}
    <3>1. Pending \in Seq(Update) /\ Pending # <<>>
          /\ Pending' = Tail(Pending) /\ Head(Pending) = Head(upds)
      BY <2>1, <2>2, PollTakes
    <3>2. QED
      BY <3>1, TailShape
  <2>4. InChannel'
    <3>1. ASSUME NEW s \in Session, fate[s] = "published"
          PROVE  \E i \in DOMAIN Pending' : IsTranscript(Pending'[i]) /\ Pending'[i].session = s
      <4>1. PICK i \in DOMAIN Pending : IsTranscript(Pending[i]) /\ Pending[i].session = s
        BY <3>1 DEF OrderInv, InChannel
      <4>2. i > 1
        BY <2>1, <2>3, <4>1 DEF IsTranscript
      <4>3. QED
        BY <2>3, <4>1, <4>2
    <3>2. ASSUME NEW i \in DOMAIN Pending', NEW j \in DOMAIN Pending', i < j,
                 IsTranscript(Pending'[i]), IsTranscript(Pending'[j])
          PROVE  Pending'[i].session < Pending'[j].session
      <4>1. i + 1 < j + 1
        BY <2>3, <3>2
      <4>2. QED
        BY <2>3, <3>2, <4>1 DEF OrderInv, InChannel
    <3>3. \A i \in DOMAIN Pending' : IsTranscript(Pending'[i]) =>
             fate[Pending'[i].session] = "published"
      BY <2>3 DEF OrderInv, InChannel
    <3>4. QED
      BY <2>1, <3>1, <3>2, <3>3 DEF InChannel, IsTranscript
  <2>5. FateFits' /\ InHands' /\ DeliveredInOrder'
    BY <2>1, OrderByRank DEF OrderInv, FateFits, InHands
  <2>6. QED
    BY <2>4, <2>5
<1>6. CASE PollTranscript \/ Deliver
  BY <1>6, PollTranscriptOrder, DeliverOrder
<1>7. CASE UserQuit \/ UpdaterQuit
  BY <1>7, OrderUnchanged DEF UserQuit, UpdaterQuit, HandleQuit, sessions
<1>8. CASE RetryUnsaved \/ Gone \/ BeginPoll \/ EndPoll
  BY <1>8, OrderUnchanged DEF RetryUnsaved, Gone, BeginPoll, EndPoll, engineVars
<1>9. CASE Updater \/ UNCHANGED vars
  BY <1>9, OrderUnchanged DEF Updater, Reserve, Release, Restart, vars, engineVars, uiVars
<1>10. QED
  BY <1>3, <1>4, <1>5, <1>6, <1>7, <1>8, <1>9 DEF Next, Loop

\* Dictations keep their order from the microphone to the paste, whatever is pressed
\* and however the loop and the engine take turns (runtime.rs, `run`; linux.rs, poll).
THEOREM OrderCorrect == Spec => []DeliveredInOrder
<1>1. OrderInv => DeliveredInOrder
  BY DEF OrderInv
<1>2. QED
  BY <1>1, InitOrder, NextOrder, PTL DEF Spec

-----------------------------------------------------------------------------
(* Where a transcript is pasted.                                           *)

\* Only a dictation that has begun is stopped.
UnstoppedYet == \A s \in Session : s > current => stopFocus[s] = NoWindow

\* A dictation that was stopped with the loop up to date, and that the loop does not
\* hold yet.
Stopped(s) ==
    /\ fate[s] \in {"recording", "decoding", "published"}
    /\ stopFocus[s] # NoWindow /\ s \notin hastyStops

\* The transcript of dictation s is under way behind report i.
AheadOf(i, s) ==
    \E j \in DOMAIN Pending : i < j /\ IsTranscript(Pending[j]) /\ Pending[j].session = s

\* While such a dictation is under way, the loop keeps its target and takes no tap:
\* the stop is the only command that can end the recording, and until the transcript
\* every status it reads is Transcribing.
Held(s) ==
    /\ s = current
    /\ pasteTarget = stopFocus[s]
    /\ shown = "Transcribing" \/ (shown = "Recording" /\ stopSent)
    /\ \A t \in Session : fate[t] = "published" => t = s
    /\ \A i \in DOMAIN Pending :
         IsStatus(Pending[i]) /\ (fate[s] = "published" => AheadOf(i, s)) =>
           Pending[i].status = "Transcribing"
    /\ fate[s] = "recording" => cmds # <<>> /\ Head(cmds).op \in {"Toggle", "Stop"}
    /\ \A i \in DOMAIN cmds : cmds[i].op \in DictationOps => i = 1 /\ fate[s] = "recording"

\* The inductive invariant behind PastedWhereStopped.
TargetInv ==
    /\ OrderInv /\ UnstoppedYet /\ PastedWhereStopped
    /\ \A s \in Session : Stopped(s) => Held(s)

\* While a dictation is recorded or decoded, the only status reported is Transcribing.
LEMMA EngineTranscribing ==
    ASSUME OrderInv, Engine, outbox = <<>>, fate[current] \in {"recording", "decoding"},
           current \in Session, fate'[current] \in {"recording", "decoding"}
    PROVE  \A k \in DOMAIN outbox' : IsStatus(outbox'[k]) => outbox'[k].status = "Transcribing"
<1>1. /\ EngineStep(phase = "stopping") /\ ~Send
      /\ EngineShape /\ FateFits /\ fate \in [Session -> Fates]
  BY DEF Engine, Send, OrderInv, ViewInv, CancelInv, ShapeInv, TypeOK, EngineTypeOK
<1>2. outbox' = <<>> \/ outbox' = <<StatusReport("Transcribing")>>
  <2>1. (status = "Recording" /\ job # "dead") \/ (status = "Transcribing" /\ job \in {"decode", "clean"})
    BY <1>1 DEF FateFits, EngineShape
  <2>2. media # "none" => status = "Transcribing" /\ job \in {"none", "exit"}
    BY <1>1 DEF EngineShape
  <2> USE DEF Receive, Idle, Blocked, Report, Settle
  <2>3. CASE PrepareSucceeds \/ PrepareFails \/ Quit \/ Exit \/ StartRecording \/ StartFails
    BY <1>1, <2>1, <2>3 DEF PrepareSucceeds, PrepareFails, Quit, Exit, StartRecording, StartFails,
       EngineShape
  <2>4. CASE StopRecording \/ LimitReached
    BY <2>4 DEF StopRecording, LimitReached, FinishCapture
  <2>5. CASE DecodeSucceeds \/ DecodeFails \/ Publish \/ CancelRecording
    BY <1>1, <2>5 DEF DecodeSucceeds, DecodeFails, Publish, CancelRecording
  <2>6. CASE BeginMedia \/ RejectMedia \/ MediaFetched \/ MediaEnds
    BY <2>1, <2>2, <2>6 DEF BeginMedia, RejectMedia, MediaFetched, MediaEnds
  <2>7. CASE BeginSwitch(phase = "stopping") \/ FinishSwitch
    BY <1>1, <2>1, <2>7 DEF BeginSwitch, FinishSwitch, EngineShape
  <2>8. CASE BeginFormatting \/ SaveFormatting \/ FormattingPrepared \/ IgnoreCommand
    BY <2>1, <2>8 DEF BeginFormatting, SaveFormatting, FormattingPrepared, IgnoreCommand
  <2>9. QED
    BY <1>1, <2>3, <2>4, <2>5, <2>6, <2>7, <2>8 DEF EngineStep
<1>3. ASSUME outbox' = <<StatusReport("Transcribing")>>
      PROVE  \A k \in DOMAIN outbox' : outbox'[k].status = "Transcribing"
  <2>1. DOMAIN outbox' = {1} /\ outbox'[1] = StatusReport("Transcribing")
    BY <1>3
  <2>2. outbox'[1].status = "Transcribing"
    BY <2>1 DEF StatusReport
  <2>3. QED
    BY <2>1, <2>2
<1>4. QED
  BY <1>2, <1>3

\* A stop at the front of the queue is the next command, and ends the recording.
LEMMA EngineTakesStop ==
    ASSUME OrderInv, Engine, current \in Session, fate[current] = "recording",
           cmds # <<>>, Head(cmds).op \in {"Toggle", "Stop"}
    PROVE  /\ fate'[current] = "recording" => cmds' = cmds
           /\ fate'[current] = "decoding" => cmds' = Tail(cmds)
<1>1. EngineStep(phase = "stopping") /\ status = "Recording" /\ fate \in [Session -> Fates]
      /\ EngineShape
  BY DEF Engine, OrderInv, FateFits, ViewInv, CancelInv, ShapeInv, TypeOK, EngineTypeOK
<1> USE DEF Receive, Idle, Blocked, Report, Settle
<1>2. CASE Send \/ PrepareSucceeds \/ PrepareFails \/ Quit
  BY <1>2 DEF Send, PrepareSucceeds, PrepareFails, Quit
<1>3. CASE Exit \/ StartRecording \/ StartFails
  BY <1>1, <1>3 DEF Exit, StartRecording, StartFails
<1>4. CASE StopRecording \/ LimitReached
  BY <1>1, <1>4 DEF StopRecording, LimitReached, FinishCapture
<1>5. CASE DecodeSucceeds \/ DecodeFails \/ Publish \/ CancelRecording
  BY <1>1, <1>5 DEF DecodeSucceeds, DecodeFails, Publish, CancelRecording, EngineShape
<1>6. CASE BeginMedia \/ RejectMedia \/ MediaFetched \/ MediaEnds
  BY <1>1, <1>6 DEF BeginMedia, RejectMedia, MediaFetched, MediaEnds
<1>7. CASE BeginSwitch(phase = "stopping") \/ FinishSwitch
  BY <1>1, <1>7 DEF BeginSwitch, FinishSwitch
<1>8. CASE BeginFormatting \/ SaveFormatting \/ FormattingPrepared \/ IgnoreCommand
  BY <1>1, <1>8 DEF BeginFormatting, SaveFormatting, FormattingPrepared, IgnoreCommand, Ignored,
     FormatOps, MediaOps
<1>9. QED
  BY <1>1, <1>2, <1>3, <1>4, <1>5, <1>6, <1>7, <1>8 DEF EngineStep

\* A handler keeps what is held for a stopped dictation.
LEMMA EngineHeld ==
    ASSUME TargetInv, OrderInv', Engine, NEW s \in Session, Stopped(s)'
    PROVE  Held(s)'
<1>1. /\ EngineTypeOK /\ EngineTypeOK' /\ EngineMoves /\ FateFits /\ InChannel /\ OrderInv
      /\ UNCHANGED <<pasteTarget, shown, stopSent, stopFocus, hastyStops>>
      /\ fate \in [Session -> Fates] /\ Session \subseteq Int /\ current \in Int
      /\ cmds \in Seq(Command)
  BY EngineMovesOne, MaxSessionsAssumption DEF TargetInv, OrderInv, ViewInv, CancelInv,
     ShapeInv, TypeOK, EngineTypeOK, Engine, uiVars, Session
<1>2. fate'[s] = fate[s] \/ (s = current + 1 /\ fate[s] = "unused") \/ fate[s] \in {"recording", "decoding"}
  BY <1>1 DEF EngineMoves, Moves
<1>3. fate[s] # "unused"
  BY <1>1 DEF Stopped, TargetInv, UnstoppedYet, FateFits
<1>4. Stopped(s) /\ Held(s)
  BY <1>1, <1>2, <1>3 DEF Stopped, TargetInv
<1>5. s = current
  BY <1>4 DEF Held
<1>6. current' = current
  <2>1. SUFFICES ASSUME StartRecording PROVE FALSE
    BY EngineEffects, <1>1 DEF EngineEffect, CancelRecording, CancelCurrent, sessions, Engine
  <2>2. cmds # <<>> /\ Head(cmds).op \in DictationOps /\ status = "Ready"
    BY <2>1 DEF StartRecording, Receive, DictationOps
  <2>3. 1 \in DOMAIN cmds /\ cmds[1] = Head(cmds)
    BY <1>1, <2>2, TailShape
  <2>4. fate[s] = "recording"
    BY <1>4, <2>2, <2>3 DEF Held
  <2>5. QED
    BY <1>1, <2>2, <2>4 DEF FateFits
<1>7. ASSUME NEW t \in Session, fate'[t] = "published" PROVE t = s
  <2>1. fate[t] = "published" \/ t = current
    BY <1>1, <1>7 DEF EngineMoves, Moves
  <2>2. QED
    BY <1>4, <1>5, <2>1 DEF Held
<1>8. /\ fate'[s] = "recording" => cmds' # <<>> /\ Head(cmds').op \in {"Toggle", "Stop"}
      /\ \A i \in DOMAIN cmds' : cmds'[i].op \in DictationOps => i = 1 /\ fate'[s] = "recording"
  <2>1. fate'[s] = "recording" => fate[s] = "recording"
    BY <1>1, <1>3, <1>5 DEF EngineMoves, Moves
  <2>2. fate[s] = "recording" =>
          /\ cmds # <<>> /\ Head(cmds).op \in {"Toggle", "Stop"}
          /\ fate'[s] = "recording" => cmds' = cmds
          /\ fate'[s] = "decoding" => cmds' = Tail(cmds)
    BY <1>1, <1>4, <1>5, EngineTakesStop DEF Held
  <2>3. \A i \in DOMAIN cmds : cmds[i].op \in DictationOps => i = 1 /\ fate[s] = "recording"
    BY <1>4 DEF Held
  <2>4. cmds # <<>> => /\ \A i \in DOMAIN Tail(cmds) : /\ i + 1 \in DOMAIN cmds /\ i + 1 # 1
                                                       /\ Tail(cmds)[i] = cmds[i + 1]
    BY <1>1, TailShape
  <2>5. CASE fate'[s] = "recording"
    BY <2>1, <2>2, <2>3, <2>5
  <2>6. CASE fate[s] = "recording" /\ fate'[s] # "recording"
    <3>1. fate'[s] = "decoding"
      BY <1>1, <1>5, <2>6 DEF EngineMoves, Moves, Stopped
    <3>2. QED
      BY <2>2, <2>3, <2>4, <2>6, <3>1
  <2>7. CASE fate[s] # "recording"
    <3>1. cmds' = cmds \/ (cmds # <<>> /\ cmds' = Tail(cmds)) \/ cmds' = <<>>
      BY <1>1, EngineEffects DEF EngineEffect, Engine
    <3>2. QED
      BY <2>1, <2>3, <2>4, <2>7, <3>1
  <2>8. QED
    BY <2>5, <2>6, <2>7
<1>9. ASSUME NEW i \in DOMAIN Pending', IsStatus(Pending'[i]),
             fate'[s] = "published" => AheadOf(i, s)'
      PROVE  Pending'[i].status = "Transcribing"
  <2>1. \A j \in DOMAIN Pending :
          IsStatus(Pending[j]) /\ (fate[s] = "published" => AheadOf(j, s)) =>
            Pending[j].status = "Transcribing"
    BY <1>4 DEF Held
  <2>2. CASE Send
    <3>1. Pending' = Pending /\ fate' = fate
      BY <1>1, <2>2, SendKeepsPending DEF Send
    <3>2. QED
      BY <1>9, <2>1, <3>1 DEF AheadOf
  <2>3. CASE outbox = <<>> /\ upds' = upds
    <3>1. /\ \A j \in DOMAIN Pending : j \in DOMAIN Pending' /\ Pending'[j] = Pending[j]
          /\ \A j \in DOMAIN Pending' : j \notin DOMAIN Pending =>
               \E k \in DOMAIN outbox' : j = Len(Pending) + k /\ Pending'[j] = outbox'[k]
          /\ DOMAIN Pending = 1..Len(Pending) /\ Len(Pending) \in Nat
          /\ DOMAIN Pending' \subseteq Nat \ {0}
      BY <1>1, <2>3, ReportsQueue, PendingTyped
    <3>2. CASE Publish
      <4>1. DOMAIN outbox' = 1..2 /\ outbox'[1] = TranscriptReady(current)
            /\ outbox'[2] = StatusReport("Ready")
        BY <2>3, <3>2, EngineTranscripts
      <4>2. fate[s] = "decoding" /\ fate'[s] = "published"
        <5>1. fate[current] = "decoding"
          BY <1>1, <3>2 DEF Publish, Blocked, FateFits
        <5>2. QED
          BY <1>1, <1>5, <3>2, <5>1 DEF Publish, Settle
      <4>3. IsTranscript(outbox'[1]) /\ ~IsTranscript(outbox'[2]) /\ ~IsStatus(outbox'[1])
        BY <4>1 DEF IsTranscript, IsStatus, TranscriptReady, StatusReport
      <4>4. PICK j \in DOMAIN Pending' : i < j /\ IsTranscript(Pending'[j])
        BY <1>9, <4>2 DEF AheadOf, IsTranscript
      <4>5. i \in DOMAIN Pending
        <5>1. SUFFICES ASSUME i \notin DOMAIN Pending PROVE FALSE
          OBVIOUS
        <5>2. PICK k \in DOMAIN outbox' : i = Len(Pending) + k /\ Pending'[i] = outbox'[k]
          BY <3>1, <5>1
        <5>3. k = 2
          BY <1>9, <4>1, <4>3, <5>2
        <5>4. j \notin DOMAIN Pending
          BY <3>1, <4>4, <5>2, <5>3
        <5>5. PICK m \in DOMAIN outbox' : j = Len(Pending) + m
          BY <3>1, <5>4
        <5>6. m > 2
          BY <3>1, <4>1, <4>4, <5>2, <5>3, <5>5
        <5>7. QED
          BY <4>1, <5>5, <5>6
      <4>6. QED
        BY <1>9, <2>1, <3>1, <4>2, <4>5
    <3>3. CASE ~Publish /\ fate'[s] = "published"
      <4>1. fate[s] = "published"
        BY <1>1, <1>3, <3>3 DEF EngineMoves, Moves
      <4>2. PICK j \in DOMAIN Pending' : i < j /\ IsTranscript(Pending'[j]) /\ Pending'[j].session = s
        BY <1>9, <3>3 DEF AheadOf, IsTranscript
      <4>3. j \in DOMAIN Pending
        BY <2>3, <3>1, <3>3, <4>2, EngineTranscripts
      <4>4. i \in DOMAIN Pending
        BY <3>1, <4>2, <4>3
      <4>5. AheadOf(i, s)
        BY <3>1, <4>2, <4>3, <4>4 DEF AheadOf
      <4>6. QED
        BY <1>9, <2>1, <3>1, <4>1, <4>4, <4>5
    <3>4. CASE fate'[s] # "published"
      <4>1. fate[s] \in {"recording", "decoding"} /\ fate'[s] \in {"recording", "decoding"}
        BY <1>1, <1>2, <1>3, <1>5, <3>4 DEF Stopped
      <4>2. CASE i \in DOMAIN Pending
        BY <1>9, <2>1, <3>1, <4>1, <4>2
      <4>3. CASE i \notin DOMAIN Pending
        BY <1>1, <1>5, <1>9, <2>3, <3>1, <4>1, <4>3, EngineTranscribing
      <4>4. QED
        BY <4>2, <4>3
    <3>5. QED
      BY <3>2, <3>3, <3>4
  <2>4. QED
    BY <1>1, <2>2, <2>3, EngineReports DEF OrderInv
<1>10. QED
  BY <1>1, <1>4, <1>5, <1>6, <1>7, <1>8, <1>9 DEF Held, IsStatus

\* A handler keeps the invariant of the targets.
LEMMA EngineTarget ==
    ASSUME TargetInv, OrderInv', Engine
    PROVE  TargetInv'
<1>1. UNCHANGED <<completed, stopFocus, hastyStops>>
  BY DEF Engine, uiVars
<1>2. PastedWhereStopped'
  BY <1>1 DEF TargetInv, PastedWhereStopped, TargetKept
<1>3. UnstoppedYet'
  <2>1. EngineMoves /\ current \in Int /\ Session \subseteq Int
    BY EngineMovesOne, MaxSessionsAssumption DEF TargetInv, OrderInv, ViewInv,
       CancelInv, ShapeInv, TypeOK, EngineTypeOK, Session
  <2>2. current' = current \/ current' = current + 1
    BY <2>1 DEF EngineMoves
  <2>3. \A s \in Session : s > current' => s > current
    BY <2>1, <2>2
  <2>4. QED
    BY <1>1, <2>3 DEF TargetInv, UnstoppedYet
<1>4. \A s \in Session : Stopped(s)' => Held(s)'
  BY EngineHeld
<1>5. QED
  BY <1>2, <1>3, <1>4 DEF TargetInv

\* A dictation held by the loop is one the loop shows: no engine has ended.
LEMMA StoppedIsLive ==
    ASSUME TargetInv, NEW s \in Session, Stopped(s), ~Leaving
    PROVE  job # "dead"
BY DEF TargetInv, Held, OrderInv, ViewInv, NeverReady

\* The engine records for a loop that has not quit.
LEMMA RecordingIsLive ==
    ASSUME TargetInv, status = "Recording", ~Leaving
    PROVE  job # "dead" /\ current \in Session /\ fate[current] = "recording"
<1>1. current \in Session
  BY DEF TargetInv, OrderInv, ViewInv, CancelInv, ShapeInv, TypeOK, EngineTypeOK, EngineShape,
     Session
<1>2. job # "dead"
  BY <1>1 DEF TargetInv, OrderInv, ViewInv, CancelInv, NoneBeforeStart, Session
<1>3. QED
  BY <1>1, <1>2 DEF TargetInv, OrderInv, FateFits

\* A tap that stops a dictation with the loop up to date is all there is under way.
LEMMA StopHeld ==
    ASSUME TargetInv, NEW op \in {"Toggle", "Stop"}, SendCommand(op), UpToDate, ~Leaving,
           shown = "Recording", ~stopSent, stopSent', status = "Recording",
           NEW s, s = current, pasteTarget' = stopFocus'[s]
    PROVE  Held(s)'
<1>1. current \in Session /\ fate[current] = "recording"
  BY RecordingIsLive
<1>2. /\ outbox' = outbox /\ upds' = upds /\ fate' = fate /\ current' = current
      /\ shown' = shown
  BY DEF SendCommand, CancelCurrent, sessions
<1>3. DOMAIN Pending = {} /\ Pending' = Pending
  <2>1. Pending = <<>>
    BY ConcatEmptySeq DEF UpToDate, Pending
  <2>2. QED
    BY <1>2, <2>1 DEF Pending
<1>4. \A t \in Session : fate[t] # "published"
  BY <1>3 DEF TargetInv, OrderInv, InChannel
<1>5. cmds' = <<[op |-> op]>>
  BY DEF SendCommand, UpToDate
<1>6. cmds' # <<>> /\ Head(cmds').op = op /\ DOMAIN cmds' = {1}
  BY <1>5
<1>7. QED
  BY <1>1, <1>2, <1>3, <1>4, <1>6 DEF Held

\* A command that does not stop the dictation leaves what is held for it.
LEMMA OtherCommandHeld ==
    ASSUME TargetInv, NEW op, AcceptCommand(op), SendCommand(op), NEW s \in Session,
           Stopped(s)
    PROVE  Held(s)'
<1>1. /\ Held(s) /\ cmds \in Seq(Command)
  BY DEF TargetInv, OrderInv, ViewInv, CancelInv, ShapeInv, TypeOK, EngineTypeOK
<1>2. /\ UNCHANGED <<outbox, upds, fate, current, shown>>
      /\ stopSent => stopSent'
  BY DEF SendCommand, CancelCurrent, sessions, AcceptCommand
<1>3. shown # "Ready" /\ ~Stopping(op) /\ op \notin DictationOps
  BY <1>1 DEF Held, Stopping, AcceptCommand, Refused
<1>4. pasteTarget' = pasteTarget /\ stopFocus' = stopFocus
  BY <1>3 DEF AcceptCommand, TargetAfter, StopTap
<1>5. PICK c : c.op = op /\ cmds' = Append(cmds, c)
  BY DEF SendCommand
<1>6. /\ \A i \in DOMAIN cmds' : (i \in DOMAIN cmds /\ cmds'[i] = cmds[i]) \/ cmds'[i] = c
      /\ cmds # <<>> => cmds' # <<>> /\ Head(cmds') = Head(cmds)
  BY <1>1, <1>5
<1>7. Pending' = Pending
  BY <1>2 DEF Pending
<1>8. /\ fate'[s] = "recording" => cmds' # <<>> /\ Head(cmds').op \in {"Toggle", "Stop"}
      /\ \A i \in DOMAIN cmds' : cmds'[i].op \in DictationOps => i = 1 /\ fate'[s] = "recording"
  BY <1>1, <1>2, <1>3, <1>5, <1>6 DEF Held
<1>9. QED
  BY <1>1, <1>2, <1>4, <1>7, <1>8 DEF Held, AheadOf, IsStatus, IsTranscript

\* LinuxEngine::command holds what it stops, and keeps what it holds.
LEMMA UserCommandTarget ==
    ASSUME TargetInv, OrderInv', NEW op \in Commands, UserCommand(op)
    PROVE  TargetInv'
<1>1. /\ ~Leaving /\ completed' = completed /\ completed = <<>> /\ fate' = fate
      /\ stopFocus \in [Session -> Target] /\ hastyStops \subseteq Session
  BY DEF UserCommand, Leaving, AcceptCommand, SendCommand, RestartEngine, RefuseCancel,
     TargetInv, OrderInv, ViewInv, CancelInv, ShapeInv, UiShape, TypeOK, UiTypeOK
<1>2. PastedWhereStopped'
  BY <1>1 DEF PastedWhereStopped
<1>3. current' = current
  BY <1>1 DEF UserCommand, AcceptCommand, SendCommand, RestartEngine, RefuseCancel, CancelCurrent,
     sessions, TargetInv, OrderInv, ViewInv, CancelInv, NoneBeforeStart
<1>4. CASE RefuseCancel(op)
  <2>1. UNCHANGED <<stopFocus, hastyStops, pasteTarget, shown, stopSent, cmds, outbox, upds>>
    BY <1>4 DEF RefuseCancel
  <2>2. QED
    BY <1>1, <1>2, <1>3, <2>1 DEF TargetInv, UnstoppedYet, Stopped, Held, AheadOf, Pending,
       IsStatus, IsTranscript
<1>5. CASE AcceptCommand(op)
  <2>1. PICK focus \in FocusAt(op) : StopTap(op, focus) /\ pasteTarget' = TargetAfter(op, focus)
    BY <1>5 DEF AcceptCommand
  <2>2. CASE Stopping(op) /\ status = "Recording"
    <3>1. job # "dead" /\ current \in Session /\ fate[current] = "recording"
      BY <1>1, <2>2, RecordingIsLive
    <3>2. SendCommand(op) /\ op \in {"Toggle", "Stop"} /\ shown = "Recording" /\ ~stopSent
          /\ stopSent'
      BY <1>5, <2>2, <3>1 DEF AcceptCommand, RestartEngine, Stopping
    <3>3. /\ stopFocus'[current] = focus /\ pasteTarget' = focus
          /\ \A s \in Session : s # current => stopFocus'[s] = stopFocus[s]
          /\ hastyStops' = IF UpToDate THEN hastyStops ELSE hastyStops \cup {current}
      BY <1>1, <2>1, <2>2, <3>1 DEF StopTap, TargetAfter
    <3>4. UnstoppedYet'
      BY <1>3, <3>1, <3>3 DEF TargetInv, UnstoppedYet, Session
    <3>5. ASSUME NEW s \in Session, Stopped(s)' PROVE Held(s)'
      <4>1. CASE s = current
        <5>1. UpToDate
          BY <3>3, <3>5, <4>1 DEF Stopped
        <5>2. pasteTarget' = stopFocus'[s]
          BY <3>3, <4>1
        <5>3. QED
          BY <1>1, <2>2, <3>2, <4>1, <5>1, <5>2, StopHeld
      <4>2. CASE s # current
        <5>1. Stopped(s)
          BY <1>1, <3>3, <3>5, <4>2 DEF Stopped
        <5>2. QED
          BY <4>2, <5>1 DEF TargetInv, Held
      <4>3. QED
        BY <4>1, <4>2
    <3>6. QED
      BY <1>2, <3>4, <3>5 DEF TargetInv
  <2>3. CASE ~(Stopping(op) /\ status = "Recording")
    <3>1. stopFocus' = stopFocus /\ hastyStops' = hastyStops
      BY <2>1, <2>3 DEF StopTap
    <3>2. UnstoppedYet'
      BY <1>3, <3>1 DEF TargetInv, UnstoppedYet
    <3>3. ASSUME NEW s \in Session, Stopped(s)' PROVE Held(s)'
      <4>1. Stopped(s)
        BY <1>1, <3>1, <3>3 DEF Stopped
      <4>2. job # "dead"
        BY <1>1, <4>1, StoppedIsLive
      <4>3. SendCommand(op)
        BY <1>5, <4>2 DEF AcceptCommand, RestartEngine
      <4>4. QED
        BY <1>5, <4>1, <4>3, OtherCommandHeld
    <3>4. QED
      BY <1>2, <3>2, <3>3 DEF TargetInv
  <2>4. QED
    BY <2>2, <2>3
<1>6. QED
  BY <1>4, <1>5 DEF UserCommand

\* Taking a report takes what was held with it.
LEMMA PollTarget ==
    ASSUME TargetInv, OrderInv', PollStatus \/ PollFormattingBusy \/ PollTranscript
    PROVE  TargetInv'
<1>1. /\ EngineTypeOK /\ UiTypeOK /\ InChannel /\ fate \in [Session -> Fates]
  BY DEF TargetInv, OrderInv, ViewInv, CancelInv, ShapeInv, TypeOK, EngineTypeOK
<1>2. /\ upds # <<>> /\ upds' = Tail(upds)
      /\ UNCHANGED <<status, job, cmds, outbox, current, stopFocus, hastyStops>>
  BY DEF PollStatus, PollFormattingBusy, PollTranscript, TakeUpdate, sessions
<1>3. /\ 1 \in DOMAIN Pending /\ Pending[1] = Head(upds) /\ DOMAIN Pending \subseteq Nat \ {0}
      /\ \A i \in DOMAIN Pending : i > 1 => i - 1 \in DOMAIN Pending' /\ Pending'[i - 1] = Pending[i]
      /\ \A i \in DOMAIN Pending' : i + 1 \in DOMAIN Pending /\ Pending'[i] = Pending[i + 1]
      /\ DOMAIN Pending' \subseteq Nat \ {0}
  <2>1. Pending \in Seq(Update) /\ Pending # <<>>
        /\ Pending' = Tail(Pending) /\ Head(Pending) = Head(upds)
    BY <1>1, <1>2, PollTakes
  <2>2. QED
    BY <2>1, TailShape
<1>4. UnstoppedYet'
  BY <1>2 DEF TargetInv, UnstoppedYet
<1>5. ASSUME NEW i \in DOMAIN Pending', NEW s, AheadOf(i, s)'
      PROVE  AheadOf(i + 1, s)
  <2>1. PICK j \in DOMAIN Pending' : i < j /\ IsTranscript(Pending'[j]) /\ Pending'[j].session = s
    BY <1>5 DEF AheadOf, IsTranscript
  <2>2. j + 1 \in DOMAIN Pending /\ Pending'[j] = Pending[j + 1] /\ i + 1 < j + 1
    BY <1>3, <1>5, <2>1
  <2>3. QED
    BY <2>1, <2>2 DEF AheadOf
<1>6. ASSUME NEW s \in Session, Held(s), fate' = fate
      PROVE  \A i \in DOMAIN Pending' :
               IsStatus(Pending'[i]) /\ (fate'[s] = "published" => AheadOf(i, s)') =>
                 Pending'[i].status = "Transcribing"
  BY <1>3, <1>5, <1>6 DEF Held
<1>7. CASE PollStatus
  <2>1. /\ UNCHANGED <<fate, completed, pasteTarget>> /\ shown' = Pending[1].status
        /\ IsStatus(Pending[1])
    BY <1>3, <1>7 DEF PollStatus, TakeUpdate, IsStatus
  <2>2. ASSUME NEW s \in Session, Stopped(s)' PROVE Held(s)'
    <3>1. Held(s)
      BY <1>2, <2>1, <2>2 DEF TargetInv, Stopped
    <3>2. fate[s] = "published" => AheadOf(1, s)
      <4>1. SUFFICES ASSUME fate[s] = "published" PROVE AheadOf(1, s)
        OBVIOUS
      <4>2. PICK j \in DOMAIN Pending : IsTranscript(Pending[j]) /\ Pending[j].session = s
        BY <1>1, <4>1 DEF InChannel
      <4>3. j # 1
        BY <2>1, <4>2 DEF IsStatus, IsTranscript
      <4>4. 1 < j
        BY <1>3, <4>3
      <4>5. QED
        BY <4>2, <4>4 DEF AheadOf
    <3>3. shown' = "Transcribing"
      BY <1>3, <2>1, <3>1, <3>2 DEF Held
    <3>4. QED
      BY <1>2, <1>6, <2>1, <3>1, <3>3 DEF Held, IsStatus
  <2>3. PastedWhereStopped'
    BY <1>2, <2>1 DEF TargetInv, PastedWhereStopped, TargetKept
  <2>4. QED
    BY <1>4, <2>2, <2>3 DEF TargetInv
<1>8. CASE PollFormattingBusy
  <2>1. UNCHANGED <<fate, completed, pasteTarget, shown, stopSent>>
    BY <1>8 DEF PollFormattingBusy
  <2>2. ASSUME NEW s \in Session, Stopped(s)' PROVE Held(s)'
    <3>1. Held(s)
      BY <1>2, <2>1, <2>2 DEF TargetInv, Stopped
    <3>2. QED
      BY <1>2, <1>6, <2>1, <3>1 DEF Held, IsStatus
  <2>3. PastedWhereStopped'
    BY <1>2, <2>1 DEF TargetInv, PastedWhereStopped, TargetKept
  <2>4. QED
    BY <1>4, <2>2, <2>3 DEF TargetInv
<1>9. CASE PollTranscript
  <2>1. PICK r : r = Head(upds).session
    OBVIOUS
  <2>2. IsTranscript(Pending[1]) /\ Pending[1].session = r
    BY <1>3, <1>9, <2>1 DEF PollTranscript, TakeUpdate, IsTranscript
  <2>3. r \in Session /\ fate[r] = "published"
    BY <1>1, <1>3, <2>2, PendingTyped, UpdateTyped DEF InChannel, IsTranscript
  <2>4. /\ \E g \in {"ended", "delivering"} : fate' = [fate EXCEPT ![r] = g]
        /\ \/ completed' = completed
           \/ completed' = Append(completed, [session |-> r, target |-> pasteTarget])
    BY <1>9, <2>1 DEF PollTranscript, Settle, HandOver
  <2>5. /\ fate'[r] \in {"ended", "delivering"}
        /\ \A s \in Session : s # r => fate'[s] = fate[s]
    BY <1>1, <2>3, <2>4
  <2>6. ASSUME NEW s \in Session, Stopped(s)' PROVE FALSE
    <3>1. s # r
      BY <2>5, <2>6 DEF Stopped
    <3>2. Stopped(s)
      BY <1>2, <2>5, <2>6, <3>1 DEF Stopped
    <3>3. QED
      BY <2>3, <3>1, <3>2 DEF TargetInv, Held
  <2>7. PastedWhereStopped'
    <3>1. CASE completed' = completed
      BY <1>2, <3>1 DEF TargetInv, PastedWhereStopped, TargetKept
    <3>2. ASSUME NEW d, d.session = r, d.target = pasteTarget, completed' = Append(completed, d)
          PROVE  PastedWhereStopped'
      <4>1. completed \in Seq(Delivery)
        BY <1>1, CompletedTyped
      <4>2. \A i \in DOMAIN completed' : (i \in DOMAIN completed /\ completed'[i] = completed[i])
                                         \/ completed'[i] = d
        BY <3>2, <4>1
      <4>3. stopFocus[r] # NoWindow /\ r \notin hastyStops => pasteTarget = stopFocus[r]
        BY <2>3 DEF TargetInv, Stopped, Held
      <4>4. QED
        BY <1>2, <3>2, <4>2, <4>3 DEF TargetInv, PastedWhereStopped, TargetKept
    <3>3. QED
      BY <2>4, <3>1, <3>2
  <2>8. QED
    BY <1>4, <2>6, <2>7 DEF TargetInv
<1>10. QED
  BY <1>7, <1>8, <1>9

\* Delivering takes the first of the transcripts the loop holds.
LEMMA DeliverTarget ==
    ASSUME TargetInv, OrderInv', Deliver
    PROVE  TargetInv'
<1>1. /\ completed \in Seq(Delivery) /\ completed # <<>> /\ completed' = Tail(completed)
      /\ fate \in [Session -> Fates]
      /\ UNCHANGED <<cmds, outbox, upds, current, stopFocus, hastyStops, pasteTarget, shown, stopSent>>
  BY DEF TargetInv, OrderInv, ViewInv, CancelInv, ShapeInv, TypeOK, EngineTypeOK, UiTypeOK,
     UiShape, Deliver, sessions
<1>2. \A i \in DOMAIN completed' : i + 1 \in DOMAIN completed /\ completed'[i] = completed[i + 1]
  BY <1>1, TailShape
<1>3. PastedWhereStopped'
  BY <1>1, <1>2 DEF TargetInv, PastedWhereStopped, TargetKept
<1>4. UnstoppedYet'
  BY <1>1 DEF TargetInv, UnstoppedYet
<1>5. \A s \in Session : fate'[s] \in {"recording", "decoding", "published"} => fate'[s] = fate[s]
  BY <1>1 DEF Deliver, Settle
<1>6. ASSUME NEW s \in Session, Stopped(s)' PROVE Held(s)'
  <2>1. Stopped(s) /\ Held(s) /\ fate'[s] = fate[s]
    BY <1>1, <1>5, <1>6 DEF TargetInv, Stopped
  <2>2. \A t \in Session : fate'[t] = "published" => fate[t] = "published"
    BY <1>5
  <2>3. QED
    BY <1>1, <2>1, <2>2 DEF Held, AheadOf, Pending, IsStatus, IsTranscript
<1>7. QED
  BY <1>3, <1>4, <1>6 DEF TargetInv

\* Quitting sends a command that is no tap.
LEMMA QuitTarget ==
    ASSUME TargetInv, OrderInv', NEW anyway \in BOOLEAN, HandleQuit(anyway)
    PROVE  TargetInv'
<1>1. /\ UNCHANGED <<outbox, upds, fate, current, shown, pasteTarget, stopSent, completed,
                     stopFocus, hastyStops>>
      /\ cmds \in Seq(Command)
  BY DEF TargetInv, OrderInv, ViewInv, CancelInv, ShapeInv, TypeOK, EngineTypeOK, HandleQuit, sessions
<1>2. PastedWhereStopped' /\ UnstoppedYet'
  BY <1>1 DEF TargetInv, PastedWhereStopped, TargetKept, UnstoppedYet
<1>3. PICK c : c.op = "Quit" /\ (cmds' = cmds \/ cmds' = Append(cmds, c))
  BY DEF HandleQuit, StopEngine
<1>4. /\ \A i \in DOMAIN cmds' : (i \in DOMAIN cmds /\ cmds'[i] = cmds[i]) \/ cmds'[i] = c
      /\ cmds # <<>> => cmds' # <<>> /\ Head(cmds') = Head(cmds)
  <2>1. CASE cmds' = cmds
    BY <2>1
  <2>2. CASE cmds' = Append(cmds, c)
    BY <1>1, <2>2
  <2>3. QED
    BY <1>3, <2>1, <2>2
<1>5. c.op \notin DictationOps
  BY <1>3 DEF DictationOps, CaptureOps
<1>6. ASSUME NEW s \in Session, Stopped(s)' PROVE Held(s)'
  <2>1. Held(s)
    BY <1>1, <1>6 DEF TargetInv, Stopped
  <2>2. /\ fate'[s] = "recording" => cmds' # <<>> /\ Head(cmds').op \in {"Toggle", "Stop"}
        /\ \A i \in DOMAIN cmds' : cmds'[i].op \in DictationOps => i = 1 /\ fate'[s] = "recording"
    BY <1>1, <1>4, <1>5, <2>1 DEF Held
  <2>3. QED
    BY <1>1, <2>1, <2>2 DEF Held, AheadOf, Pending, IsStatus, IsTranscript
<1>7. QED
  BY <1>2, <1>6 DEF TargetInv

\* Nothing was stopped when the program starts.
LEMMA InitTarget == Init => TargetInv
<1>1. Init => UnstoppedYet /\ PastedWhereStopped /\ \A s \in Session : ~Stopped(s)
  BY DEF Init, EngineInit, UiInit, UnstoppedYet, PastedWhereStopped, Stopped
<1>2. QED
  BY <1>1, InitOrder DEF TargetInv

\* Every step of the program keeps the invariant of the targets.
LEMMA NextTarget ==
    ASSUME TargetInv, [Next]_vars
    PROVE  TargetInv'
<1>1. OrderInv'
  BY NextOrder DEF TargetInv
<1>2. CASE Engine
  BY <1>1, <1>2, EngineTarget
<1>3. ASSUME NEW op \in Commands, UserCommand(op) PROVE TargetInv'
  BY <1>1, <1>3, UserCommandTarget
<1>4. CASE PollStatus \/ PollFormattingBusy \/ PollTranscript
  BY <1>1, <1>4, PollTarget
<1>5. CASE Deliver
  BY <1>1, <1>5, DeliverTarget
<1>6. CASE UserQuit \/ UpdaterQuit
  BY <1>1, <1>6, QuitTarget DEF UserQuit, UpdaterQuit
<1>7. CASE UNCHANGED <<cmds, outbox, upds, fate, current, shown, pasteTarget, stopSent, completed,
                       stopFocus, hastyStops>>
  BY <1>1, <1>7 DEF TargetInv, UnstoppedYet, PastedWhereStopped, TargetKept, Stopped, Held, AheadOf,
     Pending, IsStatus, IsTranscript
<1>8. CASE RetryUnsaved \/ Gone \/ BeginPoll \/ EndPoll
  BY <1>7, <1>8 DEF RetryUnsaved, Gone, BeginPoll, EndPoll, engineVars
<1>9. CASE Updater \/ UNCHANGED vars
  BY <1>7, <1>9 DEF Updater, Reserve, Release, Restart, vars, engineVars, uiVars
<1>10. QED
  BY <1>2, <1>3, <1>4, <1>5, <1>6, <1>8, <1>9 DEF Next, Loop

\* A dictation stopped with the app up to date is pasted where the user was on stopping
\* it, whatever is pressed and reported in between (linux.rs, LinuxEngine::command and
\* poll).
THEOREM TargetCorrect == Spec => []PastedWhereStopped
<1>1. TargetInv => PastedWhereStopped
  BY DEF TargetInv
<1>2. QED
  BY <1>1, InitTarget, NextTarget, PTL DEF Spec
=============================================================================
