------------------------ MODULE WindowsDesktopProofs ------------------------
(***************************************************************************)
(* Proofs about WindowsDesktop, for any set of commands, any number of     *)
(* dictations and any number of reports under way.  WinInv is behind the   *)
(* types and the cancel; TapInv behind what holds until a tap overtakes    *)
(* the reports of an earlier one.                                          *)
(***************************************************************************)
EXTENDS WindowsDesktop, SequenceTheorems, TLAPS

Shown == Statuses \cup {"Error"}
Number == Session \cup {NoSession}
ClipState == [clip : {"copy", "koett"}, restore : {"none", "kept", "overtaken"}]

\* The types of the engine, and those of the desktop.
EngineTyped ==
    /\ status \in Statuses /\ job \in Jobs \cup {"open"} /\ prep \in BOOLEAN
    /\ cleaner \in BOOLEAN /\ media = "none" /\ paused \in BOOLEAN
    /\ cmds \in Seq(Command) /\ outbox \in Seq(WinUpdate) /\ upds \in Seq(WinUpdate)
    /\ current \in 0..MaxSessions /\ cancelled \in 0..MaxSessions
    /\ fate \in [Session -> Fates] /\ discarded \subseteq Session

DeskTyped ==
    /\ desk \in {"running", "menu", "stopping", "gone"} /\ view \in Shown
    /\ opening \in BOOLEAN /\ drawable \in BOOLEAN
    /\ capturing \in BOOLEAN /\ frames \in BOOLEAN
    /\ board \in Number /\ parked \in Number /\ staged \in Number /\ lastSaid \in Number
    /\ bundle \in Number
    /\ again \in BOOLEAN /\ offered \in BOOLEAN
    /\ restore \in {"none", "kept", "overtaken"} /\ clip \in {"copy", "koett"}
    /\ typed \subseteq Session /\ lostCopy \in BOOLEAN /\ overtook \in BOOLEAN

\* A dictation that is recorded, decoded or formatted has a number.
Numbered == status = "Recording" \/ job \in {"decode", "clean"} => current \in Session

WinShape == EngineTyped /\ DeskTyped /\ Numbered

\* A number that the desktop or a report has is that of a dictation that has been recorded.
Heard(s) == s <= current /\ (status = "Recording" => s < current)
AllHeard(reports) ==
    \A i \in DOMAIN reports : reports[i].kind = "TranscriptReady" => Heard(reports[i].session)
Known == AllHeard(outbox) /\ AllHeard(upds) /\ (parked # NoSession => Heard(parked))

\* What the user has cancelled is a dictation that has begun, and the latest is remembered.
Remembered ==
    /\ \A s \in discarded : s <= current
    /\ current \in discarded => cancelled = current

\* A text that waits for its paste has not been cancelled, unless the next dictation was too.
StagedLive == staged # NoSession /\ ~again => Heard(staged) /\ staged \notin discarded \cap {current}

WinInv == WinShape /\ Known /\ Remembered /\ StagedLive

-----------------------------------------------------------------------------
(* Types.                                                                  *)

\* A typed queue has a typed head and a typed tail, and stays typed on appending.
LEMMA QueueTyped ==
    ASSUME NEW S, NEW q \in Seq(S)
    PROVE  /\ q # <<>> => Head(q) \in S /\ Tail(q) \in Seq(S)
           /\ \A e \in S : Append(q, e) \in Seq(S)
OBVIOUS

\* What the engine's handlers report.
LEMMA ReportsTyped ==
    /\ <<>> \in Seq(WinUpdate)
    /\ \A s \in Shown : <<StatusReport(s)>> \in Seq(WinUpdate)
    /\ <<StatusReport("Ready"), FormattingBusy(TRUE)>> \in Seq(WinUpdate)
    /\ \A n \in Session :
         /\ <<TranscriptReady(n), StatusReport("Ready")>> \in Seq(WinUpdate)
         /\ <<StatusReport("Recording"), RecordingStarted(n)>> \in Seq(WinUpdate)
<1>1. \A s \in Shown : StatusReport(s) \in WinUpdate
  BY DEF StatusReport, WinUpdate, Update, StatusUpdate, Shown
<1>2. FormattingBusy(TRUE) \in WinUpdate
  BY DEF FormattingBusy, WinUpdate, Update, BusyUpdate
<1>3. \A n \in Session : TranscriptReady(n) \in WinUpdate /\ RecordingStarted(n) \in WinUpdate
  BY DEF TranscriptReady, RecordingStarted, WinUpdate, Update, TranscriptUpdate
<1>4. \A x, y \in WinUpdate : /\ <<>> \in Seq(WinUpdate) /\ <<x>> \in Seq(WinUpdate)
                               /\ <<x, y>> \in Seq(WinUpdate)
  OBVIOUS
<1>5. "Ready" \in Shown /\ "Recording" \in Shown
  BY DEF Shown, Statuses
<1>6. QED
  BY <1>1, <1>2, <1>3, <1>4, <1>5

\* A report says what its kind promises.
LEMMA UpdateTyped ==
    ASSUME NEW u \in WinUpdate
    PROVE  /\ u.kind = "Status" => u.status \in Shown
           /\ u.kind \in {"TranscriptReady", "RecordingStarted"} => u.session \in Session
BY DEF WinUpdate, Update, StatusUpdate, BusyUpdate, TranscriptUpdate, Shown

\* Taking a command leaves commands behind it.
LEMMA ReceiveTyped ==
    ASSUME NEW ops, cmds \in Seq(Command), Receive(ops)
    PROVE  job = "none" /\ outbox = <<>> /\ cmds' \in Seq(Command)
BY QueueTyped DEF Receive, Idle

\* Settling a dictation keeps the history a history.
LEMMA SettleTyped ==
    ASSUME NEW s, NEW f \in Fates, fate \in [Session -> Fates], Settle(s, f)
    PROVE  fate' \in [Session -> Fates]
BY DEF Settle

\* Cancelling marks a dictation that has begun.
LEMMA CancelTyped ==
    ASSUME EngineTyped, CancelCurrent
    PROVE  /\ current' = current /\ cancelled' = current
           /\ cancelled' \in 0..MaxSessions /\ discarded' \subseteq Session
BY MaxSessionsAssumption DEF EngineTyped, CancelCurrent, Session

\* The program starts with every field of its type.
LEMMA InitShape == WinInit => WinShape
<1> SUFFICES ASSUME WinInit PROVE WinShape
  OBVIOUS
<1> USE MaxSessionsAssumption DEF WinInit, EngineInit
<1>1. outbox \in Seq(WinUpdate) /\ upds \in Seq(WinUpdate) /\ cmds \in Seq(Command)
  <2>1. "Starting" \in Shown
    BY DEF Shown, Statuses
  <2>2. <<>> \in Seq(Command)
    OBVIOUS
  <2>3. QED
    BY <2>1, <2>2, ReportsTyped
<1>2. fate \in [Session -> Fates] /\ discarded \subseteq Session
  BY DEF Fates
<1>3. EngineTyped
  <2>1. status \in Statuses /\ job \in Jobs
    BY DEF Statuses, Jobs
  <2>2. prep \in BOOLEAN /\ cleaner \in BOOLEAN /\ paused \in BOOLEAN
    OBVIOUS
  <2>3. media = "none" /\ current \in 0..MaxSessions /\ cancelled \in 0..MaxSessions
    OBVIOUS
  <2>4. QED
    BY <1>1, <1>2, <2>1, <2>2, <2>3 DEF EngineTyped
<1>4. DeskTyped
  BY DEF DeskTyped, Shown, Statuses, Number, NoSession
<1>5. Numbered
  BY DEF Numbered
<1>6. QED
  BY <1>3, <1>4, <1>5 DEF WinShape

\* Every handler of the engine keeps the types.
LEMMA EngineStepTyped ==
    ASSUME WinShape, WinEngine
    PROVE  WinShape'
<1> USE MaxSessionsAssumption
<1>1. DeskTyped'
  BY DEF WinShape, WinEngine, DeskTyped, deskVars, boardVars, pasteVars
<1> SUFFICES (EngineTyped /\ Numbered)'
  BY <1>1 DEF WinShape
<1> USE FormattingAssumption, ReportsTyped, ReceiveTyped
    DEF WinShape, EngineTyped, Numbered, Statuses, Shown, Jobs, Session, Idle, Blocked, Report,
        sessions
<1>2. CASE Send
  BY <1>2, QueueTyped DEF Send
<1>3. CASE PrepareSucceeds
  BY <1>3 DEF PrepareSucceeds
<1>4. CASE PrepareFails
  BY <1>4 DEF PrepareFails
<1>5. CASE Quit
  BY <1>5 DEF Quit
<1>6. CASE Exit
  <2>1. fate' \in [Session -> Fates]
    BY <1>6, SettleTyped DEF Exit, Fates
  <2>2. cmds' \in Seq(Command)
    BY <1>6 DEF Exit
  <2>3. QED
    BY <1>6, <2>1, <2>2 DEF Exit
<1>7. CASE OpenMicrophone
  BY <1>7 DEF OpenMicrophone
<1>8. CASE MicrophoneOpens
  <2>1. fate' \in [Session -> Fates]
    BY <1>8, SettleTyped DEF MicrophoneOpens, Fates
  <2>2. current + 1 \in Session
    BY <1>8 DEF MicrophoneOpens
  <2>3. QED
    BY <1>8, <2>1, <2>2 DEF MicrophoneOpens
<1>9. CASE MicrophoneFails
  BY <1>9 DEF MicrophoneFails
<1>10. CASE StopRecording
  BY <1>10, SettleTyped DEF StopRecording, FinishCapture, Fates
<1>11. CASE LimitReached
  BY <1>11, SettleTyped DEF LimitReached, FinishCapture, Fates
<1>12. CASE DecodeSucceeds
  BY <1>12, SettleTyped DEF DecodeSucceeds, Fates
<1>13. CASE DecodeFails
  BY <1>13, SettleTyped DEF DecodeFails, Fates
<1>14. CASE Publish
  <2>1. fate' \in [Session -> Fates]
    BY <1>14, SettleTyped DEF Publish, Fates
  <2>2. outbox' \in Seq(WinUpdate)
    BY <1>14 DEF Publish
  <2>3. QED
    BY <1>14, <2>1, <2>2 DEF Publish
<1>15. CASE CancelRecording
  <2>1. fate' \in [Session -> Fates]
    BY <1>15, SettleTyped DEF CancelRecording, Fates
  <2>2. cancelled' \in 0..MaxSessions /\ discarded' \subseteq Session
    BY <1>15, CancelTyped DEF CancelRecording
  <2>3. QED
    BY <1>15, <2>1, <2>2 DEF CancelRecording, CancelCurrent
<1>16. CASE IgnoreCommand
  BY <1>16 DEF IgnoreCommand
<1>17. QED
  BY <1>2, <1>3, <1>4, <1>5, <1>6, <1>7, <1>8, <1>9, <1>10, <1>11, <1>12, <1>13, <1>14,
     <1>15, <1>16 DEF WinEngine

\* Every state of the clipboard that an operation ends in is one.
LEMMA ClipsTyped ==
    ASSUME DeskTyped
    PROVE  /\ Clip \in ClipState /\ Restoring \in ClipState /\ TextOffered \in ClipState
           /\ ImagePasted \in ClipState
           /\ \A c \in ClipState : Free(c) \in ClipState /\ Published(c) \in ClipState
           /\ \A c \in ClipState, d \in BOOLEAN : Ensured(c, d) \subseteq ClipState
           /\ ImageRefused \subseteq ClipState /\ TextRefused \subseteq ClipState
<1> USE DEF ClipState
<1>1. Clip \in ClipState /\ Restoring \in ClipState
  BY DEF DeskTyped, Clip, Restoring
<1>2. \A c \in ClipState : Free(c) \in ClipState /\ Published(c) \in ClipState
  BY DEF Free, Published
<1>3. \A c \in ClipState, d \in BOOLEAN : Ensured(c, d) \subseteq ClipState
  BY <1>2 DEF Ensured
<1>4. TextOffered \in ClipState /\ ImagePasted \in ClipState /\ ImageRefused \subseteq ClipState
  BY <1>1, <1>2 DEF TextOffered, ImagePasted, ImageRefused
<1>5. TextRefused \subseteq ClipState
  <2>1. [TextOffered EXCEPT !.clip = clip] \in ClipState
    BY <1>4 DEF DeskTyped
  <2>2. [Clip EXCEPT !.restore = "overtaken"] \in ClipState
    BY <1>1
  <2>3. QED
    BY <1>1, <1>2, <1>4, <2>1, <2>2 DEF TextRefused
<1>6. QED
  BY <1>1, <1>2, <1>3, <1>4, <1>5

\* The clipboard ends in a state of it.
LEMMA NowTyped ==
    ASSUME NEW c \in ClipState, Now(c)
    PROVE  restore' \in {"none", "kept", "overtaken"} /\ clip' \in {"copy", "koett"}
BY DEF ClipState, Now

\* Recording a delivery leaves everything of its type.
LEMMA RecordedTyped ==
    ASSUME WinShape, NEW s \in Number, NEW failed \in BOOLEAN, NEW c \in ClipState,
           NEW drawn \in BOOLEAN, Recorded(s, failed, c, drawn)
    PROVE  /\ view' \in Shown /\ lastSaid' \in Number /\ fate' \in [Session -> Fates]
           /\ restore' \in {"none", "kept", "overtaken"} /\ clip' \in {"copy", "koett"}
           /\ offered' \in BOOLEAN
<1>1. view' \in Shown /\ lastSaid' \in Number
  BY DEF Recorded, Shown, Statuses
<1>2. fate' \in [Session -> Fates]
  BY SettleTyped DEF Recorded, WinShape, EngineTyped, Fates
<1>3. PICK after \in IF failed THEN Ensured(c, drawn) ELSE {c} :
        Now(after) /\ offered' = (staged' # NoSession /\ offered /\ after = Clip)
  BY DEF Recorded
<1>4. after \in ClipState
  BY ClipsTyped DEF WinShape
<1>5. restore' \in {"none", "kept", "overtaken"} /\ clip' \in {"copy", "koett"}
  BY <1>3, <1>4, NowTyped
<1>6. offered' \in BOOLEAN
  BY <1>3
<1>7. QED
  BY <1>1, <1>2, <1>5, <1>6

\* What every step of the desktop that takes a transcript leaves of its type.
Delivered ==
    /\ view' \in Shown /\ opening' \in BOOLEAN /\ fate' \in [Session -> Fates]
    /\ board' \in Number /\ parked' \in Number /\ staged' \in Number /\ lastSaid' \in Number
    /\ bundle' \in Number
    /\ drawable' \in BOOLEAN /\ capturing' \in BOOLEAN /\ frames' \in BOOLEAN
    /\ again' \in BOOLEAN /\ offered' \in BOOLEAN
    /\ restore' \in {"none", "kept", "overtaken"} /\ clip' \in {"copy", "koett"}
    /\ typed' \subseteq Session /\ lostCopy' \in BOOLEAN

\* discard_drawing leaves everything of its type.
LEMMA DiscardTyped ==
    ASSUME WinShape, NEW ended, Discard(ended)
    PROVE  /\ board' \in Number /\ parked' \in Number /\ staged' \in Number
           /\ lastSaid' \in Number /\ bundle' \in Number /\ fate' \in [Session -> Fates]
           /\ drawable' \in BOOLEAN /\ capturing' \in BOOLEAN /\ frames' \in BOOLEAN
           /\ again' \in BOOLEAN /\ offered' \in BOOLEAN
           /\ restore' \in {"none", "kept", "overtaken"} /\ clip' \in {"copy", "koett"}
           /\ typed' \subseteq Session /\ lostCopy' \in BOOLEAN
<1> DEFINE waits == staged # NoSession /\ ~again
<1>1. PICK c \in IF waits THEN Ensured(Clip, bundle # NoSession) ELSE {Clip} : Now(c)
  BY DEF Discard
<1>2. c \in ClipState
  BY ClipsTyped DEF WinShape
<1>3. restore' \in {"none", "kept", "overtaken"} /\ clip' \in {"copy", "koett"}
  BY <1>1, <1>2, NowTyped
<1>4. fate' \in [Session -> Fates]
  BY DEF Discard, WinShape, EngineTyped, Fates
<1>5. NoSession \in Number
  BY DEF Number
<1>6. lastSaid' \in Number /\ bundle' \in Number /\ typed' \subseteq Session
  BY DEF Discard, WinShape, DeskTyped
<1>7. /\ board' \in Number /\ parked' \in Number /\ staged' \in Number
  BY <1>5 DEF Discard
<1>8. /\ drawable' \in BOOLEAN /\ capturing' \in BOOLEAN /\ frames' \in BOOLEAN
      /\ again' \in BOOLEAN /\ offered' \in BOOLEAN
  BY DEF Discard
<1>9. lostCopy' \in BOOLEAN
  BY DEF Discard, WinShape, DeskTyped
<1>10. QED
  BY <1>3, <1>4, <1>6, <1>7, <1>8, <1>9

\* deliver leaves everything of its type.
LEMMA TakeTranscriptTyped ==
    ASSUME WinShape, NEW s \in Session, TakeTranscript(s)
    PROVE  Delivered
<1> USE DEF Delivered
<1>1. parked' \in Number /\ s \in Number
  BY DEF TakeTranscript, Number
<1>2. CASE IsCancelled(s)
  <2>1. fate' \in [Session -> Fates]
    BY <1>2, SettleTyped DEF TakeTranscript, WinShape, EngineTyped, Fates
  <2>2. QED
    BY <1>1, <1>2, <2>1 DEF TakeTranscript, boardVars, pasteVars, WinShape, DeskTyped
<1>3. CASE DeliverDrawn(s)
  <2>1. /\ view' \in Shown /\ lastSaid' \in Number /\ fate' \in [Session -> Fates]
        /\ restore' \in {"none", "kept", "overtaken"} /\ clip' \in {"copy", "koett"}
        /\ offered' \in BOOLEAN /\ staged' \in Number /\ again' \in BOOLEAN
        /\ bundle' \in Number
    <3>1. CASE /\ bundle' = board /\ lastSaid' = s
               /\ Settle(s, "delivering") /\ Now(ImagePasted)
               /\ staged' = s /\ again' = FALSE /\ offered' = TRUE
               /\ UNCHANGED view
      <4>1. fate' \in [Session -> Fates]
        BY <3>1, SettleTyped DEF WinShape, EngineTyped, Fates
      <4>2. restore' \in {"none", "kept", "overtaken"} /\ clip' \in {"copy", "koett"}
        BY <3>1, ClipsTyped, NowTyped DEF WinShape
      <4>3. QED
        BY <1>1, <3>1, <4>1, <4>2 DEF WinShape, DeskTyped
    <3>2. CASE /\ UNCHANGED <<staged, again>> /\ bundle' = board
               /\ \E c \in ImageRefused : Recorded(s, TRUE, c, TRUE)
      <4>1. PICK c \in ImageRefused : Recorded(s, TRUE, c, TRUE)
        BY <3>2
      <4>2. c \in ClipState
        BY ClipsTyped DEF WinShape
      <4>3. QED
        BY <1>1, <3>2, <4>1, <4>2, RecordedTyped DEF WinShape, DeskTyped
    <3>3. CASE /\ UNCHANGED <<staged, again>> /\ bundle' = NoSession
               /\ Recorded(s, TRUE, Clip, FALSE)
      <4>1. Clip \in ClipState
        BY ClipsTyped DEF WinShape
      <4>2. QED
        BY <1>1, <3>3, <4>1, RecordedTyped DEF WinShape, DeskTyped, Number
    <3>4. QED
      BY <1>3, <3>1, <3>2, <3>3 DEF DeliverDrawn
  <2>2. /\ board' \in Number /\ drawable' \in BOOLEAN /\ capturing' \in BOOLEAN
        /\ frames' \in BOOLEAN /\ opening' \in BOOLEAN /\ typed' \subseteq Session
        /\ lostCopy' \in BOOLEAN
    BY <1>3 DEF DeliverDrawn, WinShape, DeskTyped
  <2>3. QED
    BY <1>1, <2>1, <2>2
<1>4. CASE DeliverText(s)
  <2>1. Clip \in ClipState /\ Published(Clip) \in ClipState
    BY ClipsTyped DEF WinShape
  <2>2. PICK failed \in BOOLEAN, c \in ClipState : Recorded(s, failed, c, FALSE)
    BY <1>4, <2>1 DEF DeliverText
  <2>3. /\ view' \in Shown /\ lastSaid' \in Number /\ fate' \in [Session -> Fates]
        /\ restore' \in {"none", "kept", "overtaken"} /\ clip' \in {"copy", "koett"}
        /\ offered' \in BOOLEAN
    BY <1>1, <2>2, RecordedTyped
  <2>4. typed' \subseteq Session
    BY <1>4 DEF DeliverText, WinShape, DeskTyped
  <2>5. /\ board' \in Number /\ drawable' \in BOOLEAN /\ capturing' \in BOOLEAN
        /\ frames' \in BOOLEAN /\ opening' \in BOOLEAN /\ staged' \in Number
        /\ again' \in BOOLEAN /\ lostCopy' \in BOOLEAN /\ bundle' \in Number
    BY <1>4 DEF DeliverText, WinShape, DeskTyped, boardVars, Number
  <2>6. QED
    BY <1>1, <2>3, <2>4, <2>5
<1>5. CASE DeliverNothing(s)
  <2>1. Discard({s}) /\ view' \in Shown /\ opening' \in BOOLEAN
    BY <1>5 DEF DeliverNothing, Shown, Statuses
  <2>2. QED
    BY <2>1, DiscardTyped
<1>6. QED
  BY <1>2, <1>3, <1>4, <1>5 DEF TakeTranscript

\* A command on its way leaves the engine as it is.
LEMMA SendTyped ==
    ASSUME WinShape, NEW op \in UserOps \cup {"Quit"}, SendToEngine(op), UNCHANGED <<fate, sessions>>
    PROVE  EngineTyped' /\ Numbered'
<1>1. cmds' \in Seq(Command)
  BY QueueTyped DEF SendToEngine, WinShape, EngineTyped, Command
<1>2. QED
  BY <1>1 DEF SendToEngine, WinShape, EngineTyped, Numbered, sessions

\* Steps that take no report, send no command and settle nothing.
LEMMA EngineUntouched ==
    ASSUME WinShape, UNCHANGED engineVars
    PROVE  EngineTyped' /\ Numbered'
BY DEF WinShape, EngineTyped, Numbered, engineVars

\* Everything the user does and every turn of the timer keeps the types.
LEMMA DeskStepTyped ==
    ASSUME WinShape,
           \/ OpenMenu \/ CloseMenu \/ \E op \in Commands \cap DictationOps : Tap(op)
           \/ CopySomething
           \/ TakeParked \/ PollTranscript \/ PollStatus \/ PollRecordingStarted
           \/ Draw \/ Captured \/ UndoDrawing \/ PollRestore \/ PollStaged
           \/ CancelFromDesk \/ PasteAgain \/ CopyLast
           \/ RequestQuit \/ EngineStopped \/ SessionEnds
    PROVE  WinShape'
<1> USE DEF boardVars, pasteVars
<1>1. CASE OpenMenu \/ CloseMenu \/ EngineStopped \/ SessionEnds
  <2>1. EngineTyped' /\ Numbered'
    BY <1>1, EngineUntouched DEF OpenMenu, CloseMenu, EngineStopped, SessionEnds
  <2>2. DeskTyped'
    BY <1>1 DEF OpenMenu, CloseMenu, EngineStopped, SessionEnds, WinShape, DeskTyped
  <2>3. QED
    BY <2>1, <2>2 DEF WinShape
<1>2. ASSUME NEW op \in Commands \cap DictationOps, Tap(op) PROVE WinShape'
  <2>1. EngineTyped' /\ Numbered'
    BY <1>2, SendTyped, CommandsAssumption DEF Tap
  <2>2. opening' \in BOOLEAN
    BY <1>2 DEF Tap, WinShape, DeskTyped
  <2>3. desk' \in {"running", "menu", "stopping", "gone"} /\ overtook' \in BOOLEAN
    BY <1>2 DEF Tap, AtHand, WinShape, DeskTyped
  <2>4. DeskTyped'
    BY <1>2, <2>2, <2>3 DEF Tap, WinShape, DeskTyped
  <2>5. QED
    BY <2>1, <2>4 DEF WinShape
<1>3. CASE CopySomething
  <2>1. EngineTyped' /\ Numbered'
    BY <1>3, EngineUntouched DEF CopySomething
  <2>2. DeskTyped'
    BY <1>3 DEF CopySomething, WinShape, DeskTyped
  <2>3. QED
    BY <2>1, <2>2 DEF WinShape
<1>4. CASE TakeParked
  <2>1. parked \in Session
    BY <1>4 DEF TakeParked, WinShape, DeskTyped, Number
  <2>2. Delivered
    BY <1>4, <2>1, TakeTranscriptTyped DEF TakeParked
  <2>3. DeskTyped'
    BY <1>4, <2>2 DEF TakeParked, Delivered, WinShape, DeskTyped
  <2>4. EngineTyped' /\ Numbered'
    BY <1>4, <2>2 DEF TakeParked, Delivered, WinShape, EngineTyped, Numbered, sessions
  <2>5. QED
    BY <2>3, <2>4 DEF WinShape
<1>5. ASSUME NEW kind, TakeReport(kind)
      PROVE  /\ Head(upds) \in WinUpdate /\ upds' \in Seq(WinUpdate)
             /\ fate' \in [Session -> Fates] => EngineTyped' /\ Numbered'
  BY <1>5, QueueTyped DEF TakeReport, WinShape, EngineTyped, Numbered, sessions
<1>6. CASE PollTranscript
  <2>1. TakeReport("TranscriptReady")
    BY <1>6 DEF PollTranscript
  <2>2. Head(upds).session \in Session
    BY <2>1, <1>5, UpdateTyped DEF TakeReport
  <2>3. Delivered
    <3>1. CASE capturing
      <4>1. Park(Head(upds).session)
        BY <1>6, <3>1 DEF PollTranscript
      <4>2. fate' \in [Session -> Fates]
        BY <4>1, SettleTyped DEF Park, WinShape, EngineTyped, Fates
      <4>3. QED
        BY <2>2, <4>1, <4>2 DEF Park, Delivered, WinShape, DeskTyped, Number
    <3>2. CASE ~capturing
      BY <1>6, <2>2, <3>2, TakeTranscriptTyped DEF PollTranscript
    <3>3. QED
      BY <3>1, <3>2
  <2>4. DeskTyped'
    BY <2>1, <2>3 DEF TakeReport, Delivered, WinShape, DeskTyped
  <2>5. EngineTyped' /\ Numbered'
    BY <1>5, <2>1, <2>3 DEF Delivered
  <2>6. QED
    BY <2>4, <2>5 DEF WinShape
<1>7. CASE PollStatus
  <2>1. TakeReport("Status")
    BY <1>7 DEF PollStatus
  <2>2. Head(upds).status \in Shown
    BY <2>1, <1>5, UpdateTyped DEF TakeReport
  <2>3. view' \in Shown /\ opening' \in BOOLEAN
    BY <1>7, <2>2 DEF PollStatus, Shown, Statuses
  <2>4. drawable' \in BOOLEAN /\ capturing' \in BOOLEAN /\ frames' \in BOOLEAN /\ board' \in Number
    BY <1>7 DEF PollStatus, StopBoard, WinShape, DeskTyped
  <2>5. DeskTyped'
    BY <1>7, <2>1, <2>3, <2>4 DEF PollStatus, TakeReport, WinShape, DeskTyped
  <2>6. EngineTyped' /\ Numbered'
    BY <1>5, <1>7, <2>1 DEF PollStatus, WinShape, EngineTyped
  <2>7. QED
    BY <2>5, <2>6 DEF WinShape
<1>8. CASE PollRecordingStarted
  <2>1. TakeReport("RecordingStarted")
    BY <1>8 DEF PollRecordingStarted
  <2>2. Head(upds).session \in Session
    BY <2>1, <1>5, UpdateTyped DEF TakeReport
  <2>3. board' \in Number /\ drawable' \in BOOLEAN
    BY <1>8, <2>2 DEF PollRecordingStarted, Number
  <2>4. DeskTyped'
    BY <1>8, <2>1, <2>3 DEF PollRecordingStarted, TakeReport, WinShape, DeskTyped
  <2>5. EngineTyped' /\ Numbered'
    BY <1>5, <1>8, <2>1 DEF PollRecordingStarted, WinShape, EngineTyped
  <2>6. QED
    BY <2>4, <2>5 DEF WinShape
<1>9. CASE Draw \/ Captured \/ UndoDrawing
  <2>1. EngineTyped' /\ Numbered'
    BY <1>9, EngineUntouched DEF Draw, Captured, UndoDrawing
  <2>2. capturing' \in BOOLEAN /\ frames' \in BOOLEAN
    BY <1>9 DEF Draw, Captured, UndoDrawing, WinShape, DeskTyped
  <2>3. DeskTyped'
    BY <1>9, <2>2 DEF Draw, Captured, UndoDrawing, AtHand, WinShape, DeskTyped
  <2>4. QED
    BY <2>1, <2>3 DEF WinShape
<1>10. CASE PollRestore
  <2>1. EngineTyped' /\ Numbered'
    BY <1>10, EngineUntouched DEF PollRestore
  <2>2. PICK c \in {Clip, Published(Clip)} : Now(Free(c))
    BY <1>10 DEF PollRestore
  <2>3. Free(c) \in ClipState
    BY ClipsTyped DEF WinShape
  <2>4. restore' \in {"none", "kept", "overtaken"} /\ clip' \in {"copy", "koett"}
    BY <2>2, <2>3, NowTyped
  <2>5. DeskTyped'
    BY <1>10, <2>4 DEF PollRestore, WinShape, DeskTyped
  <2>6. QED
    BY <2>1, <2>5 DEF WinShape
<1>11. CASE PollStaged
  <2>1. /\ view' \in Shown /\ lastSaid' \in Number /\ fate' \in [Session -> Fates]
        /\ restore' \in {"none", "kept", "overtaken"} /\ clip' \in {"copy", "koett"}
        /\ offered' \in BOOLEAN /\ typed' \subseteq Session
    <3>1. CASE /\ offered /\ ~again
               /\ Recorded(staged, FALSE, TextOffered, TRUE)
               /\ typed' = typed \cup {staged}
      <4>1. staged \in Session
        BY <1>11 DEF PollStaged, WinShape, DeskTyped, Number
      <4>2. TextOffered \in ClipState
        BY ClipsTyped DEF WinShape
      <4>3. typed' \subseteq Session
        BY <3>1, <4>1 DEF WinShape, DeskTyped
      <4>4. QED
        BY <3>1, <4>2, <4>3, RecordedTyped DEF WinShape, DeskTyped
    <3>2. CASE /\ ~again /\ UNCHANGED typed
               /\ \E c \in TextRefused : Recorded(staged, TRUE, c, bundle # NoSession)
      <4>1. PICK c \in TextRefused : Recorded(staged, TRUE, c, bundle # NoSession)
        BY <3>2
      <4>2. c \in ClipState
        BY ClipsTyped DEF WinShape
      <4>3. (bundle # NoSession) \in BOOLEAN /\ staged \in Number
        BY DEF WinShape, DeskTyped
      <4>4. typed' \subseteq Session
        BY <3>2 DEF WinShape, DeskTyped
      <4>5. QED
        BY <4>1, <4>2, <4>3, <4>4, RecordedTyped
    <3>3. CASE /\ again /\ offered' = FALSE /\ UNCHANGED <<view, lastSaid, fate, typed>>
               /\ \/ offered /\ Now(TextOffered)
                  \/ \E c \in TextRefused : \E e \in Ensured(c, bundle # NoSession) : Now(e)
      <4>1. PICK e \in ClipState : Now(e)
        <5>1. CASE Now(TextOffered)
          BY <5>1, ClipsTyped DEF WinShape
        <5>2. CASE \E c \in TextRefused : \E e \in Ensured(c, bundle # NoSession) : Now(e)
          <6>1. PICK c \in TextRefused : \E e \in Ensured(c, bundle # NoSession) : Now(e)
            BY <5>2
          <6>2. c \in ClipState /\ (bundle # NoSession) \in BOOLEAN
            BY ClipsTyped DEF WinShape
          <6>3. Ensured(c, bundle # NoSession) \subseteq ClipState
            BY <6>2, ClipsTyped DEF WinShape
          <6>4. QED
            BY <6>1, <6>3
        <5>3. QED
          BY <3>3, <5>1, <5>2
      <4>2. restore' \in {"none", "kept", "overtaken"} /\ clip' \in {"copy", "koett"}
        BY <4>1, NowTyped
      <4>3. QED
        BY <3>3, <4>2 DEF WinShape, DeskTyped, EngineTyped
    <3>4. QED
      BY <1>11, <3>1, <3>2, <3>3 DEF PollStaged
  <2>2. staged' \in Number /\ again' \in BOOLEAN /\ lostCopy' \in BOOLEAN
    BY <1>11 DEF PollStaged, WinShape, DeskTyped, Number
  <2>3. DeskTyped'
    BY <1>11, <2>1, <2>2 DEF PollStaged, WinShape, DeskTyped
  <2>4. EngineTyped' /\ Numbered'
    BY <1>11, <2>1 DEF PollStaged, WinShape, EngineTyped, Numbered, sessions
  <2>5. QED
    BY <2>3, <2>4 DEF WinShape
<1>12. CASE CancelFromDesk
  <2>1. PICK ended : Discard(ended)
    BY <1>12 DEF CancelFromDesk
  <2>2. fate' \in [Session -> Fates]
    BY <2>1, DiscardTyped
  <2>3. cmds' \in Seq(Command)
    BY <1>12, QueueTyped DEF CancelFromDesk, SendToEngine, WinShape, EngineTyped, Command, UserOps
  <2>4. current' = current /\ cancelled' \in 0..MaxSessions /\ discarded' \subseteq Session
    BY <1>12, CancelTyped DEF CancelFromDesk, WinShape
  <2>5. EngineTyped' /\ Numbered'
    BY <1>12, <2>2, <2>3, <2>4 DEF CancelFromDesk, SendToEngine, WinShape, EngineTyped, Numbered
  <2>6. view' \in Shown /\ opening' \in BOOLEAN
    BY <1>12 DEF CancelFromDesk, WinShape, DeskTyped, Shown, Statuses
  <2>7. desk' \in {"running", "menu", "stopping", "gone"} /\ overtook' \in BOOLEAN
    BY <1>12 DEF CancelFromDesk, AtHand, WinShape, DeskTyped
  <2>8. DeskTyped'
    BY <2>1, <2>6, <2>7, DiscardTyped DEF DeskTyped
  <2>9. QED
    BY <2>5, <2>8 DEF WinShape
<1>13. CASE PasteAgain
  <2>1. EngineTyped' /\ Numbered'
    BY <1>13, EngineUntouched DEF PasteAgain
  <2>2. PICK c \in ClipState : Now(c)
    BY <1>13, ClipsTyped DEF PasteAgain, WinShape
  <2>3. restore' \in {"none", "kept", "overtaken"} /\ clip' \in {"copy", "koett"}
    BY <2>2, NowTyped
  <2>4. staged' \in Number /\ again' \in BOOLEAN /\ offered' \in BOOLEAN
    BY <1>13 DEF PasteAgain, WinShape, DeskTyped
  <2>5. DeskTyped'
    BY <1>13, <2>3, <2>4 DEF PasteAgain, AtHand, WinShape, DeskTyped
  <2>6. QED
    BY <2>1, <2>5 DEF WinShape
<1>14. CASE CopyLast
  <2>1. EngineTyped' /\ Numbered'
    BY <1>14, EngineUntouched DEF CopyLast
  <2>2. Published(Clip) \in ClipState
    BY ClipsTyped DEF WinShape
  <2>3. restore' \in {"none", "kept", "overtaken"} /\ clip' \in {"copy", "koett"}
    BY <1>14, <2>2, NowTyped DEF CopyLast
  <2>4. DeskTyped'
    BY <1>14, <2>3 DEF CopyLast, AtHand, WinShape, DeskTyped
  <2>5. QED
    BY <2>1, <2>4 DEF WinShape
<1>15. CASE RequestQuit
  <2>1. EngineTyped' /\ Numbered'
    BY <1>15, SendTyped DEF RequestQuit
  <2>2. DeskTyped'
    BY <1>15 DEF RequestQuit, WinShape, DeskTyped
  <2>3. QED
    BY <2>1, <2>2 DEF WinShape
<1>16. QED
  BY <1>1, <1>2, <1>3, <1>4, <1>6, <1>7, <1>8, <1>9, <1>10, <1>11, <1>12, <1>13, <1>14, <1>15

\* No step, of the engine or of the desktop, leaves the types.
LEMMA StepTyped == WinShape /\ [WinNext]_winVars => WinShape'
<1> SUFFICES ASSUME WinShape, [WinNext]_winVars PROVE WinShape'
  OBVIOUS
<1>1. CASE WinEngine
  BY <1>1, EngineStepTyped
<1>2. CASE UNCHANGED winVars
  BY <1>2 DEF winVars, engineVars, deskVars, boardVars, pasteVars, WinShape, EngineTyped,
              DeskTyped, Numbered
<1>3. CASE WinNext /\ ~WinEngine
  BY <1>3, DeskStepTyped DEF WinNext
<1>4. QED
  BY <1>1, <1>2, <1>3

\* Every variable of the Windows application keeps to its type, whatever the reports, the user
\* and the clipboard do.
THEOREM DesktopTypes == WinSpec => []WinTypeOK
<1>1. WinInit => WinShape
  BY InitShape
<1>2. WinShape /\ [WinNext]_winVars => WinShape'
  BY StepTyped
<1>3. WinShape => WinTypeOK
  <2> SUFFICES ASSUME WinShape PROVE WinTypeOK
    OBVIOUS
  <2> USE DEF WinShape, EngineTyped, DeskTyped
  <2>1. {board, parked, staged, lastSaid, bundle} \subseteq Session \cup {NoSession}
    BY DEF Number
  <2>2. view \in Statuses \cup {"Error"}
    BY DEF Shown
  <2>3. QED
    BY <2>1, <2>2 DEF WinTypeOK
<1>4. QED
  BY <1>1, <1>2, <1>3, PTL DEF WinSpec

-----------------------------------------------------------------------------
(* A cancelled dictation is not typed.  The latest dictation is the one the *)
(* engine records, so nothing that waits on the desktop is of it: what the  *)
(* engine cancels is not staged, and what the desktop cancels it discards.  *)

\* A dictation that is over stays over, unless the engine begins to record without a new one.
LEMMA HeardStays ==
    ASSUME UNCHANGED current, status' = "Recording" => status = "Recording"
    PROVE  /\ \A s : Heard(s) => Heard(s)'
           /\ \A q : AllHeard(q) =>
                \A i \in DOMAIN q : q[i].kind = "TranscriptReady" => Heard(q[i].session)'
BY DEF Heard, AllHeard

\* Reports behind the first are heard of as before; one more is if it is.
LEMMA QueueHeard ==
    ASSUME NEW q \in Seq(WinUpdate), AllHeard(q)
    PROVE  /\ q # <<>> => /\ AllHeard(Tail(q))
                          /\ Head(q).kind = "TranscriptReady" => Heard(Head(q).session)
           /\ \A u \in WinUpdate :
                (u.kind = "TranscriptReady" => Heard(u.session)) => AllHeard(Append(q, u))
<1> USE DEF AllHeard
<1>1. ASSUME q # <<>>
      PROVE  AllHeard(Tail(q)) /\ (Head(q).kind = "TranscriptReady" => Heard(Head(q).session))
  <2>1. \A i \in DOMAIN Tail(q) : i + 1 \in DOMAIN q /\ Tail(q)[i] = q[i + 1]
    BY <1>1
  <2>2. 1 \in DOMAIN q /\ Head(q) = q[1]
    BY <1>1
  <2>3. QED
    BY <2>1, <2>2
<1>2. ASSUME NEW u \in WinUpdate, u.kind = "TranscriptReady" => Heard(u.session)
      PROVE  AllHeard(Append(q, u))
  <2> SUFFICES ASSUME NEW i \in DOMAIN Append(q, u), Append(q, u)[i].kind = "TranscriptReady"
               PROVE  Heard(Append(q, u)[i].session)
    OBVIOUS
  <2>1. (i \in DOMAIN q /\ Append(q, u)[i] = q[i]) \/ Append(q, u)[i] = u
    OBVIOUS
  <2>2. QED
    BY <1>2, <2>1
<1>3. QED
  BY <1>1, <1>2

\* Reports that hold no transcript.
LEMMA NoTranscript ==
    /\ AllHeard(<<>>)
    /\ \A s \in Shown : AllHeard(<<StatusReport(s)>>)
    /\ AllHeard(<<StatusReport("Ready"), FormattingBusy(TRUE)>>)
    /\ \A n : AllHeard(<<StatusReport("Recording"), RecordingStarted(n)>>)
BY DEF AllHeard, StatusReport, FormattingBusy, RecordingStarted

\* A step of the engine that publishes nothing and begins and cancels no dictation.
Unheard ==
    /\ UNCHANGED <<sessions, upds>>
    /\ status' = "Recording" => status = "Recording"
    /\ AllHeard(outbox) => AllHeard(outbox')

\* Most handlers of the engine are such steps.
LEMMA QuietSteps ==
    ASSUME WinShape,
           \/ PrepareSucceeds \/ PrepareFails \/ Quit \/ Exit
           \/ OpenMicrophone \/ MicrophoneFails \/ StopRecording \/ LimitReached
           \/ DecodeSucceeds \/ DecodeFails \/ IgnoreCommand
    PROVE  Unheard
<1> USE NoTranscript DEF Unheard, Report, Shown, Statuses, sessions
<1>1. CASE PrepareSucceeds \/ PrepareFails
  BY <1>1 DEF PrepareSucceeds, PrepareFails
<1>2. CASE Quit \/ Exit \/ IgnoreCommand
  BY <1>2 DEF Quit, Exit, IgnoreCommand
<1>3. CASE OpenMicrophone \/ MicrophoneFails
  BY <1>3 DEF OpenMicrophone, MicrophoneFails
<1>4. CASE StopRecording \/ LimitReached
  BY <1>4 DEF StopRecording, LimitReached, FinishCapture
<1>5. CASE DecodeSucceeds \/ DecodeFails
  BY <1>5 DEF DecodeSucceeds, DecodeFails
<1>6. QED
  BY <1>1, <1>2, <1>3, <1>4, <1>5

\* The engine cancels only what it records, and that waits nowhere.
LEMMA EngineHolds ==
    ASSUME WinInv, WinEngine
    PROVE  (Known /\ Remembered /\ StagedLive)'
<1> USE DEF WinInv
<1>1. UNCHANGED <<parked, staged, again>>
  BY DEF WinEngine, deskVars, boardVars, pasteVars
<1>2. /\ current \in 0..MaxSessions /\ parked \in Number /\ staged \in Number
      /\ outbox \in Seq(WinUpdate) /\ upds \in Seq(WinUpdate) /\ discarded \subseteq Session
      /\ \A n \in Number : n \in Nat
  BY MaxSessionsAssumption DEF WinShape, EngineTyped, DeskTyped, Number, Session, NoSession
<1>3. CASE Unheard
  <2>1. Remembered' /\ StagedLive'
    BY <1>1, <1>3, HeardStays DEF Unheard, Remembered, StagedLive, sessions
  <2>2. AllHeard(outbox)' /\ AllHeard(upds)'
    BY <1>3, HeardStays DEF Unheard, Known, AllHeard, sessions
  <2>3. QED
    BY <1>1, <1>3, <2>1, <2>2, HeardStays DEF Unheard, Known, sessions
<1>4. CASE Send
  <2>1. UNCHANGED <<status, sessions>> /\ outbox # <<>>
    BY <1>4 DEF Send
  <2>2. AllHeard(Tail(outbox)) /\ AllHeard(Append(upds, Head(outbox)))
    BY <1>2, <2>1, QueueHeard, QueueTyped DEF Known
  <2>3. AllHeard(outbox)' /\ AllHeard(upds)'
    BY <1>4, <2>1, <2>2 DEF Send, AllHeard, Heard, sessions
  <2>4. QED
    BY <1>1, <2>1, <2>3, HeardStays DEF Known, Remembered, StagedLive, sessions
<1>5. CASE MicrophoneOpens
  <2>1. /\ current' = current + 1 /\ UNCHANGED <<upds, cancelled, discarded>>
        /\ outbox' = <<StatusReport("Recording"), RecordingStarted(current + 1)>>
    BY <1>5 DEF MicrophoneOpens, Report
  <2>2. \A s \in Nat : Heard(s) => Heard(s)'
    BY <1>2, <2>1 DEF Heard
  <2>3. AllHeard(upds)'
    <3>1. SUFFICES ASSUME NEW i \in DOMAIN upds, upds[i].kind = "TranscriptReady"
                   PROVE  Heard(upds[i].session)'
      BY <2>1 DEF AllHeard
    <3>2. upds[i] \in WinUpdate
      BY <1>2
    <3>3. upds[i].session \in Session
      BY <3>1, <3>2, UpdateTyped
    <3>4. Heard(upds[i].session) /\ upds[i].session \in Nat
      BY <1>2, <3>1, <3>3 DEF Known, AllHeard, Number
    <3>5. QED
      BY <2>1, <2>2, <3>4
  <2>4. AllHeard(outbox)'
    BY <2>1, NoTranscript DEF AllHeard, StatusReport, RecordingStarted
  <2>5. Remembered' /\ current' \notin discarded'
    BY <1>2, <2>1 DEF Remembered, Number
  <2>6. QED
    BY <1>1, <1>2, <2>2, <2>3, <2>4, <2>5 DEF Known, StagedLive
<1>6. CASE Publish
  <2>1. /\ UNCHANGED <<sessions, upds>> /\ status' = "Ready"
        /\ outbox' = <<TranscriptReady(current), StatusReport("Ready")>>
    BY <1>6 DEF Publish, Report
  <2>2. AllHeard(upds)'
    BY <2>1, HeardStays DEF Known, AllHeard, sessions
  <2>3. AllHeard(outbox)'
    BY <1>2, <2>1 DEF AllHeard, Heard, TranscriptReady, StatusReport, sessions
  <2>4. QED
    BY <1>1, <2>1, <2>2, <2>3, HeardStays DEF Known, Remembered, StagedLive, sessions
<1>7. CASE CancelRecording
  <2>1. /\ status = "Recording" /\ status' = "Ready" /\ outbox' = <<StatusReport("Ready")>>
        /\ UNCHANGED <<current, upds>> /\ cancelled' = current
        /\ discarded' = discarded \cup ({current} \ {0})
    BY <1>7 DEF CancelRecording, CancelCurrent, Report
  <2>2. AllHeard(upds)'
    BY <2>1, HeardStays DEF Known, AllHeard
  <2>3. AllHeard(outbox)'
    BY <2>1 DEF AllHeard, StatusReport
  <2>4. Remembered'
    BY <1>2, <2>1 DEF Remembered
  <2>5. StagedLive'
    <3>1. SUFFICES ASSUME staged # NoSession, ~again
                   PROVE  Heard(staged)' /\ staged # current
      BY <1>1, <2>1 DEF StagedLive
    <3>2. QED
      BY <1>1, <1>2, <2>1, <3>1 DEF StagedLive, Heard
  <2>6. QED
    BY <1>1, <2>1, <2>2, <2>3, <2>4, <2>5, HeardStays DEF Known
<1>8. QED
  BY <1>3, <1>4, <1>5, <1>6, <1>7, QuietSteps DEF WinEngine

\* A step of the desktop that takes a report at most, and leaves nothing waiting that is not
\* over or that the user has cancelled.
Held ==
    /\ UNCHANGED <<status, outbox, sessions>>
    /\ upds' = upds \/ (upds # <<>> /\ upds' = Tail(upds))
    /\ parked' \in {parked, NoSession} \/ Heard(parked')
    /\ \/ staged' = NoSession
       \/ UNCHANGED <<staged, again>>
       \/ again'
       \/ Heard(staged') /\ cancelled # staged'

\* After such a step, what is known of the dictations holds as before.
LEMMA HeldHolds ==
    ASSUME WinInv, Held
    PROVE  (Known /\ Remembered /\ StagedLive)'
<1> USE DEF WinInv
<1>1. UNCHANGED <<status, current, cancelled, discarded, outbox>>
  BY DEF Held, sessions
<1>2. \A s : Heard(s) => Heard(s)'
  BY <1>1, HeardStays
<1>3. upds \in Seq(WinUpdate) /\ AllHeard(upds)
  BY DEF WinShape, EngineTyped, Known
<1>4. AllHeard(upds')
  BY <1>3, QueueHeard DEF Held
<1>5. AllHeard(upds)' /\ AllHeard(outbox)'
  BY <1>1, <1>4 DEF Known, AllHeard, Heard
<1>6. Known'
  BY <1>2, <1>5 DEF Known, Held
<1>7. Remembered'
  BY <1>1 DEF Remembered
<1>8. StagedLive'
  BY <1>1, <1>2 DEF Held, StagedLive, Remembered
<1>9. QED
  BY <1>6, <1>7, <1>8

\* What is typed is not the latest dictation once that is cancelled.
Untyped == \A s \in typed' \ typed : ~(s = current /\ s \in discarded)

\* deliver stages and types a dictation only if the last cancel was not of it.
LEMMA TakeTranscriptHeld ==
    ASSUME WinInv, NEW s \in Session, Heard(s), TakeTranscript(s)
    PROVE  /\ parked' = NoSession
           /\ \/ staged' = NoSession
              \/ UNCHANGED <<staged, again>>
              \/ Heard(staged') /\ cancelled # staged'
           /\ Untyped
<1> USE DEF WinInv, Untyped
<1>1. parked' = NoSession /\ s # NoSession
  BY DEF TakeTranscript, Session, NoSession
<1>2. CASE IsCancelled(s)
  BY <1>1, <1>2 DEF TakeTranscript, pasteVars
<1>3. CASE ~IsCancelled(s) /\ DeliverDrawn(s)
  BY <1>1, <1>3 DEF DeliverDrawn, IsCancelled, NoSession
<1>4. CASE ~IsCancelled(s) /\ DeliverText(s)
  <2>1. UNCHANGED <<staged, again>> /\ typed' \subseteq typed \cup {s}
    BY <1>4 DEF DeliverText
  <2>2. cancelled # s
    BY <1>1, <1>4 DEF IsCancelled, NoSession
  <2>3. QED
    BY <1>1, <2>1, <2>2 DEF Remembered
<1>5. CASE ~IsCancelled(s) /\ DeliverNothing(s)
  BY <1>1, <1>5 DEF DeliverNothing, Discard
<1>6. QED
  BY <1>2, <1>3, <1>4, <1>5 DEF TakeTranscript

\* Whatever the user and the timer do, nothing that waits has been cancelled, and no cancelled
\* dictation is typed.
LEMMA DeskHolds ==
    ASSUME WinInv,
           \/ OpenMenu \/ CloseMenu \/ \E op \in Commands \cap DictationOps : Tap(op)
           \/ CopySomething
           \/ TakeParked \/ PollTranscript \/ PollStatus \/ PollRecordingStarted
           \/ Draw \/ Captured \/ UndoDrawing \/ PollRestore \/ PollStaged
           \/ CancelFromDesk \/ PasteAgain \/ CopyLast
           \/ RequestQuit \/ EngineStopped \/ SessionEnds
    PROVE  (Known /\ Remembered /\ StagedLive)' /\ Untyped
<1> USE DEF Untyped
<1>1. CASE \/ OpenMenu \/ CloseMenu \/ CopySomething \/ Draw \/ Captured \/ UndoDrawing
           \/ PollRestore \/ CopyLast \/ EngineStopped \/ SessionEnds
  <2>1. UNCHANGED <<engineVars, parked, staged, again, typed>>
    BY <1>1 DEF OpenMenu, CloseMenu, CopySomething, Draw, Captured, UndoDrawing, PollRestore,
                CopyLast, EngineStopped, SessionEnds, pasteVars
  <2>2. QED
    BY <2>1, HeldHolds DEF Held, engineVars, sessions
<1>2. CASE RequestQuit \/ \E op \in Commands \cap DictationOps : Tap(op)
  <2>1. UNCHANGED <<status, outbox, upds, sessions, parked, staged, again, typed>>
    BY <1>2 DEF RequestQuit, Tap, SendToEngine, pasteVars
  <2>2. QED
    BY <2>1, HeldHolds DEF Held
<1>3. CASE TakeParked
  <2>1. parked \in Session /\ Heard(parked) /\ TakeTranscript(parked)
    BY <1>3 DEF TakeParked, WinInv, WinShape, DeskTyped, Number, Known
  <2>2. Held
    BY <1>3, <2>1, TakeTranscriptHeld DEF TakeParked, Held
  <2>3. QED
    BY <2>1, <2>2, HeldHolds, TakeTranscriptHeld
<1>4. CASE PollTranscript
  <2> DEFINE s == Head(upds).session
  <2>1. /\ upds # <<>> /\ Head(upds).kind = "TranscriptReady" /\ upds' = Tail(upds)
        /\ UNCHANGED <<status, outbox, sessions>>
    BY <1>4 DEF PollTranscript, TakeReport
  <2>2. s \in Session /\ Heard(s)
    <3>1. upds \in Seq(WinUpdate) /\ AllHeard(upds)
      BY DEF WinInv, WinShape, EngineTyped, Known
    <3>2. Head(upds) \in WinUpdate
      BY <2>1, <3>1, QueueTyped
    <3>3. QED
      BY <2>1, <3>1, <3>2, QueueHeard, UpdateTyped
  <2>3. CASE capturing
    <3>1. parked' = s /\ UNCHANGED <<staged, again, typed>>
      BY <1>4, <2>3 DEF PollTranscript, Park, pasteVars
    <3>2. QED
      BY <2>1, <2>2, <3>1, HeldHolds DEF Held
  <2>4. CASE ~capturing
    <3>1. TakeTranscript(s)
      BY <1>4, <2>4 DEF PollTranscript
    <3>2. Held
      BY <2>1, <2>2, <3>1, TakeTranscriptHeld DEF Held
    <3>3. QED
      BY <2>2, <3>1, <3>2, HeldHolds, TakeTranscriptHeld
  <2>5. QED
    BY <2>3, <2>4
<1>5. CASE PollStatus \/ PollRecordingStarted
  <2>1. /\ upds # <<>> /\ upds' = Tail(upds)
        /\ UNCHANGED <<status, outbox, sessions, parked, staged, again, typed>>
    BY <1>5 DEF PollStatus, PollRecordingStarted, TakeReport, pasteVars
  <2>2. QED
    BY <2>1, HeldHolds DEF Held
<1>6. CASE PollStaged
  <2>1. /\ staged' = NoSession /\ staged # NoSession
        /\ UNCHANGED <<status, outbox, upds, sessions, parked>>
    BY <1>6 DEF PollStaged
  <2>2. Untyped
    BY <1>6, <2>1 DEF PollStaged, WinInv, StagedLive
  <2>3. QED
    BY <2>1, <2>2, HeldHolds DEF Held
<1>7. CASE PasteAgain
  <2>1. UNCHANGED <<engineVars, parked, typed>> /\ (again' \/ UNCHANGED <<staged, again>>)
    BY <1>7 DEF PasteAgain
  <2>2. QED
    BY <2>1, HeldHolds DEF Held, engineVars, sessions
<1>8. CASE CancelFromDesk
  <2>1. /\ UNCHANGED <<status, outbox, upds, current, typed>> /\ cancelled' = current
        /\ discarded' = discarded \cup ({current} \ {0})
        /\ parked' = NoSession /\ staged' = NoSession
    BY <1>8 DEF CancelFromDesk, Discard, CancelCurrent, SendToEngine
  <2>2. \A s : Heard(s) <=> Heard(s)'
    BY <2>1 DEF Heard
  <2>3. AllHeard(outbox)' /\ AllHeard(upds)'
    BY <2>1, HeardStays DEF WinInv, Known, AllHeard
  <2>4. current \in Nat
    BY MaxSessionsAssumption DEF WinInv, WinShape, EngineTyped
  <2>5. Remembered'
    BY <2>1, <2>4 DEF WinInv, Remembered
  <2>6. QED
    BY <2>1, <2>3, <2>5 DEF Known, StagedLive
<1>9. QED
  BY <1>1, <1>2, <1>3, <1>4, <1>5, <1>6, <1>7, <1>8

\* The invariant behind it holds of every state of the program.
LEMMA WinInvHolds == WinSpec => []WinInv
<1>1. WinInit => WinInv
  <2> SUFFICES ASSUME WinInit PROVE WinInv
    OBVIOUS
  <2>1. WinShape
    BY InitShape
  <2>2. AllHeard(outbox) /\ AllHeard(upds)
    BY DEF WinInit, EngineInit, AllHeard, StatusReport
  <2>3. QED
    BY <2>1, <2>2 DEF WinInit, EngineInit, WinInv, Known, Remembered, StagedLive
<1>2. WinInv /\ [WinNext]_winVars => WinInv'
  <2> SUFFICES ASSUME WinInv, [WinNext]_winVars PROVE WinInv'
    OBVIOUS
  <2>1. WinShape'
    BY StepTyped DEF WinInv
  <2>2. CASE WinEngine
    BY <2>1, <2>2, EngineHolds DEF WinInv
  <2>3. CASE UNCHANGED winVars
    BY <2>1, <2>3, HeldHolds DEF WinInv, Held, winVars, engineVars, deskVars, pasteVars, sessions
  <2>4. CASE WinNext /\ ~WinEngine
    BY <2>1, <2>4, DeskHolds DEF WinInv, WinNext
  <2>5. QED
    BY <2>2, <2>3, <2>4
<1>3. QED
  BY <1>1, <1>2, PTL DEF WinSpec

\* A dictation cancelled while it is the latest is not typed afterwards: not by the timer that
\* goes on with its staged paste, nor by the end of the capture that its transcript waited for.
THEOREM CancelHolds == WinSpec => CancelledNotTyped
<1>1. WinInv /\ [WinNext]_winVars => [current \notin (typed' \ typed) \cap discarded]_winVars
  <2> SUFFICES ASSUME WinInv, WinNext
               PROVE  current \notin (typed' \ typed) \cap discarded
    BY DEF winVars
  <2>1. CASE WinEngine
    BY <2>1 DEF WinEngine, deskVars, pasteVars
  <2>2. CASE WinNext /\ ~WinEngine
    BY <2>2, DeskHolds DEF WinNext, Untyped
  <2>3. QED
    BY <2>1, <2>2
<1>2. QED
  BY <1>1, WinInvHolds, PTL DEF WinSpec, CancelledNotTyped

-----------------------------------------------------------------------------
(* One dictation at a time.  A tap that does not overtake the reports of   *)
(* the last finds an engine that has nothing under way, or is recording;   *)
(* so everything that is under way is of one dictation, the current one.   *)

\* All reports that the desktop has not taken.
Coming == upds \o outbox

\* What the status on the desktop will be when the reports are taken, unless something
\* waits there.
LastStatus(q, v) ==
    \E i \in DOMAIN q : /\ q[i].kind = "Status" /\ q[i].status = v
                        /\ \A j \in DOMAIN q : j > i => q[j].kind # "Status"
NoStatus(q) == \A i \in DOMAIN q : q[i].kind # "Status"
Said(v) == LastStatus(Coming, v) \/ (NoStatus(Coming) /\ view = v)

\* The statuses of an engine at work on a dictation.
Working == {"Starting", "Recording", "Transcribing"}
NothingWaits == parked = NoSession /\ staged = NoSession
NobodyOnItsWay == \A s \in Session : ~OnItsWay(s)

\* The thread's own status fits what it is blocked in.
StatusFits ==
    /\ job # "switch"
    /\ job = "none" => status \in {"Ready", "Recording"}
    /\ job = "prepare" => status = "Starting"
    /\ job = "open" => status = "Ready"
    /\ job \in {"decode", "clean"} => status = "Transcribing"

Capturing == status = "Recording" /\ job # "dead"
Decoding == job \in {"decode", "clean"}
Busy == Capturing \/ Decoding \/ job = "open"

\* Until the model is loaded the desktop shows that it starts.
Prepared ==
    job = "prepare" =>
        /\ view = "Starting" /\ NobodyOnItsWay /\ NothingWaits
        /\ \A i \in DOMAIN Coming : Coming[i].kind = "Status" /\ Coming[i].status = "Starting"

\* A tap has come that begins a recording, and the engine is free to take it.
AboutToOpen ==
    /\ status = "Ready" /\ job = "none" /\ Coming = <<>>
    /\ opening /\ view \in {"Ready", "Error"} /\ NothingWaits /\ NobodyOnItsWay

\* A tap is the only one on its way.
TapsFit ==
    \A i \in DOMAIN cmds : cmds[i].op \in CaptureOps =>
        /\ i = 1
        /\ \/ job \in {"exit", "dead"}
           \/ Capturing /\ job = "none" /\ cmds[i].op = "Toggle"
           \/ AboutToOpen

\* While the engine is at work nothing waits on the desktop, and the desktop knows of it.
WorkFits ==
    /\ job = "open" => /\ NobodyOnItsWay
                       /\ \A i \in DOMAIN Coming : Coming[i].kind # "RecordingStarted"
    /\ Capturing => current \in Session /\ fate[current] = "recording" /\ Said("Recording")
    /\ Decoding => current \in Session /\ fate[current] = "decoding" /\ Said("Transcribing")
    /\ Said("Recording") => status = "Recording"
    /\ Busy => /\ NothingWaits
               /\ opening \/ view \in Working
               /\ \A i \in DOMAIN Coming : Coming[i].kind = "Status" => Coming[i].status \in Working

\* What has begun and is not over is the current dictation, and is where its fate says.
FatesFit ==
    /\ \A s \in Session : s > current => fate[s] = "unused"
    /\ \A s \in Session : OnItsWay(s) => s = current
    /\ \A s \in Session : fate[s] = "recording" => Capturing
    /\ \A s \in Session : fate[s] = "decoding" => Decoding
    /\ \A s \in Session : fate[s] = "delivering" <=> s \in Waiting
    /\ staged # NoSession /\ again => NobodyOnItsWay
    /\ parked = NoSession \/ staged = NoSession

\* A transcript comes once, after the report of its start, and the desktop knows of it.
TranscriptsFit ==
    /\ \A s \in Session : fate[s] = "published" =>
         \E i \in DOMAIN Coming : Coming[i].kind = "TranscriptReady" /\ Coming[i].session = s
    /\ \A i \in DOMAIN Coming : Coming[i].kind = "TranscriptReady" =>
         /\ fate[Coming[i].session] = "published"
         /\ NothingWaits
         /\ opening \/ view \in Working
         /\ \A j \in DOMAIN Coming : j < i =>
              /\ Coming[j].kind = "Status" => Coming[j].status \in Working
              /\ Coming[j].kind # "TranscriptReady"
         /\ \A j \in DOMAIN Coming : j > i => Coming[j].kind # "RecordingStarted"

\* The board is that of the current dictation, once the report of its start is taken.
BoardFits ==
    /\ drawable \/ capturing \/ frames => board # NoSession
    /\ \A i \in DOMAIN Coming : Coming[i].kind = "RecordingStarted" =>
         Coming[i].session = current /\ parked = NoSession
    /\ \/ board \in {NoSession, current}
       \/ \E i \in DOMAIN Coming : Coming[i].kind = "RecordingStarted"
    /\ staged # NoSession => lastSaid = staged
    /\ bundle # NoSession => bundle = lastSaid

OneDictation ==
    Prepared /\ TapsFit /\ WorkFits /\ FatesFit /\ TranscriptsFit /\ BoardFits

TapInv == WinShape /\ StatusFits /\ (~overtook => OneDictation)

\* The reports that are coming, one by one.
LEMMA ComingTyped ==
    ASSUME WinShape
    PROVE  /\ Coming \in Seq(WinUpdate) /\ DOMAIN Coming = 1..Len(Coming) /\ Len(Coming) \in Nat
           /\ \A i \in DOMAIN Coming : Coming[i] \in WinUpdate
           /\ upds \in Seq(WinUpdate) /\ outbox \in Seq(WinUpdate)
<1>1. upds \in Seq(WinUpdate) /\ outbox \in Seq(WinUpdate)
  BY DEF WinShape, EngineTyped
<1>2. Coming \in Seq(WinUpdate)
  BY <1>1, ConcatProperties DEF Coming
<1> QED  BY <1>1, <1>2

\* A report sent is still coming.
LEMMA ComingSent ==
    ASSUME WinShape, Send
    PROVE  Coming' = Coming
<1>1. /\ upds \in Seq(WinUpdate) /\ outbox \in Seq(WinUpdate) /\ outbox # <<>>
      /\ upds' = Append(upds, Head(outbox)) /\ outbox' = Tail(outbox)
  BY ComingTyped DEF Send
<1>2. /\ upds' \in Seq(WinUpdate) /\ outbox' \in Seq(WinUpdate)
      /\ Len(upds') = Len(upds) + 1 /\ Len(outbox') = Len(outbox) - 1
      /\ Len(upds) \in Nat /\ Len(outbox) \in Nat \ {0}
      /\ \A i \in 1..Len(upds) : upds'[i] = upds[i]
      /\ upds'[Len(upds) + 1] = outbox[1]
      /\ \A i \in 1..(Len(outbox) - 1) : outbox'[i] = outbox[i + 1]
  BY <1>1
<1> DEFINE c == upds \o outbox
           d == upds' \o outbox'
<1>3. /\ c \in Seq(WinUpdate) /\ Len(c) = Len(upds) + Len(outbox)
      /\ \A i \in 1..Len(c) : c[i] = IF i <= Len(upds) THEN upds[i] ELSE outbox[i - Len(upds)]
  BY <1>1, ConcatProperties
<1>4. /\ d \in Seq(WinUpdate) /\ Len(d) = Len(upds') + Len(outbox')
      /\ \A i \in 1..Len(d) : d[i] = IF i <= Len(upds') THEN upds'[i] ELSE outbox'[i - Len(upds')]
  <2>1. \A s, t \in Seq(WinUpdate) :
          /\ s \o t \in Seq(WinUpdate) /\ Len(s \o t) = Len(s) + Len(t)
          /\ \A i \in 1..Len(s \o t) :
               (s \o t)[i] = IF i <= Len(s) THEN s[i] ELSE t[i - Len(s)]
    BY ConcatProperties
  <2> QED  BY <1>2, <2>1
<1> HIDE DEF c, d
<1>5. Len(d) = Len(c)
  BY <1>2, <1>3, <1>4
<1>6. ASSUME NEW i \in 1..Len(d) PROVE d[i] = c[i]
  <2>1. CASE i <= Len(upds)
    BY <1>2, <1>3, <1>4, <1>5, <2>1
  <2>2. CASE i = Len(upds) + 1
    BY <1>2, <1>3, <1>4, <1>5, <2>2
  <2>3. CASE i > Len(upds) + 1
    <3>1. i - Len(upds') \in 1..(Len(outbox) - 1) /\ (i - Len(upds')) + 1 = i - Len(upds)
      BY <1>2, <1>3, <1>5, <2>3
    <3>2. d[i] = outbox'[i - Len(upds')] /\ c[i] = outbox[i - Len(upds)]
      BY <1>2, <1>3, <1>4, <1>5, <2>3
    <3> QED  BY <1>2, <3>1, <3>2
  <2> QED  BY <1>2, <1>4, <2>1, <2>2, <2>3
<1>7. d = c
  BY <1>3, <1>4, <1>5, <1>6, SeqEqual
<1> QED  BY <1>7 DEF c, d, Coming

\* What a handler reports comes behind what was coming.
LEMMA ComingMore ==
    ASSUME WinShape, outbox = <<>>, upds' = upds, outbox' \in Seq(WinUpdate)
    PROVE  /\ Coming' = Coming \o outbox'
           /\ Len(Coming') = Len(Coming) + Len(outbox') /\ DOMAIN Coming' = 1..Len(Coming')
           /\ Len(outbox') \in Nat /\ DOMAIN outbox' = 1..Len(outbox')
           /\ \A i \in 1..Len(Coming) : Coming'[i] = Coming[i]
           /\ \A i \in 1..Len(outbox') : Coming'[Len(Coming) + i] = outbox'[i]
           /\ \A i \in DOMAIN Coming' : i > Len(Coming) =>
                i - Len(Coming) \in DOMAIN outbox' /\ Coming'[i] = outbox'[i - Len(Coming)]
<1>1. Coming = upds /\ upds \in Seq(WinUpdate)
  BY ComingTyped, ConcatEmptySeq DEF Coming
<1>2. Coming' = upds \o outbox'
  BY DEF Coming
<1>3. /\ Len(Coming') = Len(upds) + Len(outbox') /\ Coming' \in Seq(WinUpdate)
      /\ \A i \in 1..Len(Coming') :
           Coming'[i] = IF i <= Len(upds) THEN upds[i] ELSE outbox'[i - Len(upds)]
  BY <1>1, <1>2, ConcatProperties
<1>4. Len(upds) \in Nat /\ Len(outbox') \in Nat
  BY <1>1
<1>5. \A i \in 1..Len(Coming) : Coming'[i] = Coming[i]
  BY <1>1, <1>3, <1>4
<1>6. \A i \in 1..Len(outbox') : Coming'[Len(Coming) + i] = outbox'[i]
  <2> TAKE i \in 1..Len(outbox')
  <2>1. Len(upds) + i \in 1..Len(Coming') /\ ~(Len(upds) + i <= Len(upds))
        /\ (Len(upds) + i) - Len(upds) = i
    BY <1>3, <1>4
  <2> QED  BY <1>1, <1>3, <2>1
<1>7. \A i \in DOMAIN Coming' : i > Len(Coming) =>
        i - Len(Coming) \in DOMAIN outbox' /\ Coming'[i] = outbox'[i - Len(Coming)]
  <2> TAKE i \in DOMAIN Coming'
  <2> HAVE i > Len(Coming)
  <2>1. i \in 1..Len(Coming') /\ DOMAIN outbox' = 1..Len(outbox')
    BY <1>3
  <2>2. i - Len(upds) \in 1..Len(outbox')
    BY <1>1, <1>3, <1>4, <2>1
  <2> QED  BY <1>1, <1>3, <1>4, <2>1, <2>2
<1> QED  BY <1>1, <1>2, <1>3, <1>4, <1>5, <1>6, <1>7

\* The desktop takes the first.
LEMMA ComingTaken ==
    ASSUME WinShape, upds # <<>>, upds' = Tail(upds), outbox' = outbox
    PROVE  /\ Coming # <<>> /\ Len(Coming) >= 1 /\ Coming[1] = Head(upds)
           /\ Len(Coming') = Len(Coming) - 1
           /\ DOMAIN Coming = 1..Len(Coming) /\ DOMAIN Coming' = 1..Len(Coming')
           /\ \A i \in 1..Len(Coming') : Coming'[i] = Coming[i + 1]
<1>1. upds \in Seq(WinUpdate) /\ outbox \in Seq(WinUpdate)
  BY ComingTyped
<1>2. /\ Tail(upds) \in Seq(WinUpdate) /\ Len(Tail(upds)) = Len(upds) - 1
      /\ Len(upds) \in Nat \ {0} /\ Len(outbox) \in Nat /\ Head(upds) = upds[1]
      /\ \A i \in 1..(Len(upds) - 1) : Tail(upds)[i] = upds[i + 1]
  BY <1>1
<1>3. /\ Coming \in Seq(WinUpdate) /\ Len(Coming) = Len(upds) + Len(outbox)
      /\ \A i \in 1..Len(Coming) :
           Coming[i] = IF i <= Len(upds) THEN upds[i] ELSE outbox[i - Len(upds)]
  BY <1>1, ConcatProperties DEF Coming
<1>4. Coming' = Tail(upds) \o outbox
  BY DEF Coming
<1>5. /\ Coming' \in Seq(WinUpdate) /\ Len(Coming') = Len(Tail(upds)) + Len(outbox)
      /\ \A i \in 1..Len(Coming') :
           Coming'[i] = IF i <= Len(Tail(upds)) THEN Tail(upds)[i]
                        ELSE outbox[i - Len(Tail(upds))]
  BY <1>1, <1>2, <1>4, ConcatProperties
<1>6. ASSUME NEW i \in 1..Len(Coming') PROVE Coming'[i] = Coming[i + 1]
  <2>1. i + 1 \in 1..Len(Coming) /\ i - Len(Tail(upds)) = (i + 1) - Len(upds)
    BY <1>2, <1>3, <1>5
  <2>2. CASE i <= Len(Tail(upds))
    <3>1. i \in 1..(Len(upds) - 1) /\ i + 1 <= Len(upds)
      BY <1>2, <2>2
    <3>2. Coming'[i] = Tail(upds)[i] /\ Coming[i + 1] = upds[i + 1]
      BY <1>3, <1>5, <2>1, <2>2, <3>1
    <3> QED  BY <1>2, <3>1, <3>2
  <2>3. CASE ~(i <= Len(Tail(upds)))
    <3>1. ~(i + 1 <= Len(upds))
      BY <1>2, <2>3
    <3> QED  BY <1>3, <1>5, <2>1, <2>3, <3>1
  <2> QED  BY <2>2, <2>3
<1>7. Len(Coming) >= 1 /\ Coming[1] = Head(upds) /\ Coming # <<>>
  BY <1>2, <1>3
<1> QED  BY <1>2, <1>3, <1>5, <1>6, <1>7

\* What a handler reports last is what the desktop will show.
LEMMA NowSaid ==
    ASSUME WinShape, outbox = <<>>, upds' = upds, outbox' \in Seq(WinUpdate),
           NEW w, LastStatus(outbox', w)
    PROVE  \A v : Said(v)' <=> v = w
<1>1. PICK k \in DOMAIN outbox' : /\ outbox'[k].kind = "Status" /\ outbox'[k].status = w
                                  /\ \A j \in DOMAIN outbox' : j > k => outbox'[j].kind # "Status"
  BY DEF LastStatus
<1>2. Len(Coming) \in Nat
  BY ComingTyped
<1> DEFINE n == Len(Coming) + k
<1>3. /\ n \in DOMAIN Coming' /\ Coming'[n].kind = "Status" /\ Coming'[n].status = w
  BY <1>1, <1>2, ComingMore
<1>4. \A j \in DOMAIN Coming' : j > n => Coming'[j].kind # "Status"
  <2> TAKE j \in DOMAIN Coming'
  <2> HAVE j > n
  <2>1. k \in Nat /\ j \in Nat
    BY <1>1, ComingMore
  <2>2. j - Len(Coming) \in DOMAIN outbox' /\ Coming'[j] = outbox'[j - Len(Coming)]
        /\ j - Len(Coming) > k
    BY <1>2, <2>1, ComingMore
  <2> QED  BY <1>1, <2>2
<1>5. LastStatus(Coming', w)
  BY <1>3, <1>4 DEF LastStatus
<1>6. n \in Nat /\ \A i \in DOMAIN Coming' : i \in Nat
  BY <1>1, <1>2, ComingMore
<1>7. \A v : LastStatus(Coming', v) => v = w
  <2> TAKE v
  <2> HAVE LastStatus(Coming', v)
  <2>1. PICK i \in DOMAIN Coming' :
          /\ Coming'[i].kind = "Status" /\ Coming'[i].status = v
          /\ \A j \in DOMAIN Coming' : j > i => Coming'[j].kind # "Status"
    BY DEF LastStatus
  <2> HIDE DEF n
  <2>2. ~(n > i) /\ ~(i > n)
    BY <1>3, <1>4, <2>1
  <2>3. i = n
    BY <1>6, <2>1, <2>2
  <2> QED  BY <1>3, <2>1, <2>3
<1>8. ~NoStatus(Coming')
  BY <1>3 DEF NoStatus
<1> QED  BY <1>5, <1>7, <1>8 DEF Said, LastStatus, NoStatus

\* The last status of what the handlers report.
LEMMA LastStatuses ==
    /\ \A s : LastStatus(<<StatusReport(s)>>, s)
    /\ LastStatus(<<StatusReport("Ready"), FormattingBusy(TRUE)>>, "Ready")
    /\ \A n : LastStatus(<<StatusReport("Recording"), RecordingStarted(n)>>, "Recording")
    /\ \A n : LastStatus(<<TranscriptReady(n), StatusReport("Ready")>>, "Ready")
<1>1. \A x : DOMAIN <<x>> = 1..1 /\ <<x>>[1] = x
  OBVIOUS
<1>2. \A x, y : DOMAIN <<x, y>> = 1..2 /\ <<x, y>>[1] = x /\ <<x, y>>[2] = y
  OBVIOUS
<1>3. \A s : LastStatus(<<StatusReport(s)>>, s)
  <2> TAKE s
  <2>1. 1 \in 1..1 /\ \A j \in 1..1 : ~(j > 1)
    OBVIOUS
  <2> QED  BY <1>1, <2>1 DEF LastStatus, StatusReport
<1>4. \A x, y, w : x.kind = "Status" /\ x.status = w /\ y.kind # "Status" =>
        LastStatus(<<x, y>>, w)
  <2> TAKE x, y, w
  <2> HAVE x.kind = "Status" /\ x.status = w /\ y.kind # "Status"
  <2>1. 1 \in 1..2 /\ \A j \in 1..2 : j > 1 => j = 2
    OBVIOUS
  <2> QED  BY <1>2, <2>1 DEF LastStatus
<1>5. \A x, y, w : y.kind = "Status" /\ y.status = w => LastStatus(<<x, y>>, w)
  <2> TAKE x, y, w
  <2> HAVE y.kind = "Status" /\ y.status = w
  <2>1. 2 \in 1..2 /\ \A j \in 1..2 : ~(j > 2)
    OBVIOUS
  <2> QED  BY <1>2, <2>1 DEF LastStatus
<1>6. LastStatus(<<StatusReport("Ready"), FormattingBusy(TRUE)>>, "Ready")
  BY <1>4 DEF StatusReport, FormattingBusy
<1>7. \A n : LastStatus(<<StatusReport("Recording"), RecordingStarted(n)>>, "Recording")
  BY <1>4 DEF StatusReport, RecordingStarted
<1>8. \A n : LastStatus(<<TranscriptReady(n), StatusReport("Ready")>>, "Ready")
  BY <1>5 DEF StatusReport
<1> QED  BY <1>3, <1>6, <1>7, <1>8

-----------------------------------------------------------------------------
(* The engine's steps.                                                     *)

\* The engine leaves the desktop alone.
DeskSame ==
    UNCHANGED <<view, opening, board, drawable, capturing, frames, parked, staged, again,
                lastSaid, bundle, overtook>>

\* A handler of the engine: it has sent its reports before, and leaves new ones.
Handler == outbox = <<>> /\ upds' = upds /\ outbox' \in Seq(WinUpdate) /\ DeskSame

\* Reports, one by one, of each kind that a handler leaves.
LEMMA ReportKinds ==
    /\ DOMAIN <<>> = {}
    /\ \A s : \A i \in DOMAIN <<StatusReport(s)>> : <<StatusReport(s)>>[i] = StatusReport(s)
    /\ \A x, y : \A i \in DOMAIN <<x, y>> : i \in 1..2 /\ <<x, y>>[i] = IF i = 1 THEN x ELSE y
    /\ \A x, y : DOMAIN <<x, y>> = 1..2 /\ Len(<<x, y>>) = 2
<1>1. DOMAIN <<>> = {}
  OBVIOUS
<1>2. \A x : DOMAIN <<x>> = 1..1 /\ <<x>>[1] = x
  OBVIOUS
<1>3. \A x, y : DOMAIN <<x, y>> = 1..2 /\ <<x, y>>[1] = x /\ <<x, y>>[2] = y /\ Len(<<x, y>>) = 2
  OBVIOUS
<1>4. \A x : \A i \in DOMAIN <<x>> : <<x>>[i] = x
  BY <1>2
<1>5. \A x, y : \A i \in DOMAIN <<x, y>> : i \in 1..2 /\ <<x, y>>[i] = IF i = 1 THEN x ELSE y
  BY <1>3
<1> QED  BY <1>1, <1>3, <1>4, <1>5

\* Each of the reports is what its name says.
LEMMA ReportFields ==
    /\ \A s : StatusReport(s).kind = "Status" /\ StatusReport(s).status = s
    /\ FormattingBusy(TRUE).kind = "FormattingBusy"
    /\ \A n : RecordingStarted(n).kind = "RecordingStarted" /\ RecordingStarted(n).session = n
    /\ \A n : TranscriptReady(n).kind = "TranscriptReady" /\ TranscriptReady(n).session = n
BY DEF StatusReport, FormattingBusy, RecordingStarted, TranscriptReady

\* Settling a dictation settles no other.
LEMMA SettlesOne ==
    ASSUME WinShape, NEW s \in Session, NEW f, Settle(s, f)
    PROVE  fate'[s] = f /\ \A t \in Session : t # s => fate'[t] = fate[t]
BY DEF Settle, WinShape, EngineTyped

\* Nothing reported: the desktop will show what it would have.
LEMMA SaidSame ==
    ASSUME Coming' = Coming, view' = view
    PROVE  \A v : Said(v)' <=> Said(v)
BY DEF Said, LastStatus, NoStatus

\* A handler that reports nothing leaves what is coming.
LEMMA ComingSame ==
    ASSUME UNCHANGED <<outbox, upds>>
    PROVE  Coming' = Coming
BY DEF Coming

\* A tap is taken, or there was none.
LEMMA TapsGone ==
    ASSUME WinShape, TapsFit,
           \/ cmds # <<>> /\ cmds' = Tail(cmds)
           \/ cmds' = cmds /\ job \notin {"none", "exit", "dead"}
           \/ cmds' = <<>>
    PROVE  TapsFit'
<1>1. cmds \in Seq(Command)
  BY DEF WinShape, EngineTyped
<1>2. \A i \in DOMAIN cmds' : cmds'[i].op \notin CaptureOps
  <2>1. CASE cmds # <<>> /\ cmds' = Tail(cmds)
    <3> SUFFICES ASSUME NEW i \in DOMAIN cmds', cmds'[i].op \in CaptureOps
                 PROVE  FALSE
      OBVIOUS
    <3>1. i \in Nat \ {0} /\ i + 1 \in DOMAIN cmds /\ cmds'[i] = cmds[i + 1]
      BY <1>1, <2>1
    <3> QED  BY <3>1 DEF TapsFit
  <2>2. CASE cmds' = cmds /\ job \notin {"none", "exit", "dead"}
    BY <2>2 DEF TapsFit, AboutToOpen
  <2>3. CASE cmds' = <<>>
    BY <2>3
  <2> QED  BY <2>1, <2>2, <2>3
<1> QED  BY <1>2 DEF TapsFit

\* The board stays that of the current dictation while no other begins.
LEMMA BoardStays ==
    ASSUME WinShape, BoardFits, Handler, current' = current,
           \A i \in DOMAIN outbox' : outbox'[i].kind # "RecordingStarted"
    PROVE  BoardFits'
<1>1. \A i \in DOMAIN Coming' : Coming'[i].kind = "RecordingStarted" =>
        i \in DOMAIN Coming /\ Coming'[i] = Coming[i]
  <2> SUFFICES ASSUME NEW i \in DOMAIN Coming', Coming'[i].kind = "RecordingStarted"
               PROVE  i \in DOMAIN Coming /\ Coming'[i] = Coming[i]
    OBVIOUS
  <2>1. ~(i > Len(Coming))
    BY ComingMore DEF Handler
  <2>2. i \in 1..Len(Coming)
    BY <2>1, ComingMore, ComingTyped DEF Handler
  <2> QED  BY <2>2, ComingMore, ComingTyped DEF Handler
<1>2. \A i \in DOMAIN Coming : i \in DOMAIN Coming' /\ Coming'[i] = Coming[i]
  BY ComingMore, ComingTyped DEF Handler
<1>3. UNCHANGED <<board, drawable, capturing, frames, parked, staged, lastSaid, bundle>>
  BY DEF Handler, DeskSame
<1> QED  BY <1>1, <1>2, <1>3 DEF BoardFits

\* The transcripts that are coming stay as they are while none is published or begins.
LEMMA TranscriptsStay ==
    ASSUME WinShape, TranscriptsFit, Handler,
           \A i \in DOMAIN outbox' : outbox'[i].kind # "TranscriptReady",
           \/ \A i \in DOMAIN outbox' : outbox'[i].kind # "RecordingStarted"
           \/ NobodyOnItsWay,
           \A s \in Session : fate'[s] = "published" <=> fate[s] = "published"
    PROVE  TranscriptsFit'
<1>1. \A i \in DOMAIN Coming' : Coming'[i].kind = "TranscriptReady" =>
        i \in DOMAIN Coming /\ Coming'[i] = Coming[i]
  <2> SUFFICES ASSUME NEW i \in DOMAIN Coming', Coming'[i].kind = "TranscriptReady"
               PROVE  i \in DOMAIN Coming /\ Coming'[i] = Coming[i]
    OBVIOUS
  <2>1. ~(i > Len(Coming))
    BY ComingMore DEF Handler
  <2>2. i \in 1..Len(Coming)
    BY <2>1, ComingMore, ComingTyped DEF Handler
  <2> QED  BY <2>2, ComingMore, ComingTyped DEF Handler
<1>2. \A i \in DOMAIN Coming : i \in DOMAIN Coming' /\ Coming'[i] = Coming[i] /\ i \in Nat
  BY ComingMore, ComingTyped DEF Handler
<1>3. \A i \in DOMAIN Coming : Coming[i].kind = "TranscriptReady" => Coming[i].session \in Session
  BY ComingTyped, UpdateTyped
<1>4. UNCHANGED <<view, opening, parked, staged>>
  BY DEF Handler, DeskSame
<1>5. ASSUME NEW s \in Session, fate'[s] = "published"
      PROVE  \E i \in DOMAIN Coming' :
               Coming'[i].kind = "TranscriptReady" /\ Coming'[i].session = s
  <2>1. PICK i \in DOMAIN Coming : Coming[i].kind = "TranscriptReady" /\ Coming[i].session = s
    BY <1>5 DEF TranscriptsFit
  <2> QED  BY <1>2, <2>1
<1>6. ASSUME NEW i \in DOMAIN Coming', Coming'[i].kind = "TranscriptReady"
      PROVE  /\ fate'[Coming'[i].session] = "published"
             /\ NothingWaits'
             /\ opening' \/ view' \in Working
             /\ \A j \in DOMAIN Coming' : j < i =>
                  /\ Coming'[j].kind = "Status" => Coming'[j].status \in Working
                  /\ Coming'[j].kind # "TranscriptReady"
             /\ \A j \in DOMAIN Coming' : j > i => Coming'[j].kind # "RecordingStarted"
  <2>1. /\ i \in DOMAIN Coming /\ Coming'[i] = Coming[i] /\ Coming[i].kind = "TranscriptReady"
        /\ i \in 1..Len(Coming) /\ Coming[i].session \in Session
    BY <1>1, <1>3, <1>6, ComingTyped
  <2>2. /\ fate[Coming[i].session] = "published"
        /\ NothingWaits
        /\ opening \/ view \in Working
        /\ \A j \in DOMAIN Coming : j < i =>
             /\ Coming[j].kind = "Status" => Coming[j].status \in Working
             /\ Coming[j].kind # "TranscriptReady"
        /\ \A j \in DOMAIN Coming : j > i => Coming[j].kind # "RecordingStarted"
    BY <2>1 DEF TranscriptsFit
  <2>3. ~NobodyOnItsWay
    BY <2>1, <2>2 DEF NobodyOnItsWay, OnItsWay
  <2>4. \A j \in DOMAIN Coming' : j < i => j \in DOMAIN Coming /\ Coming'[j] = Coming[j]
    BY <2>1, ComingMore, ComingTyped DEF Handler
  <2>5. \A j \in DOMAIN Coming' : j > i => Coming'[j].kind # "RecordingStarted"
    <3> SUFFICES ASSUME NEW j \in DOMAIN Coming', j > i
                 PROVE  Coming'[j].kind # "RecordingStarted"
      OBVIOUS
    <3>1. CASE j > Len(Coming)
      BY <2>3, <3>1, ComingMore DEF Handler
    <3>2. CASE ~(j > Len(Coming))
      <4>1. j \in DOMAIN Coming /\ Coming'[j] = Coming[j]
        BY <3>2, ComingMore, ComingTyped DEF Handler
      <4> QED  BY <2>2, <4>1
    <3> QED  BY <3>1, <3>2
  <2>6. fate'[Coming'[i].session] = "published"
    BY <2>1, <2>2
  <2> QED  BY <1>4, <2>2, <2>4, <2>5, <2>6 DEF NothingWaits
<1> QED  BY <1>5, <1>6 DEF TranscriptsFit

\* The statuses coming stay those of an engine at work.
LEMMA WorkingMore ==
    ASSUME WinShape, Handler,
           \A i \in DOMAIN Coming : Coming[i].kind = "Status" => Coming[i].status \in Working,
           \A i \in DOMAIN outbox' : outbox'[i].kind = "Status" => outbox'[i].status \in Working
    PROVE  \A i \in DOMAIN Coming' : Coming'[i].kind = "Status" => Coming'[i].status \in Working
<1> SUFFICES ASSUME NEW i \in DOMAIN Coming', Coming'[i].kind = "Status"
             PROVE  Coming'[i].status \in Working
  OBVIOUS
<1>1. CASE i > Len(Coming)
  BY <1>1, ComingMore DEF Handler
<1>2. CASE ~(i > Len(Coming))
  <2>1. i \in DOMAIN Coming /\ Coming'[i] = Coming[i]
    BY <1>2, ComingMore, ComingTyped DEF Handler
  <2> QED  BY <2>1
<1> QED  BY <1>1, <1>2

\* With the same reports coming and the same fates, the boards and transcripts fit as before.
LEMMA NothingNew ==
    ASSUME Coming' = Coming, DeskSame, UNCHANGED <<current, fate>>
    PROVE  /\ TranscriptsFit => TranscriptsFit'
           /\ BoardFits => BoardFits'
           /\ \A v : Said(v)' <=> Said(v)
<1>1. UNCHANGED <<view, opening, board, drawable, capturing, frames, parked, staged, lastSaid, bundle>>
  BY DEF DeskSame
<1>2. TranscriptsFit => TranscriptsFit'
  BY <1>1 DEF TranscriptsFit, NothingWaits
<1>3. BoardFits => BoardFits'
  BY <1>1 DEF BoardFits
<1> QED  BY <1>1, <1>2, <1>3, SaidSame

\* The fates, when the dictation at work comes to its end or goes on.
LEMMA FatesGoOn ==
    ASSUME WinShape, FatesFit, DeskSame, UNCHANGED current,
           NEW f \in {"decoding", "published", "ended", "dropped"}, Settle(current, f),
           current \in Session, fate[current] \in {"recording", "decoding"},
           f = "decoding" => Decoding', Capturing' => f = "recording"
    PROVE  FatesFit'
<1>1. fate'[current] = f /\ \A t \in Session : t # current => fate'[t] = fate[t]
  BY SettlesOne
<1>2. \A s \in Session : OnItsWay(s) => s = current
  BY DEF FatesFit
<1>3. UNCHANGED <<parked, staged, again>> /\ Waiting' = Waiting
  BY DEF DeskSame, Waiting
<1>4. current \notin Waiting
  BY DEF FatesFit
<1>5. \A s \in Session : fate'[s] = "delivering" <=> s \in Waiting'
  BY <1>1, <1>3, <1>4 DEF FatesFit
<1>6. \A s \in Session : OnItsWay(s)' => s = current
  BY <1>1, <1>2 DEF OnItsWay
<1>7. ~(staged # NoSession /\ again)
  BY DEF FatesFit, NobodyOnItsWay, OnItsWay
<1>8. \A s \in Session : s > current' => fate'[s] = "unused"
  BY <1>1 DEF FatesFit, WinShape, EngineTyped
<1>9. \A s \in Session : fate'[s] = "recording" => Capturing'
  BY <1>1, <1>2 DEF OnItsWay
<1>10. \A s \in Session : fate'[s] = "decoding" => Decoding'
  BY <1>1, <1>2 DEF OnItsWay
<1> QED  BY <1>3, <1>5, <1>6, <1>7, <1>8, <1>9, <1>10 DEF FatesFit

\* The dictation at work comes to its end, or there was none, and the engine is free.
LEMMA AtRest ==
    ASSUME WinShape, OneDictation, Handler, UNCHANGED current,
           NEW v, LastStatus(outbox', v), v # "Recording",
           \A i \in DOMAIN outbox' : outbox'[i].kind \notin {"TranscriptReady", "RecordingStarted"},
           status' # "Recording", job' \notin {"prepare", "open", "decode", "clean"},
           TapsFit',
           \/ UNCHANGED fate /\ NobodyOnItsWay
           \/ /\ Settle(current, "ended") /\ current \in Session
              /\ fate[current] \in {"recording", "decoding"}
    PROVE  OneDictation'
<1> USE DEF OneDictation
<1>1. Prepared' /\ ~Capturing' /\ ~Decoding' /\ ~Busy'
  BY DEF Prepared, Capturing, Decoding, Busy
<1>2. WorkFits'
  <2>1. ~Said("Recording")'
    BY NowSaid DEF Handler
  <2> QED  BY <1>1, <2>1 DEF WorkFits
<1>3. FatesFit' /\ \A s \in Session : fate'[s] = "published" <=> fate[s] = "published"
  <2>1. CASE UNCHANGED fate /\ NobodyOnItsWay
    <3>1. UNCHANGED <<parked, staged, again>>
      BY DEF Handler, DeskSame
    <3>2. NobodyOnItsWay' /\ \A s \in Session : fate[s] \notin {"recording", "decoding"}
      BY <2>1 DEF NobodyOnItsWay, OnItsWay
    <3> QED  BY <2>1, <3>1, <3>2 DEF FatesFit, NobodyOnItsWay, OnItsWay, Waiting
  <2>2. CASE /\ Settle(current, "ended") /\ current \in Session
             /\ fate[current] \in {"recording", "decoding"}
    <3>1. FatesFit'
      BY <1>1, <2>2, FatesGoOn DEF Handler
    <3> QED  BY <2>2, <3>1, SettlesOne
  <2> QED  BY <2>1, <2>2
<1>4. TranscriptsFit'
  BY <1>3, TranscriptsStay
<1>5. BoardFits'
  BY BoardStays
<1> QED  BY <1>1, <1>2, <1>3, <1>4, <1>5

\* A report is sent.
LEMMA SendOne ==
    ASSUME WinShape, StatusFits, OneDictation, DeskSame, Send
    PROVE  OneDictation'
<1> USE DEF OneDictation
<1>1. Coming' = Coming /\ UNCHANGED <<status, job, cmds, current, fate>>
  BY ComingSent DEF Send, sessions
<1>2. /\ UNCHANGED <<view, opening, parked, staged, again>>
      /\ Capturing' = Capturing /\ Decoding' = Decoding /\ Busy' = Busy
  BY <1>1 DEF Capturing, Decoding, Busy, DeskSame
<1>3. NobodyOnItsWay' = NobodyOnItsWay /\ NothingWaits' = NothingWaits
  BY <1>1, <1>2 DEF NobodyOnItsWay, OnItsWay, NothingWaits
<1>4. TranscriptsFit' /\ BoardFits' /\ \A v : Said(v)' <=> Said(v)
  BY <1>1, NothingNew
<1>5. Prepared'
  BY <1>1, <1>2, <1>3 DEF Prepared
<1>6. AboutToOpen' = AboutToOpen
  BY <1>1, <1>2, <1>3 DEF AboutToOpen
<1>7. TapsFit'
  BY <1>1, <1>2, <1>6 DEF TapsFit
<1>8. WorkFits'
  BY <1>1, <1>2, <1>3, <1>4 DEF WorkFits
<1>9. FatesFit'
  BY <1>1, <1>2, <1>3 DEF FatesFit, OnItsWay, Waiting
<1> QED  BY <1>4, <1>5, <1>7, <1>8, <1>9

\* A command that changes nothing, or the first one of quitting.
LEMMA NothingDone ==
    ASSUME WinShape, StatusFits, OneDictation, DeskSame, Quit \/ IgnoreCommand
    PROVE  OneDictation'
<1> USE DEF OneDictation
<1>1. /\ UNCHANGED <<status, upds, outbox, current, fate>>
      /\ cmds # <<>> /\ cmds' = Tail(cmds)
      /\ job = "none" /\ job' \in {"none", "exit"}
  BY DEF Quit, IgnoreCommand, Receive, Idle, sessions
<1>2. /\ UNCHANGED <<view, opening, parked, staged, again>>
      /\ Capturing' = Capturing /\ Decoding' = Decoding /\ Busy' = Busy
  BY <1>1 DEF Capturing, Decoding, Busy, DeskSame
<1>3. NobodyOnItsWay' = NobodyOnItsWay /\ NothingWaits' = NothingWaits /\ Coming' = Coming
  BY <1>1, <1>2 DEF NobodyOnItsWay, OnItsWay, NothingWaits, Coming
<1>4. TranscriptsFit' /\ BoardFits' /\ \A v : Said(v)' <=> Said(v)
  BY <1>1, <1>3, NothingNew
<1>5. Prepared' /\ TapsFit'
  BY <1>1, TapsGone DEF Prepared
<1>6. WorkFits'
  BY <1>1, <1>2, <1>3, <1>4 DEF WorkFits
<1>7. FatesFit'
  BY <1>1, <1>2, <1>3 DEF FatesFit, OnItsWay, Waiting
<1> QED  BY <1>4, <1>5, <1>6, <1>7

\* The thread ends, and a recording with it.
LEMMA ExitOne ==
    ASSUME WinShape, StatusFits, OneDictation, DeskSame, Exit
    PROVE  OneDictation'
<1> USE DEF OneDictation
<1>1. /\ UNCHANGED <<status, upds, outbox, current>> /\ cmds' = <<>>
      /\ job = "exit" /\ job' = "dead"
  BY DEF Exit, Blocked, sessions
<1>2. /\ UNCHANGED <<view, opening, parked, staged, again>> /\ Coming' = Coming
      /\ ~Capturing' /\ ~Decoding' /\ ~Busy' /\ ~Decoding
  BY <1>1 DEF Capturing, Decoding, Busy, DeskSame, Coming
<1>3. Prepared' /\ TapsFit'
  BY <1>1, TapsGone DEF Prepared
<1>4. \A v : Said(v)' <=> Said(v)
  BY <1>2, SaidSame
<1>5. WorkFits'
  BY <1>1, <1>2, <1>4 DEF WorkFits
<1>6. CASE status = "Recording"
  <2>1. Settle(current, "dropped") /\ current \in Session /\ fate[current] = "recording"
    BY <1>1, <1>6 DEF Exit, WorkFits, Capturing
  <2>2. FatesFit'
    BY <1>1, <1>2, <2>1, FatesGoOn
  <2>3. \A s \in Session : fate'[s] = "published" <=> fate[s] = "published"
    BY <2>1, SettlesOne
  <2>4. \A i \in DOMAIN Coming : Coming[i].kind = "TranscriptReady" => Coming[i].session \in Session
    BY ComingTyped, UpdateTyped
  <2>5. TranscriptsFit'
    BY <1>2, <2>3, <2>4 DEF TranscriptsFit, NothingWaits
  <2>6. BoardFits'
    BY <1>1, <1>2 DEF BoardFits, DeskSame
  <2> QED  BY <1>3, <1>5, <2>2, <2>5, <2>6
<1>7. CASE status # "Recording"
  <2>1. UNCHANGED fate
    BY <1>7 DEF Exit
  <2>2. TranscriptsFit' /\ BoardFits'
    BY <1>1, <1>2, <2>1, NothingNew
  <2>3. \A s \in Session : fate[s] \notin {"recording", "decoding"}
    BY <1>2, <1>7 DEF FatesFit, Capturing
  <2>4. FatesFit'
    BY <1>1, <1>2, <2>1, <2>3 DEF FatesFit, OnItsWay, Waiting, NobodyOnItsWay
  <2> QED  BY <1>3, <1>5, <2>2, <2>4
<1> QED  BY <1>6, <1>7

\* The model is loaded, or is not and the thread ends.
LEMMA PrepareOne ==
    ASSUME WinShape, StatusFits, OneDictation, DeskSame, WinShape',
           PrepareSucceeds \/ PrepareFails
    PROVE  OneDictation'
<1> USE DEF OneDictation
<1>1. /\ job = "prepare" /\ UNCHANGED <<current, fate, cmds>> /\ Handler
      /\ job' \notin {"prepare", "open", "decode", "clean"} /\ status' # "Recording"
  BY DEF PrepareSucceeds, PrepareFails, Blocked, sessions, Handler, WinShape, EngineTyped,
         StatusFits
<1>2. /\ \A i \in DOMAIN outbox' : outbox'[i].kind \notin {"TranscriptReady", "RecordingStarted"}
      /\ \E v : LastStatus(outbox', v) /\ v # "Recording"
  <2>1. CASE outbox' = <<StatusReport("Ready"), FormattingBusy(TRUE)>>
    <3>1. LastStatus(outbox', "Ready")
      BY <2>1, LastStatuses
    <3>2. /\ DOMAIN outbox' = 1..2 /\ outbox'[1] = StatusReport("Ready")
          /\ outbox'[2] = FormattingBusy(TRUE)
      BY <2>1, ReportKinds
    <3>3. \A i \in 1..2 : outbox'[i].kind \notin {"TranscriptReady", "RecordingStarted"}
      <4> TAKE i \in 1..2
      <4>1. i = 1 \/ i = 2
        OBVIOUS
      <4> QED  BY <3>2, <4>1, ReportFields
    <3> QED  BY <3>1, <3>2, <3>3
  <2>2. CASE outbox' = <<StatusReport("Ready")>>
    <3>1. LastStatus(outbox', "Ready")
      BY <2>2, LastStatuses
    <3>2. \A i \in DOMAIN outbox' : outbox'[i].kind \notin {"TranscriptReady", "RecordingStarted"}
      BY <2>2, ReportKinds, ReportFields
    <3> QED  BY <3>1, <3>2
  <2>3. CASE outbox' = <<StatusReport("Error")>>
    <3>1. LastStatus(outbox', "Error")
      BY <2>3, LastStatuses
    <3>2. \A i \in DOMAIN outbox' : outbox'[i].kind \notin {"TranscriptReady", "RecordingStarted"}
      BY <2>3, ReportKinds, ReportFields
    <3> QED  BY <3>1, <3>2
  <2> QED  BY <2>1, <2>2, <2>3 DEF PrepareSucceeds, PrepareFails, Report
<1>3. NobodyOnItsWay
  BY <1>1 DEF Prepared
<1>4. TapsFit'
  BY <1>1, TapsGone
<1> QED  BY <1>1, <1>2, <1>3, <1>4, AtRest

\* The engine takes the tap that begins a recording.
LEMMA OpenOne ==
    ASSUME WinShape, StatusFits, OneDictation, DeskSame, WinShape', OpenMicrophone
    PROVE  OneDictation'
<1> USE DEF OneDictation
<1>1. /\ status = "Ready" /\ status' = "Ready" /\ job = "none" /\ job' = "open"
      /\ cmds # <<>> /\ cmds' = Tail(cmds) /\ Head(cmds).op \in CaptureOps
      /\ UNCHANGED <<current, fate>> /\ Handler /\ outbox' = <<StatusReport("Starting")>>
  BY DEF OpenMicrophone, Receive, Idle, sessions, Handler, WinShape, EngineTyped, Report
<1>2. AboutToOpen
  <2>1. 1 \in DOMAIN cmds /\ Head(cmds) = cmds[1]
    BY <1>1 DEF WinShape, EngineTyped
  <2> QED  BY <1>1, <2>1 DEF TapsFit, Capturing
<1>3. /\ Coming = <<>> /\ opening /\ NothingWaits /\ NobodyOnItsWay
      /\ UNCHANGED <<view, opening, parked, staged, again>>
  BY <1>1, <1>2 DEF AboutToOpen, Handler, DeskSame
<1>4. NobodyOnItsWay' /\ NothingWaits'
  BY <1>1, <1>3 DEF NobodyOnItsWay, OnItsWay, NothingWaits
<1>5. \A i \in DOMAIN outbox' : outbox'[i].kind = "Status" /\ outbox'[i].status = "Starting"
  BY <1>1, ReportKinds, ReportFields
<1>6. Len(Coming) = 0
  BY <1>3
<1>7. \A i \in DOMAIN Coming' : Coming'[i].kind = "Status" /\ Coming'[i].status = "Starting"
  <2> TAKE i \in DOMAIN Coming'
  <2>1. i > 0
    BY <1>1, ComingMore DEF Handler
  <2> QED  BY <1>1, <1>5, <1>6, <2>1, ComingMore DEF Handler
<1>8. ~Said("Recording")'
  <2>1. LastStatus(outbox', "Starting")
    BY <1>1, LastStatuses
  <2>2. \A v : Said(v)' <=> v = "Starting"
    BY <1>1, <2>1, NowSaid DEF Handler
  <2> QED  BY <2>2
<1>9. WorkFits'
  BY <1>1, <1>3, <1>4, <1>7, <1>8 DEF WorkFits, Capturing, Decoding, Working
<1>10. FatesFit'
  BY <1>1, <1>3 DEF FatesFit, OnItsWay, Waiting, NobodyOnItsWay
<1>11. Prepared' /\ TapsFit'
  BY <1>1, TapsGone DEF Prepared
<1>12. TranscriptsFit'
  BY <1>1, <1>5, TranscriptsStay
<1>13. BoardFits'
  BY <1>1, <1>5, BoardStays
<1> QED  BY <1>9, <1>10, <1>11, <1>12, <1>13

\* The recording begins, and its number is the next.
LEMMA BeginOne ==
    ASSUME WinShape, StatusFits, OneDictation, DeskSame, WinShape', MicrophoneOpens
    PROVE  OneDictation'
<1> USE DEF OneDictation
<1> DEFINE n == current + 1
<1>1. /\ job = "open" /\ job' = "none" /\ status' = "Recording" /\ current' = n
      /\ Settle(n, "recording") /\ UNCHANGED cmds /\ Handler
      /\ outbox' = <<StatusReport("Recording"), RecordingStarted(n)>>
      /\ n \in Session /\ current \in Nat
  BY MaxSessionsAssumption
     DEF MicrophoneOpens, Blocked, Handler, WinShape, EngineTyped, Report, Session
<1>2. /\ NobodyOnItsWay /\ NothingWaits /\ (opening \/ view \in Working)
      /\ \A i \in DOMAIN Coming : Coming[i].kind # "RecordingStarted"
      /\ \A i \in DOMAIN Coming : Coming[i].kind = "Status" => Coming[i].status \in Working
  BY <1>1 DEF WorkFits, Busy
<1>3. fate'[n] = "recording" /\ \A t \in Session : t # n => fate'[t] = fate[t]
  BY <1>1, SettlesOne
<1> HIDE DEF n
<1>15. \A s \in Session : fate[s] \notin {"recording", "decoding", "published", "delivering"}
  BY <1>2 DEF NobodyOnItsWay, OnItsWay
<1>4. UNCHANGED <<view, opening, board, drawable, capturing, frames, parked, staged, again, lastSaid, bundle>>
  BY <1>1 DEF Handler, DeskSame
<1>5. Capturing' /\ ~Decoding' /\ Prepared' /\ NothingWaits'
  <2>1. Capturing' /\ ~Decoding' /\ Prepared'
    BY <1>1 DEF Capturing, Decoding, Prepared
  <2>2. NothingWaits'
    BY <1>2, <1>4 DEF NothingWaits
  <2> QED  BY <2>1, <2>2
<1>6. \A v : Said(v)' <=> v = "Recording"
  BY <1>1, LastStatuses, NowSaid DEF Handler
<1>7. /\ DOMAIN outbox' = 1..2
      /\ \A i \in DOMAIN outbox' : outbox'[i] = IF i = 1 THEN StatusReport("Recording")
                                                ELSE RecordingStarted(n)
  BY <1>1, ReportKinds
<1>8. \A i \in DOMAIN outbox' : /\ outbox'[i].kind # "TranscriptReady"
                                /\ outbox'[i].kind = "Status" => outbox'[i].status \in Working
                                /\ outbox'[i].kind = "RecordingStarted" => outbox'[i].session = n
  BY <1>7, ReportFields DEF Working
<1>9. \A i \in DOMAIN Coming' : Coming'[i].kind = "Status" => Coming'[i].status \in Working
  BY <1>1, <1>2, <1>8, WorkingMore
<1>10. WorkFits'
  BY <1>1, <1>2, <1>3, <1>4, <1>5, <1>6, <1>9 DEF WorkFits
<1>11. FatesFit'
  <2>1. \A s \in Session : s > n => fate'[s] = "unused"
    BY <1>1, <1>3 DEF FatesFit, Session, n
  <2>2. \A s \in Session : OnItsWay(s)' => s = n
    BY <1>3, <1>15 DEF OnItsWay
  <2>3. \A s \in Session : fate'[s] \notin {"decoding", "delivering"}
    BY <1>3, <1>15
  <2>4. \A s \in Session : s \notin Waiting'
    BY <1>5 DEF NothingWaits, Waiting, NoSession, Session
  <2> QED  BY <1>1, <1>5, <2>1, <2>2, <2>3, <2>4 DEF FatesFit, NothingWaits
<1>12. TapsFit'
  BY <1>1, TapsGone
<1>13. TranscriptsFit'
  <2>1. \A s \in Session : fate'[s] = "published" <=> fate[s] = "published"
    BY <1>3, <1>15
  <2> QED  BY <1>1, <1>2, <1>8, <2>1, TranscriptsStay
<1>14. BoardFits'
  <2>1. \A i \in DOMAIN Coming' : Coming'[i].kind = "RecordingStarted" => Coming'[i].session = n
    <3> SUFFICES ASSUME NEW i \in DOMAIN Coming', Coming'[i].kind = "RecordingStarted"
                 PROVE  Coming'[i].session = n
      OBVIOUS
    <3>1. CASE i > Len(Coming)
      BY <1>1, <1>8, <3>1, ComingMore DEF Handler
    <3>2. CASE ~(i > Len(Coming))
      BY <1>1, <1>2, <3>2, ComingMore, ComingTyped DEF Handler
    <3> QED  BY <3>1, <3>2
  <2>2. \E i \in DOMAIN Coming' : Coming'[i].kind = "RecordingStarted"
    <3>1. Coming'[Len(Coming) + 2] = outbox'[2] /\ Len(Coming) + 2 \in DOMAIN Coming'
      <4>1. 2 \in 1..Len(outbox') /\ Len(outbox') = 2
        BY <1>1, ReportKinds
      <4> QED  BY <1>1, <4>1, ComingMore, ComingTyped DEF Handler
    <3>2. outbox'[2].kind = "RecordingStarted"
      BY <1>7, ReportFields
    <3> QED  BY <3>1, <3>2
  <2>3. parked' = NoSession /\ staged' = NoSession
    BY <1>5 DEF NothingWaits
  <2> QED  BY <1>1, <1>4, <2>1, <2>2, <2>3 DEF BoardFits
<1> QED  BY <1>5, <1>10, <1>11, <1>12, <1>13, <1>14

\* The microphone does not open.
LEMMA NoMicrophoneOne ==
    ASSUME WinShape, StatusFits, OneDictation, DeskSame, WinShape', MicrophoneFails
    PROVE  OneDictation'
<1> USE DEF OneDictation
<1>1. /\ job = "open" /\ job' = "none" /\ UNCHANGED <<status, current, fate, cmds>> /\ Handler
      /\ outbox' = <<StatusReport("Error")>>
  BY DEF MicrophoneFails, Blocked, Handler, WinShape, EngineTyped, Report, sessions
<1>2. status' # "Recording"
  BY <1>1 DEF StatusFits
<1>3. /\ \A i \in DOMAIN outbox' : outbox'[i].kind \notin {"TranscriptReady", "RecordingStarted"}
      /\ LastStatus(outbox', "Error")
  BY <1>1, ReportKinds, ReportFields, LastStatuses
<1>4. NobodyOnItsWay
  BY <1>1 DEF WorkFits
<1>5. TapsFit'
  BY <1>1, TapsGone
<1> QED  BY <1>1, <1>2, <1>3, <1>4, <1>5, AtRest

\* A recording ends, and its audio is decoded.
LEMMA DecodeOne ==
    ASSUME WinShape, StatusFits, OneDictation, DeskSame, WinShape', StopRecording \/ LimitReached
    PROVE  OneDictation'
<1> USE DEF OneDictation
<1>1. /\ job = "none" /\ job' = "decode" /\ status = "Recording" /\ status' = "Transcribing"
      /\ Settle(current, "decoding") /\ UNCHANGED current /\ Handler
      /\ outbox' = <<StatusReport("Transcribing")>>
      /\ ((cmds # <<>> /\ cmds' = Tail(cmds)) \/ cmds' = <<>>)
  BY DEF StopRecording, LimitReached, FinishCapture, Receive, Idle, Handler, WinShape,
         EngineTyped,
         Report, sessions
<1>2. current \in Session /\ fate[current] = "recording" /\ Capturing
  BY <1>1 DEF WorkFits, Capturing
<1>3. /\ NothingWaits /\ (opening \/ view \in Working)
      /\ \A i \in DOMAIN Coming : Coming[i].kind = "Status" => Coming[i].status \in Working
  BY <1>2 DEF WorkFits, Busy
<1>4. UNCHANGED <<view, opening, parked, staged, again>>
  BY <1>1 DEF Handler, DeskSame
<1>5. ~Capturing' /\ Decoding' /\ Prepared' /\ NothingWaits'
  <2>1. ~Capturing' /\ Decoding' /\ Prepared'
    BY <1>1 DEF Capturing, Decoding, Prepared
  <2>2. NothingWaits'
    BY <1>3, <1>4 DEF NothingWaits
  <2> QED  BY <2>1, <2>2
<1>6. \A v : Said(v)' <=> v = "Transcribing"
  BY <1>1, LastStatuses, NowSaid DEF Handler
<1>7. \A i \in DOMAIN outbox' : outbox'[i].kind = "Status" /\ outbox'[i].status \in Working
  BY <1>1, ReportKinds, ReportFields DEF Working
<1>8. \A i \in DOMAIN Coming' : Coming'[i].kind = "Status" => Coming'[i].status \in Working
  BY <1>1, <1>3, <1>7, WorkingMore
<1>9. fate'[current] = "decoding" /\ \A s \in Session : fate'[s] = "published" <=> fate[s] = "published"
  BY <1>1, <1>2, SettlesOne
<1>10. WorkFits'
  BY <1>1, <1>2, <1>3, <1>4, <1>5, <1>6, <1>8, <1>9 DEF WorkFits
<1>11. FatesFit'
  BY <1>1, <1>2, <1>5, FatesGoOn DEF Handler
<1>12. TapsFit'
  BY <1>1, TapsGone
<1>13. TranscriptsFit' /\ BoardFits'
  BY <1>1, <1>7, <1>9, TranscriptsStay, BoardStays
<1> QED  BY <1>5, <1>10, <1>11, <1>12, <1>13

\* The audio is decoded, and its text formatted unless the dictation is cancelled.
LEMMA DecodedOne ==
    ASSUME WinShape, StatusFits, OneDictation, DeskSame, WinShape', DecodeSucceeds \/ DecodeFails
    PROVE  OneDictation'
<1> USE DEF OneDictation
<1>1. job = "decode" /\ UNCHANGED <<current, cmds>> /\ Handler
  BY DEF DecodeSucceeds, DecodeFails, Blocked, Handler, WinShape, EngineTyped, sessions
<1>2. current \in Session /\ fate[current] = "decoding" /\ Decoding
  BY <1>1 DEF WorkFits, Decoding
<1>3. TapsFit'
  BY <1>1, TapsGone
<1>4. CASE /\ Settle(current, "ended") /\ status' = "Ready" /\ job' = "none"
           /\ \E v \in {"Ready", "Error"} : outbox' = <<StatusReport(v)>>
  <2>1. PICK v \in {"Ready", "Error"} : outbox' = <<StatusReport(v)>>
    BY <1>4
  <2>2. /\ \A i \in DOMAIN outbox' : outbox'[i].kind \notin {"TranscriptReady", "RecordingStarted"}
        /\ LastStatus(outbox', v) /\ v # "Recording"
    BY <2>1, ReportKinds, ReportFields, LastStatuses
  <2> QED  BY <1>1, <1>2, <1>3, <1>4, <2>2, AtRest
<1>5. CASE job' = "clean" /\ UNCHANGED <<status, outbox, fate>>
  <2>1. /\ UNCHANGED <<view, opening, parked, staged, again>> /\ Coming' = Coming
        /\ Decoding' /\ Prepared' /\ Capturing' = Capturing /\ Busy /\ Busy'
    BY <1>1, <1>2, <1>5 DEF Handler, DeskSame, Coming, Decoding, Prepared, Capturing, Busy
  <2>2. NothingWaits' = NothingWaits /\ NobodyOnItsWay' = NobodyOnItsWay
    BY <1>5, <2>1 DEF NothingWaits, NobodyOnItsWay, OnItsWay
  <2>3. TranscriptsFit' /\ BoardFits' /\ \A v : Said(v)' <=> Said(v)
    BY <1>1, <1>5, <2>1, NothingNew DEF Handler
  <2>4. WorkFits'
    BY <1>1, <1>2, <1>5, <2>1, <2>2, <2>3 DEF WorkFits
  <2>5. FatesFit'
    BY <1>1, <1>2, <1>5, <2>1, <2>2 DEF FatesFit, OnItsWay, Waiting
  <2> QED  BY <1>3, <2>1, <2>3, <2>4, <2>5
<1> QED  BY <1>4, <1>5 DEF DecodeSucceeds, DecodeFails, Report

\* The transcript is published.
LEMMA PublishOne ==
    ASSUME WinShape, StatusFits, OneDictation, DeskSame, WinShape', Publish
    PROVE  OneDictation'
<1> USE DEF OneDictation
<1>1. /\ job = "clean" /\ job' = "none" /\ status' = "Ready" /\ UNCHANGED <<current, cmds>> /\ Handler
      /\ Settle(current, "published")
      /\ outbox' = <<TranscriptReady(current), StatusReport("Ready")>>
  BY DEF Publish, Blocked, Handler, WinShape, EngineTyped, sessions, Report
<1>2. current \in Session /\ fate[current] = "decoding" /\ Decoding
  BY <1>1 DEF WorkFits, Decoding
<1>3. /\ NothingWaits /\ (opening \/ view \in Working)
      /\ \A i \in DOMAIN Coming : Coming[i].kind = "Status" => Coming[i].status \in Working
  BY <1>2 DEF WorkFits, Busy
<1>4. UNCHANGED <<view, opening, parked, staged, again>>
  BY <1>1 DEF Handler, DeskSame
<1>5. ~Capturing' /\ ~Decoding' /\ ~Busy' /\ Prepared' /\ NothingWaits'
  <2>1. ~Capturing' /\ ~Decoding' /\ ~Busy' /\ Prepared'
    BY <1>1 DEF Capturing, Decoding, Busy, Prepared
  <2>2. NothingWaits'
    BY <1>3, <1>4 DEF NothingWaits
  <2> QED  BY <2>1, <2>2
<1>6. \A v : Said(v)' <=> v = "Ready"
  BY <1>1, LastStatuses, NowSaid DEF Handler
<1>7. WorkFits'
  BY <1>1, <1>5, <1>6 DEF WorkFits
<1>8. FatesFit'
  BY <1>1, <1>2, <1>5, FatesGoOn DEF Handler
<1>9. TapsFit'
  BY <1>1, TapsGone
<1>10. /\ DOMAIN outbox' = 1..2 /\ Len(outbox') = 2
       /\ outbox'[1].kind = "TranscriptReady" /\ outbox'[1].session = current
       /\ outbox'[2].kind = "Status"
  BY <1>1, ReportKinds, ReportFields
<1>11. BoardFits'
  <2>1. \A i \in DOMAIN outbox' : outbox'[i].kind # "RecordingStarted"
    BY <1>10
  <2> QED  BY <1>1, <2>1, BoardStays
<1>12. TranscriptsFit'
  <2> DEFINE n == Len(Coming)
  <2>1. /\ n \in Nat /\ DOMAIN Coming = 1..n /\ DOMAIN Coming' = 1..(n + 2)
        /\ \A i \in 1..n : Coming'[i] = Coming[i]
        /\ Coming'[n + 1] = outbox'[1] /\ Coming'[n + 2] = outbox'[2]
    BY <1>1, <1>10, ComingMore, ComingTyped DEF Handler
  <2> HIDE DEF n
  <2>2. \A i \in 1..n : Coming[i].kind # "TranscriptReady"
    <3> SUFFICES ASSUME NEW i \in 1..n, Coming[i].kind = "TranscriptReady" PROVE FALSE
      OBVIOUS
    <3>1. Coming[i].session \in Session /\ fate[Coming[i].session] = "published"
      BY <2>1, ComingTyped, UpdateTyped DEF TranscriptsFit
    <3> QED  BY <1>2, <3>1 DEF FatesFit, OnItsWay
  <2>3. fate'[current] = "published" /\ \A t \in Session : t # current => fate'[t] = fate[t]
    BY <1>1, <1>2, SettlesOne
  <2>4. \A t \in Session : fate'[t] = "published" => t = current
    BY <2>3 DEF FatesFit, OnItsWay
  <2>5. \A i \in DOMAIN Coming' : Coming'[i].kind = "TranscriptReady" => i = n + 1
    <3> TAKE i \in DOMAIN Coming'
    <3>1. i \in 1..n \/ i = n + 1 \/ i = n + 2
      BY <2>1
    <3> QED  BY <1>10, <2>1, <2>2, <3>1
  <2>6. n + 1 \in DOMAIN Coming'
    BY <2>1
  <2>7. \A j \in DOMAIN Coming' : j < n + 1 => j \in 1..n
    BY <2>1
  <2>8. \A j \in DOMAIN Coming' : j > n + 1 => Coming'[j].kind # "RecordingStarted"
    <3> TAKE j \in DOMAIN Coming'
    <3> HAVE j > n + 1
    <3>1. j = n + 2
      BY <2>1
    <3> QED  BY <1>10, <2>1, <3>1
  <2>9. \A j \in DOMAIN Coming' : j < n + 1 =>
          /\ Coming'[j].kind = "Status" => Coming'[j].status \in Working
          /\ Coming'[j].kind # "TranscriptReady"
    BY <1>3, <2>1, <2>2, <2>7
  <2>10. Coming'[n + 1].kind = "TranscriptReady" /\ Coming'[n + 1].session = current
    BY <1>10, <2>1
  <2>11. \A s \in Session : fate'[s] = "published" =>
           \E i \in DOMAIN Coming' : Coming'[i].kind = "TranscriptReady" /\ Coming'[i].session = s
    BY <2>4, <2>6, <2>10
  <2>12. opening' \/ view' \in Working
    BY <1>3, <1>4
  <2>13. \A i \in DOMAIN Coming' : Coming'[i].kind = "TranscriptReady" =>
           /\ fate'[Coming'[i].session] = "published"
           /\ NothingWaits'
           /\ opening' \/ view' \in Working
           /\ \A j \in DOMAIN Coming' : j < i =>
                /\ Coming'[j].kind = "Status" => Coming'[j].status \in Working
                /\ Coming'[j].kind # "TranscriptReady"
           /\ \A j \in DOMAIN Coming' : j > i => Coming'[j].kind # "RecordingStarted"
    BY <1>5, <2>3, <2>5, <2>8, <2>9, <2>10, <2>12
  <2> QED  BY <2>11, <2>13 DEF TranscriptsFit
<1> QED  BY <1>5, <1>7, <1>8, <1>9, <1>11, <1>12

\* A recording is cancelled.
LEMMA CancelOne ==
    ASSUME WinShape, StatusFits, OneDictation, DeskSame, WinShape', CancelRecording
    PROVE  OneDictation'
<1> USE DEF OneDictation
<1>1. /\ job = "none" /\ job' = "none" /\ status = "Recording" /\ status' = "Ready"
      /\ Settle(current, "ended") /\ UNCHANGED current /\ Handler
      /\ outbox' = <<StatusReport("Ready")>> /\ cmds # <<>> /\ cmds' = Tail(cmds)
  BY DEF CancelRecording, CancelCurrent, Receive, Idle, Handler, WinShape, EngineTyped, Report
<1>2. current \in Session /\ fate[current] = "recording"
  BY <1>1 DEF WorkFits, Capturing
<1>3. /\ \A i \in DOMAIN outbox' : outbox'[i].kind \notin {"TranscriptReady", "RecordingStarted"}
      /\ LastStatus(outbox', "Ready")
  BY <1>1, ReportKinds, ReportFields, LastStatuses
<1>4. TapsFit'
  BY <1>1, TapsGone
<1> QED  BY <1>1, <1>2, <1>3, <1>4, AtRest

\* Whatever the engine does, its status fits its work, and it works on one dictation.
LEMMA EngineOne ==
    ASSUME WinShape, StatusFits, WinEngine, WinShape'
    PROVE  /\ StatusFits'
           /\ UNCHANGED overtook
           /\ OneDictation => OneDictation'
<1>1. DeskSame
  BY DEF WinEngine, DeskSame, deskVars, boardVars, pasteVars
<1>2. StatusFits'
  <2> USE DEF StatusFits, Receive, Idle, Blocked
  <2>1. CASE Send \/ PrepareSucceeds \/ PrepareFails \/ Quit \/ Exit \/ IgnoreCommand
    BY <2>1 DEF Send, PrepareSucceeds, PrepareFails, Quit, Exit, IgnoreCommand
  <2>2. CASE OpenMicrophone \/ MicrophoneOpens \/ MicrophoneFails
    BY <2>2 DEF OpenMicrophone, MicrophoneOpens, MicrophoneFails
  <2>3. CASE StopRecording \/ LimitReached \/ CancelRecording
    BY <2>3 DEF StopRecording, LimitReached, FinishCapture, CancelRecording
  <2>4. CASE DecodeSucceeds \/ DecodeFails \/ Publish
    BY <2>4 DEF DecodeSucceeds, DecodeFails, Publish
  <2> QED  BY <2>1, <2>2, <2>3, <2>4 DEF WinEngine
<1>3. OneDictation => OneDictation'
  BY <1>1, SendOne, NothingDone, ExitOne, PrepareOne, OpenOne, BeginOne, NoMicrophoneOne,
     DecodeOne, DecodedOne, PublishOne, CancelOne DEF WinEngine
<1> QED  BY <1>1, <1>2, <1>3 DEF DeskSame

-----------------------------------------------------------------------------
(* The desktop's steps.                                                    *)

\* With no work, no transcript coming and nothing waiting, nobody is on his way.
LEMMA NobodyLeft ==
    ASSUME FatesFit, TranscriptsFit, NothingWaits, ~Busy,
           \A i \in DOMAIN Coming : Coming[i].kind # "TranscriptReady"
    PROVE  NobodyOnItsWay
<1>1. ~Capturing /\ ~Decoding
  BY DEF Busy
<1>2. \A s \in Session : s \notin Waiting
  BY DEF NothingWaits, Waiting, Session, NoSession
<1> QED  BY <1>1, <1>2 DEF FatesFit, TranscriptsFit, NobodyOnItsWay, OnItsWay

\* The commands that follow are no taps.
SameTaps ==
    \A i \in DOMAIN cmds' : cmds'[i].op \in CaptureOps => i \in DOMAIN cmds /\ cmds'[i] = cmds[i]

\* A cancel or quit sent to the engine brings no tap.
LEMMA SentSame ==
    ASSUME WinShape, NEW op, op \notin CaptureOps, SendToEngine(op)
    PROVE  /\ SameTaps
           /\ UNCHANGED <<status, job, outbox, upds>> /\ Coming' = Coming
<1>1. cmds \in Seq(Command)
  BY DEF WinShape, EngineTyped
<1>2. cmds' = cmds \/ cmds' = Append(cmds, [op |-> op])
  BY DEF SendToEngine
<1>3. ASSUME NEW i \in DOMAIN Append(cmds, [op |-> op])
      PROVE  \/ i \in DOMAIN cmds /\ Append(cmds, [op |-> op])[i] = cmds[i]
             \/ Append(cmds, [op |-> op])[i] = [op |-> op]
  BY <1>1
<1>4. SameTaps
  BY <1>2, <1>3 DEF SameTaps
<1> QED  BY <1>4 DEF SendToEngine, Coming

\* A step that changes nothing that matters here, but for the drawing on the board.
LEMMA QuietDesk ==
    ASSUME WinShape, OneDictation, SameTaps, Coming' = Coming,
           UNCHANGED <<status, job, current, fate, view, opening, board, parked, staged,
                       again, lastSaid, bundle>>,
           drawable' \/ capturing' \/ frames' => board # NoSession
    PROVE  OneDictation'
<1> USE DEF OneDictation
<1>1. /\ Capturing' = Capturing /\ Decoding' = Decoding /\ Busy' = Busy
      /\ NothingWaits' = NothingWaits
  BY DEF Capturing, Decoding, Busy, NothingWaits
<1>2. NobodyOnItsWay' = NobodyOnItsWay
  BY DEF NobodyOnItsWay, OnItsWay
<1>3. \A v : Said(v)' <=> Said(v)
  BY SaidSame
<1>4. AboutToOpen' = AboutToOpen
  BY <1>1, <1>2 DEF AboutToOpen
<1>5. Prepared'
  BY <1>1, <1>2 DEF Prepared
<1>6. TapsFit'
  BY <1>1, <1>4 DEF TapsFit, SameTaps
<1>7. WorkFits'
  BY <1>1, <1>2, <1>3 DEF WorkFits
<1>8. FatesFit'
  BY <1>1, <1>2 DEF FatesFit, OnItsWay, Waiting
<1>9. TranscriptsFit'
  BY <1>1 DEF TranscriptsFit
<1>10. BoardFits'
  BY DEF BoardFits
<1> QED  BY <1>5, <1>6, <1>7, <1>8, <1>9, <1>10

\* A tap that overtakes nothing.
LEMMA TapOne ==
    ASSUME WinShape, StatusFits, OneDictation, NothingUnderWay,
           NEW op \in DictationOps, Tap(op)
    PROVE  OneDictation'
<1> USE DEF OneDictation
<1>1. /\ UNCHANGED <<status, job, outbox, upds, current, fate, view, parked, staged, again,
                     board, drawable, capturing, frames, lastSaid, bundle>>
      /\ ~TapRefused(op)
      /\ opening' = IF op = "Stop" THEN opening
                    ELSE job # "dead" /\ (opening \/ view \in {"Ready", "Error"})
      /\ cmds' = IF job = "dead" THEN cmds ELSE Append(cmds, [op |-> op])
  BY DEF Tap, SendToEngine, boardVars, pasteVars, sessions
<1>2. Coming = <<>> /\ Coming' = Coming /\ cmds = <<>> /\ DOMAIN Coming = {}
  BY <1>1, ConcatEmptySeq DEF NothingUnderWay, Coming
<1>3. /\ Capturing' = Capturing /\ Decoding' = Decoding /\ Busy' = Busy
      /\ NothingWaits' = NothingWaits
  BY <1>1 DEF Capturing, Decoding, Busy, NothingWaits
<1>4. NobodyOnItsWay' = NobodyOnItsWay
  BY <1>1 DEF NobodyOnItsWay, OnItsWay
<1>5. \A v : Said(v)' <=> Said(v)
  BY <1>1, <1>2, SaidSame
<1>6. NothingWaits
  BY <1>1 DEF TapRefused, NothingWaits
<1>7. Prepared'
  BY <1>1, <1>2, <1>3, <1>4 DEF Prepared
<1>8. FatesFit'
  BY <1>1, <1>3, <1>4 DEF FatesFit, OnItsWay, Waiting
<1>9. BoardFits'
  BY <1>1, <1>2 DEF BoardFits
<1>10. TranscriptsFit'
  BY <1>1, <1>2 DEF TranscriptsFit
<1>11. Busy => opening' \/ view \in Working
  BY <1>1 DEF WorkFits, TapRefused
<1>12. WorkFits'
  BY <1>1, <1>2, <1>3, <1>4, <1>5, <1>6, <1>11 DEF WorkFits
<1>13. TapsFit'
  <2> SUFFICES ASSUME NEW i \in DOMAIN cmds', cmds'[i].op \in CaptureOps
               PROVE  /\ i = 1
                      /\ \/ job \in {"exit", "dead"}
                         \/ Capturing /\ job = "none" /\ cmds'[i].op = "Toggle"
                         \/ AboutToOpen'
    BY <1>1, <1>3 DEF TapsFit
  <2>1. job # "dead" /\ i = 1 /\ cmds'[i].op = op
    BY <1>1, <1>2
  <2>2. /\ ~opening /\ view \in {"Ready", "Recording", "Error"}
        /\ op = "Start" => view # "Recording"
        /\ opening' = (job # "dead" /\ (opening \/ view \in {"Ready", "Error"}))
        /\ op \in {"Toggle", "Start"}
    BY <1>1, <2>1 DEF TapRefused, CaptureOps
  <2>3. CASE view = "Recording"
    <3>1. Said("Recording")
      BY <1>2, <2>3 DEF Said, NoStatus
    <3>2. status = "Recording"
      BY <3>1 DEF WorkFits
    <3>3. job \in {"none", "exit"}
      BY <2>1, <3>2 DEF StatusFits, WinShape, EngineTyped, Jobs
    <3> QED  BY <2>1, <2>2, <2>3, <3>2, <3>3 DEF Capturing
  <2>4. CASE view \in {"Ready", "Error"}
    <3>1. ~Busy
      BY <2>2, <2>4 DEF WorkFits, Working
    <3>2. NobodyOnItsWay
      BY <1>2, <1>6, <3>1, NobodyLeft
    <3>3. job \in {"none", "exit"}
      BY <2>1, <2>4, <3>1 DEF Prepared, Busy, Decoding, StatusFits, WinShape, EngineTyped, Jobs
    <3>4. job = "none" => status = "Ready"
      BY <3>1 DEF StatusFits, Busy, Capturing
    <3>5. job = "none" => AboutToOpen'
      BY <1>1, <1>2, <1>3, <1>4, <1>6, <2>1, <2>2, <2>4, <3>2, <3>4 DEF AboutToOpen
    <3> QED  BY <2>1, <3>3, <3>5
  <2> QED  BY <2>2, <2>3, <2>4
<1> QED  BY <1>7, <1>8, <1>9, <1>10, <1>12, <1>13

\* Behind the report taken, the others move up by one.
LEMMA MoveUp ==
    ASSUME WinShape, upds # <<>>, upds' = Tail(upds), outbox' = outbox
    PROVE  /\ 1 \in DOMAIN Coming /\ Coming[1] = Head(upds)
           /\ \A i \in DOMAIN Coming' : /\ i \in Nat /\ i + 1 \in DOMAIN Coming
                                        /\ Coming'[i] = Coming[i + 1] /\ i + 1 > 1
           /\ \A i \in DOMAIN Coming : /\ i \in Nat
                                       /\ i # 1 => /\ i > 1 /\ i - 1 \in DOMAIN Coming'
                                                   /\ Coming'[i - 1] = Coming[i]
           /\ \A i, j \in DOMAIN Coming' : (i < j <=> i + 1 < j + 1)
<1>1. /\ Len(Coming) \in Nat /\ Len(Coming) >= 1 /\ Coming[1] = Head(upds)
      /\ Len(Coming') = Len(Coming) - 1
      /\ DOMAIN Coming = 1..Len(Coming) /\ DOMAIN Coming' = 1..Len(Coming')
      /\ \A i \in 1..Len(Coming') : Coming'[i] = Coming[i + 1]
  BY ComingTaken, ComingTyped
<1>2. \A i \in DOMAIN Coming' : i \in Nat /\ i + 1 \in DOMAIN Coming /\ i + 1 > 1
  BY <1>1
<1>3. \A i \in DOMAIN Coming : i \in Nat /\ (i # 1 => i > 1 /\ i - 1 \in DOMAIN Coming')
  BY <1>1
<1>4. \A i \in DOMAIN Coming : i # 1 => Coming'[i - 1] = Coming[i]
  <2> SUFFICES ASSUME NEW i \in DOMAIN Coming, i # 1 PROVE Coming'[i - 1] = Coming[i]
    OBVIOUS
  <2>1. i - 1 \in 1..Len(Coming') /\ (i - 1) + 1 = i
    BY <1>1, <1>3
  <2> QED  BY <1>1, <2>1
<1>5. \A i, j \in DOMAIN Coming' : (i < j <=> i + 1 < j + 1)
  BY <1>2
<1> QED  BY <1>1, <1>2, <1>3, <1>4, <1>5

\* A report of a status is the last one, or those behind it decide.
LEMMA StatusTaken ==
    ASSUME WinShape, upds # <<>>, upds' = Tail(upds), outbox' = outbox,
           Head(upds).kind = "Status"
    PROVE  \/ /\ NoStatus(Coming')
              /\ \A v : Said(v) <=> v = Head(upds).status
           \/ /\ ~NoStatus(Coming') /\ ~NoStatus(Coming)
              /\ \A v : LastStatus(Coming', v) <=> LastStatus(Coming, v)
<1> DEFINE h == Head(upds).status
<1>1. /\ 1 \in DOMAIN Coming /\ Coming[1].kind = "Status" /\ Coming[1].status = h
      /\ ~NoStatus(Coming)
  BY MoveUp DEF NoStatus
<1> HIDE DEF h
<1>2. CASE NoStatus(Coming')
  <2>1. \A i \in DOMAIN Coming : i > 1 => Coming[i].kind # "Status"
    <3> TAKE i \in DOMAIN Coming
    <3> HAVE i > 1
    <3>1. i - 1 \in DOMAIN Coming' /\ Coming'[i - 1] = Coming[i]
      BY MoveUp
    <3> QED  BY <1>2, <3>1 DEF NoStatus
  <2>2. LastStatus(Coming, h)
    BY <1>1, <2>1 DEF LastStatus
  <2>3. \A i \in DOMAIN Coming : Coming[i].kind = "Status" => i = 1
    BY <2>1, MoveUp
  <2>4. \A v : LastStatus(Coming, v) => v = h
    BY <1>1, <2>3 DEF LastStatus
  <2> QED  BY <1>1, <1>2, <2>2, <2>4 DEF Said, h
<1>3. CASE ~NoStatus(Coming')
  <2>1. PICK k \in DOMAIN Coming' : Coming'[k].kind = "Status"
    BY <1>3 DEF NoStatus
  <2>2. ASSUME NEW v, LastStatus(Coming', v) PROVE LastStatus(Coming, v)
    <3>1. PICK i \in DOMAIN Coming' :
            /\ Coming'[i].kind = "Status" /\ Coming'[i].status = v
            /\ \A j \in DOMAIN Coming' : j > i => Coming'[j].kind # "Status"
      BY <2>2 DEF LastStatus
    <3>2. i \in Nat /\ i + 1 \in DOMAIN Coming /\ Coming'[i] = Coming[i + 1]
      BY MoveUp
    <3>3. \A j \in DOMAIN Coming : j > i + 1 => Coming[j].kind # "Status"
      <4> TAKE j \in DOMAIN Coming
      <4> HAVE j > i + 1
      <4>1. j \in Nat /\ j # 1
        BY <3>2, MoveUp
      <4>2. j - 1 \in DOMAIN Coming' /\ Coming'[j - 1] = Coming[j] /\ j - 1 > i
        BY <3>2, <4>1, MoveUp
      <4> QED  BY <3>1, <4>2
    <3> QED  BY <3>1, <3>2, <3>3 DEF LastStatus
  <2>3. ASSUME NEW v, LastStatus(Coming, v) PROVE LastStatus(Coming', v)
    <3>1. PICK i \in DOMAIN Coming :
            /\ Coming[i].kind = "Status" /\ Coming[i].status = v
            /\ \A j \in DOMAIN Coming : j > i => Coming[j].kind # "Status"
      BY <2>3 DEF LastStatus
    <3>2. i # 1
      <4>1. k + 1 \in DOMAIN Coming /\ Coming[k + 1].kind = "Status" /\ k + 1 > 1
        BY <2>1, MoveUp
      <4> QED  BY <3>1, <4>1
    <3>3. i \in Nat /\ i - 1 \in DOMAIN Coming' /\ Coming'[i - 1] = Coming[i]
      BY <3>2, MoveUp
    <3>4. \A j \in DOMAIN Coming' : j > i - 1 => Coming'[j].kind # "Status"
      <4> TAKE j \in DOMAIN Coming'
      <4> HAVE j > i - 1
      <4>1. j \in Nat /\ j + 1 \in DOMAIN Coming /\ Coming'[j] = Coming[j + 1]
        BY MoveUp
      <4>2. j + 1 > i
        BY <3>3, <4>1
      <4> QED  BY <3>1, <4>1, <4>2
    <3> QED  BY <3>1, <3>3, <3>4 DEF LastStatus
  <2> QED  BY <1>1, <1>3, <2>2, <2>3
<1> QED  BY <1>2, <1>3

\* Another report leaves the statuses as they are.
LEMMA OtherTaken ==
    ASSUME WinShape, upds # <<>>, upds' = Tail(upds), outbox' = outbox,
           Head(upds).kind # "Status"
    PROVE  /\ NoStatus(Coming') <=> NoStatus(Coming)
           /\ \A v : LastStatus(Coming', v) => LastStatus(Coming, v)
           /\ \A v : LastStatus(Coming, v) => LastStatus(Coming', v)
<1>1. Coming[1].kind # "Status"
  BY MoveUp
<1>2. ASSUME NEW v, LastStatus(Coming', v) PROVE LastStatus(Coming, v)
  <2>1. PICK i \in DOMAIN Coming' :
          /\ Coming'[i].kind = "Status" /\ Coming'[i].status = v
          /\ \A j \in DOMAIN Coming' : j > i => Coming'[j].kind # "Status"
    BY <1>2 DEF LastStatus
  <2>2. i \in Nat /\ i + 1 \in DOMAIN Coming /\ Coming'[i] = Coming[i + 1]
    BY MoveUp
  <2>3. \A j \in DOMAIN Coming : j > i + 1 => Coming[j].kind # "Status"
    <3> TAKE j \in DOMAIN Coming
    <3> HAVE j > i + 1
    <3>1. j \in Nat /\ j # 1
      BY <2>2, MoveUp
    <3>2. j - 1 \in DOMAIN Coming' /\ Coming'[j - 1] = Coming[j] /\ j - 1 > i
      BY <2>2, <3>1, MoveUp
    <3> QED  BY <2>1, <3>2
  <2> QED  BY <2>1, <2>2, <2>3 DEF LastStatus
<1>3. ASSUME NEW v, LastStatus(Coming, v) PROVE LastStatus(Coming', v)
  <2>1. PICK i \in DOMAIN Coming :
          /\ Coming[i].kind = "Status" /\ Coming[i].status = v
          /\ \A j \in DOMAIN Coming : j > i => Coming[j].kind # "Status"
    BY <1>3 DEF LastStatus
  <2>2. i # 1
    BY <1>1, <2>1
  <2>3. i \in Nat /\ i - 1 \in DOMAIN Coming' /\ Coming'[i - 1] = Coming[i]
    BY <2>2, MoveUp
  <2>4. \A j \in DOMAIN Coming' : j > i - 1 => Coming'[j].kind # "Status"
    <3> TAKE j \in DOMAIN Coming'
    <3> HAVE j > i - 1
    <3>1. j \in Nat /\ j + 1 \in DOMAIN Coming /\ Coming'[j] = Coming[j + 1]
      BY MoveUp
    <3>2. j + 1 > i
      BY <2>3, <3>1
    <3> QED  BY <2>1, <3>1, <3>2
  <2> QED  BY <2>1, <2>3, <2>4 DEF LastStatus
<1>4. NoStatus(Coming') <=> NoStatus(Coming)
  <2>1. ASSUME NoStatus(Coming) PROVE NoStatus(Coming')
    BY <2>1, MoveUp DEF NoStatus
  <2>2. ASSUME NoStatus(Coming') PROVE NoStatus(Coming)
    <3> SUFFICES ASSUME NEW i \in DOMAIN Coming PROVE Coming[i].kind # "Status"
      BY DEF NoStatus
    <3>1. CASE i = 1
      BY <1>1, <3>1
    <3>2. CASE i # 1
      BY <2>2, <3>2, MoveUp DEF NoStatus
    <3> QED  BY <3>1, <3>2
  <2> QED  BY <2>1, <2>2
<1> QED  BY <1>2, <1>3, <1>4

\* What becomes of a transcript that is taken.
LEMMA TakenOutcome ==
    ASSUME WinShape, BoardFits, NEW s \in Session, TakeTranscript(s),
           staged = NoSession, board \in {NoSession, s}
    PROVE  /\ parked' = NoSession /\ staged' \in {NoSession, s}
           /\ staged' = s => again' = FALSE /\ lastSaid' = s /\ fate'[s] = "delivering"
           /\ staged' = NoSession => fate'[s] \in {"ended", "delivered"}
           /\ \A t \in Session : t # s => fate'[t] = fate[t]
           /\ bundle' # NoSession => bundle' = lastSaid'
           /\ drawable' \/ capturing' \/ frames' => board' # NoSession
           /\ board' \in {board, NoSession} /\ view' \in {view, "Ready"}
<1>1. parked' = NoSession /\ s # NoSession
  BY DEF TakeTranscript, Session, NoSession
<1>2. CASE IsCancelled(s)
  <2>1. Settle(s, "ended") /\ UNCHANGED <<view, opening, boardVars, pasteVars>>
    BY <1>2 DEF TakeTranscript
  <2>2. fate'[s] = "ended" /\ \A t \in Session : t # s => fate'[t] = fate[t]
    BY <2>1, SettlesOne
  <2> QED  BY <1>1, <2>1, <2>2 DEF boardVars, pasteVars, BoardFits
<1>3. CASE DeliverDrawn(s)
  <2>1. frames /\ frames' = FALSE /\ UNCHANGED <<board, drawable, capturing>>
    BY <1>3 DEF DeliverDrawn
  <2>2. board = s
    BY <2>1 DEF BoardFits
  <2>3. CASE /\ bundle' = board /\ lastSaid' = s
             /\ Settle(s, "delivering") /\ Now(ImagePasted)
             /\ staged' = s /\ again' = FALSE /\ offered' = TRUE
             /\ UNCHANGED view
    <3>1. fate'[s] = "delivering" /\ \A t \in Session : t # s => fate'[t] = fate[t]
      BY <2>3, SettlesOne
    <3> QED  BY <1>1, <2>1, <2>2, <2>3, <3>1
  <2>4. CASE /\ UNCHANGED <<staged, again>> /\ bundle' \in {board, NoSession}
             /\ \E c, d : Recorded(s, TRUE, c, d)
    <3>1. view' = "Ready" /\ lastSaid' = s /\ Settle(s, "delivered")
      BY <2>4 DEF Recorded
    <3>2. fate'[s] = "delivered" /\ \A t \in Session : t # s => fate'[t] = fate[t]
      BY <3>1, SettlesOne
    <3> QED  BY <1>1, <2>1, <2>2, <2>4, <3>1, <3>2
  <2> QED  BY <1>3, <2>3, <2>4 DEF DeliverDrawn
<1>4. CASE DeliverText(s)
  <2>1. /\ UNCHANGED <<board, drawable, capturing, frames, staged, again>>
        /\ bundle' = NoSession
        /\ \E f, c, d : Recorded(s, f, c, d)
    BY <1>4 DEF DeliverText, boardVars
  <2>2. view' = "Ready" /\ lastSaid' = s /\ Settle(s, "delivered")
    BY <2>1 DEF Recorded
  <2>3. fate'[s] = "delivered" /\ \A t \in Session : t # s => fate'[t] = fate[t]
    BY <2>2, SettlesOne
  <2> QED  BY <1>1, <2>1, <2>2, <2>3 DEF BoardFits
<1>5. CASE DeliverNothing(s)
  <2>1. /\ board' = NoSession /\ drawable' = FALSE /\ capturing' = FALSE /\ frames' = FALSE
        /\ staged' = NoSession /\ lastSaid' = lastSaid /\ UNCHANGED bundle
        /\ fate' = [t \in Session |-> IF t \in {s} THEN "ended" ELSE fate[t]]
        /\ view' = "Ready"
    BY <1>5 DEF DeliverNothing, Discard
  <2> QED  BY <1>1, <2>1 DEF BoardFits
<1> QED  BY <1>2, <1>3, <1>4, <1>5 DEF TakeTranscript

\* A transcript is taken, the only one, and of the current dictation.
LEMMA TakenOne ==
    ASSUME WinShape, OneDictation, NEW s \in Session, s = current,
           fate[s] \in {"published", "delivering"}, ~Busy,
           parked' # NoSession \/ staged' # NoSession => fate'[s] = "delivering",
           fate'[s] \in {"ended", "delivered", "delivering"},
           fate'[s] = "delivering" <=> s \in Waiting',
           \A t \in Session : t # s => fate'[t] = fate[t] /\ t \notin Waiting',
           parked' = NoSession \/ staged' = NoSession,
           staged' # NoSession => again' = FALSE /\ lastSaid' = staged',
           bundle' # NoSession => bundle' = lastSaid',
           drawable' \/ capturing' \/ frames' => board' # NoSession,
           board' \in {NoSession, s},
           UNCHANGED <<status, job, cmds, current>>,
           Said("Recording")' => Said("Recording"),
           \A i \in DOMAIN Coming' : Coming'[i].kind \notin {"TranscriptReady", "RecordingStarted"}
    PROVE  OneDictation'
<1> USE DEF OneDictation
<1>1. OnItsWay(s) /\ ~NobodyOnItsWay
  BY DEF NobodyOnItsWay, OnItsWay
<1>2. ~Busy' /\ Capturing' = Capturing /\ ~Capturing /\ ~Decoding /\ ~Decoding'
  BY DEF Busy, Capturing, Decoding
<1>3. Prepared'
  BY <1>1 DEF Prepared
<1>4. TapsFit'
  BY <1>1, <1>2 DEF TapsFit, AboutToOpen
<1>5. WorkFits'
  BY <1>2 DEF WorkFits, Busy
<1>6. FatesFit'
  <2>1. \A t \in Session : t > current' => fate'[t] = "unused"
    BY DEF FatesFit, WinShape, EngineTyped, Session
  <2>2. \A t \in Session : OnItsWay(t)' => t = current'
    BY DEF FatesFit, OnItsWay
  <2>3. \A t \in Session : fate'[t] \notin {"recording", "decoding"}
    BY <1>2 DEF FatesFit
  <2>4. \A t \in Session : fate'[t] = "delivering" <=> t \in Waiting'
    BY DEF FatesFit, OnItsWay
  <2> QED  BY <2>1, <2>2, <2>3, <2>4 DEF FatesFit
<1>7. TranscriptsFit'
  <2>1. \A t \in Session : fate'[t] # "published"
    BY DEF FatesFit, OnItsWay
  <2> QED  BY <2>1 DEF TranscriptsFit
<1>8. BoardFits'
  BY DEF BoardFits
<1> QED  BY <1>3, <1>4, <1>5, <1>6, <1>7, <1>8

\* The parked transcript is taken.
LEMMA TakeParkedOne ==
    ASSUME WinShape, OneDictation, TakeParked
    PROVE  OneDictation'
<1> USE DEF OneDictation
<1> DEFINE s == parked
<1>1. /\ s # NoSession /\ TakeTranscript(s) /\ UNCHANGED <<status, job, cmds, outbox, upds, current>>
  BY DEF TakeParked, sessions
<1>2. s \in Session /\ Coming' = Coming
  BY <1>1 DEF WinShape, DeskTyped, Number, Coming
<1>3. fate[s] = "delivering" /\ s = current /\ staged = NoSession
  BY <1>1, <1>2 DEF FatesFit, OnItsWay, Waiting
<1>4. /\ ~Busy
      /\ \A i \in DOMAIN Coming : Coming[i].kind \notin {"TranscriptReady", "RecordingStarted"}
  BY <1>1 DEF WorkFits, TranscriptsFit, BoardFits, NothingWaits
<1>5. board \in {NoSession, s}
  BY <1>3, <1>4 DEF BoardFits
<1> HIDE DEF s
<1>6. /\ parked' = NoSession /\ staged' \in {NoSession, s}
      /\ staged' = s => again' = FALSE /\ lastSaid' = s /\ fate'[s] = "delivering"
      /\ staged' = NoSession => fate'[s] \in {"ended", "delivered"}
      /\ \A t \in Session : t # s => fate'[t] = fate[t]
      /\ bundle' # NoSession => bundle' = lastSaid'
      /\ drawable' \/ capturing' \/ frames' => board' # NoSession
      /\ board' \in {board, NoSession} /\ view' \in {view, "Ready"}
  BY <1>1, <1>2, <1>3, <1>5, TakenOutcome
<1>7. s # NoSession
  BY <1>2 DEF Session, NoSession
<1>8. \A t \in Session : t # NoSession
  BY DEF Session, NoSession
<1>9. fate'[s] = "delivering" <=> s \in Waiting'
  BY <1>6, <1>7 DEF Waiting
<1>10. \A t \in Session : t # s => t \notin Waiting'
  BY <1>6, <1>8 DEF Waiting
<1>11. Said("Recording")' => Said("Recording")
  BY <1>2, <1>6 DEF Said, LastStatus, NoStatus
<1> QED  BY <1>1, <1>2, <1>3, <1>4, <1>5, <1>6, <1>7, <1>9, <1>10, <1>11, TakenOne

\* A transcript that is reported is the only one, and of the current dictation.
LEMMA TranscriptHead ==
    ASSUME WinShape, OneDictation, TakeReport("TranscriptReady")
    PROVE  /\ Head(upds).session \in Session /\ Head(upds).session = current
           /\ fate[current] = "published" /\ NothingWaits /\ ~Busy
           /\ \A i \in DOMAIN Coming' : Coming'[i].kind \notin {"TranscriptReady", "RecordingStarted"}
           /\ board \in {NoSession, current}
           /\ NoStatus(Coming') => NoStatus(Coming)
           /\ \A v : LastStatus(Coming', v) => LastStatus(Coming, v)
<1> USE DEF OneDictation
<1> DEFINE s == Head(upds).session
<1>1. /\ upds # <<>> /\ upds' = Tail(upds) /\ outbox' = outbox
      /\ Head(upds).kind = "TranscriptReady"
  BY DEF TakeReport
<1>2. /\ 1 \in DOMAIN Coming /\ Coming[1] = Head(upds)
      /\ Coming[1].kind = "TranscriptReady" /\ Coming[1].session = s
  BY <1>1, MoveUp
<1>3. s \in Session
  BY <1>2, ComingTyped, UpdateTyped
<1> HIDE DEF s
<1>4. /\ fate[s] = "published" /\ NothingWaits
      /\ \A j \in DOMAIN Coming : j > 1 => Coming[j].kind # "RecordingStarted"
  BY <1>2 DEF TranscriptsFit
<1>5. s = current
  BY <1>3, <1>4 DEF FatesFit, OnItsWay
<1>6. ~Busy
  <2>1. ~NobodyOnItsWay
    BY <1>3, <1>4 DEF NobodyOnItsWay, OnItsWay
  <2> QED  BY <1>4, <1>5, <2>1 DEF WorkFits, Busy
<1>7. \A i \in DOMAIN Coming : i > 1 => Coming[i].kind # "TranscriptReady"
  BY <1>2, <1>4, MoveUp DEF TranscriptsFit
<1>8. \A i \in DOMAIN Coming' : Coming'[i].kind \notin {"TranscriptReady", "RecordingStarted"}
  <2> TAKE i \in DOMAIN Coming'
  <2>1. i + 1 \in DOMAIN Coming /\ Coming'[i] = Coming[i + 1] /\ i + 1 > 1
    BY <1>1, MoveUp
  <2> QED  BY <1>4, <1>7, <2>1
<1>9. \A i \in DOMAIN Coming : Coming[i].kind # "RecordingStarted"
  <2> TAKE i \in DOMAIN Coming
  <2>1. i = 1 \/ i > 1
    BY <1>1, MoveUp
  <2> QED  BY <1>2, <1>4, <2>1
<1>10. board \in {NoSession, current}
  BY <1>9 DEF BoardFits
<1>11. /\ NoStatus(Coming') => NoStatus(Coming)
       /\ \A v : LastStatus(Coming', v) => LastStatus(Coming, v)
  BY <1>1, OtherTaken
<1> QED  BY <1>3, <1>4, <1>5, <1>6, <1>8, <1>10, <1>11 DEF s

\* A transcript is reported: it is parked, or taken at once.
LEMMA TranscriptOne ==
    ASSUME WinShape, OneDictation, PollTranscript
    PROVE  OneDictation'
<1> USE DEF OneDictation
<1> DEFINE s == Head(upds).session
<1>1. /\ TakeReport("TranscriptReady") /\ UNCHANGED <<status, job, cmds, outbox, current>>
      /\ IF capturing THEN Park(s) ELSE TakeTranscript(s)
  BY DEF PollTranscript, TakeReport, sessions
<1>2. s \in Session /\ s = current
  BY <1>1, TranscriptHead
<1> HIDE DEF s
<1>3. /\ fate[s] = "published" /\ NothingWaits /\ ~Busy
      /\ \A i \in DOMAIN Coming' : Coming'[i].kind \notin {"TranscriptReady", "RecordingStarted"}
      /\ board \in {NoSession, s}
      /\ NoStatus(Coming') => NoStatus(Coming)
      /\ \A v : LastStatus(Coming', v) => LastStatus(Coming, v)
  BY <1>1, <1>2, TranscriptHead
<1>4. s # NoSession /\ \A t \in Session : t # NoSession
  BY <1>2 DEF Session, NoSession
<1>5. staged = NoSession /\ parked = NoSession
  BY <1>3 DEF NothingWaits
<1>6. CASE Park(s)
  <2>1. /\ parked' = s /\ Settle(s, "delivering")
        /\ UNCHANGED <<view, board, drawable, capturing, frames, staged, again, lastSaid, bundle>>
    BY <1>6 DEF Park, boardVars, pasteVars
  <2>2. fate'[s] = "delivering" /\ \A t \in Session : t # s => fate'[t] = fate[t]
    BY <1>2, <2>1, SettlesOne
  <2>3. s \in Waiting' /\ \A t \in Session : t # s => t \notin Waiting'
    BY <1>4, <1>5, <2>1 DEF Waiting
  <2>4. Said("Recording")' => Said("Recording")
    BY <1>3, <2>1 DEF Said
  <2>5. /\ bundle' # NoSession => bundle' = lastSaid'
        /\ drawable' \/ capturing' \/ frames' => board' # NoSession
        /\ staged' = NoSession /\ board' \in {NoSession, s}
    BY <1>3, <1>5, <2>1 DEF BoardFits
  <2> QED  BY <1>1, <1>2, <1>3, <2>2, <2>3, <2>4, <2>5, TakenOne
<1>7. CASE TakeTranscript(s)
  <2>1. /\ parked' = NoSession /\ staged' \in {NoSession, s}
        /\ staged' = s => again' = FALSE /\ lastSaid' = s /\ fate'[s] = "delivering"
        /\ staged' = NoSession => fate'[s] \in {"ended", "delivered"}
        /\ \A t \in Session : t # s => fate'[t] = fate[t]
        /\ bundle' # NoSession => bundle' = lastSaid'
        /\ drawable' \/ capturing' \/ frames' => board' # NoSession
        /\ board' \in {board, NoSession} /\ view' \in {view, "Ready"}
    BY <1>2, <1>3, <1>5, <1>7, TakenOutcome
  <2>2. fate'[s] = "delivering" <=> s \in Waiting'
    BY <1>4, <2>1 DEF Waiting
  <2>3. \A t \in Session : t # s => t \notin Waiting'
    BY <1>4, <2>1 DEF Waiting
  <2>4. Said("Recording")' => Said("Recording")
    BY <1>3, <2>1 DEF Said
  <2> QED  BY <1>1, <1>2, <1>3, <1>4, <2>1, <2>2, <2>3, <2>4, TakenOne
<1> QED  BY <1>1, <1>6, <1>7

\* A status is reported.
LEMMA StatusOne ==
    ASSUME WinShape, StatusFits, OneDictation, PollStatus
    PROVE  OneDictation'
<1> USE DEF OneDictation
<1> DEFINE h == Head(upds).status
           waits == parked # NoSession \/ staged # NoSession
<1>1. /\ upds # <<>> /\ upds' = Tail(upds) /\ Head(upds).kind = "Status"
      /\ UNCHANGED <<status, job, cmds, outbox, current, fate, board, parked, staged, again,
                     lastSaid, bundle>>
      /\ view' = IF h = "Ready" /\ waits THEN "Transcribing" ELSE h
      /\ opening' = FALSE
  BY DEF PollStatus, TakeReport, StopBoard, boardVars, pasteVars, sessions
<1>2. drawable' \/ capturing' \/ frames' => drawable \/ capturing \/ frames
  BY DEF PollStatus, StopBoard, boardVars
<1>3. /\ 1 \in DOMAIN Coming /\ Coming[1].kind = "Status" /\ Coming[1].status = h
  BY <1>1, MoveUp
<1>4. waits <=> ~NothingWaits
  BY DEF NothingWaits
<1>5. /\ NothingWaits' = NothingWaits /\ NobodyOnItsWay' = NobodyOnItsWay
      /\ Capturing' = Capturing /\ Decoding' = Decoding /\ Busy' = Busy
  BY <1>1 DEF NothingWaits, NobodyOnItsWay, OnItsWay, Capturing, Decoding, Busy
<1> HIDE DEF h, waits
<1>6. NothingWaits \/ h # "Ready" => \A v : Said(v)' <=> Said(v)
  <2> HAVE NothingWaits \/ h # "Ready"
  <2>1. view' = h
    BY <1>1, <1>4
  <2>2. CASE /\ NoStatus(Coming')
             /\ \A v : Said(v) <=> v = h
    <3>1. \A v : ~LastStatus(Coming', v)
      BY <2>2 DEF LastStatus, NoStatus
    <3> QED  BY <2>1, <2>2, <3>1 DEF Said
  <2>3. CASE /\ ~NoStatus(Coming') /\ ~NoStatus(Coming)
             /\ \A v : LastStatus(Coming', v) <=> LastStatus(Coming, v)
    BY <2>3 DEF Said
  <2> QED  BY <1>1, <2>2, <2>3, StatusTaken DEF h
<1>7. Said("Recording")' => Said("Recording")
  <2>1. CASE NothingWaits \/ h # "Ready"
    BY <1>6, <2>1
  <2>2. CASE ~(NothingWaits \/ h # "Ready")
    <3>1. view' = "Transcribing"
      BY <1>1, <1>4, <2>2
    <3>2. CASE NoStatus(Coming')
      <4>1. ~LastStatus(Coming', "Recording")
        BY <3>2 DEF LastStatus, NoStatus
      <4> QED  BY <3>1, <4>1 DEF Said
    <3>3. CASE ~NoStatus(Coming')
      <4>1. \A v : LastStatus(Coming', v) <=> LastStatus(Coming, v)
        BY <1>1, <3>3, StatusTaken
      <4> QED  BY <3>3, <4>1 DEF Said
    <3> QED  BY <3>2, <3>3
  <2> QED  BY <2>1, <2>2
<1>8. \A i \in DOMAIN Coming' : i + 1 \in DOMAIN Coming /\ Coming'[i] = Coming[i + 1]
  BY <1>1, MoveUp
<1>9. Prepared'
  <2> SUFFICES ASSUME job = "prepare" PROVE Prepared'
    BY <1>1 DEF Prepared
  <2>1. NothingWaits /\ h = "Starting" /\ NobodyOnItsWay
    BY <1>3 DEF Prepared
  <2>2. view' = "Starting"
    BY <1>1, <1>4, <2>1
  <2>3. \A i \in DOMAIN Coming' : Coming'[i].kind = "Status" /\ Coming'[i].status = "Starting"
    BY <1>8 DEF Prepared
  <2> QED  BY <1>5, <2>1, <2>2, <2>3 DEF Prepared
<1>10. ~AboutToOpen
  BY <1>3 DEF AboutToOpen
<1>11. TapsFit'
  BY <1>1, <1>5, <1>10 DEF TapsFit
<1>12. WorkFits'
  <2>1. ASSUME Busy PROVE NothingWaits /\ h \in Working /\ view' \in Working
    <3>1. NothingWaits /\ h \in Working
      BY <1>3, <2>1 DEF WorkFits
    <3> QED  BY <1>1, <1>4, <3>1
  <2>2. Busy => \A i \in DOMAIN Coming' : Coming'[i].kind = "Status" => Coming'[i].status \in Working
    BY <1>8 DEF WorkFits
  <2>3. Busy => \A v : Said(v)' <=> Said(v)
    BY <1>6, <2>1
  <2>4. job = "open" => \A i \in DOMAIN Coming' : Coming'[i].kind # "RecordingStarted"
    BY <1>8 DEF WorkFits
  <2>5. (Capturing => Busy) /\ (Decoding => Busy)
    BY DEF Busy
  <2> QED  BY <1>1, <1>5, <1>7, <2>1, <2>2, <2>3, <2>4, <2>5 DEF WorkFits
<1>13. FatesFit'
  BY <1>1, <1>5 DEF FatesFit, OnItsWay, Waiting
<1>14. TranscriptsFit'
  <2>1. ASSUME NEW t \in Session, fate'[t] = "published"
        PROVE  \E i \in DOMAIN Coming' : Coming'[i].kind = "TranscriptReady" /\ Coming'[i].session = t
    <3>1. PICK i \in DOMAIN Coming : Coming[i].kind = "TranscriptReady" /\ Coming[i].session = t
      BY <1>1, <2>1 DEF TranscriptsFit
    <3>2. i # 1
      BY <1>3, <3>1
    <3> QED  BY <1>1, <3>1, <3>2, MoveUp
  <2>2. ASSUME NEW i \in DOMAIN Coming', Coming'[i].kind = "TranscriptReady"
        PROVE  /\ fate'[Coming'[i].session] = "published"
               /\ NothingWaits'
               /\ opening' \/ view' \in Working
               /\ \A j \in DOMAIN Coming' : j < i =>
                    /\ Coming'[j].kind = "Status" => Coming'[j].status \in Working
                    /\ Coming'[j].kind # "TranscriptReady"
               /\ \A j \in DOMAIN Coming' : j > i => Coming'[j].kind # "RecordingStarted"
    <3>1. i + 1 \in DOMAIN Coming /\ Coming'[i] = Coming[i + 1] /\ 1 < i + 1 /\ i \in Nat
      BY <1>1, MoveUp
    <3>2. /\ fate[Coming[i + 1].session] = "published" /\ NothingWaits
          /\ \A j \in DOMAIN Coming : j < i + 1 =>
               /\ Coming[j].kind = "Status" => Coming[j].status \in Working
               /\ Coming[j].kind # "TranscriptReady"
          /\ \A j \in DOMAIN Coming : j > i + 1 => Coming[j].kind # "RecordingStarted"
      BY <2>2, <3>1 DEF TranscriptsFit
    <3>3. view' \in Working
      <4>1. h \in Working
        BY <1>3, <3>1, <3>2
      <4> QED  BY <1>1, <1>4, <3>2, <4>1
    <3>4. \A j \in DOMAIN Coming' : j \in Nat /\ (j < i => j + 1 < i + 1) /\ (j > i => j + 1 > i + 1)
      BY <1>1, <3>1, MoveUp
    <3>5. \A j \in DOMAIN Coming' : j < i =>
            /\ Coming'[j].kind = "Status" => Coming'[j].status \in Working
            /\ Coming'[j].kind # "TranscriptReady"
      BY <1>8, <3>2, <3>4
    <3>6. \A j \in DOMAIN Coming' : j > i => Coming'[j].kind # "RecordingStarted"
      BY <1>8, <3>2, <3>4
    <3> QED  BY <1>1, <1>5, <3>1, <3>2, <3>3, <3>5, <3>6
  <2> QED  BY <2>1, <2>2 DEF TranscriptsFit
<1>15. BoardFits'
  <2>1. \A i \in DOMAIN Coming' : Coming'[i].kind = "RecordingStarted" =>
          Coming'[i].session = current /\ parked = NoSession
    BY <1>8 DEF BoardFits
  <2>2. \/ board \in {NoSession, current}
        \/ \E i \in DOMAIN Coming' : Coming'[i].kind = "RecordingStarted"
    <3>1. ASSUME NEW i \in DOMAIN Coming, Coming[i].kind = "RecordingStarted"
          PROVE  \E k \in DOMAIN Coming' : Coming'[k].kind = "RecordingStarted"
      <4>1. i # 1
        BY <1>3, <3>1
      <4> QED  BY <1>1, <3>1, <4>1, MoveUp
    <3> QED  BY <3>1 DEF BoardFits
  <2>3. drawable' \/ capturing' \/ frames' => board' # NoSession
    BY <1>1, <1>2 DEF BoardFits
  <2>4. /\ staged' # NoSession => lastSaid' = staged'
        /\ bundle' # NoSession => bundle' = lastSaid'
    BY <1>1 DEF BoardFits
  <2> QED  BY <1>1, <2>1, <2>2, <2>3, <2>4 DEF BoardFits
<1> QED  BY <1>9, <1>11, <1>12, <1>13, <1>14, <1>15

\* The start of a recording is reported.
LEMMA StartedOne ==
    ASSUME WinShape, StatusFits, OneDictation, PollRecordingStarted
    PROVE  OneDictation'
<1> USE DEF OneDictation
<1>1. /\ upds # <<>> /\ upds' = Tail(upds) /\ Head(upds).kind = "RecordingStarted"
      /\ UNCHANGED <<status, job, cmds, outbox, current, fate, view, opening, parked, staged, again,
                     lastSaid, bundle>>
      /\ board' \in {NoSession, Head(upds).session} /\ drawable' = (board' # NoSession)
      /\ capturing' = FALSE /\ frames' = FALSE
  BY DEF PollRecordingStarted, TakeReport, pasteVars, sessions
<1>2. 1 \in DOMAIN Coming /\ Coming[1].kind = "RecordingStarted" /\ Coming[1] = Head(upds)
  BY <1>1, MoveUp
<1>3. Head(upds).session = current /\ parked = NoSession
  BY <1>2 DEF BoardFits
<1>4. /\ NothingWaits' = NothingWaits /\ NobodyOnItsWay' = NobodyOnItsWay
      /\ Capturing' = Capturing /\ Decoding' = Decoding /\ Busy' = Busy
  BY <1>1 DEF NothingWaits, NobodyOnItsWay, OnItsWay, Capturing, Decoding, Busy
<1>5. \A v : Said(v)' <=> Said(v)
  BY <1>1, OtherTaken DEF Said
<1>6. \A i \in DOMAIN Coming' : i + 1 \in DOMAIN Coming /\ Coming'[i] = Coming[i + 1]
  BY <1>1, MoveUp
<1>7. Prepared' /\ job # "open" /\ ~AboutToOpen
  BY <1>1, <1>2 DEF Prepared, WorkFits, AboutToOpen
<1>8. TapsFit'
  BY <1>1, <1>4, <1>7 DEF TapsFit
<1>9. WorkFits'
  BY <1>1, <1>4, <1>5, <1>6, <1>7 DEF WorkFits
<1>10. FatesFit'
  BY <1>1, <1>4 DEF FatesFit, OnItsWay, Waiting
<1>11. TranscriptsFit'
  <2>1. ASSUME NEW t \in Session, fate'[t] = "published"
        PROVE  \E i \in DOMAIN Coming' : Coming'[i].kind = "TranscriptReady" /\ Coming'[i].session = t
    <3>1. PICK i \in DOMAIN Coming : Coming[i].kind = "TranscriptReady" /\ Coming[i].session = t
      BY <1>1, <2>1 DEF TranscriptsFit
    <3>2. i # 1
      BY <1>2, <3>1
    <3> QED  BY <1>1, <3>1, <3>2, MoveUp
  <2>2. ASSUME NEW i \in DOMAIN Coming', Coming'[i].kind = "TranscriptReady"
        PROVE  /\ fate'[Coming'[i].session] = "published"
               /\ NothingWaits'
               /\ opening' \/ view' \in Working
               /\ \A j \in DOMAIN Coming' : j < i =>
                    /\ Coming'[j].kind = "Status" => Coming'[j].status \in Working
                    /\ Coming'[j].kind # "TranscriptReady"
               /\ \A j \in DOMAIN Coming' : j > i => Coming'[j].kind # "RecordingStarted"
    <3>1. i + 1 \in DOMAIN Coming /\ Coming'[i] = Coming[i + 1] /\ 1 < i + 1 /\ i \in Nat
      BY <1>1, MoveUp
    <3>2. /\ fate[Coming[i + 1].session] = "published" /\ NothingWaits
          /\ opening \/ view \in Working
          /\ \A j \in DOMAIN Coming : j < i + 1 =>
               /\ Coming[j].kind = "Status" => Coming[j].status \in Working
               /\ Coming[j].kind # "TranscriptReady"
          /\ \A j \in DOMAIN Coming : j > i + 1 => Coming[j].kind # "RecordingStarted"
      BY <2>2, <3>1 DEF TranscriptsFit
    <3>4. \A j \in DOMAIN Coming' : j \in Nat /\ (j < i => j + 1 < i + 1) /\ (j > i => j + 1 > i + 1)
      BY <1>1, <3>1, MoveUp
    <3>5. \A j \in DOMAIN Coming' : j < i =>
            /\ Coming'[j].kind = "Status" => Coming'[j].status \in Working
            /\ Coming'[j].kind # "TranscriptReady"
      BY <1>6, <3>2, <3>4
    <3>6. \A j \in DOMAIN Coming' : j > i => Coming'[j].kind # "RecordingStarted"
      BY <1>6, <3>2, <3>4
    <3> QED  BY <1>1, <1>4, <3>1, <3>2, <3>5, <3>6
  <2> QED  BY <2>1, <2>2 DEF TranscriptsFit
<1>12. BoardFits'
  <2>1. \A i \in DOMAIN Coming' : Coming'[i].kind = "RecordingStarted" =>
          Coming'[i].session = current /\ parked = NoSession
    BY <1>6 DEF BoardFits
  <2> QED  BY <1>1, <1>3, <2>1 DEF BoardFits
<1> QED  BY <1>7, <1>8, <1>9, <1>10, <1>11, <1>12

\* The staged text follows its image, and with it the last that was on its way.
LEMMA StagedOne ==
    ASSUME WinShape, StatusFits, OneDictation, PollStaged
    PROVE  OneDictation'
<1> USE DEF OneDictation
<1>1. /\ staged # NoSession /\ staged' = NoSession /\ again' = FALSE
      /\ UNCHANGED <<status, job, cmds, outbox, upds, current, opening, board, drawable, capturing,
                     frames, parked, bundle>>
  BY DEF PollStaged, boardVars, sessions
<1>2. Coming' = Coming /\ ~NothingWaits
  BY <1>1 DEF Coming, NothingWaits
<1>3. /\ ~Busy /\ ~AboutToOpen /\ job # "prepare"
      /\ \A i \in DOMAIN Coming : Coming[i].kind # "TranscriptReady"
  BY <1>2 DEF WorkFits, AboutToOpen, Prepared, TranscriptsFit
<1>4. ~Busy' /\ Capturing' = Capturing /\ ~Capturing /\ ~Decoding /\ ~Decoding' /\ ~NothingWaits
  BY <1>1, <1>2, <1>3 DEF Busy, Capturing, Decoding
<1>5. parked = NoSession /\ lastSaid = staged
  BY <1>1 DEF FatesFit, BoardFits
<1>6. /\ \/ again /\ UNCHANGED <<view, lastSaid, fate>>
         \/ ~again /\ view' = "Ready" /\ lastSaid' = staged /\ Settle(staged, "delivered")
  BY DEF PollStaged, Recorded
<1>7. lastSaid' = lastSaid /\ (Said("Recording")' => Said("Recording"))
  BY <1>2, <1>5, <1>6 DEF Said, LastStatus, NoStatus
<1>8. Prepared' /\ TapsFit' /\ WorkFits'
  BY <1>1, <1>2, <1>3, <1>4, <1>7 DEF Prepared, TapsFit, WorkFits, Busy
<1>9. BoardFits'
  BY <1>1, <1>2, <1>7 DEF BoardFits
<1>10. \A t \in Session : t # NoSession
  BY DEF Session, NoSession
<1>11. \A t \in Session : t \notin Waiting'
  BY <1>1, <1>5, <1>10 DEF Waiting
<1>12. FatesFit' /\ \A t \in Session : fate'[t] = "published" => fate[t] = "published"
  <2>1. CASE again /\ UNCHANGED fate
    <3>1. NobodyOnItsWay
      BY <1>1, <2>1 DEF FatesFit
    <3> QED  BY <1>1, <1>5, <1>11, <2>1, <3>1 DEF FatesFit, NobodyOnItsWay, OnItsWay
  <2>2. CASE ~again /\ Settle(staged, "delivered")
    <3>1. staged \in Session
      BY <1>1 DEF WinShape, DeskTyped, Number
    <3>2. fate[staged] = "delivering" /\ staged = current
      BY <2>2, <3>1 DEF FatesFit, OnItsWay, Waiting
    <3>3. fate'[staged] = "delivered" /\ \A t \in Session : t # staged => fate'[t] = fate[t]
      BY <2>2, <3>1, SettlesOne
    <3>4. \A t \in Session : ~OnItsWay(t)'
      BY <3>2, <3>3 DEF FatesFit, OnItsWay
    <3>5. \A t \in Session : t > current' => fate'[t] = "unused"
      BY <1>1, <3>2, <3>3 DEF FatesFit, WinShape, EngineTyped
    <3> QED  BY <1>1, <1>5, <1>11, <3>2, <3>3, <3>4, <3>5 DEF FatesFit, OnItsWay
  <2> QED  BY <1>6, <2>1, <2>2
<1>13. TranscriptsFit'
  BY <1>2, <1>3, <1>12 DEF TranscriptsFit
<1> QED  BY <1>8, <1>9, <1>12, <1>13

\* Cancelling from the desktop ends what waits there.
LEMMA CancelDeskOne ==
    ASSUME WinShape, StatusFits, OneDictation, CancelFromDesk
    PROVE  OneDictation'
<1> USE DEF OneDictation
<1> DEFINE waits == staged # NoSession /\ ~again
<1>1. /\ view \in {"Recording", "Transcribing"} /\ current' = current /\ SendToEngine("Cancel")
      /\ board' = NoSession /\ drawable' = FALSE /\ capturing' = FALSE /\ frames' = FALSE
      /\ parked' = NoSession /\ staged' = NoSession /\ again' = FALSE /\ UNCHANGED bundle
      /\ lastSaid' = IF waits THEN staged ELSE lastSaid
      /\ fate' = [t \in Session |-> IF t \in {parked} \ {NoSession} THEN "ended"
                                    ELSE IF waits /\ t = staged THEN "delivered" ELSE fate[t]]
      /\ IF parked # NoSession \/ staged # NoSession
           THEN view' = "Ready" /\ opening' = FALSE
           ELSE UNCHANGED <<view, opening>>
  BY DEF CancelFromDesk, Discard, CancelCurrent
<1>2. SameTaps /\ UNCHANGED <<status, job, outbox, upds>> /\ Coming' = Coming
  BY <1>1, SentSame DEF CaptureOps
<1>3. lastSaid' = lastSaid
  BY <1>1 DEF BoardFits
<1>4. BoardFits'
  BY <1>1, <1>2, <1>3 DEF BoardFits
<1>5. /\ Capturing' = Capturing /\ Decoding' = Decoding /\ Busy' = Busy
      /\ ~AboutToOpen /\ NothingWaits' /\ job # "prepare"
  BY <1>1, <1>2 DEF Capturing, Decoding, Busy, AboutToOpen, NothingWaits, Prepared
<1>6. Prepared' /\ TapsFit'
  BY <1>2, <1>5 DEF Prepared, TapsFit, SameTaps
<1>7. \A t \in Session : t \notin Waiting'
  BY <1>1 DEF Waiting, Session, NoSession
<1>8. CASE NothingWaits
  <2>1. UNCHANGED fate /\ UNCHANGED <<view, opening>>
    BY <1>1, <1>8 DEF NothingWaits, WinShape, EngineTyped
  <2>2. NobodyOnItsWay' = NobodyOnItsWay /\ \A v : Said(v)' <=> Said(v)
    BY <1>2, <2>1, SaidSame DEF NobodyOnItsWay, OnItsWay
  <2>3. WorkFits'
    BY <1>2, <1>5, <1>8, <1>1, <2>1, <2>2 DEF WorkFits
  <2>4. \A t \in Session : t \notin Waiting
    BY <1>8 DEF NothingWaits, Waiting, Session, NoSession
  <2>5. FatesFit'
    BY <1>1, <1>2, <1>5, <1>7, <2>1, <2>4 DEF FatesFit, OnItsWay
  <2>6. TranscriptsFit'
    BY <1>2, <1>5, <2>1 DEF TranscriptsFit
  <2> QED  BY <1>4, <1>6, <2>3, <2>5, <2>6
<1>9. CASE ~NothingWaits
  <2>1. view' = "Ready" /\ opening' = FALSE
    BY <1>1, <1>9 DEF NothingWaits
  <2>2. ~Busy /\ \A i \in DOMAIN Coming : Coming[i].kind # "TranscriptReady"
    BY <1>9 DEF WorkFits, TranscriptsFit
  <2>3. Said("Recording")' => Said("Recording")
    BY <1>2, <2>1 DEF Said, LastStatus, NoStatus
  <2>4. WorkFits'
    BY <1>2, <1>5, <2>2, <2>3 DEF WorkFits, Busy
  <2>5. \A t \in Session : ~OnItsWay(t)'
    <3>1. \A t \in Session : fate[t] \notin {"recording", "decoding", "published"}
      BY <2>2 DEF FatesFit, TranscriptsFit, Busy
    <3>2. \A t \in Session : fate[t] = "delivering" => t = parked \/ (waits /\ t = staged)
      BY DEF FatesFit, Waiting, Session, NoSession
    <3>3. \A t \in Session : t # NoSession
      BY DEF Session, NoSession
    <3> HIDE DEF waits
    <3>4. \A t \in Session : fate'[t] \in {"ended", "delivered", fate[t]}
      BY <1>1
    <3>5. \A t \in Session : fate'[t] # "delivering"
      BY <1>1, <3>2, <3>3
    <3> QED  BY <3>1, <3>4, <3>5 DEF OnItsWay
  <2>6. \A t \in Session : t > current' => fate'[t] = "unused"
    <3> SUFFICES ASSUME NEW t \in Session, t > current PROVE fate'[t] = "unused"
      BY <1>1
    <3>1. fate[t] = "unused"
      BY DEF FatesFit
    <3>2. t # parked /\ ~(waits /\ t = staged)
      BY <3>1 DEF FatesFit, Waiting
    <3> QED  BY <1>1, <3>1, <3>2
  <2>7. FatesFit'
    BY <1>1, <1>7, <2>5, <2>6 DEF FatesFit, OnItsWay
  <2>8. TranscriptsFit'
    BY <1>2, <2>2, <2>5 DEF TranscriptsFit, OnItsWay
  <2> QED  BY <1>4, <1>6, <2>4, <2>7, <2>8
<1> QED  BY <1>8, <1>9

\* The last result is pasted again only when nothing is on its way.
LEMMA AgainOne ==
    ASSUME WinShape, StatusFits, OneDictation, PasteAgain
    PROVE  OneDictation'
<1> USE DEF OneDictation
<1>1. /\ UNCHANGED <<status, job, cmds, outbox, upds, current, fate, view, opening, board, drawable,
                     capturing, frames, parked, lastSaid, bundle>>
      /\ lastSaid # NoSession /\ staged = NoSession /\ parked = NoSession
      /\ ~opening /\ view \in {"Ready", "Error"}
      /\ (staged' = lastSaid /\ again' = TRUE) \/ UNCHANGED <<staged, again>>
  BY DEF PasteAgain, engineVars, boardVars
<1>2. Coming' = Coming /\ NothingWaits /\ SameTaps
  BY <1>1 DEF Coming, NothingWaits, SameTaps
<1>3. CASE UNCHANGED <<staged, again>>
  <2>1. drawable' \/ capturing' \/ frames' => board # NoSession
    BY <1>1 DEF BoardFits
  <2> QED  BY <1>1, <1>2, <1>3, <2>1, QuietDesk
<1>4. CASE staged' = lastSaid /\ again' = TRUE
  <2>1. ~Busy /\ \A i \in DOMAIN Coming : Coming[i].kind # "TranscriptReady"
    BY <1>1 DEF WorkFits, TranscriptsFit, Working
  <2>2. NobodyOnItsWay
    BY <1>2, <2>1, NobodyLeft
  <2>3. NobodyOnItsWay'
    BY <1>1, <2>2 DEF NobodyOnItsWay, OnItsWay
  <2>4. ~Busy' /\ Capturing' = Capturing /\ ~Capturing /\ ~Decoding' /\ job # "prepare"
    BY <1>1, <2>1 DEF Busy, Capturing, Decoding, Prepared
  <2>5. \A v : Said(v)' <=> Said(v)
    BY <1>1, <1>2, SaidSame
  <2>6. Prepared' /\ TapsFit' /\ WorkFits'
    BY <1>1, <1>2, <2>4, <2>5 DEF Prepared, TapsFit, AboutToOpen, WorkFits, Busy
  <2>7. \A t \in Session : t \notin Waiting'
    BY <1>1, <1>4 DEF Waiting, Session, NoSession
  <2>8. FatesFit'
    BY <1>1, <2>3, <2>4, <2>7 DEF FatesFit, NobodyOnItsWay, OnItsWay
  <2>9. TranscriptsFit'
    BY <1>2, <2>1, <2>3 DEF TranscriptsFit, NobodyOnItsWay, OnItsWay
  <2>10. BoardFits'
    BY <1>1, <1>2, <1>4 DEF BoardFits
  <2> QED  BY <2>6, <2>8, <2>9, <2>10
<1> QED  BY <1>1, <1>3, <1>4

\* Whatever the user and the timer do without overtaking a report, there is one dictation.
LEMMA DeskOne ==
    ASSUME WinShape, StatusFits,
           \/ OpenMenu \/ CloseMenu \/ (\E op \in Commands \cap DictationOps : Tap(op))
           \/ CopySomething
           \/ TakeParked \/ PollTranscript \/ PollStatus \/ PollRecordingStarted
           \/ Draw \/ Captured \/ UndoDrawing \/ PollRestore \/ PollStaged
           \/ CancelFromDesk \/ PasteAgain \/ CopyLast
           \/ RequestQuit \/ EngineStopped \/ SessionEnds
    PROVE  /\ StatusFits'
           /\ ~overtook' => ~overtook
           /\ ~overtook' /\ OneDictation => OneDictation'
<1>1. CASE \/ OpenMenu \/ CloseMenu \/ CopySomething \/ Draw \/ Captured \/ UndoDrawing
           \/ PollRestore \/ CopyLast \/ EngineStopped \/ SessionEnds
  <2>1. UNCHANGED <<engineVars, view, opening, board, parked, staged, again, lastSaid, bundle, overtook>>
    BY <1>1 DEF OpenMenu, CloseMenu, CopySomething, Draw, Captured, UndoDrawing, PollRestore,
                CopyLast, EngineStopped, SessionEnds, pasteVars, boardVars
  <2>2. /\ UNCHANGED <<status, job, cmds, outbox, upds, current, fate>> /\ Coming' = Coming
        /\ SameTaps
    BY <2>1 DEF engineVars, Coming, SameTaps
  <2>3. BoardFits => (drawable' \/ capturing' \/ frames' => board # NoSession)
    BY <1>1 DEF OpenMenu, CloseMenu, CopySomething, Draw, Captured, UndoDrawing, PollRestore,
                CopyLast, EngineStopped, SessionEnds, boardVars, BoardFits
  <2>4. StatusFits'
    BY <2>2 DEF StatusFits
  <2>5. OneDictation => OneDictation'
    BY <2>1, <2>2, <2>3, QuietDesk DEF OneDictation
  <2> QED  BY <2>1, <2>4, <2>5
<1>2. CASE RequestQuit
  <2>1. /\ UNCHANGED <<current, fate, view, opening, board, drawable, capturing, frames, parked, staged, again,
                       lastSaid, bundle, overtook>>
        /\ SendToEngine("Quit")
    BY <1>2 DEF RequestQuit, boardVars, pasteVars, sessions
  <2>2. SameTaps /\ UNCHANGED <<status, job, outbox, upds>> /\ Coming' = Coming
    BY <2>1, SentSame DEF CaptureOps
  <2>3. BoardFits => (drawable' \/ capturing' \/ frames' => board # NoSession)
    BY <2>1 DEF BoardFits
  <2>4. OneDictation => OneDictation'
    BY <2>1, <2>2, <2>3, QuietDesk DEF OneDictation
  <2> QED  BY <2>1, <2>2, <2>4 DEF StatusFits
<1>3. CASE \E op \in Commands \cap DictationOps : Tap(op)
  <2>1. PICK op \in DictationOps : Tap(op)
    BY <1>3
  <2>2. UNCHANGED <<status, job>> /\ overtook' = (overtook \/ ~NothingUnderWay)
    BY <2>1 DEF Tap, SendToEngine
  <2>3. ~overtook' => ~overtook /\ NothingUnderWay
    BY <2>2
  <2> QED  BY <2>1, <2>2, <2>3, TapOne DEF StatusFits
<1>4. CASE TakeParked \/ PollTranscript \/ PollStatus \/ PollRecordingStarted
           \/ PollStaged \/ CancelFromDesk \/ PasteAgain
  <2>1. UNCHANGED <<status, job, overtook>>
    BY <1>4 DEF TakeParked, PollTranscript, PollStatus, PollRecordingStarted, TakeReport,
                PollStaged, CancelFromDesk, PasteAgain, SendToEngine, engineVars
  <2>2. OneDictation => OneDictation'
    BY <1>4, TakeParkedOne, TranscriptOne, StatusOne, StartedOne, StagedOne, CancelDeskOne,
       AgainOne
  <2> QED  BY <2>1, <2>2 DEF StatusFits
<1> QED  BY <1>1, <1>2, <1>3, <1>4

\* Nothing is under way when the program starts, and it starts.
LEMMA InitOne == WinInit => StatusFits /\ OneDictation
<1> SUFFICES ASSUME WinInit PROVE StatusFits /\ OneDictation
  OBVIOUS
<1>1. /\ status = "Starting" /\ job = "prepare" /\ cmds = <<>> /\ view = "Starting"
      /\ outbox = <<StatusReport("Starting")>> /\ upds = <<>> /\ current = 0
      /\ fate = [s \in Session |-> "unused"]
      /\ board = NoSession /\ drawable = FALSE /\ capturing = FALSE /\ frames = FALSE
      /\ parked = NoSession /\ staged = NoSession /\ again = FALSE /\ bundle = NoSession
  BY DEF WinInit, EngineInit
<1>2. Coming = <<StatusReport("Starting")>>
  <2>1. outbox \in Seq(WinUpdate)
    BY <1>1, ReportsTyped DEF Shown, Statuses
  <2> QED  BY <1>1, <2>1, ConcatEmptySeq DEF Coming
<1>3. \A i \in DOMAIN Coming : Coming[i].kind = "Status" /\ Coming[i].status = "Starting"
  BY <1>2, ReportKinds, ReportFields
<1>4. 1 \in DOMAIN Coming
  BY <1>2
<1>5. NothingWaits /\ \A s \in Session : s \notin Waiting
  BY <1>1 DEF NothingWaits, Waiting, Session, NoSession
<1>6. NobodyOnItsWay
  BY <1>1 DEF NobodyOnItsWay, OnItsWay
<1>7. ~Capturing /\ ~Decoding /\ ~Busy
  BY <1>1 DEF Capturing, Decoding, Busy
<1>8. ~Said("Recording")
  BY <1>3, <1>4 DEF Said, LastStatus, NoStatus
<1>9. Prepared /\ TapsFit
  BY <1>1, <1>3, <1>5, <1>6 DEF Prepared, TapsFit
<1>10. WorkFits
  BY <1>1, <1>7, <1>8 DEF WorkFits
<1>11. FatesFit
  BY <1>1, <1>5 DEF FatesFit, OnItsWay, NothingWaits
<1>12. TranscriptsFit /\ BoardFits
  BY <1>1, <1>3 DEF TranscriptsFit, BoardFits
<1> QED  BY <1>1, <1>9, <1>10, <1>11, <1>12 DEF OneDictation, StatusFits

\* There is one dictation at a time until a tap overtakes a report.
LEMMA TapHolds == WinSpec => []TapInv
<1>1. WinInit => TapInv
  BY InitShape, InitOne DEF TapInv
<1>2. TapInv /\ [WinNext]_winVars => TapInv'
  <2> SUFFICES ASSUME TapInv, [WinNext]_winVars PROVE TapInv'
    OBVIOUS
  <2>1. WinShape' /\ WinShape /\ StatusFits
    BY StepTyped DEF TapInv
  <2>2. CASE WinEngine
    BY <2>1, <2>2, EngineOne DEF TapInv
  <2>3. CASE UNCHANGED winVars
    <3>1. /\ UNCHANGED <<status, job, cmds, outbox, upds, current, fate, view, opening, board,
                         parked, staged, again, lastSaid, bundle, drawable, capturing, frames,
                         overtook>>
      BY <2>3 DEF winVars, engineVars, deskVars, boardVars, pasteVars
    <3>2. Coming' = Coming /\ SameTaps
      BY <3>1 DEF Coming, SameTaps
    <3>3. BoardFits => (drawable' \/ capturing' \/ frames' => board # NoSession)
      BY <3>1 DEF BoardFits
    <3>4. OneDictation => OneDictation'
      BY <2>1, <3>1, <3>2, <3>3, QuietDesk DEF OneDictation
    <3>5. StatusFits'
      BY <2>1, <3>1 DEF StatusFits
    <3> QED  BY <2>1, <3>1, <3>4, <3>5 DEF TapInv
  <2>4. CASE WinNext /\ ~WinEngine
    <3>1. /\ StatusFits'
          /\ ~overtook' => ~overtook
          /\ ~overtook' /\ OneDictation => OneDictation'
      BY <2>1, <2>4, DeskOne DEF WinNext
    <3> QED  BY <2>1, <3>1 DEF TapInv
  <2> QED  BY <2>2, <2>3, <2>4
<1> QED  BY <1>1, <1>2, PTL DEF WinSpec

\* Until a tap overtakes a report, a transcript that the window has taken and not delivered is
\* parked or staged, and nothing pushes it out: no report, tap, cancel or repeated paste.
THEOREM HeldUntilDelivered == WinSpec => []TranscriptsHeld
<1>1. TapInv => TranscriptsHeld
  BY DEF TapInv, OneDictation, FatesFit, TranscriptsHeld
<1> QED  BY <1>1, TapHolds, PTL

\* Until a tap overtakes a report, the drawing that is kept with the last text is that text's:
\* the board is of the dictation whose transcript arrives, and a text that was said without
\* drawing, cancelled or pasted again leaves no other one's.
THEOREM DrawingStaysWithWords == WinSpec => []DrawingWithItsWords
<1>1. TapInv => DrawingWithItsWords
  BY DEF TapInv, OneDictation, BoardFits, DrawingWithItsWords
<1> QED  BY <1>1, TapHolds, PTL

\* With no command and no report under way, the program neither quits nor lets the session end
\* with words on their way, unless the menu is open when Windows asks: the window's own status
\* then is that of the engine, and dictation_in_flight sees what waits on the desktop.
THEOREM QuitWaitsForWords == WinSpec => DictationOutlivesQuit
<1>1. TapInv /\ [WinNext]_winVars =>
        [(desk \in {"running", "menu"}) /\ desk' \in {"stopping", "gone"} =>
           \/ desk = "menu" /\ desk' = "gone"
           \/ overtook \/ ~NothingUnderWay
           \/ \A s \in Session : ~OnItsWay(s)]_winVars
  <2> SUFFICES ASSUME TapInv, WinNext, desk \in {"running", "menu"}, desk' \in {"stopping", "gone"},
                      ~(desk = "menu" /\ desk' = "gone"), ~overtook, NothingUnderWay
               PROVE  \A s \in Session : ~OnItsWay(s)
    BY DEF winVars
  <2>1. ~InFlight
    <3>1. CASE WinEngine
      BY <3>1 DEF WinEngine, deskVars
    <3>2. CASE \/ OpenMenu \/ CloseMenu \/ CopySomething \/ Draw \/ Captured \/ UndoDrawing
               \/ PollRestore \/ CopyLast \/ EngineStopped
      BY <3>2 DEF OpenMenu, CloseMenu, CopySomething, Draw, Captured, UndoDrawing, PollRestore,
                  CopyLast, EngineStopped, AtHand
    <3>3. CASE \E op \in Commands \cap DictationOps : Tap(op)
      BY <3>3 DEF Tap, AtHand
    <3>4. CASE TakeParked \/ PollTranscript \/ PollStatus \/ PollRecordingStarted
               \/ PollStaged \/ CancelFromDesk \/ PasteAgain
      BY <3>4 DEF TakeParked, PollTranscript, PollStatus, PollRecordingStarted, TakeReport,
                  PollStaged, CancelFromDesk, PasteAgain, AtHand
    <3>5. CASE RequestQuit \/ SessionEnds
      BY <3>5 DEF RequestQuit, SessionEnds
    <3> QED  BY <3>1, <3>2, <3>3, <3>4, <3>5 DEF WinNext
  <2>2. OneDictation
    BY DEF TapInv
  <2>3. Coming = <<>> /\ DOMAIN Coming = {}
    BY ConcatEmptySeq DEF NothingUnderWay, Coming
  <2>4. \A s \in Session : s \notin Waiting
    BY <2>1 DEF InFlight, Waiting, Session, NoSession
  <2>5. \A v : Said(v) <=> view = v
    BY <2>3 DEF Said, LastStatus, NoStatus
  <2>6. ~Capturing /\ ~Decoding
    BY <2>1, <2>2, <2>5 DEF OneDictation, WorkFits, InFlight
  <2> QED  BY <2>2, <2>3, <2>4, <2>6 DEF OneDictation, FatesFit, TranscriptsFit, OnItsWay
<1> QED  BY <1>1, TapHolds, PTL DEF WinSpec, DictationOutlivesQuit
=============================================================================
