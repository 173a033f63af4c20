---------------------------- MODULE DrawSession ----------------------------
(***************************************************************************)
(* Drawing while dictating (linux/sketch.rs, linux/sketch/frames.rs, and   *)
(* their callers in linux/window.rs and linux.rs): how a drawing made on   *)
(* the overlay gets into the paste of the dictation it was made in.        *)
(*                                                                         *)
(* Three threads take part.  The engine records and decodes.  The loop     *)
(* relays its status and delivers its transcripts, and takes the frames    *)
(* with them.  The window thread reads the status 80 ms later or more,     *)
(* opens and closes the overlay and runs its tick.  They meet in the scope *)
(* FRAMES, which has a mutex.  Screenshots and pin readers are threads of  *)
(* their own.                                                              *)
(***************************************************************************)
EXTENDS Naturals, Sequences, Functions

CONSTANTS
    MaxDictations,     \* bound: dictations started
    MaxMarks,          \* bound: sketches and pins while each dictation is the latest
    MaxBehind,         \* bound: reports and status under way
    MaxDisplayChanges  \* bound: displays added, moved or removed

ASSUME DrawAssumption ==
    /\ {MaxDictations, MaxBehind, MaxDisplayChanges} \subseteq Nat
    /\ MaxMarks \in [1..MaxDictations -> Nat]

VARIABLES
    talk,       \* the engine: its dictation and what it does with it
    reports,    \* from the engine to the loop
    forgotten,  \* the dictation the latest Cancel was for
    completed,  \* transcripts the loop has read and not delivered
    news,       \* from the loop to the window
    shown,      \* the window's recording_started and sketch_recording
    scope,      \* FRAMES: whose drawings are being collected, and those that are ready
    overlay,    \* the overlay's session
    decided,    \* the last recording the overlay decided on
    display,    \* how often the displays have changed, and whether that was seen
    escape,     \* ESCAPE_UNLOCK
    valid,      \* history: the dictation's drawings, neither taken back nor given up
    hasty       \* history: dictations that overlapped, as the window saw them

talkVars == <<talk, reports>>
loopVars == <<forgotten, completed>>
sketchVars == <<overlay, decided, display, escape, valid>>
drawVars == <<talkVars, loopVars, news, shown, scope, sketchVars, hasty>>

Dictation == 1..MaxDictations
Status == {"Recording", "Transcribing", "Ready"}
Transcript == {"words", "silence"}
NoDictation == 0
NoScope == 0
ScopeNumber == Nat

MarkId == Nat \ {0}
Drawing == [scope : ScopeNumber, id : MarkId, of : Dictation]
Mark == [of : Dictation, pin : BOOLEAN, big : BOOLEAN, closed : BOOLEAN, here : BOOLEAN,
         phase : {"drawing", "queued", "capturing", "shot", "failed", "reading", "captured"}]
HasImage == {"reading", "captured"}
Busy == {"queued", "capturing", "shot", "failed"}

\* The marks of a session are numbered as they are made.
IsSession(session) ==
    /\ session \in [scope : ScopeNumber, marks : [DOMAIN session.marks -> Mark], last : Nat,
                   held : {"no", "key", "lock"}, picking : BOOLEAN, finishing : BOOLEAN,
                   invalid : BOOLEAN]
    /\ DOMAIN session.marks \subseteq 1..session.last

NewSession(number) ==
    [scope |-> number, marks |-> [id \in {} |-> 0], last |-> 0, held |-> "no",
     picking |-> FALSE, finishing |-> FALSE, invalid |-> FALSE]
NoOverlay == NewSession(NoScope)

\* Every variable has the values its counterpart has in the code.
DrawTypeOK ==
    /\ talk \in [number : {NoDictation} \cup Dictation, does : {"nothing", "records", "decodes"}]
    /\ reports \in Seq([is : Status \cup Transcript, of : Dictation])
    /\ forgotten \in {NoDictation} \cup Dictation /\ completed \in Seq(Dictation)
    /\ news \in Seq(Status)
    /\ shown \in [started : BOOLEAN, number : ScopeNumber]
    /\ scope \in [number : ScopeNumber, open : BOOLEAN, frames : SUBSET Drawing,
                  removed : SUBSET MarkId]
    /\ IsSession(overlay)
    /\ decided \in ScopeNumber /\ escape \in BOOLEAN
    /\ display \in [changes : 0..MaxDisplayChanges, changed : BOOLEAN]
    /\ valid \subseteq Drawing /\ hasty \subseteq Dictation

DrawInit ==
    /\ talk = [number |-> NoDictation, does |-> "nothing"]
    /\ reports = <<>> /\ completed = <<>> /\ news = <<>> /\ forgotten = NoDictation
    /\ shown = [started |-> FALSE, number |-> NoScope]
    /\ scope = [number |-> NoScope, open |-> FALSE, frames |-> {}, removed |-> {}]
    /\ overlay = NoOverlay /\ decided = NoScope /\ escape = FALSE
    /\ display = [changes |-> 0, changed |-> FALSE]
    /\ valid = {} /\ hasty = {}

-----------------------------------------------------------------------------
(* FRAMES, behind its mutex.                                               *)

\* begin_recording and discard_recording: what belongs to the scope before is gone.
NextScope == [number |-> scope.number + 1, open |-> FALSE, frames |-> {}, removed |-> {}]

Opened(number, open) ==
    IF scope.number = number THEN [scope EXCEPT !.open = open] ELSE scope

Removed(number, ids) ==
    IF scope.number # number THEN scope
    ELSE [scope EXCEPT !.removed = @ \cup ids,
                       !.frames = {f \in @ : f.id \notin ids}]

\* Mutant: images of an earlier session are collected too.
PushedLate(into, number, frames) ==
    [into EXCEPT !.frames = @ \cup {f \in frames : f.id \notin into.removed}]

Pushed(into, number, frames) ==
    IF into.number # number THEN into
    ELSE [into EXCEPT !.frames = @ \cup {f \in frames : f.id \notin into.removed}]

HasFramesOrCaptures == scope.open \/ scope.frames # {}

-----------------------------------------------------------------------------
(* The engine.  A tap that is queued during a decode starts the next       *)
(* dictation before the transcript of the last is delivered, and before    *)
(* the window knows that it has ended.                                     *)

Settled == reports = <<>> /\ completed = <<>> /\ news = <<>>
    /\ (overlay = NoOverlay \/ overlay.finishing)

Reports(kinds) ==
    /\ Len(reports) + Len(news) < MaxBehind
    /\ reports' = reports \o [i \in DOMAIN kinds |-> [is |-> kinds[i], of |-> talk.number]]

StartsTalking ==
    /\ talk.does = "nothing" /\ talk.number < MaxDictations
    /\ talk' = [number |-> talk.number + 1, does |-> "records"]
    /\ Len(reports) + Len(news) < MaxBehind
    /\ reports' = Append(reports, [is |-> "Recording", of |-> talk.number + 1])
    /\ hasty' = IF Settled THEN hasty ELSE hasty \cup ({talk.number, talk.number + 1} \cap Dictation)
    /\ valid' = {}
    /\ UNCHANGED <<loopVars, news, shown, scope, overlay, decided, display, escape>>

StopsTalking ==
    /\ talk.does = "records" /\ talk' = [talk EXCEPT !.does = "decodes"]
    /\ Reports(<<"Transcribing">>)
    /\ UNCHANGED <<loopVars, news, shown, scope, sketchVars, hasty>>

\* Words, silence, or an error.  The Ready that follows tells the window nothing new.
Decodes ==
    /\ talk.does = "decodes" /\ talk' = [talk EXCEPT !.does = "nothing"]
    /\ \E outcome \in {<<"words">>, <<"silence">>, <<>>} : Reports(outcome)
    /\ UNCHANGED <<loopVars, news, shown, scope, sketchVars, hasty>>

-----------------------------------------------------------------------------
(* The loop.                                                               *)

\* A transcript that was cancelled, or is silence without a drawing, takes the
\* drawings with it.  A status goes on to the window.
LoopReads ==
    /\ reports # <<>> /\ reports' = Tail(reports)
    /\ LET report == Head(reports)
           transcript == report.is \in Transcript
           dropped == \/ report.of = forgotten
                      \/ report.is = "silence" /\ ~HasFramesOrCaptures
       IN  /\ news' = IF transcript THEN news ELSE Append(news, report.is)
           /\ scope' = IF transcript /\ dropped THEN NextScope ELSE scope
           /\ completed' = IF transcript /\ ~dropped THEN Append(completed, report.of)
                           ELSE completed
    /\ UNCHANGED <<talk, forgotten, shown, sketchVars, hasty>>

\* Waits up to eight seconds while the overlay captures, then takes what there is.
TakeKeyframes ==
    /\ completed # <<>> /\ completed' = Tail(completed)
    /\ scope' = [scope EXCEPT !.frames = {}]
    /\ UNCHANGED <<talkVars, forgotten, news, shown, sketchVars, hasty>>

\* Cancel.  An engine that records drops the recording.
CancelTalk ==
    /\ completed = <<>> /\ talk.number # NoDictation /\ talk.number # forgotten
    /\ forgotten' = talk.number /\ scope' = NextScope
    /\ IF talk.does = "records"
       THEN talk' = [talk EXCEPT !.does = "nothing"] /\ Reports(<<"Ready">>)
       ELSE UNCHANGED talkVars
    /\ UNCHANGED <<completed, news, shown, sketchVars, hasty>>

\* Esc while the drawing lock is on ends the lock and not the dictation.
PressEscape ==
    /\ talk.does = "records" /\ overlay.held = "lock" /\ ~escape /\ escape' = TRUE
    /\ UNCHANGED <<talkVars, loopVars, news, shown, scope, overlay, decided, display, valid,
                   hasty>>

-----------------------------------------------------------------------------
(* The overlay's session: functions on it, in the order of tick.           *)

Ids(session) == DOMAIN session.marks
Those(session, Holds(_)) == {i \in Ids(session) : Holds(session.marks[i])}
Without(session, ids) == [session EXCEPT !.marks = Restrict(@, DOMAIN @ \ ids)]
InPhase(session, ids, phase) ==
    [session EXCEPT !.marks =
        [i \in DOMAIN @ |-> IF i \in ids THEN [@[i] EXCEPT !.phase = phase] ELSE @[i]]]
Oldest(ids) == {i \in ids : \A j \in ids : i <= j}
Newest(ids) == {i \in ids : \A j \in ids : j <= i}

\* release: the hold is over, its sketches are closed.
Released(session) ==
    [session EXCEPT !.held = "no",
                    !.marks = [i \in DOMAIN @ |-> [@[i] EXCEPT !.closed = TRUE]]]

\* drop_jitter: what was drawn in this hold was no drawing.
OpenInk(session) == Those(session, LAMBDA m : ~m.closed)
WithoutOpenInk(session) == Without(session, OpenInk(session))

\* Mutant: what waits for its screenshot is kept.
InvalidatedDrawn(session) ==
    IF ~display.changed \/ session.invalid THEN session
    ELSE Without([session EXCEPT !.invalid = TRUE, !.held = "no"],
                 Those(session, LAMBDA m : m.phase = "drawing"))

\* invalidate_layout: the displays have changed, only images are valid.
Invalidated(session) ==
    IF ~display.changed \/ session.invalid THEN session
    ELSE Without([session EXCEPT !.invalid = TRUE, !.held = "no"],
                 Those(session, LAMBDA m : m.phase \notin HasImage))

\* toggle_lock
LockToggled(session) ==
    IF session.invalid \/ session.finishing THEN session
    ELSE IF session.held = "lock" THEN Released(session)
    ELSE [(IF session.held = "key" THEN Released(session) ELSE session) EXCEPT !.held = "lock"]

\* poll_keys: what the keyboards say.  Another key, or 15 seconds without movement,
\* ends a hold and drops what it has drawn.
KeysPolled(session, keys) ==
    IF session.invalid \/ session.finishing THEN session
    ELSE CASE keys = "hold" /\ session.held = "no"      -> [session EXCEPT !.held = "key"]
           [] keys = "let_go" /\ session.held = "key"   -> Released(session)
           [] keys = "another" /\ session.held = "key"  -> Released(WithoutOpenInk(session))
           [] keys = "lock"                             -> LockToggled(session)
           [] OTHER                                     -> session

Unlocked(session) ==
    IF escape /\ session.held = "lock" THEN LockToggled(session) ELSE session

KeysAndLayout(keys) == Unlocked(KeysPolled(Invalidated(overlay), keys))

\* Mutant: a failed screenshot is forgotten and its mark is not.
ResultsReadShots(session) ==
    InPhase(session, Those(session, LAMBDA m : m.phase = "shot"), "reading")

\* The screenshots that have arrived; a failed one goes.
ResultsRead(session) ==
    Without(InPhase(session, Those(session, LAMBDA m : m.phase = "shot"), "reading"),
            Those(session, LAMBDA m : m.phase = "failed"))

Finished(session, m) == m.phase = "drawing" /\ (m.closed \/ session.finishing)

\* A hand that rested on the key, and nothing more.
WithoutAccidents(session) ==
    Without(session, Those(session, LAMBDA m : Finished(session, m) /\ ~m.pin /\ ~m.big))

\* finish_frames: an image is handed over when its context has arrived, or is late.
HandsOver(session, arrived) ==
    Those(session, LAMBDA m : m.phase = "reading" /\ (m.pin => arrived))
HandedOver(session, arrived) == InPhase(session, HandsOver(session, arrived), "captured")

\* One screenshot at a time: the first that is ready waits for the frame that shows its ink
\* alone, and is captured when that was presented.
Queued(session, presented) ==
    LET ready == Those(session, LAMBDA m : Finished(session, m))
        queued == Those(session, LAMBDA m : m.phase = "queued")
        busy == Those(session, LAMBDA m : m.phase \in Busy)
    IN  IF ready # {} /\ busy = {} THEN InPhase(session, Oldest(ready), "queued")
        ELSE IF presented THEN InPhase(session, queued, "capturing") ELSE session

SessionOver(session) ==
    /\ session.finishing /\ ~session.picking
    /\ \A i \in Ids(session) : session.marks[i].phase = "captured"

-----------------------------------------------------------------------------
(* The window thread.                                                      *)

Drawn(session, ids) ==
    {[scope |-> session.scope, id |-> i, of |-> session.marks[i].of] : i \in ids}
LostDrawings(session, ids) == {d \in valid : d.scope = session.scope /\ d.id \in ids}

\* A status as the window reads it.  Recording opens a scope, with drawing on or off.
WindowReads ==
    /\ news # <<>> /\ news' = Tail(news)
    /\ LET begins == Head(news) = "Recording" /\ ~shown.started
           ends == Head(news) # "Recording"
       IN  /\ shown' = IF begins THEN [started |-> TRUE, number |-> scope.number + 1]
                       ELSE IF ends THEN [shown EXCEPT !.started = FALSE] ELSE shown
           /\ scope' = IF begins \/ (shown.started /\ Head(news) = "Ready") THEN NextScope
                       ELSE scope
    /\ UNCHANGED <<talkVars, loopVars, sketchVars, hasty>>

\* SketchOverlay::update, once all status is read.
OpenOverlay ==
    /\ news = <<>> /\ shown.started /\ overlay = NoOverlay /\ decided # shown.number
    /\ decided' = shown.number
    /\ \/ overlay' = NewSession(shown.number) /\ scope' = Opened(shown.number, TRUE)
          /\ display' = [display EXCEPT !.changed = FALSE]
       \/ UNCHANGED <<overlay, scope, display>>     \* drawing is off, or has no keyboard
    /\ UNCHANGED <<talkVars, loopVars, news, shown, escape, valid, hasty>>

\* What a handler drops is not delivered, and the user is told or did it.
SessionBecomes(session, session2) ==
    LET gone == Ids(session) \ Ids(session2)
    IN  /\ overlay' = session2
        /\ scope' = Removed(session.scope, gone)
        /\ valid' = valid \ LostDrawings(session, gone)

\* The displays have changed: new windows for the overlay.
ReplaceSurfaces ==
    LET session == Invalidated(overlay)
        fresh == [session EXCEPT !.invalid = FALSE,
                     !.marks = [i \in DOMAIN @ |-> [@[i] EXCEPT !.here = FALSE]]]
    IN  /\ news = <<>> /\ shown.started /\ overlay # NoOverlay /\ session.invalid
        /\ IF session.picking THEN SessionBecomes(overlay, session) /\ UNCHANGED display
           ELSE SessionBecomes(overlay, fresh) /\ display' = [display EXCEPT !.changed = FALSE]
        /\ escape' = FALSE
        /\ UNCHANGED <<talkVars, loopVars, news, shown, decided, hasty>>

CloseOverlay ==
    /\ news = <<>> /\ ~shown.started /\ overlay # NoOverlay /\ ~overlay.finishing
    /\ overlay' = [Released(overlay) EXCEPT !.finishing = TRUE] /\ escape' = FALSE
    /\ UNCHANGED <<talkVars, loopVars, news, shown, scope, decided, display, valid, hasty>>

\* The timer of the session, every 16 ms, with what the keyboards say, whether the frame
\* was presented (or two seconds have passed) and whether the contexts have arrived (or
\* 1.5 seconds have passed).  A session that is over closes its scope.
Tick(keys, presented, arrived) ==
    /\ overlay # NoOverlay
    /\ \E read \in {WithoutAccidents(ResultsRead(KeysAndLayout(keys)))} :
       \E after \in {Queued(HandedOver(read, arrived), presented)} :
          LET gone == Ids(overlay) \ Ids(after)
              images == Drawn(read, HandsOver(read, arrived))
              collected == Pushed(Removed(overlay.scope, gone), overlay.scope, images)
          IN  /\ valid' = valid \ LostDrawings(overlay, gone)
              /\ IF SessionOver(after)
                 THEN /\ overlay' = NoOverlay
                      /\ scope' = IF collected.number = overlay.scope
                                  THEN [collected EXCEPT !.open = FALSE] ELSE collected
                 ELSE overlay' = after /\ scope' = collected
    /\ escape' = FALSE
    /\ UNCHANGED <<talkVars, loopVars, news, shown, decided, display, hasty>>

-----------------------------------------------------------------------------
(* The pointer on the overlay.  A drawing is of the dictation in which it  *)
(* is made, which is what its maker sees recorded.                         *)

Draws == overlay # NoOverlay /\ ~overlay.invalid /\ ~overlay.finishing /\ overlay.held # "no"

NewMark(session, m) ==
    LET gone == Ids(overlay) \ Ids(session)
        new == session.last + 1
        more == [session EXCEPT !.last = new, !.picking = @ \/ m.pin,
                    !.marks = [i \in DOMAIN @ \cup {new} |-> IF i = new THEN m ELSE @[i]]]
    IN  /\ overlay.last < MaxMarks[talk.number]
        /\ overlay' = more
        /\ scope' = Removed(session.scope, gone)
        /\ valid' = (valid \ LostDrawings(session, gone)) \cup Drawn(more, {new})
        /\ UNCHANGED <<talkVars, loopVars, news, shown, decided, display, escape, hasty>>

\* point: movement starts a sketch, or continues the one that is open.
DrawInk ==
    /\ Draws
    /\ IF OpenInk(overlay) # {}
       THEN /\ overlay' = [overlay EXCEPT !.marks =
                  [i \in DOMAIN @ |->
                      IF i \in OpenInk(overlay) THEN [@[i] EXCEPT !.big = TRUE] ELSE @[i]]]
            /\ UNCHANGED <<talkVars, loopVars, news, shown, scope, decided, display, escape,
                           valid, hasty>>
       ELSE \E big \in BOOLEAN :
               NewMark(overlay,
                       [of |-> talk.number, pin |-> FALSE, big |-> big, closed |-> FALSE,
                        here |-> TRUE, phase |-> "drawing"])

\* button and drop_pin: a click under the held key, unless a sketch has been begun.  Ink that
\* was only the hand settling goes.  A reader starts, and looks for the window under the pin.
DropPin ==
    /\ Draws /\ overlay.held = "key" /\ ~overlay.picking
    /\ \A i \in OpenInk(overlay) : ~overlay.marks[i].big
    /\ NewMark(WithoutOpenInk(overlay),
               [of |-> talk.number, pin |-> TRUE, big |-> TRUE, closed |-> TRUE, here |-> TRUE,
                phase |-> "drawing"])

\* undo, while locked: the last stroke of what is not captured yet.
UndoStroke ==
    LET open == Those(overlay, LAMBDA m : m.phase = "drawing")
    IN  /\ overlay.held = "lock" /\ open # {}
        /\ SessionBecomes(overlay, Without(overlay, Newest(open)))
        /\ UNCHANGED <<talkVars, loopVars, news, shown, decided, display, escape, hasty>>

\* undo_last, from the menu, the pill or the command line: the last one, captured or not.
UndoLast ==
    /\ ~overlay.finishing /\ Ids(overlay) # {}
    /\ SessionBecomes(overlay, Without(overlay, Newest(Ids(overlay))))
    /\ UNCHANGED <<talkVars, loopVars, news, shown, decided, display, escape, hasty>>

\* koett draw-lock
ToggleLock ==
    /\ shown.started /\ overlay # NoOverlay /\ ~overlay.finishing /\ ~overlay.invalid
    /\ overlay' = LockToggled(overlay) /\ escape' = FALSE
    /\ UNCHANGED <<talkVars, loopVars, news, shown, scope, decided, display, valid, hasty>>

-----------------------------------------------------------------------------
(* The screenshots, the readers and the displays.                          *)

CaptureEnds ==
    /\ \E i \in Ids(overlay), result \in {"shot", "failed"} :
          /\ overlay.marks[i].phase = "capturing"
          /\ overlay' = InPhase(overlay, {i}, result)
    /\ UNCHANGED <<talkVars, loopVars, news, shown, scope, decided, display, escape, valid,
                   hasty>>

\* The reader has the window, or none; FinishGate frees the gate on every path.
PickEnds ==
    /\ overlay.picking /\ overlay' = [overlay EXCEPT !.picking = FALSE]
    /\ UNCHANGED <<talkVars, loopVars, news, shown, scope, decided, display, escape, valid,
                   hasty>>

DisplayChanges ==
    /\ display.changes < MaxDisplayChanges
    /\ overlay # NoOverlay /\ ~display.changed
    /\ display' = [changes |-> display.changes + 1, changed |-> TRUE]
    /\ UNCHANGED <<talkVars, loopVars, news, shown, scope, overlay, decided, escape, valid, hasty>>

-----------------------------------------------------------------------------
\* The inputs of a tick, where they make a difference.
KeysSaid ==
    CASE overlay.finishing \/ overlay.invalid -> {"same"}
      [] overlay.held = "no"                -> {"same", "hold", "lock"}
      [] overlay.held = "key"               -> {"same", "let_go", "another", "lock"}
      [] OTHER                            -> {"same", "lock"}
Some(session, Holds(_)) == {FALSE} \cup {TRUE : i \in Those(session, Holds)}
Presented == Some(overlay, LAMBDA m : m.phase = "queued")
Arrived == Some(overlay, LAMBDA m : m.pin /\ m.phase \in {"shot", "reading"})

DrawNext ==
    \/ StartsTalking \/ StopsTalking \/ Decodes
    \/ LoopReads \/ TakeKeyframes \/ CancelTalk \/ PressEscape
    \/ WindowReads \/ OpenOverlay \/ ReplaceSurfaces \/ CloseOverlay
    \/ \E keys \in KeysSaid, presented \in Presented, arrived \in Arrived :
          Tick(keys, presented, arrived)
    \/ DrawInk \/ DropPin \/ UndoStroke \/ UndoLast \/ ToggleLock
    \/ CaptureEnds \/ PickEnds \/ DisplayChanges

\* Loop, window and timers run; a frame, a screenshot and a reader take bounded time.
DrawFairness ==
    /\ WF_drawVars(LoopReads) /\ WF_drawVars(WindowReads)
    /\ WF_drawVars(CloseOverlay) /\ WF_drawVars(Tick("same", TRUE, TRUE))
    /\ WF_drawVars(CaptureEnds) /\ WF_drawVars(PickEnds)

DrawSpec == DrawInit /\ [][DrawNext]_drawVars /\ DrawFairness

-----------------------------------------------------------------------------
\* What is pasted with a dictation are the drawings made in it: none of another one,
\* cancelled, failed or finished late, none that was undone, and all others unless the
\* loop has given up waiting.  Excepted are dictations that overlap before the window has
\* seen the end of the first, and one it has not yet seen begin.
DrawingsWithTheirWords ==
    [][Len(completed') < Len(completed) =>
          LET mine == {d \in valid : d.of = Head(completed)}
          IN  Head(completed) \notin hasty /\ "Recording" \notin Range(news) =>
                 /\ scope.frames \subseteq mine
                 /\ ~scope.open => scope.frames = mine]_drawVars

\* A mark that still has to be painted or captured is on a display that exists; its
\* number is an index into the overlay's surfaces.
MarksOnDisplays ==
    \A i \in Ids(overlay) : overlay.marks[i].phase \notin HasImage => overlay.marks[i].here

\* When the recording is over, by Stop, Cancel or an error, the overlay goes and lets the
\* paste go on, whatever was being drawn, captured or read.
OverlayGoes ==
    talk.does # "records" ~> talk.does = "records" \/ (overlay = NoOverlay /\ ~scope.open)
=============================================================================
