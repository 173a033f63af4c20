------------------------- MODULE DrawSessionProofs -------------------------
(***************************************************************************)
(* Proofs about DrawSession, for any number of dictations, marks, reports  *)
(* under way and changes of the displays: a drawing is pasted with the     *)
(* words of the dictation it was made in and with no others, and no mark   *)
(* that still needs the screen is on a display that is gone.               *)
(***************************************************************************)
EXTENDS DrawSession, SequenceTheorems, TLAPS

-----------------------------------------------------------------------------
(* What must hold along with DrawingsWithTheirWords and MarksOnDisplays.   *)

Shows == \E i \in DOMAIN reports : reports[i].is \in Status

\* Once the engine has stopped recording, a status that says so is on its way, or was read.
EndsAnnounced ==
    talk.does # "records" =>
        /\ \A i \in DOMAIN reports : reports[i].is = "Recording" =>
              \E j \in DOMAIN reports : i < j /\ reports[j].is \in Status
        /\ \A i \in DOMAIN news : news[i] = "Recording" => i < Len(news) \/ Shows
        /\ shown.started => news # <<>> \/ Shows

\* The reports with the transcript of the dictation that is the latest.
Words == {i \in DOMAIN reports : reports[i].is \in Transcript /\ reports[i].of = talk.number}
Waiting == {i \in DOMAIN completed : completed[i] = talk.number}

\* A dictation has one transcript; it has overlapped with the next if that came first.
OneTranscript ==
    /\ forgotten <= talk.number
    /\ \A i \in DOMAIN reports : reports[i].of <= talk.number
    /\ \A i \in DOMAIN reports :
          reports[i].is \in Transcript => reports[i].of \in hasty \cup {talk.number}
    /\ \A i \in DOMAIN completed :
          completed[i] <= talk.number /\ completed[i] \in hasty \cup {talk.number}
    /\ talk.does # "nothing" => Words = {} /\ Waiting = {}
    /\ \A i, j \in Words : i = j
    /\ \A i, j \in Waiting : i = j
    /\ Words = {} \/ Waiting = {}
    /\ Waiting # {} => forgotten # talk.number

\* Nothing happens before the first dictation, and what is drawn is of the latest.
OfTheLatest ==
    /\ talk.number = NoDictation =>
          /\ talk.does = "nothing" /\ reports = <<>> /\ completed = <<>> /\ news = <<>>
          /\ ~shown.started /\ overlay = NoOverlay
    /\ \A d \in valid : d.of = talk.number

\* Scopes are numbered in the order in which they begin.
ScopesGrow ==
    /\ overlay.scope <= scope.number /\ shown.number <= scope.number
    /\ decided <= scope.number

\* The displays: once they have changed, only images are left.
OnlyImages(session) ==
    /\ session.invalid => \A i \in Ids(session) : session.marks[i].phase \in HasImage
    /\ \A i \in Ids(session) : session.marks[i].phase \notin HasImage => session.marks[i].here
    /\ session.finishing => session.held = "no"

Closing == overlay = NoOverlay \/ overlay.finishing

\* The latest dictation, if it does not overlap with another, while its transcript may come.
Awaited ==
    /\ talk.number \notin hasty /\ forgotten # talk.number
    /\ talk.does # "nothing" \/ Words # {} \/ Waiting # {}

Unseen ==
    \/ \E i \in DOMAIN reports : reports[i].is = "Recording"
    \/ \E i \in DOMAIN news : news[i] = "Recording"

\* Its reports are its own, in order.
OwnReports ==
    Awaited =>
        /\ \A i \in DOMAIN reports :
              /\ reports[i].is # "Ready"
              /\ reports[i].is = "Recording" => i = 1 /\ news = <<>> /\ completed = <<>>
              /\ reports[i].is \in Transcript => reports[i].of = talk.number
        /\ \A i \in DOMAIN news : news[i] # "Ready" /\ (news[i] = "Recording" => i = 1)
        /\ \A i \in DOMAIN completed : completed[i] = talk.number

Captured(session) == Those(session, LAMBDA m : m.phase = "captured")

\* Before the window knows of it, nothing is drawn.
NotBegun == Awaited /\ Unseen => ~shown.started /\ Closing /\ valid = {}

\* While its overlay is there, each drawing is a mark of it, and each captured one is collected.
Collecting ==
    /\ decided = shown.number /\ scope.open
    /\ valid = Drawn(overlay, Ids(overlay))
    /\ scope.frames = Drawn(overlay, Captured(overlay))
    /\ scope.removed \subseteq 1..overlay.last \ Ids(overlay)

\* Before and after, all there is has been collected.
Collected ==
    /\ Closing /\ ~scope.open /\ scope.frames = valid
    /\ \A d \in valid : d.scope = scope.number
    /\ decided = shown.number \/ (valid = {} /\ scope.removed = {})

ScopeFits ==
    Awaited /\ ~Unseen =>
        /\ scope.number = shown.number /\ shown.number # NoScope
        /\ IF overlay.scope = scope.number THEN Collecting ELSE Collected

\* The inductive invariant behind the theorems.
DrawInv ==
    /\ DrawTypeOK /\ EndsAnnounced /\ OneTranscript /\ OfTheLatest /\ ScopesGrow
    /\ OnlyImages(overlay) /\ OwnReports /\ NotBegun /\ ScopeFits

-----------------------------------------------------------------------------
(* The functions on a session.                                             *)

Fields(s, t) ==
    /\ t.scope = s.scope /\ t.last = s.last /\ t.finishing = s.finishing
    /\ t.picking = s.picking

\* What a handler may do to a session: drop marks, and let others go on.
Keeps(s, t) ==
    /\ IsSession(t) /\ Fields(s, t)
    /\ Ids(t) \subseteq Ids(s)
    /\ \A i \in Ids(t) :
          /\ t.marks[i].of = s.marks[i].of
          /\ t.marks[i].phase = "captured" <=> s.marks[i].phase = "captured"
    /\ OnlyImages(s) => OnlyImages(t)

\* New marks for a session, and nothing else.
LEMMA NewMarks ==
    ASSUME NEW s, IsSession(s), NEW f, f \in [DOMAIN f -> Mark], DOMAIN f \subseteq 1..s.last,
           NEW t, t = [s EXCEPT !.marks = f]
    PROVE  /\ IsSession(t) /\ Fields(s, t) /\ t.marks = f
           /\ t.held = s.held /\ t.invalid = s.invalid
  BY DEF IsSession, Fields

\* A hold or its end.
LEMMA NewHold ==
    ASSUME NEW s, IsSession(s), NEW held \in {"no", "key", "lock"}, NEW t,
           t = [s EXCEPT !.held = held]
    PROVE  /\ IsSession(t) /\ Fields(s, t) /\ t.marks = s.marks
           /\ t.held = held /\ t.invalid = s.invalid
  BY DEF IsSession, Fields

\* The displays have changed, or there are new windows for them.
LEMMA NewInvalid ==
    ASSUME NEW s, IsSession(s), NEW invalid \in BOOLEAN, NEW t,
           t = [s EXCEPT !.invalid = invalid]
    PROVE  /\ IsSession(t) /\ Fields(s, t) /\ t.marks = s.marks
           /\ t.held = s.held /\ t.invalid = invalid
  BY DEF IsSession, Fields

\* A session without some of its marks.
LEMMA Dropped ==
    ASSUME NEW s, IsSession(s), NEW ids, NEW t, t = Without(s, ids)
    PROVE  /\ IsSession(t) /\ Fields(s, t) /\ t.held = s.held /\ t.invalid = s.invalid
           /\ Ids(t) = Ids(s) \ ids
           /\ \A i \in Ids(t) : t.marks[i] = s.marks[i]
<1> DEFINE f == Restrict(s.marks, DOMAIN s.marks \ ids)
<1>1. t = [s EXCEPT !.marks = f]
  BY DEF Without, IsSession
<1>2. s.marks \in [DOMAIN s.marks -> Mark] /\ DOMAIN s.marks \subseteq 1..s.last
  BY DEF IsSession
<1>3. /\ DOMAIN f = DOMAIN s.marks \ ids /\ f \in [DOMAIN f -> Mark]
      /\ \A i \in DOMAIN f : f[i] = s.marks[i]
  BY <1>2 DEF Restrict
<1>4. DOMAIN f \subseteq 1..s.last
  BY <1>2, <1>3
<1> HIDE DEF f
<1>5. QED
  BY <1>1, <1>3, <1>4, NewMarks DEF Ids

\* A session in which some of its marks have got on.
LEMMA Phased ==
    ASSUME NEW s, IsSession(s), NEW ids, NEW t,
           NEW phase \in {"drawing", "queued", "capturing", "shot", "failed", "reading",
                          "captured"},
           t = InPhase(s, ids, phase)
    PROVE  /\ IsSession(t) /\ Fields(s, t) /\ t.held = s.held /\ t.invalid = s.invalid
           /\ Ids(t) = Ids(s)
           /\ \A i \in Ids(t) : /\ t.marks[i].of = s.marks[i].of
                                /\ t.marks[i].pin = s.marks[i].pin
                                /\ t.marks[i].here = s.marks[i].here
                                /\ i \in ids => t.marks[i].phase = phase
                                /\ i \notin ids => t.marks[i] = s.marks[i]
<1> DEFINE g(i) == [s.marks[i] EXCEPT !.phase = phase]
           f == [i \in DOMAIN s.marks |-> IF i \in ids THEN g(i) ELSE s.marks[i]]
<1>1. t = [s EXCEPT !.marks = f]
  BY DEF InPhase, IsSession
<1>2. s.marks \in [DOMAIN s.marks -> Mark] /\ DOMAIN s.marks \subseteq 1..s.last
  BY DEF IsSession
<1>3. \A i \in DOMAIN s.marks :
         /\ g(i) \in Mark /\ g(i).of = s.marks[i].of /\ g(i).pin = s.marks[i].pin
         /\ g(i).here = s.marks[i].here /\ g(i).phase = phase
  BY <1>2 DEF Mark
<1> HIDE DEF g
<1>4. /\ DOMAIN f = DOMAIN s.marks /\ f \in [DOMAIN f -> Mark]
      /\ \A i \in DOMAIN f : f[i] = IF i \in ids THEN g(i) ELSE s.marks[i]
  BY <1>2, <1>3
<1> HIDE DEF f
<1>5. /\ IsSession(t) /\ Fields(s, t) /\ t.marks = f
      /\ t.held = s.held /\ t.invalid = s.invalid
  BY <1>1, <1>2, <1>4, NewMarks
<1>6. QED
  BY <1>3, <1>4, <1>5 DEF Ids

LEMMA KeepsSelf ==
    ASSUME NEW s, IsSession(s)
    PROVE  Keeps(s, s)
  BY DEF Keeps, Fields

LEMMA KeepsOn ==
    ASSUME NEW s, NEW t, NEW u, Keeps(s, t), Keeps(t, u)
    PROVE  Keeps(s, u)
  BY DEF Keeps, Fields, Ids

LEMMA DroppedKeeps ==
    ASSUME NEW s, IsSession(s), NEW ids, NEW t, t = Without(s, ids)
    PROVE  Keeps(s, t)
<1>1. /\ IsSession(t) /\ Fields(s, t) /\ t.held = s.held /\ t.invalid = s.invalid
      /\ Ids(t) \subseteq Ids(s)
      /\ \A i \in Ids(t) : t.marks[i] = s.marks[i]
  BY Dropped
<1>2. QED
  BY <1>1 DEF Keeps, OnlyImages, Fields

\* The hold ends, and every sketch is closed.
LEMMA ReleasedKeeps ==
    ASSUME NEW s, IsSession(s), NEW t, t = Released(s)
    PROVE  Keeps(s, t) /\ t.held = "no" /\ t.invalid = s.invalid /\ Ids(t) = Ids(s)
<1> DEFINE g(i) == [s.marks[i] EXCEPT !.closed = TRUE]
           f == [i \in DOMAIN s.marks |-> g(i)]
           u == [s EXCEPT !.held = "no"]
<1>1. t = [u EXCEPT !.marks = f]
  BY DEF Released, IsSession
<1>2. s.marks \in [DOMAIN s.marks -> Mark] /\ DOMAIN s.marks \subseteq 1..s.last
  BY DEF IsSession
<1>3. \A i \in DOMAIN s.marks :
         /\ g(i) \in Mark /\ g(i).of = s.marks[i].of
         /\ g(i).here = s.marks[i].here /\ g(i).phase = s.marks[i].phase
  BY <1>2 DEF Mark
<1> HIDE DEF g
<1>4. /\ DOMAIN f = DOMAIN s.marks /\ f \in [DOMAIN f -> Mark]
      /\ \A i \in DOMAIN f : f[i] = g(i)
  BY <1>2, <1>3
<1> HIDE DEF f
<1>5. /\ IsSession(u) /\ Fields(s, u) /\ u.marks = s.marks
      /\ u.held = "no" /\ u.invalid = s.invalid
  BY NewHold
<1> HIDE DEF u
<1>6. /\ IsSession(t) /\ Fields(u, t) /\ t.marks = f
      /\ t.held = u.held /\ t.invalid = u.invalid
  BY <1>1, <1>2, <1>4, <1>5, NewMarks DEF Fields
<1>7. QED
  BY <1>3, <1>4, <1>5, <1>6 DEF Ids, Keeps, OnlyImages, Fields

\* The displays have changed: what has no image goes.
LEMMA InvalidatedKeeps ==
    ASSUME NEW s, IsSession(s), NEW t, t = Invalidated(s)
    PROVE  /\ Keeps(s, t)
           /\ s.invalid => t.invalid
           /\ t.invalid /\ OnlyImages(s) =>
                 \A i \in Ids(t) : t.marks[i].phase \in HasImage
<1>1. CASE ~display.changed \/ s.invalid
  BY <1>1, KeepsSelf DEF Invalidated, OnlyImages
<1>2. CASE ~(~display.changed \/ s.invalid)
  <2> DEFINE v == [s EXCEPT !.invalid = TRUE]
             u == [v EXCEPT !.held = "no"]
             w == [s EXCEPT !.invalid = TRUE, !.held = "no"]
             ids == Those(s, LAMBDA m : m.phase \notin HasImage)
  <2>1. IsSession(v) /\ Fields(s, v) /\ v.marks = s.marks /\ v.invalid = TRUE
    BY NewInvalid
  <2>2. w = u
    BY DEF IsSession
  <2>3. IsSession(u) /\ Fields(v, u) /\ u.marks = v.marks /\ u.invalid = v.invalid /\ u.held = "no"
    <3> HIDE DEF v
    <3>1. QED
      BY <2>1, NewHold
  <2>4. t = Without(w, ids)
    BY <1>2 DEF Invalidated
  <2>5. ids = {i \in Ids(s) : s.marks[i].phase \notin HasImage}
    BY DEF Those
  <2> HIDE DEF u, v, w, ids
  <2>6. /\ IsSession(t) /\ Fields(u, t) /\ t.held = u.held /\ t.invalid = u.invalid
        /\ Ids(t) = Ids(u) \ ids
        /\ \A i \in Ids(t) : t.marks[i] = u.marks[i]
    BY <2>2, <2>3, <2>4, Dropped
  <2>7. Ids(u) = Ids(s) /\ u.marks = s.marks
    BY <2>1, <2>3 DEF Ids
  <2>8. /\ t.invalid = TRUE /\ t.held = "no" /\ Fields(s, t) /\ Ids(t) \subseteq Ids(s)
        /\ \A i \in Ids(t) : t.marks[i] = s.marks[i] /\ t.marks[i].phase \in HasImage
    BY <2>1, <2>3, <2>5, <2>6, <2>7 DEF Fields
  <2>9. QED
    BY <2>6, <2>8 DEF Keeps, OnlyImages
<1>3. QED
  BY <1>1, <1>2

LEMMA LockToggledKeeps ==
    ASSUME NEW s, IsSession(s), NEW t, t = LockToggled(s)
    PROVE  Keeps(s, t) /\ t.invalid = s.invalid /\ Ids(t) = Ids(s)
<1>1. CASE s.invalid \/ s.finishing
  BY <1>1, KeepsSelf DEF LockToggled
<1>2. CASE ~(s.invalid \/ s.finishing) /\ s.held = "lock"
  BY <1>2, ReleasedKeeps DEF LockToggled
<1>3. CASE ~(s.invalid \/ s.finishing) /\ s.held # "lock"
  <2>1. PICK u : u = IF s.held = "key" THEN Released(s) ELSE s
    OBVIOUS
  <2>2. t = [u EXCEPT !.held = "lock"]
    BY <1>3, <2>1 DEF LockToggled
  <2>3. Keeps(s, u) /\ u.invalid = s.invalid /\ Ids(u) = Ids(s)
    BY <2>1, KeepsSelf, ReleasedKeeps
  <2>4. IsSession(t) /\ Fields(u, t) /\ t.marks = u.marks /\ t.invalid = u.invalid
    BY <2>2, <2>3, NewHold DEF Keeps
  <2>5. QED
    BY <1>3, <2>3, <2>4 DEF Keeps, OnlyImages, Fields, Ids
<1>4. QED
  BY <1>1, <1>2, <1>3

LEMMA KeysPolledKeeps ==
    ASSUME NEW s, IsSession(s), NEW keys, NEW t, t = KeysPolled(s, keys)
    PROVE  Keeps(s, t) /\ t.invalid = s.invalid
<1>1. CASE s.invalid \/ s.finishing \/ t = s
  BY <1>1, KeepsSelf DEF KeysPolled
<1>2. CASE ~(s.invalid \/ s.finishing) /\ t = [s EXCEPT !.held = "key"]
  <2>1. IsSession(t) /\ Fields(s, t) /\ t.marks = s.marks /\ t.invalid = s.invalid
    BY <1>2, NewHold
  <2>2. QED
    BY <1>2, <2>1 DEF Keeps, OnlyImages, Fields, Ids
<1>3. CASE t = Released(s)
  BY <1>3, ReleasedKeeps
<1>4. CASE t = Released(WithoutOpenInk(s))
  <2>1. PICK u : u = WithoutOpenInk(s)
    OBVIOUS
  <2>2. Keeps(s, u) /\ u.invalid = s.invalid
    BY <2>1, Dropped, DroppedKeeps DEF WithoutOpenInk
  <2>3. Keeps(u, t) /\ t.invalid = u.invalid
    BY <1>4, <2>1, <2>2, ReleasedKeeps DEF Keeps
  <2>4. QED
    BY <2>2, <2>3, KeepsOn
<1>5. CASE t = LockToggled(s)
  BY <1>5, LockToggledKeeps
<1>6. QED
  BY <1>1, <1>2, <1>3, <1>4, <1>5 DEF KeysPolled

\* What a tick makes of the session before it looks at the captures.
LEMMA KeysAndLayoutKeeps ==
    ASSUME DrawTypeOK, NEW keys, NEW t, t = KeysAndLayout(keys)
    PROVE  Keeps(overlay, t)
<1>1. IsSession(overlay)
  BY DEF DrawTypeOK
<1>2. PICK u : u = Invalidated(overlay)
  OBVIOUS
<1>3. PICK v : v = KeysPolled(u, keys)
  OBVIOUS
<1>4. Keeps(overlay, u)
  BY <1>1, <1>2, InvalidatedKeeps
<1>5. Keeps(u, v)
  BY <1>3, <1>4, KeysPolledKeeps DEF Keeps
<1>6. Keeps(v, t)
  <2>1. t = Unlocked(v)
    BY <1>2, <1>3 DEF KeysAndLayout
  <2>2. t = LockToggled(v) \/ t = v
    BY <2>1 DEF Unlocked
  <2>3. QED
    BY <1>5, <2>2, LockToggledKeeps, KeepsSelf DEF Keeps
<1>7. QED
  BY <1>4, <1>5, <1>6, KeepsOn

\* The screenshots that have arrived.
LEMMA ResultsReadKeeps ==
    ASSUME NEW s, IsSession(s), NEW t, t = ResultsRead(s)
    PROVE  Keeps(s, t)
<1> DEFINE shots == Those(s, LAMBDA m : m.phase = "shot")
<1>1. PICK ids : ids = shots
  OBVIOUS
<1>2. PICK u : u = InPhase(s, ids, "reading")
  OBVIOUS
<1>3. ids = {i \in Ids(s) : s.marks[i].phase = "shot"}
  BY <1>1 DEF Those
<1>4. /\ IsSession(u) /\ Fields(s, u) /\ u.held = s.held /\ u.invalid = s.invalid
      /\ Ids(u) = Ids(s)
      /\ \A i \in Ids(u) : /\ u.marks[i].of = s.marks[i].of
                           /\ u.marks[i].here = s.marks[i].here
                           /\ i \in ids => u.marks[i].phase = "reading"
                           /\ i \notin ids => u.marks[i] = s.marks[i]
  BY <1>2, Phased
<1>5. Keeps(s, u)
  BY <1>3, <1>4 DEF Keeps, OnlyImages, HasImage, Fields
<1>6. Keeps(u, t)
  BY <1>1, <1>2, <1>4, DroppedKeeps DEF ResultsRead
<1>7. QED
  BY <1>5, <1>6, KeepsOn

\* What a tick knows when it hands over the images.
Read(keys) == WithoutAccidents(ResultsRead(KeysAndLayout(keys)))
LEMMA ReadKeeps ==
    ASSUME DrawTypeOK, NEW keys, NEW t, t = Read(keys)
    PROVE  Keeps(overlay, t)
<1>1. PICK u : u = KeysAndLayout(keys)
  OBVIOUS
<1>2. PICK v : v = ResultsRead(u)
  OBVIOUS
<1>3. Keeps(overlay, u)
  BY <1>1, KeysAndLayoutKeeps
<1>4. Keeps(u, v)
  BY <1>2, <1>3, ResultsReadKeeps DEF Keeps
<1>5. Keeps(v, t)
  <2>1. t = WithoutAccidents(v)
    BY <1>1, <1>2 DEF Read
  <2>2. QED
    BY <1>4, <2>1, DroppedKeeps DEF Keeps, WithoutAccidents
<1>6. QED
  BY <1>3, <1>4, <1>5, KeepsOn

\* The images that are handed over are of marks that are there, and become the captured ones.
LEMMA HandedOverFits ==
    ASSUME NEW s, IsSession(s), NEW arrived, NEW t, t = HandedOver(s, arrived)
    PROVE  /\ IsSession(t) /\ Fields(s, t) /\ Ids(t) = Ids(s)
           /\ \A i \in Ids(t) : t.marks[i].of = s.marks[i].of
           /\ Captured(t) = Captured(s) \cup HandsOver(s, arrived)
           /\ HandsOver(s, arrived) \subseteq Ids(s)
           /\ OnlyImages(s) => OnlyImages(t)
<1>1. PICK ids : ids = HandsOver(s, arrived)
  OBVIOUS
<1>2. /\ ids \subseteq Ids(s)
      /\ \A i \in ids : s.marks[i].phase = "reading"
  BY <1>1 DEF HandsOver, Those
<1>3. /\ IsSession(t) /\ Fields(s, t) /\ t.held = s.held /\ t.invalid = s.invalid
      /\ Ids(t) = Ids(s)
      /\ \A i \in Ids(t) : /\ t.marks[i].of = s.marks[i].of
                           /\ t.marks[i].here = s.marks[i].here
                           /\ i \in ids => t.marks[i].phase = "captured"
                           /\ i \notin ids => t.marks[i] = s.marks[i]
  BY <1>1, Phased DEF HandedOver
<1>4. Captured(t) = Captured(s) \cup ids
  BY <1>2, <1>3 DEF Captured, Those
<1>5. OnlyImages(s) => OnlyImages(t)
  BY <1>2, <1>3 DEF OnlyImages, HasImage, Fields
<1>6. QED
  BY <1>1, <1>2, <1>3, <1>4, <1>5

\* The next screenshot is asked for.
LEMMA QueuedKeeps ==
    ASSUME NEW s, IsSession(s), NEW presented, NEW t, t = Queued(s, presented)
    PROVE  Keeps(s, t) /\ Ids(t) = Ids(s)
<1> DEFINE ready == Those(s, LAMBDA m : Finished(s, m))
           queued == Those(s, LAMBDA m : m.phase = "queued")
<1>1. PICK R, Q : R = Oldest(ready) /\ Q = queued
  OBVIOUS
<1>2. \A i \in R : i \in Ids(s) /\ s.marks[i].phase = "drawing"
  BY <1>1 DEF Those, Finished, Oldest
<1>3. \A i \in Q : i \in Ids(s) /\ s.marks[i].phase = "queued"
  BY <1>1 DEF Those
<1>4. t = InPhase(s, R, "queued") \/ t = InPhase(s, Q, "capturing") \/ t = s
  BY <1>1 DEF Queued
<1>5. ASSUME NEW ids, NEW phase \in {"queued", "capturing"}, t = InPhase(s, ids, phase),
             \A i \in ids : i \in Ids(s) /\ s.marks[i].phase \in {"drawing", "queued"}
      PROVE  Keeps(s, t) /\ Ids(t) = Ids(s)
  <2>1. /\ IsSession(t) /\ Fields(s, t) /\ t.held = s.held /\ t.invalid = s.invalid
        /\ Ids(t) = Ids(s)
        /\ \A i \in Ids(t) : /\ t.marks[i].of = s.marks[i].of
                             /\ t.marks[i].here = s.marks[i].here
                             /\ i \in ids => t.marks[i].phase = phase
                             /\ i \notin ids => t.marks[i] = s.marks[i]
    BY <1>5, Phased
  <2>2. QED
    BY <1>5, <2>1 DEF Keeps, OnlyImages, HasImage, Fields
<1>6. QED
  BY <1>2, <1>3, <1>4, <1>5, KeepsSelf

-----------------------------------------------------------------------------
(* Engine and loop.                                                        *)

Report == [is : Status \cup Transcript, of : Dictation]

LEMMA Appended ==
    ASSUME NEW S, NEW s \in Seq(S), NEW e \in S
    PROVE  /\ Append(s, e) \in Seq(S) /\ Append(s, e) # <<>> /\ Len(s) \in Nat
           /\ DOMAIN s = 1..Len(s) /\ DOMAIN Append(s, e) = 1..Len(s) + 1
           /\ Len(Append(s, e)) = Len(s) + 1
           /\ \A i \in 1..Len(s) : Append(s, e)[i] = s[i]
           /\ Append(s, e)[Len(s) + 1] = e
OBVIOUS

LEMMA Tailed ==
    ASSUME NEW S, NEW s \in Seq(S), s # <<>>
    PROVE  /\ Tail(s) \in Seq(S) /\ Head(s) = s[1] /\ s[1] \in S
           /\ Len(s) \in Nat \ {0} /\ Len(Tail(s)) = Len(s) - 1
           /\ DOMAIN s = 1..Len(s) /\ DOMAIN Tail(s) = 1..Len(s) - 1
           /\ \A i \in 1..Len(s) - 1 : Tail(s)[i] = s[i + 1]
           /\ (Tail(s) = <<>>) <=> (Len(s) = 1)
<1>1. Len(s) \in Nat \ {0} /\ Tail(s) \in Seq(S)
  OBVIOUS
<1>2. Len(Tail(s)) = Len(s) - 1
  OBVIOUS
<1>3. \A i \in 1..Len(s) - 1 : Tail(s)[i] = s[i + 1]
  BY <1>1
<1>4. Head(s) = s[1] /\ s[1] \in S
  BY <1>1
<1>5. DOMAIN s = 1..Len(s) /\ DOMAIN Tail(s) = 1..Len(s) - 1
  BY <1>1, <1>2
<1>6. (Tail(s) = <<>>) <=> (Len(s) = 1)
  <2> DEFINE t == Tail(s)
  <2>1. t \in Seq(S) /\ Len(t) = Len(s) - 1
    BY <1>1, <1>2
  <2> HIDE DEF t
  <2>2. (t = <<>>) <=> (Len(t) = 0)
    BY <2>1, EmptySeq
  <2>3. QED
    BY <1>1, <2>1, <2>2 DEF t
<1>7. QED
  BY <1>1, <1>2, <1>3, <1>4, <1>5, <1>6

\* One report goes out.
LEMMA OneReport ==
    ASSUME DrawTypeOK, OfTheLatest, talk.does # "nothing",
           NEW kind \in Status \cup Transcript, Reports(<<kind>>)
    PROVE  /\ [is |-> kind, of |-> talk.number] \in Report
           /\ reports' = Append(reports, [is |-> kind, of |-> talk.number])
<1>1. talk.number \in Dictation /\ reports \in Seq(Report)
  BY DEF DrawTypeOK, OfTheLatest, Report
<1>2. [i \in DOMAIN <<kind>> |-> [is |-> <<kind>>[i], of |-> talk.number]]
         = <<[is |-> kind, of |-> talk.number]>>
  OBVIOUS
<1>3. reports' = reports \o <<[is |-> kind, of |-> talk.number]>>
  BY <1>2 DEF Reports
<1>4. QED
  BY <1>1, <1>3, AppendIsConcat DEF Report

\* What is not the engine's or the loop's leaves their part of the invariant alone.
TalkInv == EndsAnnounced /\ OneTranscript /\ OwnReports

LEMMA TalkSame ==
    ASSUME UNCHANGED <<talkVars, loopVars, news, shown, hasty>>
    PROVE  /\ TalkInv => TalkInv'
           /\ Awaited' => Awaited
           /\ Unseen' => Unseen
           /\ Unseen => Unseen'
<1>1. UNCHANGED <<talk, reports, forgotten, completed, news, shown, hasty>>
  BY DEF talkVars, loopVars
<1>2. Words' = Words /\ Waiting' = Waiting
  BY <1>1 DEF Words, Waiting
<1>3. EndsAnnounced => EndsAnnounced'
  BY <1>1 DEF EndsAnnounced, Shows
<1>4. OneTranscript => OneTranscript'
  BY <1>1, <1>2 DEF OneTranscript
<1>5. (Awaited' => Awaited) /\ (Unseen' => Unseen) /\ (Unseen => Unseen')
  BY <1>1, <1>2 DEF Awaited, Unseen
<1>6. OwnReports => OwnReports'
  BY <1>1, <1>5 DEF OwnReports
<1>7. QED
  BY <1>3, <1>4, <1>5, <1>6 DEF TalkInv

\* A dictation begins.
LEMMA StartsTalks ==
    ASSUME DrawAssumption, DrawTypeOK, TalkInv, OfTheLatest, StartsTalking
    PROVE  /\ talk' \in [number : {NoDictation} \cup Dictation,
                         does : {"nothing", "records", "decodes"}]
           /\ talk'.number # NoDictation
           /\ reports' \in Seq(Report) /\ hasty' \subseteq Dictation
           /\ TalkInv'
           /\ Unseen'
           /\ Awaited' => Settled
<1> DEFINE new == [is |-> "Recording", of |-> talk.number + 1]
<1>1. /\ talk \in [number : {NoDictation} \cup Dictation, does : {"nothing", "records", "decodes"}]
      /\ reports \in Seq(Report) /\ completed \in Seq(Dictation)
      /\ forgotten \in {NoDictation} \cup Dictation /\ hasty \subseteq Dictation
      /\ MaxDictations \in Nat
  BY DEF DrawTypeOK, Report, DrawAssumption
<1>2. /\ talk.number \in Nat /\ talk.number < MaxDictations
      /\ talk.number + 1 \in Dictation /\ talk.number + 1 # NoDictation
  BY <1>1 DEF StartsTalking, NoDictation, Dictation
<1>3. /\ talk'.number = talk.number + 1 /\ talk'.does = "records"
      /\ talk' = [number |-> talk.number + 1, does |-> "records"]
      /\ reports' = Append(reports, new) /\ UNCHANGED <<completed, forgotten, news>>
      /\ hasty' = IF Settled THEN hasty
                  ELSE hasty \cup ({talk.number, talk.number + 1} \cap Dictation)
  BY DEF StartsTalking, loopVars
<1>4. new \in Report
  BY <1>2 DEF Report, Status
<1> HIDE DEF new
<1>5. /\ reports' \in Seq(Report) /\ Len(reports) \in Nat
      /\ DOMAIN reports = 1..Len(reports) /\ DOMAIN reports' = 1..Len(reports) + 1
      /\ \A i \in 1..Len(reports) : reports'[i] = reports[i]
      /\ reports'[Len(reports) + 1] = new
  BY <1>1, <1>3, <1>4, Appended
<1>6. new.is = "Recording" /\ new.of = talk.number + 1
  BY DEF new
<1>7. EndsAnnounced'
  BY <1>3 DEF EndsAnnounced
<1>8. /\ \A i \in DOMAIN reports : reports[i] \in Report
      /\ \A i \in DOMAIN completed : completed[i] \in Dictation
      /\ forgotten \in Nat /\ Dictation \subseteq Nat
  BY <1>1 DEF Dictation, NoDictation
<1>9. OneTranscript'
  <2>1. \A i \in DOMAIN reports : reports[i].of \in Dictation /\ reports[i].of <= talk.number
    BY <1>8 DEF TalkInv, OneTranscript, Report
  <2>2. Words' = {}
    BY <1>2, <1>3, <1>5, <1>6, <1>8, <2>1 DEF Words, Transcript
  <2>3. \A i \in DOMAIN completed : completed[i] \in Nat /\ completed[i] <= talk.number
    BY <1>8 DEF TalkInv, OneTranscript
  <2>4. Waiting' = {}
    BY <1>2, <1>3, <2>3 DEF Waiting
  <2>5. (reports # <<>> \/ completed # <<>>) =>
           hasty' = hasty \cup ({talk.number, talk.number + 1} \cap Dictation)
    BY <1>3 DEF Settled
  <2>6. \A i \in DOMAIN reports :
           reports[i].is \in Transcript => reports[i].of \in hasty'
    <3>1. ASSUME NEW i \in DOMAIN reports, reports[i].is \in Transcript
          PROVE  reports[i].of \in hasty'
      <4>1. reports # <<>>
        BY <1>5
      <4>2. reports[i].of \in hasty \cup {talk.number} /\ reports[i].of \in Dictation
        BY <2>1, <3>1 DEF TalkInv, OneTranscript
      <4>3. QED
        BY <2>5, <4>1, <4>2
    <3>2. QED
      BY <3>1
  <2>7. \A i \in DOMAIN completed : completed[i] \in hasty'
    <3>1. ASSUME NEW i \in DOMAIN completed
          PROVE  completed[i] \in hasty'
      <4>1. completed # <<>>
        OBVIOUS
      <4>2. completed[i] \in hasty \cup {talk.number} /\ completed[i] \in Dictation
        BY <1>8 DEF TalkInv, OneTranscript
      <4>3. QED
        BY <2>5, <4>1, <4>2
    <3>2. QED
      BY <3>1
  <2>8. /\ forgotten' <= talk'.number
        /\ \A i \in DOMAIN reports' : reports'[i].of <= talk'.number
        /\ \A i \in DOMAIN reports' :
              reports'[i].is \in Transcript => reports'[i].of \in hasty' \cup {talk'.number}
    <3>1. forgotten <= talk.number
      BY DEF TalkInv, OneTranscript
    <3>2. forgotten' <= talk'.number
      BY <1>2, <1>3, <1>8, <3>1
    <3>3. ASSUME NEW i \in DOMAIN reports'
          PROVE  /\ reports'[i].of <= talk'.number
                 /\ reports'[i].is \in Transcript => reports'[i].of \in hasty' \cup {talk'.number}
      <4>1. CASE i \in DOMAIN reports
        <5>1. reports'[i] = reports[i] /\ reports[i].of \in Nat
          BY <1>5, <1>8, <2>1, <4>1
        <5>2. QED
          BY <1>2, <1>3, <2>1, <2>6, <4>1, <5>1
      <4>2. CASE i \notin DOMAIN reports
        <5>1. reports'[i] = new
          BY <1>5, <3>3, <4>2
        <5>2. QED
          BY <1>2, <1>3, <1>6, <5>1
      <4>3. QED
        BY <4>1, <4>2
    <3>4. QED
      BY <3>2, <3>3
  <2>9. \A i \in DOMAIN completed' :
           completed'[i] <= talk'.number /\ completed'[i] \in hasty' \cup {talk'.number}
    BY <1>2, <1>3, <2>3, <2>7
  <2>10. QED
    BY <2>2, <2>4, <2>8, <2>9 DEF OneTranscript
<1>10. Awaited' => Settled
  BY <1>2, <1>3 DEF Awaited
<1>11. Unseen'
  BY <1>5, <1>6 DEF Unseen
<1>12. OwnReports'
  <2>1. SUFFICES ASSUME Settled PROVE OwnReports'
    BY <1>10 DEF OwnReports
  <2>2. reports = <<>> /\ completed' = <<>> /\ news' = <<>>
    BY <1>3, <2>1 DEF Settled
  <2>3. DOMAIN reports' = {1} /\ reports'[1] = new /\ DOMAIN news' = {} /\ DOMAIN completed' = {}
    BY <1>5, <2>2
  <2>4. QED
    BY <1>6, <2>2, <2>3 DEF OwnReports, Transcript
<1>13. hasty' \subseteq Dictation
  BY <1>1, <1>3
<1>14. QED
  BY <1>2, <1>3, <1>5, <1>7, <1>9, <1>10, <1>11, <1>12, <1>13 DEF TalkInv

\* A report is added that is no Recording: all that went before is still there.
LEMMA MoreReported ==
    ASSUME DrawTypeOK, NEW report \in Report, report.is # "Recording",
           reports' = Append(reports, report),
           UNCHANGED <<completed, forgotten, news, shown, hasty>>,
           talk'.number = talk.number
    PROVE  /\ reports' \in Seq(Report)
           /\ Len(reports) \in Nat
           /\ DOMAIN reports = 1..Len(reports) /\ DOMAIN reports' = 1..Len(reports) + 1
           /\ \A i \in 1..Len(reports) : reports'[i] = reports[i]
           /\ reports'[Len(reports) + 1] = report
           /\ Waiting' = Waiting
           /\ Words' = Words \cup {i \in {Len(reports) + 1} :
                                     report.is \in Transcript /\ report.of = talk.number}
           /\ Unseen' => Unseen
           /\ Unseen => Unseen'
<1>1. reports \in Seq(Report)
  BY DEF DrawTypeOK, Report
<1>2. /\ reports' \in Seq(Report) /\ Len(reports) \in Nat
      /\ DOMAIN reports = 1..Len(reports) /\ DOMAIN reports' = 1..Len(reports) + 1
      /\ \A i \in 1..Len(reports) : reports'[i] = reports[i]
      /\ reports'[Len(reports) + 1] = report
  BY <1>1, Appended
<1>3. Waiting' = Waiting
  BY DEF Waiting
<1>4. /\ DOMAIN reports' = DOMAIN reports \cup {Len(reports) + 1}
      /\ Len(reports) + 1 \notin DOMAIN reports
  BY <1>2
<1>5. Words' = Words \cup {i \in {Len(reports) + 1} :
                              report.is \in Transcript /\ report.of = talk.number}
  BY <1>2, <1>4 DEF Words
<1>6. (Unseen' => Unseen) /\ (Unseen => Unseen')
  BY <1>2, <1>4 DEF Unseen
<1>7. QED
  BY <1>2, <1>3, <1>5, <1>6

\* A recording ends, by Stop or by Cancel, or a decode.
LEMMA TalksOn ==
    ASSUME DrawTypeOK, TalkInv, OfTheLatest, NEW kind \in {"Transcribing", "words", "silence"},
           Reports(<<kind>>), UNCHANGED <<completed, forgotten, news, shown, hasty>>,
           talk'.number = talk.number,
           \/ kind = "Transcribing" /\ talk.does = "records" /\ talk'.does = "decodes"
           \/ kind \in Transcript /\ talk.does = "decodes" /\ talk'.does = "nothing"
    PROVE  /\ reports' \in Seq(Report) /\ TalkInv'
           /\ Awaited' => Awaited
           /\ Unseen' => Unseen
           /\ Unseen => Unseen'
<1> DEFINE report == [is |-> kind, of |-> talk.number]
<1>1. /\ report \in Report /\ reports' = Append(reports, report)
      /\ report.is = kind /\ report.of = talk.number /\ report.is # "Recording"
  BY OneReport DEF Status, Transcript
<1> HIDE DEF report
<1>2. /\ reports' \in Seq(Report) /\ Len(reports) \in Nat
      /\ DOMAIN reports = 1..Len(reports) /\ DOMAIN reports' = 1..Len(reports) + 1
      /\ \A i \in 1..Len(reports) : reports'[i] = reports[i]
      /\ reports'[Len(reports) + 1] = report
      /\ Waiting' = Waiting
      /\ Words' = Words \cup {i \in {Len(reports) + 1} :
                                 report.is \in Transcript /\ report.of = talk.number}
      /\ Unseen' => Unseen
      /\ Unseen => Unseen'
  BY <1>1, MoreReported
<1>3. Words = {} /\ Waiting = {}
  BY DEF TalkInv, OneTranscript
<1>4. DOMAIN reports' = DOMAIN reports \cup {Len(reports) + 1}
  BY <1>2
<1>5. talk.number \in Nat
  BY DEF DrawTypeOK, Dictation, NoDictation
<1>6. OneTranscript'
  <2>1. \A i \in DOMAIN reports' :
           /\ reports'[i].of <= talk'.number
           /\ reports'[i].is \in Transcript => reports'[i].of \in hasty' \cup {talk'.number}
    <3>1. ASSUME NEW i \in DOMAIN reports
          PROVE  /\ reports'[i].of <= talk'.number
                 /\ reports'[i].is \in Transcript => reports'[i].of \in hasty' \cup {talk'.number}
      BY <1>2 DEF TalkInv, OneTranscript
    <3>2. reports'[Len(reports) + 1].of = talk'.number /\ talk'.number <= talk'.number
      BY <1>1, <1>2, <1>5
    <3>3. QED
      BY <1>4, <3>1, <3>2
  <2>2. \A i, j \in Words' : i = j
    BY <1>2, <1>3
  <2>3. talk'.does # "nothing" => Words' = {} /\ Waiting' = {}
    BY <1>1, <1>2, <1>3 DEF Transcript
  <2>4. QED
    BY <1>2, <1>3, <2>1, <2>2, <2>3 DEF TalkInv, OneTranscript
<1>7. EndsAnnounced'
  <2>1. CASE kind = "Transcribing"
    <3>1. \A i \in DOMAIN reports' : reports'[i].is = "Recording" => i < Len(reports) + 1
      BY <1>1, <1>2, <1>4
    <3>2. /\ Len(reports) + 1 \in DOMAIN reports' /\ reports'[Len(reports) + 1].is \in Status
      BY <1>1, <1>2, <2>1 DEF Status
    <3>3. Shows'
      BY <3>2 DEF Shows
    <3>4. QED
      BY <3>1, <3>2, <3>3 DEF EndsAnnounced
  <2>2. CASE talk.does = "decodes"
    <3>1. \A i \in DOMAIN reports' : reports'[i].is = "Recording" =>
             \E j \in DOMAIN reports' : i < j /\ reports'[j].is \in Status
      BY <1>1, <1>2, <1>4, <2>2 DEF TalkInv, EndsAnnounced
    <3>2. Shows => Shows'
      BY <1>2, <1>4 DEF Shows
    <3>3. QED
      BY <2>2, <3>1, <3>2 DEF TalkInv, EndsAnnounced
  <2>3. QED
    BY <2>1, <2>2
<1>8. Awaited' => Awaited
  BY DEF Awaited
<1>9. OwnReports'
  <2>1. SUFFICES ASSUME Awaited PROVE OwnReports'
    BY <1>8 DEF OwnReports
  <2>2. QED
    BY <1>1, <1>2, <1>4, <2>1 DEF TalkInv, OwnReports
<1>10. QED
  BY <1>2, <1>6, <1>7, <1>8, <1>9 DEF TalkInv

\* The dictation is given up: there is nothing to wait for.
LEMMA TalkGivenUp ==
    ASSUME DrawTypeOK, TalkInv, OfTheLatest,
           talk'.number = talk.number, talk'.does = "nothing",
           UNCHANGED <<completed, news, shown, hasty>>,
           talk.does = "records", completed = <<>>, Reports(<<"Ready">>),
           forgotten' = talk.number
    PROVE  reports' \in Seq(Report) /\ TalkInv' /\ ~Awaited'
<1> DEFINE report == [is |-> "Ready", of |-> talk.number]
<1>1. talk.does # "nothing" /\ talk.number \in Dictation /\ talk.number \in Nat
  BY DEF DrawTypeOK, OfTheLatest, Dictation, NoDictation
<1>2. report \in Report /\ report.is = "Ready" /\ report.of = talk.number
  BY <1>1 DEF Report, Status
<1>3. Words = {} /\ Waiting = {} /\ Waiting' = {} /\ forgotten' <= talk'.number
  BY <1>1 DEF TalkInv, OneTranscript, Waiting
<1>4. reports' = Append(reports, report) /\ reports \in Seq(Report)
  BY <1>1, OneReport DEF Status, DrawTypeOK, Report
<1> HIDE DEF report
<1>5. /\ reports' \in Seq(Report) /\ Len(reports) \in Nat
      /\ DOMAIN reports = 1..Len(reports) /\ DOMAIN reports' = 1..Len(reports) + 1
      /\ \A i \in 1..Len(reports) : reports'[i] = reports[i]
      /\ reports'[Len(reports) + 1] = report
  BY <1>2, <1>4, Appended
<1>6. DOMAIN reports' = DOMAIN reports \cup {Len(reports) + 1}
  BY <1>5
<1>7. Words' = {}
  BY <1>2, <1>3, <1>5, <1>6 DEF Words, Transcript
<1>8. EndsAnnounced'
  <2>1. \A i \in DOMAIN reports' : reports'[i].is = "Recording" => i < Len(reports) + 1
    BY <1>2, <1>5, <1>6
  <2>2. Len(reports) + 1 \in DOMAIN reports' /\ reports'[Len(reports) + 1].is \in Status
    BY <1>2, <1>5 DEF Status
  <2>3. Shows'
    BY <2>2 DEF Shows
  <2>4. QED
    BY <2>1, <2>2, <2>3 DEF EndsAnnounced
<1>9. OneTranscript'
  <2>1. \A i \in DOMAIN reports' :
           /\ reports'[i].of <= talk'.number
           /\ reports'[i].is \in Transcript => reports'[i].of \in hasty' \cup {talk'.number}
    BY <1>1, <1>2, <1>5, <1>6 DEF TalkInv, OneTranscript
  <2>2. QED
    BY <1>3, <1>7, <2>1 DEF TalkInv, OneTranscript
<1>10. ~Awaited'
  BY DEF Awaited
<1>11. QED
  BY <1>5, <1>8, <1>9, <1>10 DEF TalkInv, OwnReports

\* The loop reads a report.  A transcript that it drops was not awaited, or is not any more.
LEMMA LoopReadsTalk ==
    ASSUME DrawTypeOK, TalkInv, LoopReads
    PROVE  /\ reports' \in Seq(Report) /\ news' \in Seq(Status) /\ completed' \in Seq(Dictation)
           /\ TalkInv'
           /\ Awaited' => Awaited /\ UNCHANGED scope
           /\ Unseen' => Unseen
           /\ Unseen => Unseen'
           /\ UNCHANGED scope \/ scope' = NextScope
<1> DEFINE dropped == \/ Head(reports).of = forgotten
                      \/ Head(reports).is = "silence" /\ ~HasFramesOrCaptures
<1>1. /\ reports \in Seq(Report) /\ news \in Seq(Status) /\ completed \in Seq(Dictation)
      /\ reports # <<>> /\ reports' = Tail(reports)
      /\ UNCHANGED <<talk, forgotten, shown, hasty>>
  BY DEF DrawTypeOK, Report, LoopReads
<1>2. PICK head \in Report : head = reports[1] /\ head = Head(reports)
  BY <1>1, Tailed
<1>3. /\ reports' \in Seq(Report) /\ Len(reports) \in Nat \ {0}
      /\ DOMAIN reports = 1..Len(reports) /\ DOMAIN reports' = 1..Len(reports) - 1
      /\ \A i \in 1..Len(reports) - 1 : reports'[i] = reports[i + 1]
  BY <1>1, Tailed
<1>4. /\ 1 \in DOMAIN reports
      /\ \A i \in DOMAIN reports' : i + 1 \in DOMAIN reports /\ reports'[i] = reports[i + 1]
                                    /\ i + 1 # 1 /\ i \in Nat
      /\ \A i \in DOMAIN reports :
            i # 1 => i - 1 \in DOMAIN reports' /\ reports'[i - 1] = reports[i]
  BY <1>3
<1>5. /\ head.is \in Transcript => UNCHANGED news
      /\ head.is \notin Transcript => news' = Append(news, head.is)
      /\ head.is \in Transcript /\ dropped => scope' = NextScope
      /\ ~(head.is \in Transcript /\ dropped) => UNCHANGED scope
      /\ head.is \in Transcript /\ ~dropped => completed' = Append(completed, head.of)
      /\ ~(head.is \in Transcript /\ ~dropped) => UNCHANGED completed
  BY <1>2 DEF LoopReads
<1>6. ~dropped => head.of # forgotten
  BY <1>2
<1> HIDE DEF dropped
<1>7. head.is \notin Transcript => head.is \in Status
  BY <1>2 DEF Report
<1>7b. head.of \in Dictation
  BY <1>2 DEF Report
<1>7c. /\ completed' \in Seq(Dictation)
       /\ \A i \in DOMAIN completed' :
             \/ i \in DOMAIN completed /\ completed'[i] = completed[i]
             \/ /\ i = Len(completed) + 1 /\ completed'[i] = head.of
                /\ head.is \in Transcript /\ ~dropped
       /\ \A i \in DOMAIN completed : i \in DOMAIN completed' /\ completed'[i] = completed[i]
       /\ Len(completed) + 1 \notin DOMAIN completed
  <2>1. DOMAIN completed = 1..Len(completed) /\ Len(completed) \in Nat
    BY <1>1
  <2>2. CASE head.is \in Transcript /\ ~dropped
    <3>1. /\ completed' \in Seq(Dictation) /\ DOMAIN completed' = 1..Len(completed) + 1
          /\ \A i \in 1..Len(completed) : completed'[i] = completed[i]
          /\ completed'[Len(completed) + 1] = head.of
      <4>1. completed' = Append(completed, head.of)
        BY <1>5, <2>2
      <4>2. QED
        BY <1>1, <1>7b, <4>1, Appended
    <3>2. DOMAIN completed' = DOMAIN completed \cup {Len(completed) + 1}
      BY <2>1, <3>1
    <3>3. QED
      BY <2>1, <2>2, <3>1, <3>2
  <2>3. CASE ~(head.is \in Transcript /\ ~dropped)
    <3>1. UNCHANGED completed
      BY <1>5, <2>3
    <3>2. QED
      BY <1>1, <2>1, <3>1
  <2>4. QED
    BY <2>2, <2>3
<1>8. /\ news' \in Seq(Status) /\ completed' \in Seq(Dictation)
      /\ \A i \in DOMAIN news : i \in DOMAIN news' /\ news'[i] = news[i] /\ i <= Len(news')
      /\ \A i \in DOMAIN news' : i \in DOMAIN news \/ (i = Len(news') /\ news'[i] = head.is)
      /\ \A i \in DOMAIN news : head.is \notin Transcript => i < Len(news')
      /\ head.is \notin Transcript =>
            /\ Len(news') \in DOMAIN news' /\ news'[Len(news')] = head.is /\ news' # <<>>
            /\ news = <<>> => Len(news') = 1
  <2>1. CASE head.is \in Transcript
    <3>1. UNCHANGED news /\ completed' \in Seq(Dictation) /\ DOMAIN news = 1..Len(news)
      BY <1>1, <1>5, <1>7c, <2>1
    <3>2. QED
      BY <1>1, <2>1, <3>1
  <2>2. CASE head.is \notin Transcript
    <3>1. UNCHANGED completed /\ news' = Append(news, head.is) /\ head.is \in Status
      BY <1>5, <1>7, <2>2
    <3>2. /\ news' \in Seq(Status) /\ Len(news) \in Nat
          /\ DOMAIN news = 1..Len(news) /\ DOMAIN news' = 1..Len(news) + 1
          /\ Len(news') = Len(news) + 1 /\ news' # <<>>
          /\ \A i \in 1..Len(news) : news'[i] = news[i]
          /\ news'[Len(news) + 1] = head.is
      BY <1>1, <3>1, Appended
    <3>3. news = <<>> => Len(news) = 0
      OBVIOUS
    <3>4. QED
      BY <1>1, <2>2, <3>1, <3>2, <3>3
  <2>3. QED
    BY <2>1, <2>2
<1>9. /\ \A i \in Words' : i + 1 \in Words /\ i + 1 # 1 /\ i \in Nat
      /\ 1 \in Words <=> head.is \in Transcript /\ head.of = talk.number
      /\ Words \subseteq Nat
  BY <1>1, <1>2, <1>3, <1>4 DEF Words
<1>10. 1 \in Words => Words' = {}
  BY <1>9 DEF TalkInv, OneTranscript
<1>11. /\ \A i \in Waiting' : i \in Waiting \/ (i = Len(completed) + 1 /\ 1 \in Words /\ ~dropped)
       /\ 1 \notin Words => Waiting' = Waiting
       /\ Len(completed) + 1 \notin DOMAIN completed
  <2>1. \A i \in Waiting' : i \in Waiting \/ (i = Len(completed) + 1 /\ 1 \in Words /\ ~dropped)
    BY <1>1, <1>7c, <1>9 DEF Waiting
  <2>2. \A i \in Waiting : i \in Waiting'
    BY <1>1, <1>7c DEF Waiting
  <2>3. QED
    BY <1>7c, <2>1, <2>2
<1>12. OneTranscript'
  <2>1. \A i \in DOMAIN reports' :
           /\ reports'[i].of <= talk'.number
           /\ reports'[i].is \in Transcript => reports'[i].of \in hasty' \cup {talk'.number}
    BY <1>1, <1>4 DEF TalkInv, OneTranscript
  <2>2. \A i \in DOMAIN completed' :
           completed'[i] <= talk'.number /\ completed'[i] \in hasty' \cup {talk'.number}
    <3>1. head.of <= talk.number /\ (head.is \in Transcript => head.of \in hasty \cup {talk.number})
      BY <1>2, <1>4 DEF TalkInv, OneTranscript
    <3>2. ASSUME NEW i \in DOMAIN completed'
          PROVE  \/ i \in DOMAIN completed /\ completed'[i] = completed[i]
                 \/ head.is \in Transcript /\ completed'[i] = head.of
      BY <1>7c
    <3>3. QED
      BY <1>1, <3>1, <3>2 DEF TalkInv, OneTranscript
  <2>3. talk'.does # "nothing" => Words' = {} /\ Waiting' = {}
    BY <1>1, <1>9, <1>11 DEF TalkInv, OneTranscript
  <2>4. \A i, j \in Words' : i = j
    <3>1. ASSUME NEW i \in Words', NEW j \in Words' PROVE i = j
      <4>1. i + 1 = j + 1 /\ i \in Nat /\ j \in Nat
        BY <1>9 DEF TalkInv, OneTranscript
      <4>2. QED
        BY <4>1
    <3>2. QED
      BY <3>1
  <2>5. \A i, j \in Waiting' : i = j
    BY <1>11 DEF TalkInv, OneTranscript
  <2>6. Words' = {} \/ Waiting' = {}
    BY <1>9, <1>10, <1>11 DEF TalkInv, OneTranscript
  <2>7. Waiting' # {} => forgotten' # talk'.number
    BY <1>1, <1>6, <1>9, <1>11 DEF TalkInv, OneTranscript
  <2>8. forgotten' <= talk'.number
    BY <1>1 DEF TalkInv, OneTranscript
  <2>9. QED
    BY <2>1, <2>2, <2>3, <2>4, <2>5, <2>6, <2>7, <2>8 DEF OneTranscript
<1>13. Shows => Shows' \/ head.is \notin Transcript
  BY <1>2, <1>4, <1>7 DEF Shows, Transcript, Status
<1>14. EndsAnnounced'
  <2>1. SUFFICES ASSUME talk.does # "records" PROVE EndsAnnounced'
    BY <1>1 DEF EndsAnnounced
  <2>2. \A i \in DOMAIN reports' : reports'[i].is = "Recording" =>
           \E j \in DOMAIN reports' : i < j /\ reports'[j].is \in Status
    <3>1. ASSUME NEW i \in DOMAIN reports', reports'[i].is = "Recording"
          PROVE  \E j \in DOMAIN reports' : i < j /\ reports'[j].is \in Status
      <4>1. PICK j \in DOMAIN reports : i + 1 < j /\ reports[j].is \in Status
        BY <1>4, <2>1, <3>1 DEF TalkInv, EndsAnnounced
      <4>2. j - 1 \in DOMAIN reports' /\ reports'[j - 1].is \in Status /\ i < j - 1
        BY <1>3, <1>4, <4>1
      <4>3. QED
        BY <4>2
    <3>2. QED
      BY <3>1
  <2>3. head.is = "Recording" => Shows'
    <3>1. ASSUME head.is = "Recording" PROVE Shows'
      <4>1. PICK j \in DOMAIN reports : 1 < j /\ reports[j].is \in Status
        BY <1>2, <1>4, <2>1, <3>1 DEF TalkInv, EndsAnnounced
      <4>2. j - 1 \in DOMAIN reports' /\ reports'[j - 1].is \in Status
        BY <1>3, <1>4, <4>1
      <4>3. QED
        BY <4>2 DEF Shows
    <3>2. QED
      BY <3>1
  <2>4. \A i \in DOMAIN news' : news'[i] = "Recording" => i < Len(news') \/ Shows'
    <3>1. ASSUME NEW i \in DOMAIN news', news'[i] = "Recording", ~Shows'
          PROVE  i < Len(news')
      <4>1. i \in DOMAIN news
        BY <1>8, <2>3, <3>1
      <4>2. CASE head.is \in Transcript
        BY <1>5, <1>8, <1>13, <2>1, <3>1, <4>1, <4>2 DEF TalkInv, EndsAnnounced
      <4>3. CASE head.is \notin Transcript
        BY <1>8, <4>1, <4>3
      <4>4. QED
        BY <4>2, <4>3
    <3>2. QED
      BY <3>1
  <2>5. shown.started => news' # <<>> \/ Shows'
    <3>1. CASE head.is \in Transcript
      BY <1>5, <1>13, <2>1, <3>1 DEF TalkInv, EndsAnnounced
    <3>2. CASE head.is \notin Transcript
      BY <1>8, <3>2
    <3>3. QED
      BY <3>1, <3>2
  <2>6. QED
    BY <1>1, <2>2, <2>4, <2>5 DEF EndsAnnounced
<1>15. Awaited' => Awaited /\ UNCHANGED scope
  <2>1. Awaited' => Awaited
    BY <1>1, <1>9, <1>11 DEF Awaited
  <2>2. ASSUME Awaited', head.is \in Transcript, dropped PROVE FALSE
    <3>1. head.of = talk.number
      BY <1>2, <1>4, <2>1, <2>2 DEF TalkInv, OwnReports
    <3>2. 1 \in Words /\ Words' = {}
      BY <1>9, <1>10, <2>2, <3>1
    <3>3. talk.does = "nothing" /\ Waiting = {} /\ Waiting' = {}
      BY <1>11, <2>2, <3>2 DEF TalkInv, OneTranscript
    <3>4. QED
      BY <1>1, <2>2, <3>2, <3>3 DEF Awaited
  <2>3. QED
    BY <1>5, <2>1, <2>2
<1>16. (Unseen' => Unseen) /\ (Unseen => Unseen')
  <2>1. Unseen' => Unseen
    BY <1>2, <1>4, <1>8 DEF Unseen
  <2>2. Unseen => Unseen'
    <3>1. CASE head.is = "Recording"
      BY <1>8, <3>1 DEF Unseen, Transcript
    <3>2. CASE head.is # "Recording"
      BY <1>2, <1>4, <1>8, <3>2 DEF Unseen
    <3>3. QED
      BY <3>1, <3>2
  <2>3. QED
    BY <2>1, <2>2
<1>17. OwnReports'
  <2>1. SUFFICES ASSUME Awaited PROVE OwnReports'
    BY <1>15 DEF OwnReports
  <2>2. \A i \in DOMAIN reports' :
           /\ reports'[i].is # "Ready" /\ reports'[i].is # "Recording"
           /\ reports'[i].is \in Transcript => reports'[i].of = talk.number
    BY <1>4, <2>1 DEF TalkInv, OwnReports
  <2>3. \A i \in DOMAIN news' : news'[i] # "Ready" /\ (news'[i] = "Recording" => i = 1)
    BY <1>2, <1>4, <1>8, <2>1 DEF TalkInv, OwnReports, Transcript
  <2>4. \A i \in DOMAIN completed' : completed'[i] = talk.number
    <3>1. head.is \in Transcript => head.of = talk.number
      BY <1>2, <1>4, <2>1 DEF TalkInv, OwnReports
    <3>2. ASSUME NEW i \in DOMAIN completed'
          PROVE  \/ i \in DOMAIN completed /\ completed'[i] = completed[i]
                 \/ head.is \in Transcript /\ completed'[i] = head.of
      BY <1>7c
    <3>3. QED
      BY <2>1, <3>1, <3>2 DEF TalkInv, OwnReports
  <2>5. QED
    BY <1>1, <2>2, <2>3, <2>4 DEF OwnReports
<1>18. QED
  BY <1>3, <1>5, <1>8, <1>12, <1>14, <1>15, <1>16, <1>17 DEF TalkInv

\* What is taken is the transcript of the latest dictation, or of one that overlapped.
LEMMA TakesTalk ==
    ASSUME DrawTypeOK, TalkInv, TakeKeyframes
    PROVE  /\ completed' \in Seq(Dictation) /\ TalkInv' /\ ~Awaited'
           /\ Head(completed) \notin hasty => Head(completed) = talk.number /\ Awaited
<1>1. /\ completed \in Seq(Dictation) /\ completed # <<>> /\ completed' = Tail(completed)
      /\ UNCHANGED <<talk, reports, forgotten, news, shown, hasty>>
  BY DEF DrawTypeOK, TakeKeyframes, talkVars
<1>2. /\ completed' \in Seq(Dictation) /\ Head(completed) = completed[1]
      /\ Len(completed) \in Nat \ {0}
      /\ DOMAIN completed = 1..Len(completed) /\ DOMAIN completed' = 1..Len(completed) - 1
      /\ \A i \in 1..Len(completed) - 1 : completed'[i] = completed[i + 1]
  BY <1>1, Tailed
<1>3. /\ 1 \in DOMAIN completed
      /\ \A i \in DOMAIN completed' : i + 1 \in DOMAIN completed /\ i + 1 # 1
                                      /\ completed'[i] = completed[i + 1] /\ i \in Nat
  BY <1>2
<1>4. Words' = Words /\ \A i \in Waiting' : i + 1 \in Waiting /\ i + 1 # 1 /\ i \in Nat
  BY <1>1, <1>3 DEF Words, Waiting
<1>5. OneTranscript'
  <2>1. \A i \in DOMAIN completed' :
           completed'[i] <= talk'.number /\ completed'[i] \in hasty' \cup {talk'.number}
    BY <1>1, <1>3 DEF TalkInv, OneTranscript
  <2>2. Waiting' # {} => Waiting # {}
    BY <1>4
  <2>3. \A i, j \in Waiting' : i = j
    <3>1. ASSUME NEW i \in Waiting', NEW j \in Waiting' PROVE i = j
      <4>1. i + 1 = j + 1 /\ i \in Nat /\ j \in Nat
        BY <1>4 DEF TalkInv, OneTranscript
      <4>2. QED
        BY <4>1
    <3>2. QED
      BY <3>1
  <2>4. QED
    BY <1>1, <1>4, <2>1, <2>2, <2>3 DEF TalkInv, OneTranscript
<1>6. EndsAnnounced'
  BY <1>1 DEF TalkInv, EndsAnnounced, Shows
<1>7. Head(completed) \notin hasty => Head(completed) = talk.number /\ Awaited
  <2>1. SUFFICES ASSUME Head(completed) \notin hasty
                 PROVE  Head(completed) = talk.number /\ Awaited
    OBVIOUS
  <2>2. Head(completed) = talk.number
    BY <1>2, <1>3, <2>1 DEF TalkInv, OneTranscript
  <2>3. 1 \in Waiting
    BY <1>2, <1>3, <2>2 DEF Waiting
  <2>4. QED
    BY <2>1, <2>2, <2>3 DEF Awaited, TalkInv, OneTranscript
<1>8. ~Awaited'
  <2>1. SUFFICES ASSUME Awaited' PROVE FALSE
    OBVIOUS
  <2>2. Awaited
    BY <1>1, <1>4, <2>1 DEF Awaited
  <2>3. 1 \in Waiting
    BY <1>3, <2>2 DEF TalkInv, OwnReports, Waiting
  <2>4. talk.does = "nothing" /\ Words = {} /\ Waiting' = {}
    BY <1>4, <2>3 DEF TalkInv, OneTranscript
  <2>5. QED
    BY <1>1, <1>4, <2>1, <2>4 DEF Awaited
<1>9. QED
  BY <1>2, <1>5, <1>6, <1>7, <1>8 DEF TalkInv, OwnReports

\* The window reads a status.
LEMMA WindowReadsTalk ==
    ASSUME DrawTypeOK, TalkInv, WindowReads
    PROVE  /\ news' \in Seq(Status) /\ TalkInv'
           /\ Awaited' => Awaited
           /\ Awaited => /\ ~Unseen'
                         /\ Unseen => Head(news) = "Recording"
                         /\ ~Unseen => Head(news) = "Transcribing"
           /\ shown' \in [started : BOOLEAN, number : ScopeNumber]
<1>1. /\ news \in Seq(Status) /\ news # <<>> /\ news' = Tail(news)
      /\ UNCHANGED <<talk, reports, forgotten, completed, hasty>>
  BY DEF DrawTypeOK, WindowReads, talkVars, loopVars
<1>2. /\ news' \in Seq(Status) /\ Head(news) = news[1] /\ news[1] \in Status
      /\ Len(news) \in Nat \ {0} /\ Len(news') = Len(news) - 1
      /\ DOMAIN news = 1..Len(news) /\ DOMAIN news' = 1..Len(news) - 1
      /\ \A i \in 1..Len(news) - 1 : news'[i] = news[i + 1]
      /\ (news' = <<>>) <=> (Len(news) = 1)
  BY <1>1, Tailed
<1>3. /\ 1 \in DOMAIN news
      /\ \A i \in DOMAIN news' : i + 1 \in DOMAIN news /\ i + 1 # 1
                                 /\ news'[i] = news[i + 1] /\ i \in Nat
  BY <1>2
<1>4. Words' = Words /\ Waiting' = Waiting
  BY <1>1 DEF Words, Waiting
<1>5. OneTranscript'
  BY <1>1, <1>4 DEF TalkInv, OneTranscript
<1>6. (Awaited' => Awaited) /\ (Shows => Shows')
  BY <1>1, <1>4 DEF Awaited, Shows
<1>7. /\ shown \in [started : BOOLEAN, number : ScopeNumber]
      /\ scope.number + 1 \in ScopeNumber
  BY DEF DrawTypeOK, ScopeNumber
<1>8. /\ shown' \in [started : BOOLEAN, number : ScopeNumber]
      /\ Head(news) # "Recording" => ~shown'.started
  BY <1>7 DEF WindowReads
<1>9. EndsAnnounced'
  <2>1. SUFFICES ASSUME talk.does # "records" PROVE EndsAnnounced'
    BY <1>1 DEF EndsAnnounced
  <2>2. \A i \in DOMAIN news' : news'[i] = "Recording" => i < Len(news') \/ Shows'
    BY <1>2, <1>3, <1>6, <2>1 DEF TalkInv, EndsAnnounced
  <2>3. shown'.started => news' # <<>> \/ Shows'
    BY <1>2, <1>3, <1>6, <1>8, <2>1 DEF TalkInv, EndsAnnounced
  <2>4. QED
    BY <1>1, <2>1, <2>2, <2>3 DEF TalkInv, EndsAnnounced
<1>10. ASSUME Awaited
       PROVE  /\ ~Unseen'
              /\ Unseen => Head(news) = "Recording"
              /\ ~Unseen => Head(news) = "Transcribing"
  <2>1. \A i \in DOMAIN reports : reports[i].is # "Recording"
    BY <1>1, <1>10 DEF TalkInv, OwnReports
  <2>2. \A i \in DOMAIN news : news[i] # "Ready" /\ (news[i] = "Recording" => i = 1)
    BY <1>10 DEF TalkInv, OwnReports
  <2>3. \A i \in DOMAIN news' : news'[i] # "Ready" /\ news'[i] # "Recording"
    BY <1>3, <2>2
  <2>4. QED
    BY <1>1, <1>2, <1>3, <2>1, <2>2, <2>3 DEF Unseen, Status
<1>11. OwnReports'
  <2>1. SUFFICES ASSUME Awaited PROVE OwnReports'
    BY <1>6 DEF OwnReports
  <2>2. \A i \in DOMAIN news : news[i] # "Ready" /\ (news[i] = "Recording" => i = 1)
    BY <2>1 DEF TalkInv, OwnReports
  <2>3. QED
    BY <1>1, <1>3, <2>1, <2>2 DEF TalkInv, OwnReports
<1>12. QED
  BY <1>2, <1>5, <1>6, <1>8, <1>9, <1>10, <1>11 DEF TalkInv

-----------------------------------------------------------------------------
(* Scopes and drawings, while the engine, the loop and the window get on.  *)

DrawnInv == NotBegun /\ ScopeFits

LEMMA NextScopeTyped ==
    ASSUME DrawTypeOK
    PROVE  /\ NextScope \in [number : ScopeNumber, open : BOOLEAN, frames : SUBSET Drawing,
                             removed : SUBSET MarkId]
           /\ NextScope.number = scope.number + 1 /\ ~NextScope.open
           /\ NextScope.frames = {} /\ NextScope.removed = {}
           /\ {scope.number, shown.number, decided, overlay.scope} \subseteq Nat
  BY DEF DrawTypeOK, NextScope, ScopeNumber, IsSession

\* Nobody draws, and the scope is as it was.
LEMMA DrawnSame ==
    ASSUME Awaited' => Awaited /\ UNCHANGED scope, Unseen' => Unseen, Unseen => Unseen',
           UNCHANGED <<shown, overlay, decided, valid>>
    PROVE  DrawnInv => DrawnInv'
<1>1. NotBegun => NotBegun'
  BY DEF NotBegun, Closing
<1>2. Awaited' /\ ~Unseen' => Awaited /\ ~Unseen /\ UNCHANGED scope
  OBVIOUS
<1>3. ASSUME UNCHANGED scope PROVE (Collecting => Collecting') /\ (Collected => Collected')
  <2>1. Ids(overlay)' = Ids(overlay) /\ Captured(overlay)' = Captured(overlay)
    OBVIOUS
  <2>2. QED
    BY <1>3 DEF Collecting, Collected, Closing
<1>4. ScopeFits => ScopeFits'
  BY <1>2, <1>3 DEF ScopeFits
<1>5. QED
  BY <1>1, <1>4 DEF DrawnInv

\* The whole invariant, for steps in which no mark changes.
LEMMA DrawingStays ==
    ASSUME DrawInv, UNCHANGED <<overlay, decided, display, shown>>, escape' \in BOOLEAN,
           talk' \in [number : {NoDictation} \cup Dictation,
                      does : {"nothing", "records", "decodes"}],
           reports' \in Seq(Report), news' \in Seq(Status), completed' \in Seq(Dictation),
           forgotten' \in {NoDictation} \cup Dictation, hasty' \subseteq Dictation,
           TalkInv', DrawnInv', valid' \subseteq valid, talk'.number = talk.number \/ valid' = {},
           talk'.number # NoDictation,
           UNCHANGED scope \/ scope' = NextScope
    PROVE  DrawInv'
<1>1. DrawTypeOK /\ ScopesGrow /\ OfTheLatest /\ OnlyImages(overlay)
  BY DEF DrawInv
<1>2. scope' \in [number : ScopeNumber, open : BOOLEAN, frames : SUBSET Drawing,
                  removed : SUBSET MarkId]
  BY <1>1, NextScopeTyped DEF DrawTypeOK
<1>3. DrawTypeOK'
  BY <1>1, <1>2 DEF DrawTypeOK, Report
<1>4. scope.number <= scope'.number /\ scope'.number \in Nat
  BY <1>1, <1>2, NextScopeTyped DEF ScopeNumber
<1>5. ScopesGrow'
  BY <1>1, <1>4, NextScopeTyped DEF ScopesGrow
<1>6. OfTheLatest'
  BY <1>1 DEF OfTheLatest
<1>7. OnlyImages(overlay)'
  BY <1>1 DEF OnlyImages
<1>8. QED
  BY <1>3, <1>5, <1>6, <1>7 DEF DrawInv, TalkInv, DrawnInv

\* Once the engine is at rest and all has been read, the window shows no recording.
LEMMA RestIsShown ==
    ASSUME EndsAnnounced, talk.does = "nothing", Settled
    PROVE  ~shown.started
<1>1. DOMAIN reports = {}
  BY DEF Settled
<1>2. QED
  BY <1>1 DEF EndsAnnounced, Settled, Shows

LEMMA StepStarts ==
    ASSUME DrawAssumption, DrawInv, StartsTalking
    PROVE  DrawInv'
<1>1. DrawTypeOK /\ TalkInv /\ OfTheLatest
  BY DEF DrawInv, TalkInv
<1>2. /\ talk' \in [number : {NoDictation} \cup Dictation,
                    does : {"nothing", "records", "decodes"}]
      /\ talk'.number # NoDictation
      /\ reports' \in Seq(Report) /\ hasty' \subseteq Dictation
      /\ TalkInv' /\ Unseen' /\ (Awaited' => Settled)
  BY <1>1, StartsTalks
<1>3. /\ UNCHANGED <<loopVars, news, shown, scope, overlay, decided, display, escape>>
      /\ valid' = {} /\ talk.does = "nothing"
  BY DEF StartsTalking
<1>4. NotBegun'
  <2>1. SUFFICES ASSUME Settled PROVE ~shown'.started /\ Closing' /\ valid' = {}
    BY <1>2 DEF NotBegun
  <2>2. QED
    BY <1>1, <1>3, <2>1, RestIsShown DEF Settled, Closing, TalkInv
<1>5. DrawnInv'
  BY <1>2, <1>4 DEF DrawnInv, ScopeFits
<1>6. QED
  BY <1>1, <1>2, <1>3, <1>5, DrawingStays DEF DrawTypeOK, loopVars

LEMMA StepTalks ==
    ASSUME DrawInv, StopsTalking \/ Decodes \/ CancelTalk
    PROVE  DrawInv'
<1>1. DrawTypeOK /\ TalkInv /\ OfTheLatest /\ DrawnInv
  BY DEF DrawInv, TalkInv, DrawnInv
<1>2. /\ talk \in [number : {NoDictation} \cup Dictation,
                   does : {"nothing", "records", "decodes"}]
      /\ forgotten \in {NoDictation} \cup Dictation /\ hasty \subseteq Dictation
      /\ reports \in Seq(Report) /\ news \in Seq(Status) /\ completed \in Seq(Dictation)
      /\ escape \in BOOLEAN
  BY <1>1 DEF DrawTypeOK, Report
<1>3. UNCHANGED <<completed, news, shown, overlay, decided, display, escape, valid, hasty>>
  BY DEF StopsTalking, Decodes, CancelTalk, loopVars, sketchVars, talkVars
<1>4. /\ talk' \in [number : {NoDictation} \cup Dictation,
                    does : {"nothing", "records", "decodes"}]
      /\ talk'.number = talk.number /\ talk.number # NoDictation
      /\ talk.does = "nothing" => UNCHANGED talk
  BY <1>1, <1>2 DEF StopsTalking, Decodes, CancelTalk, OfTheLatest, talkVars
<1>5. CASE StopsTalking \/ (Decodes /\ ~UNCHANGED reports)
  <2>1. PICK kind \in {"Transcribing", "words", "silence"} :
           /\ Reports(<<kind>>)
           /\ \/ kind = "Transcribing" /\ talk.does = "records" /\ talk'.does = "decodes"
              \/ kind \in Transcript /\ talk.does = "decodes" /\ talk'.does = "nothing"
    <3>1. CASE StopsTalking
      BY <1>2, <3>1 DEF StopsTalking
    <3>2. CASE Decodes /\ ~UNCHANGED reports
      <4>1. PICK outcome \in {<<"words">>, <<"silence">>, <<>>} : Reports(outcome)
        BY <3>2 DEF Decodes
      <4>2. outcome # <<>>
        <5>1. ASSUME outcome = <<>> PROVE FALSE
          <6>1. [i \in DOMAIN <<>> |-> [is |-> <<>>[i], of |-> talk.number]] = <<>>
            OBVIOUS
          <6>2. reports' = reports \o <<>>
            BY <4>1, <5>1, <6>1 DEF Reports
          <6>3. reports \o <<>> = reports
            BY <1>2, ConcatEmptySeq
          <6>4. QED
            BY <3>2, <6>2, <6>3
        <5>2. QED
          BY <5>1
      <4>3. QED
        BY <1>2, <3>2, <4>1, <4>2 DEF Decodes, Transcript
    <3>3. QED
      BY <1>5, <3>1, <3>2
  <2>2. UNCHANGED <<forgotten, scope>>
    BY <1>5 DEF StopsTalking, Decodes, loopVars
  <2>3. /\ reports' \in Seq(Report) /\ TalkInv'
        /\ (Awaited' => Awaited) /\ (Unseen' => Unseen) /\ (Unseen => Unseen')
    BY <1>1, <1>3, <1>4, <2>1, <2>2, TalksOn
  <2>4. DrawnInv'
    BY <1>1, <1>3, <2>2, <2>3, DrawnSame
  <2>5. QED
    BY <1>2, <1>3, <1>4, <2>2, <2>3, <2>4, DrawingStays
<1>6. CASE Decodes /\ UNCHANGED reports
  <2>1. /\ UNCHANGED <<reports, forgotten, scope>> /\ talk.does = "decodes"
        /\ talk'.does = "nothing"
    BY <1>2, <1>6 DEF Decodes, loopVars
  <2>2. Words' = Words /\ Waiting' = Waiting
    BY <1>3, <1>4, <2>1 DEF Words, Waiting
  <2>3. ~Awaited'
    BY <1>1, <2>1, <2>2 DEF Awaited, TalkInv, OneTranscript
  <2>4. TalkInv' /\ DrawnInv'
    <3>1. EndsAnnounced'
      BY <1>1, <1>3, <2>1 DEF EndsAnnounced, TalkInv, Shows
    <3>2. OneTranscript'
      BY <1>1, <1>3, <1>4, <2>1, <2>2 DEF OneTranscript, TalkInv
    <3>3. QED
      BY <2>3, <3>1, <3>2 DEF TalkInv, OwnReports, DrawnInv, NotBegun, ScopeFits
  <2>5. QED
    BY <1>2, <1>3, <1>4, <2>1, <2>4, DrawingStays
<1>7. CASE CancelTalk /\ talk.does = "records"
  <2>1. /\ talk'.does = "nothing"
        /\ talk.does = "records" /\ completed = <<>> /\ Reports(<<"Ready">>)
        /\ forgotten' = talk.number
        /\ scope' = NextScope
    BY <1>2, <1>7 DEF CancelTalk, loopVars
  <2>2. reports' \in Seq(Report) /\ TalkInv' /\ ~Awaited'
    BY <1>1, <1>3, <1>4, <2>1, TalkGivenUp
  <2>3. DrawnInv'
    BY <2>2 DEF DrawnInv, NotBegun, ScopeFits
  <2>4. forgotten' \in {NoDictation} \cup Dictation
    BY <1>2, <2>1
  <2>5. QED
    BY <1>2, <1>3, <1>4, <2>1, <2>2, <2>3, <2>4, DrawingStays
<1>8. CASE CancelTalk /\ talk.does # "records"
  <2>1. /\ UNCHANGED <<talk, reports>> /\ completed = <<>> /\ forgotten' = talk.number
        /\ scope' = NextScope
    BY <1>8 DEF CancelTalk, talkVars
  <2>2. Words' = Words /\ Waiting' = Waiting /\ Waiting = {} /\ talk.number \in Nat
    BY <1>2, <1>3, <2>1 DEF Words, Waiting, Dictation, NoDictation
  <2>3. ~Awaited'
    BY <2>1 DEF Awaited
  <2>4. TalkInv' /\ DrawnInv'
    <3>1. EndsAnnounced'
      BY <1>1, <1>3, <2>1 DEF EndsAnnounced, TalkInv, Shows
    <3>2. OneTranscript'
      BY <1>1, <1>3, <2>1, <2>2 DEF OneTranscript, TalkInv
    <3>3. QED
      BY <2>3, <3>1, <3>2 DEF TalkInv, OwnReports, DrawnInv, NotBegun, ScopeFits
  <2>5. forgotten' \in {NoDictation} \cup Dictation
    BY <1>2, <2>1
  <2>6. QED
    BY <1>2, <1>3, <1>4, <2>1, <2>4, <2>5, DrawingStays
<1>9. QED
  BY <1>5, <1>6, <1>7, <1>8

LEMMA StepLoopReads ==
    ASSUME DrawInv, LoopReads
    PROVE  DrawInv'
<1>1. DrawTypeOK /\ TalkInv /\ OfTheLatest /\ DrawnInv
  BY DEF DrawInv, TalkInv, DrawnInv
<1>2. /\ UNCHANGED <<talk, forgotten, shown, overlay, decided, display, escape, valid, hasty>>
      /\ reports # <<>>
  BY DEF LoopReads, sketchVars
<1>3. /\ reports' \in Seq(Report) /\ news' \in Seq(Status) /\ completed' \in Seq(Dictation)
      /\ TalkInv'
      /\ Awaited' => Awaited /\ UNCHANGED scope
      /\ Unseen' => Unseen
      /\ Unseen => Unseen'
      /\ UNCHANGED scope \/ scope' = NextScope
  BY <1>1, LoopReadsTalk
<1>4. DrawnInv'
  BY <1>1, <1>2, <1>3, DrawnSame
<1>5. talk.number # NoDictation
  BY <1>1, <1>2 DEF OfTheLatest
<1>6. QED
  BY <1>1, <1>2, <1>3, <1>4, <1>5, DrawingStays DEF DrawTypeOK

LEMMA StepTakes ==
    ASSUME DrawInv, TakeKeyframes
    PROVE  DrawInv'
<1>1. DrawTypeOK /\ TalkInv /\ OfTheLatest /\ DrawnInv /\ ScopesGrow /\ OnlyImages(overlay)
  BY DEF DrawInv, TalkInv, DrawnInv
<1>2. /\ UNCHANGED <<talk, reports, forgotten, news, shown, overlay, decided, display, escape,
                     valid, hasty>>
      /\ scope' = [scope EXCEPT !.frames = {}] /\ completed # <<>>
  BY DEF TakeKeyframes, sketchVars, talkVars
<1>3. completed' \in Seq(Dictation) /\ TalkInv' /\ ~Awaited'
  BY <1>1, TakesTalk
<1>4. DrawnInv'
  BY <1>3 DEF DrawnInv, NotBegun, ScopeFits
<1>5. talk.number # NoDictation
  BY <1>1, <1>2 DEF OfTheLatest
<1>6. /\ scope' \in [number : ScopeNumber, open : BOOLEAN, frames : SUBSET Drawing,
                    removed : SUBSET MarkId]
      /\ scope'.number = scope.number
  BY <1>1, <1>2 DEF DrawTypeOK
<1>7. DrawTypeOK'
  BY <1>1, <1>2, <1>3, <1>6 DEF DrawTypeOK
<1>8. ScopesGrow' /\ OfTheLatest' /\ OnlyImages(overlay)'
  BY <1>1, <1>2, <1>5, <1>6 DEF ScopesGrow, OfTheLatest, OnlyImages
<1>9. QED
  BY <1>3, <1>4, <1>7, <1>8 DEF DrawInv, TalkInv, DrawnInv

LEMMA StepEscape ==
    ASSUME DrawInv, PressEscape
    PROVE  DrawInv'
<1>1. DrawTypeOK /\ TalkInv /\ OfTheLatest /\ DrawnInv
  BY DEF DrawInv, TalkInv, DrawnInv
<1>2. /\ UNCHANGED <<talkVars, loopVars, news, shown, scope, overlay, decided, display, valid,
                     hasty>>
      /\ escape' = TRUE /\ talk.does = "records"
  BY DEF PressEscape
<1>3. TalkInv' /\ (Awaited' => Awaited) /\ (Unseen' => Unseen) /\ (Unseen => Unseen')
  BY <1>1, <1>2, TalkSame
<1>4. DrawnInv'
  BY <1>1, <1>2, <1>3, DrawnSame
<1>5. talk.number # NoDictation
  BY <1>1, <1>2 DEF OfTheLatest
<1>6. UNCHANGED <<talk, reports, forgotten, completed>>
  BY <1>2 DEF talkVars, loopVars
<1>7. QED
  BY <1>1, <1>2, <1>3, <1>4, <1>5, <1>6, DrawingStays DEF DrawTypeOK, Report

\* The window thread learns how far the dictation is, and begins or discards a scope.
LEMMA StepWindowReads ==
    ASSUME DrawInv, WindowReads
    PROVE  DrawInv'
<1>1. DrawTypeOK /\ TalkInv /\ OfTheLatest /\ DrawnInv /\ ScopesGrow /\ OnlyImages(overlay)
  BY DEF DrawInv, TalkInv, DrawnInv
<1>2. /\ UNCHANGED <<talk, reports, forgotten, completed, overlay, decided, display, escape,
                     valid, hasty>>
      /\ news # <<>>
  BY DEF WindowReads, sketchVars, talkVars, loopVars
<1>3. /\ news' \in Seq(Status) /\ TalkInv'
      /\ Awaited' => Awaited
      /\ Awaited => /\ ~Unseen'
                    /\ Unseen => Head(news) = "Recording"
                    /\ ~Unseen => Head(news) = "Transcribing"
      /\ shown' \in [started : BOOLEAN, number : ScopeNumber]
  BY <1>1, WindowReadsTalk
<1>4. /\ NextScope \in [number : ScopeNumber, open : BOOLEAN, frames : SUBSET Drawing,
                        removed : SUBSET MarkId]
      /\ NextScope.number = scope.number + 1 /\ ~NextScope.open
      /\ NextScope.frames = {} /\ NextScope.removed = {}
      /\ {scope.number, shown.number, decided, overlay.scope} \subseteq Nat
  BY <1>1, NextScopeTyped
<1>5. shown \in [started : BOOLEAN, number : ScopeNumber]
  BY <1>1 DEF DrawTypeOK
<1> DEFINE begins == Head(news) = "Recording" /\ ~shown.started
<1>6. /\ begins => shown'.number = scope.number + 1 /\ scope' = NextScope
      /\ ~begins => shown'.number = shown.number
      /\ UNCHANGED scope \/ scope' = NextScope
      /\ Head(news) = "Transcribing" => UNCHANGED scope
  BY <1>5 DEF WindowReads
<1>7. /\ scope' \in [number : ScopeNumber, open : BOOLEAN, frames : SUBSET Drawing,
                     removed : SUBSET MarkId]
      /\ scope'.number \in Nat /\ scope.number <= scope'.number
  BY <1>1, <1>4, <1>6 DEF DrawTypeOK
<1>8. DrawTypeOK'
  BY <1>1, <1>2, <1>3, <1>7 DEF DrawTypeOK
<1>9. ScopesGrow'
  <2>1. shown'.number <= scope'.number
    BY <1>1, <1>4, <1>6, <1>7 DEF ScopesGrow
  <2>2. QED
    BY <1>1, <1>2, <1>4, <1>7, <2>1 DEF ScopesGrow
<1>10. OfTheLatest' /\ OnlyImages(overlay)'
  BY <1>1, <1>2 DEF OfTheLatest, OnlyImages
<1>11. NotBegun'
  BY <1>3 DEF NotBegun
<1>12. ScopeFits'
  <2>1. SUFFICES ASSUME Awaited
                 PROVE  /\ scope'.number = shown'.number /\ shown'.number # NoScope
                        /\ IF overlay'.scope = scope'.number THEN Collecting' ELSE Collected'
    BY <1>3 DEF ScopeFits
  <2>2. CASE Unseen
    <3>1. begins /\ Closing /\ valid = {}
      BY <1>1, <1>3, <2>1, <2>2 DEF DrawnInv, NotBegun
    <3>2. /\ scope'.number = shown'.number /\ shown'.number = scope.number + 1
          /\ scope' = NextScope
      BY <1>4, <1>6, <3>1
    <3>3. overlay'.scope # scope'.number /\ shown'.number # NoScope
      BY <1>1, <1>2, <1>4, <3>2 DEF ScopesGrow, NoScope
    <3>4. Collected'
      BY <1>2, <1>4, <3>1, <3>2 DEF Collected, Closing
    <3>5. QED
      BY <3>2, <3>3, <3>4
  <2>3. CASE ~Unseen
    <3>1. /\ scope.number = shown.number /\ shown.number # NoScope
          /\ IF overlay.scope = scope.number THEN Collecting ELSE Collected
      BY <1>1, <2>1, <2>3 DEF DrawnInv, ScopeFits
    <3>2. UNCHANGED scope /\ shown'.number = shown.number
      BY <1>3, <1>6, <2>1, <2>3
    <3>3. Ids(overlay)' = Ids(overlay) /\ Captured(overlay)' = Captured(overlay)
      BY <1>2
    <3>4. (Collecting => Collecting') /\ (Collected => Collected')
      BY <1>2, <3>2, <3>3 DEF Collecting, Collected, Closing
    <3>5. QED
      BY <1>2, <3>1, <3>2, <3>4
  <2>4. QED
    BY <2>2, <2>3
<1>13. QED
  BY <1>3, <1>8, <1>9, <1>10, <1>11, <1>12 DEF DrawInv, TalkInv

LEMMA NewSessionFits ==
    ASSUME NEW number \in Nat
    PROVE  /\ IsSession(NewSession(number)) /\ NewSession(number).scope = number
           /\ Ids(NewSession(number)) = {} /\ OnlyImages(NewSession(number))
           /\ ~NewSession(number).finishing /\ NewSession(number).last = 0
<1>1. PICK f : f = [id \in {} |-> 0]
  OBVIOUS
<1>2. DOMAIN f = {} /\ f \in [DOMAIN f -> Mark]
  BY <1>1
<1>3. NewSession(number) = [scope |-> number, marks |-> f, last |-> 0, held |-> "no",
                            picking |-> FALSE, finishing |-> FALSE, invalid |-> FALSE]
  BY <1>1 DEF NewSession
<1>4. IsSession(NewSession(number))
  BY <1>2, <1>3 DEF IsSession, ScopeNumber
<1>5. QED
  BY <1>2, <1>3, <1>4 DEF Ids, OnlyImages

LEMMA NothingDrawn ==
    ASSUME NEW s, NEW ids, ids = {}
    PROVE  Drawn(s, ids) = {}
  BY DEF Drawn

\* The overlay opens, or the window decides that it does not.
LEMMA StepOpens ==
    ASSUME DrawInv, OpenOverlay
    PROVE  DrawInv'
<1>1. DrawTypeOK /\ TalkInv /\ OfTheLatest /\ DrawnInv /\ ScopesGrow /\ OnlyImages(overlay)
  BY DEF DrawInv, TalkInv, DrawnInv
<1>2. /\ UNCHANGED <<talkVars, loopVars, news, shown, escape, valid, hasty>>
      /\ shown.started /\ overlay = NoOverlay /\ decided # shown.number
      /\ decided' = shown.number
  BY DEF OpenOverlay
<1>3. TalkInv' /\ (Awaited' => Awaited) /\ (Unseen' => Unseen) /\ (Unseen => Unseen')
  BY <1>1, <1>2, TalkSame
<1>4. UNCHANGED <<talk, reports, forgotten, completed>>
  BY <1>2 DEF talkVars, loopVars
<1>5. {scope.number, shown.number, decided, overlay.scope} \subseteq Nat
  BY <1>1, NextScopeTyped
<1>6. \/ /\ overlay' = NewSession(shown.number) /\ scope' = Opened(shown.number, TRUE)
         /\ display' = [display EXCEPT !.changed = FALSE]
      \/ UNCHANGED <<overlay, scope, display>>
  BY DEF OpenOverlay
<1>7. PICK new : new = NewSession(shown.number)
  OBVIOUS
<1>8. /\ IsSession(new) /\ new.scope = shown.number /\ Ids(new) = {} /\ OnlyImages(new)
      /\ ~new.finishing /\ new.last = 0
  BY <1>5, <1>7, NewSessionFits
<1>9. /\ display' \in [changes : 0..MaxDisplayChanges, changed : BOOLEAN]
      /\ scope' \in [number : ScopeNumber, open : BOOLEAN, frames : SUBSET Drawing,
                     removed : SUBSET MarkId]
      /\ scope'.number = scope.number
      /\ scope'.frames = scope.frames /\ scope'.removed = scope.removed
      /\ scope.number = shown.number /\ ~UNCHANGED overlay => scope'.open
  <2>1. /\ display \in [changes : 0..MaxDisplayChanges, changed : BOOLEAN]
        /\ scope \in [number : ScopeNumber, open : BOOLEAN, frames : SUBSET Drawing,
                      removed : SUBSET MarkId]
    BY <1>1 DEF DrawTypeOK
  <2>2. QED
    BY <1>6, <2>1 DEF Opened
<1>10. IsSession(overlay') /\ OnlyImages(overlay')
  BY <1>1, <1>6, <1>7, <1>8 DEF DrawTypeOK
<1>11. DrawTypeOK'
  BY <1>1, <1>2, <1>4, <1>9, <1>10 DEF DrawTypeOK
<1>12. ScopesGrow'
  BY <1>1, <1>2, <1>6, <1>7, <1>8, <1>9 DEF ScopesGrow
<1>13. OfTheLatest'
  BY <1>1, <1>2, <1>4 DEF OfTheLatest
<1>14. NotBegun'
  BY <1>1, <1>2, <1>3 DEF DrawnInv, NotBegun
<1>15. ScopeFits'
  <2>1. SUFFICES ASSUME Awaited, ~Unseen
                 PROVE  /\ scope'.number = shown'.number /\ shown'.number # NoScope
                        /\ IF overlay'.scope = scope'.number THEN Collecting' ELSE Collected'
    BY <1>3 DEF ScopeFits
  <2>2. /\ scope.number = shown.number /\ shown.number # NoScope
        /\ IF overlay.scope = scope.number THEN Collecting ELSE Collected
    BY <1>1, <2>1 DEF DrawnInv, ScopeFits
  <2>3. overlay.scope = NoScope
    BY <1>2, NewSessionFits DEF NoOverlay, NoScope
  <2>4. Collected /\ scope.number # overlay.scope
    BY <2>2, <2>3
  <2>5. valid = {} /\ scope.removed = {} /\ scope.frames = {}
    BY <1>2, <2>4 DEF Collected
  <2>6. CASE UNCHANGED <<overlay, scope, display>>
    <3>1. Collected'
      BY <1>2, <2>4, <2>6 DEF Collected, Closing
    <3>2. QED
      BY <1>2, <2>2, <2>4, <2>6, <3>1
  <2>7. CASE overlay' = new
    <3>1. new.scope = scope.number /\ ~UNCHANGED overlay
      BY <1>8, <2>2, <2>4, <2>7
    <3>2. Captured(new) = {}
      BY <1>8 DEF Captured, Those
    <3>3. Drawn(new, Ids(new)) = {} /\ Drawn(new, Captured(new)) = {}
      BY <1>8, <3>2, NothingDrawn
    <3>4. Ids(overlay)' = Ids(new) /\ Captured(overlay)' = Captured(new)
      BY <2>7
    <3>5. Drawn(overlay, Ids(overlay))' = {} /\ Drawn(overlay, Captured(overlay))' = {}
      BY <2>7, <3>3
    <3>6. Collecting'
      BY <1>2, <1>9, <2>2, <2>5, <3>1, <3>5 DEF Collecting
    <3>7. QED
      BY <1>2, <1>9, <2>2, <2>7, <3>1, <3>6
  <2>8. QED
    BY <1>6, <1>7, <2>6, <2>7
<1>16. QED
  BY <1>3, <1>10, <1>11, <1>12, <1>13, <1>14, <1>15 DEF DrawInv, TalkInv

-----------------------------------------------------------------------------
(* The session gets on: t is what it becomes, with images handed over.     *)

GoneFrom(t) == Ids(overlay) \ Ids(t)

Handles(t, images) ==
    /\ IsSession(t) /\ t.scope = overlay.scope /\ t.last = overlay.last
    /\ overlay.finishing => t.finishing
    /\ Ids(t) \subseteq Ids(overlay) /\ images \subseteq Ids(t)
    /\ \A i \in Ids(t) : t.marks[i].of = overlay.marks[i].of
    /\ Captured(t) = (Captured(overlay) \cap Ids(t)) \cup images
    /\ OnlyImages(t)

\* What FRAMES becomes with it.
Collects(frames, t, images) ==
    /\ frames \in [number : ScopeNumber, open : BOOLEAN, frames : SUBSET Drawing,
                   removed : SUBSET MarkId]
    /\ IF scope.number = overlay.scope
       THEN /\ frames.number = scope.number /\ frames.open = scope.open
            /\ frames.removed = scope.removed \cup GoneFrom(t)
            /\ frames.frames = {f \in scope.frames : f.id \notin GoneFrom(t)}
                   \cup {f \in Drawn(overlay, images) : f.id \notin frames.removed}
       ELSE frames = scope

\* What is drawn, and what of it is captured, stays what is valid and what is collected.
LEMMA CollectingGoesOn ==
    ASSUME DrawTypeOK, Collecting, scope.number = overlay.scope, NEW t, NEW images,
           Handles(t, images), NEW frames, Collects(frames, t, images)
    PROVE  /\ valid \ LostDrawings(overlay, GoneFrom(t)) = Drawn(t, Ids(t))
           /\ frames.frames = Drawn(t, Captured(t))
           /\ frames.removed \subseteq 1..t.last \ Ids(t)
           /\ frames.open
<1> DEFINE D(i) == [scope |-> overlay.scope, id |-> i, of |-> overlay.marks[i].of]
<1>1. /\ \A ids : Drawn(overlay, ids) = {D(i) : i \in ids}
      /\ \A i : D(i).id = i /\ D(i).scope = overlay.scope
  BY DEF Drawn
<1>2. \A ids \in SUBSET Ids(t) : Drawn(t, ids) = {D(i) : i \in ids}
  BY DEF Drawn, Handles
<1> HIDE DEF D
<1>3. /\ valid = {D(i) : i \in Ids(overlay)}
      /\ scope.frames = {D(i) : i \in Captured(overlay)}
      /\ Captured(overlay) \subseteq Ids(overlay) /\ Captured(t) \subseteq Ids(t)
  BY <1>1 DEF Collecting, Captured, Those
<1>4. valid \ LostDrawings(overlay, GoneFrom(t)) = {D(i) : i \in Ids(t)}
  <2>1. \A d \in valid : d \in LostDrawings(overlay, GoneFrom(t)) <=> d.id \in GoneFrom(t)
    BY <1>1, <1>3 DEF LostDrawings
  <2>2. valid \ LostDrawings(overlay, GoneFrom(t)) = {d \in valid : d.id \notin GoneFrom(t)}
    BY <2>1
  <2>3. {d \in valid : d.id \notin GoneFrom(t)} = {D(i) : i \in Ids(t)}
    BY <1>1, <1>3 DEF GoneFrom, Handles
  <2>4. QED
    BY <2>2, <2>3
<1>5. frames.removed \subseteq 1..t.last \ Ids(t)
  BY DEF Collecting, Collects, Handles, GoneFrom, DrawTypeOK, IsSession, Ids
<1>6. frames.frames = {D(i) : i \in Captured(t)}
  <2>1. {f \in Drawn(overlay, images) : f.id \notin frames.removed} = {D(i) : i \in images}
    BY <1>1, <1>5 DEF Handles
  <2>2. {f \in scope.frames : f.id \notin GoneFrom(t)}
           = {D(i) : i \in Captured(overlay) \cap Ids(t)}
    BY <1>1, <1>3 DEF GoneFrom
  <2>3. QED
    BY <2>1, <2>2 DEF Collects, Handles
<1>7. QED
  BY <1>2, <1>3, <1>4, <1>5, <1>6 DEF Collects, Collecting

\* A step of the session that was not its last.
LEMMA SessionStep ==
    ASSUME DrawInv, overlay # NoOverlay, NEW t, NEW images, Handles(t, images),
           overlay' = t, Collects(scope', t, images),
           valid' = valid \ LostDrawings(overlay, GoneFrom(t)),
           UNCHANGED <<talkVars, loopVars, news, shown, decided, hasty>>,
           escape' \in BOOLEAN,
           display' \in [changes : 0..MaxDisplayChanges, changed : BOOLEAN]
    PROVE  DrawInv'
<1>1. DrawTypeOK /\ TalkInv /\ OfTheLatest /\ DrawnInv /\ ScopesGrow
  BY DEF DrawInv, TalkInv, DrawnInv
<1>2. TalkInv' /\ (Awaited' => Awaited) /\ (Unseen' => Unseen) /\ (Unseen => Unseen')
  BY <1>1, TalkSame
<1>3. UNCHANGED <<talk, reports, forgotten, completed>>
  BY DEF talkVars, loopVars
<1>4. /\ IsSession(overlay') /\ OnlyImages(overlay') /\ overlay'.scope = overlay.scope
      /\ overlay.finishing => overlay'.finishing
  BY DEF Handles
<1>5. scope' \in [number : ScopeNumber, open : BOOLEAN, frames : SUBSET Drawing,
                  removed : SUBSET MarkId] /\ scope'.number = scope.number
  BY DEF Collects
<1>6. DrawTypeOK'
  BY <1>1, <1>3, <1>4, <1>5 DEF DrawTypeOK
<1>7. ScopesGrow' /\ OfTheLatest'
  BY <1>1, <1>3, <1>4, <1>5 DEF ScopesGrow, OfTheLatest
<1>8. NotBegun'
  BY <1>1, <1>2, <1>4 DEF DrawnInv, NotBegun, Closing
<1>9. ScopeFits'
  <2>1. SUFFICES ASSUME Awaited, ~Unseen
                 PROVE  /\ scope'.number = shown'.number /\ shown'.number # NoScope
                        /\ IF overlay'.scope = scope'.number THEN Collecting' ELSE Collected'
    BY <1>2 DEF ScopeFits
  <2>2. /\ scope.number = shown.number /\ shown.number # NoScope
        /\ IF overlay.scope = scope.number THEN Collecting ELSE Collected
    BY <1>1, <2>1 DEF DrawnInv, ScopeFits
  <2>3. CASE overlay.scope = scope.number
    <3>1. /\ valid' = Drawn(t, Ids(t)) /\ scope'.frames = Drawn(t, Captured(t))
          /\ scope'.removed \subseteq 1..t.last \ Ids(t) /\ scope'.open
      BY <1>1, <2>2, <2>3, CollectingGoesOn
    <3>2. /\ Drawn(overlay, Ids(overlay))' = Drawn(t, Ids(t)) /\ Ids(overlay)' = Ids(t)
          /\ Drawn(overlay, Captured(overlay))' = Drawn(t, Captured(t))
      OBVIOUS
    <3>3. Collecting'
      BY <2>2, <2>3, <3>1, <3>2 DEF Collecting
    <3>4. QED
      BY <1>4, <1>5, <2>2, <2>3, <3>3
  <2>4. CASE overlay.scope # scope.number
    <3>1. scope' = scope
      BY <2>4 DEF Collects
    <3>2. valid' = valid
      BY <2>2, <2>4 DEF Collected, LostDrawings
    <3>3. Collected'
      BY <1>4, <2>2, <2>4, <3>1, <3>2 DEF Collected, Closing
    <3>4. QED
      BY <1>4, <2>2, <2>4, <3>1, <3>3
  <2>5. QED
    BY <2>3, <2>4
<1>10. QED
  BY <1>2, <1>4, <1>6, <1>7, <1>8, <1>9 DEF DrawInv, TalkInv

\* All has been collected, and the overlay goes.
LEMMA StaysCollected ==
    ASSUME Collected, overlay' = NoOverlay, UNCHANGED <<scope, valid, decided, shown>>
    PROVE  Collected'
  BY DEF Collected, Closing

\* The last step of the session: all it has drawn has been collected.
LEMMA SessionEnds ==
    ASSUME DrawInv, overlay # NoOverlay, NEW t, NEW images, Handles(t, images), SessionOver(t),
           overlay' = NoOverlay, NEW frames, Collects(frames, t, images),
           scope' = IF frames.number = overlay.scope THEN [frames EXCEPT !.open = FALSE]
                    ELSE frames,
           valid' = valid \ LostDrawings(overlay, GoneFrom(t)),
           UNCHANGED <<talkVars, loopVars, news, shown, decided, display, hasty>>,
           escape' = FALSE
    PROVE  DrawInv'
<1>1. DrawTypeOK /\ TalkInv /\ OfTheLatest /\ DrawnInv /\ ScopesGrow
  BY DEF DrawInv, TalkInv, DrawnInv
<1>2. TalkInv' /\ (Awaited' => Awaited) /\ (Unseen' => Unseen) /\ (Unseen => Unseen')
  BY <1>1, TalkSame
<1>3. UNCHANGED <<talk, reports, forgotten, completed>>
  BY DEF talkVars, loopVars
<1>4. /\ IsSession(overlay') /\ OnlyImages(overlay') /\ overlay'.scope = 0
      /\ {scope.number, shown.number, decided, overlay.scope} \subseteq Nat
  BY <1>1, NewSessionFits, NextScopeTyped DEF NoOverlay, NoScope
<1>5. /\ scope' \in [number : ScopeNumber, open : BOOLEAN, frames : SUBSET Drawing,
                     removed : SUBSET MarkId]
      /\ scope'.number = scope.number /\ scope'.frames = frames.frames
      /\ scope.number = overlay.scope => ~scope'.open
      /\ scope.number # overlay.scope => scope' = scope
  <2>1. /\ frames \in [number : ScopeNumber, open : BOOLEAN, frames : SUBSET Drawing,
                       removed : SUBSET MarkId]
        /\ frames.number = scope.number
        /\ scope.number # overlay.scope => frames = scope
    BY DEF Collects
  <2>2. QED
    BY <2>1
<1>6. DrawTypeOK'
  BY <1>1, <1>3, <1>4, <1>5 DEF DrawTypeOK
<1>7. ScopesGrow' /\ OfTheLatest'
  BY <1>1, <1>3, <1>4, <1>5 DEF ScopesGrow, OfTheLatest
<1>8. NotBegun'
  BY <1>1, <1>2 DEF DrawnInv, NotBegun, Closing
<1>9. ScopeFits'
  <2>1. SUFFICES ASSUME Awaited, ~Unseen
                 PROVE  /\ scope'.number = shown'.number /\ shown'.number # NoScope
                        /\ IF overlay'.scope = scope'.number THEN Collecting' ELSE Collected'
    BY <1>2 DEF ScopeFits
  <2>2. /\ scope.number = shown.number /\ shown.number # NoScope
        /\ IF overlay.scope = scope.number THEN Collecting ELSE Collected
    BY <1>1, <2>1 DEF DrawnInv, ScopeFits
  <2>3. overlay'.scope # scope'.number
    BY <1>4, <1>5, <2>2 DEF NoScope
  <2>4. CASE overlay.scope = scope.number
    <3>1. valid' = Drawn(t, Ids(t)) /\ scope'.frames = Drawn(t, Captured(t))
      BY <1>1, <1>5, <2>2, <2>4, CollectingGoesOn
    <3>2. Captured(t) = Ids(t)
      BY DEF SessionOver, Captured, Those
    <3>3. \A d \in Drawn(t, Ids(t)) : d.scope = scope'.number
      BY <1>5, <2>4 DEF Drawn, Handles
    <3>4. Collected'
      BY <1>5, <2>2, <2>4, <3>1, <3>2, <3>3 DEF Collecting, Collected, Closing
    <3>5. QED
      BY <1>5, <2>2, <2>3, <3>4
  <2>5. CASE overlay.scope # scope.number
    <3>1. scope' = scope
      BY <1>5, <2>5
    <3>2. /\ ~scope.open /\ scope.frames = valid /\ \A d \in valid : d.scope = scope.number
          /\ decided = shown.number \/ (valid = {} /\ scope.removed = {})
      BY <2>2, <2>5 DEF Collected
    <3>3. valid' = valid
      BY <2>5, <3>2 DEF LostDrawings
    <3>4. decided' = decided /\ shown' = shown /\ Collected
      BY <2>2, <2>5
    <3>5. Collected'
      BY <3>1, <3>3, <3>4, StaysCollected
    <3>6. scope'.number = shown'.number /\ shown'.number # NoScope
      BY <2>2, <3>1, <3>4
    <3>7. QED
      BY <2>3, <3>5, <3>6
  <2>6. QED
    BY <2>4, <2>5
<1>10. QED
  BY <1>2, <1>4, <1>6, <1>7, <1>8, <1>9 DEF DrawInv, TalkInv

\* A handler that hands nothing over.
LEMMA KeepsHandles ==
    ASSUME DrawInv, NEW t, Keeps(overlay, t)
    PROVE  Handles(t, {})
<1>1. OnlyImages(overlay)
  BY DEF DrawInv
<1>2. Captured(t) = Captured(overlay) \cap Ids(t)
  BY DEF Captured, Those, Keeps
<1>3. QED
  BY <1>1, <1>2 DEF Handles, Keeps, Fields

\* FRAMES is told what has gone, or nothing has.
LEMMA RemovedCollects ==
    ASSUME DrawTypeOK, NEW t, NEW frames,
           \/ frames = Removed(overlay.scope, GoneFrom(t))
           \/ frames = scope /\ GoneFrom(t) = {}
    PROVE  Collects(frames, t, {})
<1>1. /\ scope \in [number : ScopeNumber, open : BOOLEAN, frames : SUBSET Drawing,
                    removed : SUBSET MarkId]
      /\ GoneFrom(t) \subseteq MarkId
      /\ Drawn(overlay, {}) = {}
  <2>1. scope \in [number : ScopeNumber, open : BOOLEAN, frames : SUBSET Drawing,
                   removed : SUBSET MarkId] /\ IsSession(overlay)
    BY DEF DrawTypeOK
  <2>2. overlay.last \in Nat /\ DOMAIN overlay.marks \subseteq 1..overlay.last
    BY <2>1 DEF IsSession
  <2>3. GoneFrom(t) \subseteq 1..overlay.last
    BY <2>2 DEF GoneFrom, Ids
  <2>4. 1..overlay.last \subseteq MarkId
    BY <2>2 DEF MarkId
  <2>5. Drawn(overlay, {}) = {}
    BY NothingDrawn
  <2>6. QED
    BY <2>1, <2>3, <2>4, <2>5
<1>2. CASE frames = Removed(overlay.scope, GoneFrom(t))
  <2>1. CASE scope.number # overlay.scope
    BY <1>1, <1>2, <2>1 DEF Removed, Collects
  <2>2. CASE scope.number = overlay.scope
    <3> DEFINE less == {f \in scope.frames : f.id \notin GoneFrom(t)}
               more == scope.removed \cup GoneFrom(t)
               s1 == [scope EXCEPT !.removed = more]
    <3>1. frames = [scope EXCEPT !.removed = more, !.frames = less]
      BY <1>1, <1>2, <2>2 DEF Removed
    <3>2. less \subseteq Drawing /\ more \subseteq MarkId
      BY <1>1
    <3> HIDE DEF less, more
    <3>3. /\ frames \in [number : ScopeNumber, open : BOOLEAN, frames : SUBSET Drawing,
                         removed : SUBSET MarkId]
          /\ frames.number = scope.number /\ frames.open = scope.open
          /\ frames.removed = more /\ frames.frames = less
      BY <1>1, <3>1, <3>2
    <3>4. QED
      BY <1>1, <2>2, <3>3 DEF Collects, less, more
  <2>3. QED
    BY <2>1, <2>2
<1>3. CASE frames = scope /\ GoneFrom(t) = {}
  BY <1>1, <1>3 DEF Collects
<1>4. QED
  BY <1>2, <1>3

\* A step of the session in which nothing is handed over.
LEMMA HandlerStep ==
    ASSUME DrawInv, overlay # NoOverlay, NEW t, Handles(t, {}), overlay' = t,
           \/ /\ scope' = Removed(overlay.scope, GoneFrom(t))
              /\ valid' = valid \ LostDrawings(overlay, GoneFrom(t))
           \/ UNCHANGED <<scope, valid>> /\ GoneFrom(t) = {},
           UNCHANGED <<talkVars, loopVars, news, shown, decided, hasty>>,
           escape' \in BOOLEAN,
           display' \in [changes : 0..MaxDisplayChanges, changed : BOOLEAN]
    PROVE  DrawInv'
<1>1. DrawTypeOK
  BY DEF DrawInv
<1>2. Collects(scope', t, {})
  BY <1>1, RemovedCollects
<1>3. GoneFrom(t) = {} => LostDrawings(overlay, GoneFrom(t)) = {}
  BY DEF LostDrawings
<1>4. valid' = valid \ LostDrawings(overlay, GoneFrom(t))
  BY <1>3
<1>5. QED
  BY <1>2, <1>4, SessionStep

LEMMA StepTypes ==
    ASSUME DrawInv
    PROVE  /\ IsSession(overlay) /\ escape \in BOOLEAN
           /\ display \in [changes : 0..MaxDisplayChanges, changed : BOOLEAN]
           /\ [display EXCEPT !.changed = FALSE]
                 \in [changes : 0..MaxDisplayChanges, changed : BOOLEAN]
           /\ OnlyImages(overlay) /\ DrawTypeOK
<1>1. DrawTypeOK /\ OnlyImages(overlay)
  BY DEF DrawInv
<1>2. /\ display \in [changes : 0..MaxDisplayChanges, changed : BOOLEAN]
      /\ IsSession(overlay) /\ escape \in BOOLEAN
  BY <1>1 DEF DrawTypeOK
<1>3. QED
  BY <1>1, <1>2

\* New windows for the overlay: all that is left has its image.
LEMMA StepReplaces ==
    ASSUME DrawInv, ReplaceSurfaces
    PROVE  DrawInv'
<1>1. PICK s : s = Invalidated(overlay)
  OBVIOUS
<1>2. /\ Keeps(overlay, s)
      /\ s.invalid => \A i \in Ids(s) : s.marks[i].phase \in HasImage
  BY <1>1, StepTypes, InvalidatedKeeps
<1>3. /\ overlay # NoOverlay /\ s.invalid /\ escape' = FALSE
      /\ UNCHANGED <<talkVars, loopVars, news, shown, decided, hasty>>
  BY <1>1 DEF ReplaceSurfaces
<1>4. CASE s.picking
  <2>1. /\ overlay' = s /\ scope' = Removed(overlay.scope, GoneFrom(s))
        /\ valid' = valid \ LostDrawings(overlay, GoneFrom(s)) /\ UNCHANGED display
    BY <1>1, <1>4 DEF ReplaceSurfaces, SessionBecomes, GoneFrom
  <2>2. QED
    BY <1>2, <1>3, <2>1, KeepsHandles, HandlerStep, StepTypes
<1>5. CASE ~s.picking
  <2> DEFINE g(i) == [s.marks[i] EXCEPT !.here = FALSE]
             f == [i \in DOMAIN s.marks |-> g(i)]
             u == [s EXCEPT !.invalid = FALSE]
             fresh == [s EXCEPT !.invalid = FALSE,
                          !.marks = [i \in DOMAIN @ |-> [@[i] EXCEPT !.here = FALSE]]]
  <2>1. IsSession(s)
    BY <1>2 DEF Keeps
  <2>2. fresh = [u EXCEPT !.marks = f]
    BY <2>1 DEF IsSession
  <2>3. IsSession(u) /\ Fields(s, u) /\ u.marks = s.marks /\ u.invalid = FALSE /\ u.held = s.held
    BY <2>1, NewInvalid
  <2>4. s.marks \in [DOMAIN s.marks -> Mark] /\ DOMAIN s.marks \subseteq 1..s.last
    BY <2>1 DEF IsSession
  <2>5. \A i \in DOMAIN s.marks :
           /\ g(i) \in Mark /\ g(i).of = s.marks[i].of /\ g(i).phase = s.marks[i].phase
    BY <2>4 DEF Mark
  <2>6. PICK t : t = fresh
    OBVIOUS
  <2>7. /\ overlay' = t /\ scope' = Removed(overlay.scope, GoneFrom(t))
        /\ valid' = valid \ LostDrawings(overlay, GoneFrom(t))
        /\ display' = [display EXCEPT !.changed = FALSE]
    BY <1>1, <1>5, <2>6 DEF ReplaceSurfaces, SessionBecomes, GoneFrom
  <2> HIDE DEF g, u, fresh
  <2>8. /\ DOMAIN f = DOMAIN s.marks /\ f \in [DOMAIN f -> Mark]
        /\ \A i \in DOMAIN f : f[i] = g(i)
    BY <2>4, <2>5
  <2> HIDE DEF f
  <2>9. DOMAIN f \subseteq 1..u.last
    BY <2>3, <2>4, <2>8 DEF Fields
  <2>10. /\ IsSession(t) /\ Fields(u, t) /\ t.marks = f /\ t.held = u.held /\ t.invalid = u.invalid
    BY <2>2, <2>3, <2>6, <2>8, <2>9, NewMarks
  <2>11. /\ Ids(t) = Ids(s) /\ Fields(s, t) /\ t.held = s.held /\ ~t.invalid
         /\ \A i \in Ids(t) : t.marks[i].of = s.marks[i].of /\ t.marks[i].phase = s.marks[i].phase
    BY <2>3, <2>5, <2>8, <2>10 DEF Ids, Fields
  <2>12. OnlyImages(s)
    BY <1>2, StepTypes DEF Keeps
  <2>13. OnlyImages(t)
    BY <1>2, <1>3, <2>11, <2>12 DEF OnlyImages, Fields
  <2>14. Keeps(s, t)
    BY <2>10, <2>11, <2>13 DEF Keeps
  <2>15. Keeps(overlay, t)
    BY <1>2, <2>14, KeepsOn
  <2>16. QED
    BY <1>3, <2>7, <2>15, KeepsHandles, HandlerStep, StepTypes
<1>6. QED
  BY <1>4, <1>5

\* The recording is over: the session finishes.
LEMMA StepCloses ==
    ASSUME DrawInv, CloseOverlay
    PROVE  DrawInv'
<1>1. PICK u : u = Released(overlay)
  OBVIOUS
<1>2. Keeps(overlay, u) /\ u.held = "no" /\ u.invalid = overlay.invalid /\ Ids(u) = Ids(overlay)
  BY <1>1, StepTypes, ReleasedKeeps
<1>3. PICK t : t = [u EXCEPT !.finishing = TRUE]
  OBVIOUS
<1>4. /\ IsSession(t) /\ t.scope = u.scope /\ t.last = u.last /\ t.marks = u.marks
      /\ t.held = u.held /\ t.invalid = u.invalid /\ t.finishing
  BY <1>2, <1>3 DEF Keeps, IsSession
<1>5. /\ overlay # NoOverlay /\ overlay' = t /\ escape' = FALSE
      /\ UNCHANGED <<talkVars, loopVars, news, shown, decided, hasty>>
      /\ UNCHANGED <<scope, valid, display>>
  BY <1>1, <1>3 DEF CloseOverlay
<1>6. Handles(u, {})
  BY <1>2, KeepsHandles
<1>7. Ids(t) = Ids(u) /\ Captured(t) = Captured(u) /\ OnlyImages(t)
  BY <1>2, <1>4, <1>6 DEF Ids, Captured, Those, OnlyImages, Handles
<1>8. Handles(t, {}) /\ GoneFrom(t) = {}
  BY <1>2, <1>4, <1>6, <1>7 DEF Handles, GoneFrom
<1>9. QED
  BY <1>5, <1>8, HandlerStep, StepTypes

\* FRAMES is told what has gone, and gets the images.
LEMMA PushedCollects ==
    ASSUME DrawTypeOK, NEW t, NEW images, images \subseteq Ids(overlay), NEW frames,
           frames = Pushed(Removed(overlay.scope, GoneFrom(t)), overlay.scope,
                           Drawn(overlay, images))
    PROVE  Collects(frames, t, images)
<1>1. PICK r : r = Removed(overlay.scope, GoneFrom(t))
  OBVIOUS
<1>2. PICK drawn : drawn = Drawn(overlay, images)
  OBVIOUS
<1>3. Collects(r, t, {}) /\ Drawn(overlay, {}) = {}
  BY <1>1, RemovedCollects, NothingDrawn
<1>4. /\ r \in [number : ScopeNumber, open : BOOLEAN, frames : SUBSET Drawing,
                removed : SUBSET MarkId]
      /\ scope.number = overlay.scope =>
            /\ r.number = scope.number /\ r.open = scope.open
            /\ r.removed = scope.removed \cup GoneFrom(t)
            /\ r.frames = {f \in scope.frames : f.id \notin GoneFrom(t)}
      /\ scope.number # overlay.scope => r = scope
  BY <1>3 DEF Collects
<1>5. drawn \subseteq Drawing
  <2>1. IsSession(overlay)
    BY DEF DrawTypeOK
  <2>2. /\ overlay.scope \in ScopeNumber /\ Ids(overlay) \subseteq 1..overlay.last
        /\ overlay.last \in Nat /\ \A i \in Ids(overlay) : overlay.marks[i] \in Mark
    BY <2>1 DEF IsSession, Ids
  <2>3. Ids(overlay) \subseteq MarkId
    BY <2>2 DEF MarkId
  <2>4. \A i \in Ids(overlay) : overlay.marks[i].of \in Dictation
    BY <2>2 DEF Mark
  <2>5. QED
    BY <1>2, <2>2, <2>3, <2>4 DEF Drawn, Drawing
<1>6. frames = Pushed(r, overlay.scope, drawn)
  BY <1>1, <1>2
<1>7. CASE scope.number # overlay.scope
  BY <1>4, <1>6, <1>7 DEF Pushed, Collects, DrawTypeOK
<1>8. CASE scope.number = overlay.scope
  <2> DEFINE more == r.frames \cup {f \in drawn : f.id \notin r.removed}
  <2>1. frames = [r EXCEPT !.frames = more]
    BY <1>4, <1>6, <1>8 DEF Pushed
  <2>2. more \subseteq Drawing
    BY <1>4, <1>5
  <2> HIDE DEF more
  <2>3. /\ frames \in [number : ScopeNumber, open : BOOLEAN, frames : SUBSET Drawing,
                       removed : SUBSET MarkId]
        /\ frames.number = r.number /\ frames.open = r.open
        /\ frames.removed = r.removed /\ frames.frames = more
    BY <1>4, <2>1, <2>2
  <2>4. QED
    BY <1>2, <1>4, <1>8, <2>3 DEF Collects, more
<1>9. QED
  BY <1>7, <1>8

\* A tick: what is ready is handed over, and the next mark waits for its screenshot.
LEMMA TickHandles ==
    ASSUME DrawInv, NEW keys, NEW arrived, NEW presented, NEW read, read = Read(keys),
           NEW after, after = Queued(HandedOver(read, arrived), presented)
    PROVE  /\ Handles(after, HandsOver(read, arrived))
           /\ Drawn(read, HandsOver(read, arrived)) = Drawn(overlay, HandsOver(read, arrived))
           /\ HandsOver(read, arrived) \subseteq Ids(overlay)
<1>1. PICK h : h = HandedOver(read, arrived)
  OBVIOUS
<1>2. PICK images : images = HandsOver(read, arrived)
  OBVIOUS
<1>3. Keeps(overlay, read) /\ IsSession(read) /\ OnlyImages(overlay)
  BY StepTypes, ReadKeeps DEF Keeps
<1>4. /\ IsSession(h) /\ Fields(read, h) /\ Ids(h) = Ids(read)
      /\ \A i \in Ids(h) : h.marks[i].of = read.marks[i].of
      /\ Captured(h) = Captured(read) \cup images /\ images \subseteq Ids(read)
      /\ OnlyImages(read) => OnlyImages(h)
  BY <1>1, <1>2, <1>3, HandedOverFits
<1>5. Keeps(h, after) /\ Ids(after) = Ids(h)
  BY <1>1, <1>4, QueuedKeeps
<1>6. Captured(read) = Captured(overlay) \cap Ids(read)
  BY <1>3 DEF Captured, Those, Keeps
<1>7. Captured(after) = Captured(h)
  BY <1>5 DEF Captured, Those, Keeps
<1>8. \A i \in Ids(after) : after.marks[i].of = overlay.marks[i].of
  BY <1>3, <1>4, <1>5 DEF Keeps
<1>9. OnlyImages(after) /\ IsSession(after)
  BY <1>3, <1>4, <1>5 DEF Keeps
<1>10. /\ after.scope = overlay.scope /\ after.last = overlay.last
       /\ after.finishing = overlay.finishing /\ Ids(read) \subseteq Ids(overlay)
       /\ read.scope = overlay.scope
  BY <1>3, <1>4, <1>5 DEF Keeps, Fields
<1>11. Handles(after, images)
  BY <1>4, <1>5, <1>6, <1>7, <1>8, <1>9, <1>10 DEF Handles
<1>12. Drawn(read, images) = Drawn(overlay, images)
  BY <1>3, <1>4, <1>10 DEF Drawn, Keeps
<1>13. QED
  BY <1>2, <1>4, <1>10, <1>11, <1>12

LEMMA StepTick ==
    ASSUME DrawInv, NEW keys, NEW presented, NEW arrived, Tick(keys, presented, arrived)
    PROVE  DrawInv'
<1>1. PICK read : read = Read(keys)
  OBVIOUS
<1>2. PICK after : after = Queued(HandedOver(read, arrived), presented)
  OBVIOUS
<1>3. PICK images : images = HandsOver(read, arrived)
  OBVIOUS
<1>4. PICK frames : frames = Pushed(Removed(overlay.scope, GoneFrom(after)), overlay.scope,
                                    Drawn(read, images))
  OBVIOUS
<1>5. /\ overlay # NoOverlay /\ escape' = FALSE
      /\ UNCHANGED <<talkVars, loopVars, news, shown, decided, display, hasty>>
      /\ valid' = valid \ LostDrawings(overlay, GoneFrom(after))
      /\ IF SessionOver(after)
         THEN /\ overlay' = NoOverlay
              /\ scope' = IF frames.number = overlay.scope
                          THEN [frames EXCEPT !.open = FALSE] ELSE frames
         ELSE overlay' = after /\ scope' = frames
  BY <1>1, <1>2, <1>3, <1>4 DEF Tick, Read, GoneFrom
<1>6. /\ Handles(after, images) /\ Drawn(read, images) = Drawn(overlay, images)
      /\ images \subseteq Ids(overlay)
  BY <1>1, <1>2, <1>3, TickHandles
<1>7. Collects(frames, after, images)
  BY <1>4, <1>6, PushedCollects, StepTypes
<1>8. CASE SessionOver(after)
  BY <1>5, <1>6, <1>7, <1>8, SessionEnds
<1>9. CASE ~SessionOver(after)
  <2>1. overlay' = after /\ scope' = frames
    BY <1>5, <1>9
  <2>2. display' \in [changes : 0..MaxDisplayChanges, changed : BOOLEAN] /\ escape' \in BOOLEAN
    BY <1>5, StepTypes
  <2>3. Collects(scope', after, images)
    BY <1>7, <2>1
  <2>4. QED
    BY <1>5, <1>6, <2>1, <2>2, <2>3, SessionStep
<1>10. QED
  BY <1>8, <1>9

\* The user takes a drawing back.
LEMMA StepUndoes ==
    ASSUME DrawInv, UndoStroke \/ UndoLast
    PROVE  DrawInv'
<1>1. PICK ids : /\ SessionBecomes(overlay, Without(overlay, ids))
                 /\ UNCHANGED <<talkVars, loopVars, news, shown, decided, display, escape, hasty>>
  BY DEF UndoStroke, UndoLast
<1>2. overlay # NoOverlay
  <2>1. NoOverlay.held = "no"
    BY DEF NoOverlay, NewSession
  <2>2. Ids(NoOverlay) = {}
    BY NewSessionFits DEF NoOverlay, NoScope
  <2>3. QED
    BY <2>1, <2>2 DEF UndoStroke, UndoLast
<1>3. PICK t : t = Without(overlay, ids)
  OBVIOUS
<1>4. Keeps(overlay, t)
  BY <1>3, DroppedKeeps, StepTypes
<1>5. /\ overlay' = t /\ scope' = Removed(overlay.scope, GoneFrom(t))
      /\ valid' = valid \ LostDrawings(overlay, GoneFrom(t))
  BY <1>1, <1>3 DEF SessionBecomes, GoneFrom
<1>6. escape' = escape /\ display' = display
  BY <1>1
<1>7. QED
  BY <1>1, <1>2, <1>4, <1>5, <1>6, KeepsHandles, HandlerStep, StepTypes

\* The session changes, and no mark goes.
LEMMA SessionKept ==
    ASSUME DrawInv, overlay # NoOverlay, NEW t, Handles(t, {}), Ids(t) = Ids(overlay), overlay' = t,
           UNCHANGED <<talkVars, loopVars, news, shown, scope, decided, valid, hasty>>,
           escape' \in BOOLEAN,
           display' \in [changes : 0..MaxDisplayChanges, changed : BOOLEAN]
    PROVE  DrawInv'
<1>1. GoneFrom(t) = {}
  BY DEF GoneFrom
<1>2. UNCHANGED <<talkVars, loopVars, news, shown, decided, hasty>> /\ UNCHANGED <<scope, valid>>
  OBVIOUS
<1>3. QED
  BY <1>1, <1>2, HandlerStep

LEMMA StepLocks ==
    ASSUME DrawInv, ToggleLock
    PROVE  DrawInv'
<1>1. PICK t : t = LockToggled(overlay)
  OBVIOUS
<1>2. /\ overlay # NoOverlay /\ overlay' = t /\ escape' = FALSE /\ display' = display
      /\ UNCHANGED <<talkVars, loopVars, news, shown, scope, decided, valid, hasty>>
  BY <1>1 DEF ToggleLock
<1>3. Keeps(overlay, t) /\ Ids(t) = Ids(overlay)
  BY <1>1, StepTypes, LockToggledKeeps
<1>4. QED
  BY <1>2, <1>3, KeepsHandles, SessionKept, StepTypes

\* A screenshot arrives, or fails.
LEMMA StepCaptured ==
    ASSUME DrawInv, CaptureEnds
    PROVE  DrawInv'
<1>1. PICK i \in Ids(overlay), result \in {"shot", "failed"} :
         /\ overlay.marks[i].phase = "capturing"
         /\ overlay' = InPhase(overlay, {i}, result)
  BY DEF CaptureEnds
<1>2. PICK t : t = InPhase(overlay, {i}, result)
  OBVIOUS
<1>3. /\ IsSession(t) /\ Fields(overlay, t) /\ t.held = overlay.held
      /\ t.invalid = overlay.invalid /\ Ids(t) = Ids(overlay)
      /\ \A j \in Ids(t) : /\ t.marks[j].of = overlay.marks[j].of
                           /\ t.marks[j].here = overlay.marks[j].here
                           /\ j = i => t.marks[j].phase = result
                           /\ j # i => t.marks[j] = overlay.marks[j]
  BY <1>2, Phased, StepTypes
<1>4. OnlyImages(overlay) /\ overlay.marks[i].phase \notin HasImage
  BY <1>1, StepTypes DEF HasImage
<1>5. OnlyImages(t)
  BY <1>3, <1>4 DEF OnlyImages, Fields
<1>6. \A j \in Ids(t) : t.marks[j].phase = "captured" <=> overlay.marks[j].phase = "captured"
  BY <1>1, <1>3
<1>7. Keeps(overlay, t)
  BY <1>3, <1>5, <1>6 DEF Keeps
<1>8. overlay # NoOverlay
  BY NewSessionFits DEF NoOverlay, NoScope
<1>9. /\ escape' = escape /\ display' = display
      /\ UNCHANGED <<talkVars, loopVars, news, shown, scope, decided, valid, hasty>>
  BY DEF CaptureEnds
<1>10. QED
  BY <1>1, <1>2, <1>3, <1>7, <1>8, <1>9, KeepsHandles, SessionKept, StepTypes

\* The reader of a pin is done.
LEMMA StepPicked ==
    ASSUME DrawInv, PickEnds
    PROVE  DrawInv'
<1>1. PICK t : t = [overlay EXCEPT !.picking = FALSE]
  OBVIOUS
<1>2. /\ IsSession(t) /\ t.scope = overlay.scope /\ t.last = overlay.last
      /\ t.finishing = overlay.finishing /\ t.marks = overlay.marks /\ t.held = overlay.held
      /\ t.invalid = overlay.invalid
  BY <1>1, StepTypes DEF IsSession
<1>3. Handles(overlay, {})
  BY StepTypes, KeepsSelf, KeepsHandles
<1>4. Ids(t) = Ids(overlay) /\ Captured(t) = Captured(overlay) /\ OnlyImages(t)
  BY <1>2, StepTypes DEF Ids, Captured, Those, OnlyImages
<1>5. Handles(t, {})
  BY <1>2, <1>3, <1>4 DEF Handles
<1>6. overlay # NoOverlay
  BY DEF PickEnds, NoOverlay, NewSession
<1>7. /\ overlay' = t /\ escape' = escape /\ display' = display
      /\ UNCHANGED <<talkVars, loopVars, news, shown, scope, decided, valid, hasty>>
  BY <1>1 DEF PickEnds
<1>8. QED
  BY <1>4, <1>5, <1>6, <1>7, SessionKept, StepTypes

LEMMA StepDisplays ==
    ASSUME DrawInv, DisplayChanges
    PROVE  DrawInv'
<1>1. PICK t : t = overlay
  OBVIOUS
<1>2. Handles(t, {}) /\ Ids(t) = Ids(overlay)
  BY <1>1, StepTypes, KeepsSelf, KeepsHandles
<1>3. /\ overlay # NoOverlay /\ overlay' = t /\ escape' = escape
      /\ display.changes < MaxDisplayChanges
      /\ display' = [changes |-> display.changes + 1, changed |-> TRUE]
      /\ UNCHANGED <<talkVars, loopVars, news, shown, scope, decided, valid, hasty>>
  BY <1>1 DEF DisplayChanges
<1>4. display' \in [changes : 0..MaxDisplayChanges, changed : BOOLEAN]
  <2>1. MaxDisplayChanges \in Nat /\ display.changes \in 0..MaxDisplayChanges
    BY StepTypes, DrawAssumption
  <2>2. QED
    BY <1>3, <2>1
<1>5. QED
  BY <1>2, <1>3, <1>4, SessionKept, StepTypes

-----------------------------------------------------------------------------
(* A new mark.                                                             *)

\* A session with one mark more.
WithMark(s, m) ==
    [s EXCEPT !.last = s.last + 1, !.picking = @ \/ m.pin,
        !.marks = [i \in DOMAIN @ \cup {s.last + 1} |-> IF i = s.last + 1 THEN m ELSE @[i]]]
LEMMA Marked ==
    ASSUME NEW s, IsSession(s), NEW m \in Mark, NEW new, new = s.last + 1, NEW t,
           t = WithMark(s, m)
    PROVE  /\ IsSession(t) /\ t.scope = s.scope /\ t.last = new
           /\ t.finishing = s.finishing /\ t.held = s.held /\ t.invalid = s.invalid
           /\ Ids(t) = Ids(s) \cup {new} /\ new \in Nat \ {0} /\ new \notin Ids(s)
           /\ \A i \in Ids(s) : t.marks[i] = s.marks[i]
           /\ t.marks[new] = m
<1>1. /\ s.marks \in [DOMAIN s.marks -> Mark] /\ DOMAIN s.marks \subseteq 1..s.last
      /\ s.last \in Nat /\ s.picking \in BOOLEAN
  BY DEF IsSession
<1>2. new \in Nat \ {0} /\ new \notin 1..s.last /\ new \in 1..new /\ 1..s.last \subseteq 1..new
  BY <1>1
<1> DEFINE f == [i \in DOMAIN s.marks \cup {new} |-> IF i = new THEN m ELSE s.marks[i]]
           picking == s.picking \/ m.pin
<1>3. /\ DOMAIN f = DOMAIN s.marks \cup {new} /\ f \in [DOMAIN f -> Mark]
      /\ \A i \in DOMAIN s.marks : f[i] = s.marks[i]
      /\ f[new] = m
  BY <1>1, <1>2
<1>4. picking \in BOOLEAN
  OBVIOUS
<1>5. t = [s EXCEPT !.last = new, !.picking = picking, !.marks = f]
  BY DEF IsSession, WithMark
<1> HIDE DEF f, picking
<1>6. /\ t \in [scope : ScopeNumber, marks : [DOMAIN f -> Mark], last : Nat,
                held : {"no", "key", "lock"}, picking : BOOLEAN, finishing : BOOLEAN,
                invalid : BOOLEAN]
      /\ t.marks = f /\ t.scope = s.scope /\ t.last = new
      /\ t.finishing = s.finishing /\ t.held = s.held /\ t.invalid = s.invalid
  BY <1>2, <1>3, <1>4, <1>5 DEF IsSession
<1>7. DOMAIN f \subseteq 1..new
  BY <1>1, <1>2, <1>3
<1>8. QED
  BY <1>1, <1>2, <1>3, <1>6, <1>7 DEF IsSession, Ids

\* Somebody who draws sees the latest dictation recorded, and draws into its scope.
LEMMA DrawsCollects ==
    ASSUME DrawInv, Draws
    PROVE  /\ talk.number \in Dictation /\ ~overlay.invalid /\ ~overlay.finishing
           /\ overlay # NoOverlay
           /\ Awaited => ~Unseen /\ overlay.scope = scope.number /\ Collecting
                         /\ scope.number = shown.number /\ shown.number # NoScope
<1>1. overlay # NoOverlay /\ ~overlay.invalid /\ ~overlay.finishing
  BY DEF Draws
<1>2. DrawTypeOK /\ OfTheLatest /\ NotBegun /\ ScopeFits
  BY DEF DrawInv
<1>3. talk.number \in Dictation
  BY <1>1, <1>2 DEF DrawTypeOK, OfTheLatest
<1>4. ~Closing
  BY <1>1 DEF Closing
<1>5. Awaited => ~Unseen
  BY <1>2, <1>4 DEF NotBegun
<1>6. ~Collected
  BY <1>4 DEF Collected
<1>7. QED
  BY <1>1, <1>2, <1>3, <1>5, <1>6 DEF ScopeFits

\* Ink or a pin is begun, and open ink may go.
LEMMA StepMarks ==
    ASSUME DrawInv, Draws, NEW s, Keeps(overlay, s), s.invalid = overlay.invalid,
           NEW m \in Mark, m.of = talk.number, m.here, m.phase = "drawing", NewMark(s, m)
    PROVE  DrawInv'
<1>1. DrawTypeOK /\ TalkInv /\ OfTheLatest /\ DrawnInv /\ ScopesGrow
  BY DEF DrawInv, TalkInv, DrawnInv
<1>2. TalkInv' /\ (Awaited' => Awaited) /\ (Unseen' => Unseen) /\ (Unseen => Unseen')
      /\ UNCHANGED <<talk, reports, forgotten, completed, news, shown, decided, display, escape,
                     hasty>>
  BY <1>1, TalkSame DEF NewMark, talkVars, loopVars
<1>3. /\ talk.number \in Dictation /\ ~overlay.invalid /\ ~overlay.finishing
      /\ Awaited => ~Unseen /\ overlay.scope = scope.number /\ Collecting
                    /\ scope.number = shown.number /\ shown.number # NoScope
  BY DrawsCollects
<1>4. PICK new : new = s.last + 1
  OBVIOUS
<1>5. PICK t : t = WithMark(s, m)
  OBVIOUS
<1>6. PICK frames : frames = Removed(overlay.scope, GoneFrom(s))
  OBVIOUS
<1>7. PICK left : left = valid \ LostDrawings(overlay, GoneFrom(s))
  OBVIOUS
<1>8. PICK drawing : drawing = [scope |-> t.scope, id |-> new, of |-> talk.number]
  OBVIOUS
<1>9. IsSession(s) /\ Fields(overlay, s)
  BY DEF Keeps
<1>10. /\ IsSession(t) /\ t.scope = s.scope /\ t.last = new
       /\ t.finishing = s.finishing /\ t.held = s.held /\ t.invalid = s.invalid
       /\ Ids(t) = Ids(s) \cup {new} /\ new \in Nat \ {0} /\ new \notin Ids(s)
       /\ \A i \in Ids(s) : t.marks[i] = s.marks[i]
       /\ t.marks[new] = m
  BY <1>4, <1>5, <1>9, Marked
<1>11. t.scope = overlay.scope
  BY <1>9, <1>10 DEF Fields
<1>12. Drawn(t, {new}) = {drawing}
  BY <1>8, <1>10 DEF Drawn
<1>13. overlay' = t /\ scope' = frames /\ valid' = left \cup {drawing}
  <2>1. LostDrawings(s, GoneFrom(s)) = LostDrawings(overlay, GoneFrom(s)) /\ s.scope = overlay.scope
    BY <1>9 DEF LostDrawings, Fields
  <2>2. overlay' = t
    BY <1>5 DEF NewMark, WithMark
  <2>3. scope' = Removed(s.scope, GoneFrom(s))
    BY DEF NewMark, GoneFrom
  <2>4. valid' = (valid \ LostDrawings(s, GoneFrom(s))) \cup Drawn(t, {new})
    BY <1>4, <1>5 DEF NewMark, GoneFrom, WithMark
  <2>5. QED
    BY <1>6, <1>7, <1>12, <2>1, <2>2, <2>3, <2>4
<1>14. Handles(s, {}) /\ Collects(frames, s, {})
  BY <1>1, <1>6, KeepsHandles, RemovedCollects
<1>15. /\ frames \in [number : ScopeNumber, open : BOOLEAN, frames : SUBSET Drawing,
                      removed : SUBSET MarkId]
       /\ frames.number = scope.number
  BY <1>14 DEF Collects
<1>16. left \subseteq valid
  BY <1>7
<1>17. OnlyImages(t)
  <2>1. OnlyImages(s) /\ ~s.invalid /\ ~s.finishing
    BY <1>3, <1>9, StepTypes DEF Keeps, Fields
  <2>2. QED
    BY <1>10, <2>1 DEF OnlyImages
<1>18. DrawTypeOK'
  <2>1. drawing \in Drawing
    <3>1. t.scope \in ScopeNumber
      BY <1>10 DEF IsSession
    <3>2. QED
      BY <1>3, <1>8, <1>10, <3>1 DEF Drawing, MarkId
  <2>2. valid' \subseteq Drawing
    BY <1>1, <1>13, <1>16, <2>1 DEF DrawTypeOK
  <2>3. QED
    BY <1>1, <1>2, <1>10, <1>13, <1>15, <2>2 DEF DrawTypeOK
<1>19. ScopesGrow'
  BY <1>1, <1>2, <1>11, <1>13, <1>15 DEF ScopesGrow
<1>20. OfTheLatest'
  <2>1. talk.number # NoDictation
    BY <1>3 DEF Dictation, NoDictation
  <2>2. \A d \in valid' : d.of = talk.number
    BY <1>1, <1>8, <1>13, <1>16 DEF OfTheLatest
  <2>3. QED
    BY <1>2, <2>1, <2>2 DEF OfTheLatest
<1>21. NotBegun'
  BY <1>2, <1>3 DEF NotBegun
<1>22. ScopeFits'
  <2>1. SUFFICES ASSUME Awaited, Collecting, scope.number = overlay.scope,
                        scope.number = shown.number, shown.number # NoScope
                 PROVE  /\ scope'.number = shown'.number /\ shown'.number # NoScope
                        /\ IF overlay'.scope = scope'.number THEN Collecting' ELSE Collected'
    BY <1>2, <1>3 DEF ScopeFits
  <2>2. /\ left = Drawn(s, Ids(s)) /\ frames.frames = Drawn(s, Captured(s))
        /\ frames.removed \subseteq 1..s.last \ Ids(s) /\ frames.open
    BY <1>1, <1>7, <1>14, <2>1, CollectingGoesOn
  <2>3. Captured(t) = Captured(s)
    BY <1>10 DEF Captured, Those
  <2>4. \A ids \in SUBSET Ids(s) : Drawn(t, ids) = Drawn(s, ids)
    BY <1>10 DEF Drawn
  <2>5. frames.frames = Drawn(t, Captured(t))
    <3>1. Captured(s) \subseteq Ids(s)
      BY DEF Captured, Those
    <3>2. QED
      BY <2>2, <2>3, <2>4, <3>1
  <2>6. Drawn(t, Ids(t)) = Drawn(t, Ids(s)) \cup Drawn(t, {new})
    BY <1>10 DEF Drawn
  <2>7. valid' = Drawn(t, Ids(t))
    BY <1>12, <1>13, <2>2, <2>4, <2>6
  <2>8. frames.removed \subseteq 1..t.last \ Ids(t)
    <3>1. s.last \in Nat
      BY <1>9 DEF IsSession
    <3>2. 1..s.last \subseteq 1..new /\ new \notin 1..s.last
      BY <1>4, <3>1
    <3>3. QED
      BY <1>10, <2>2, <3>2
  <2>9. /\ Drawn(overlay, Ids(overlay))' = Drawn(t, Ids(t)) /\ Ids(overlay)' = Ids(t)
        /\ Drawn(overlay, Captured(overlay))' = Drawn(t, Captured(t))
    BY <1>13
  <2>10. Collecting'
    BY <1>2, <1>13, <2>1, <2>2, <2>5, <2>7, <2>8, <2>9 DEF Collecting
  <2>11. QED
    BY <1>2, <1>11, <1>13, <1>15, <2>1, <2>10
<1>23. QED
  BY <1>2, <1>13, <1>17, <1>18, <1>19, <1>20, <1>21, <1>22 DEF DrawInv, TalkInv

\* Ink that is open gets longer.
Longer(s) ==
    [s EXCEPT !.marks =
        [i \in DOMAIN @ |-> IF i \in OpenInk(s) THEN [@[i] EXCEPT !.big = TRUE] ELSE @[i]]]
LEMMA LongerKeeps ==
    ASSUME NEW s, IsSession(s), NEW t, t = Longer(s)
    PROVE  Keeps(s, t) /\ Ids(t) = Ids(s)
<1> DEFINE open == OpenInk(s)
           g(i) == IF i \in open THEN [s.marks[i] EXCEPT !.big = TRUE] ELSE s.marks[i]
           f == [i \in DOMAIN s.marks |-> g(i)]
<1>1. t = [s EXCEPT !.marks = f]
  BY DEF Longer, IsSession
<1>2. s.marks \in [DOMAIN s.marks -> Mark] /\ DOMAIN s.marks \subseteq 1..s.last
  BY DEF IsSession
<1> HIDE DEF open
<1>3. \A i \in DOMAIN s.marks :
         /\ g(i) \in Mark /\ g(i).of = s.marks[i].of
         /\ g(i).here = s.marks[i].here /\ g(i).phase = s.marks[i].phase
  BY <1>2 DEF Mark
<1> HIDE DEF g
<1>4. /\ DOMAIN f = DOMAIN s.marks /\ f \in [DOMAIN f -> Mark]
      /\ \A i \in DOMAIN f : f[i] = g(i)
  BY <1>2, <1>3
<1> HIDE DEF f
<1>5. /\ IsSession(t) /\ Fields(s, t) /\ t.marks = f
      /\ t.held = s.held /\ t.invalid = s.invalid
  BY <1>1, <1>2, <1>4, NewMarks
<1>6. QED
  BY <1>3, <1>4, <1>5 DEF Keeps, OnlyImages, Fields, Ids

LEMMA StepDraws ==
    ASSUME DrawInv, DrawInk
    PROVE  DrawInv'
<1>1. Draws /\ overlay # NoOverlay
  BY DEF DrawInk, Draws
<1>2. CASE OpenInk(overlay) # {}
  <2>1. PICK t : t = Longer(overlay)
    OBVIOUS
  <2>2. /\ overlay' = t
        /\ UNCHANGED <<talkVars, loopVars, news, shown, scope, decided, display, escape, valid,
                       hasty>>
    BY <1>2, <2>1 DEF DrawInk, Longer
  <2>3. Keeps(overlay, t) /\ Ids(t) = Ids(overlay)
    BY <2>1, LongerKeeps, StepTypes
  <2>4. /\ escape' = escape /\ display' = display
        /\ UNCHANGED <<talkVars, loopVars, news, shown, scope, decided, valid, hasty>>
    BY <2>2
  <2>5. QED
    BY <1>1, <2>2, <2>3, <2>4, KeepsHandles, SessionKept, StepTypes
<1>3. CASE OpenInk(overlay) = {}
  <2>1. PICK big \in BOOLEAN :
           NewMark(overlay, [of |-> talk.number, pin |-> FALSE, big |-> big, closed |-> FALSE,
                             here |-> TRUE, phase |-> "drawing"])
    BY <1>3 DEF DrawInk
  <2>2. PICK m : m = [of |-> talk.number, pin |-> FALSE, big |-> big, closed |-> FALSE,
                      here |-> TRUE, phase |-> "drawing"]
    OBVIOUS
  <2>3. m \in Mark /\ m.of = talk.number /\ m.here /\ m.phase = "drawing"
    BY <1>1, <2>2, DrawsCollects DEF Mark
  <2>4. QED
    BY <1>1, <2>1, <2>2, <2>3, KeepsSelf, StepMarks, StepTypes
<1>4. QED
  BY <1>2, <1>3

LEMMA StepPins ==
    ASSUME DrawInv, DropPin
    PROVE  DrawInv'
<1>1. PICK m : m = [of |-> talk.number, pin |-> TRUE, big |-> TRUE, closed |-> TRUE,
                    here |-> TRUE, phase |-> "drawing"]
  OBVIOUS
<1>2. PICK s : s = Without(overlay, OpenInk(overlay))
  OBVIOUS
<1>3. Draws /\ NewMark(s, m)
  BY <1>1, <1>2 DEF DropPin, WithoutOpenInk
<1>4. Keeps(overlay, s) /\ s.invalid = overlay.invalid
  BY <1>2, Dropped, DroppedKeeps, StepTypes
<1>5. m \in Mark /\ m.of = talk.number /\ m.here /\ m.phase = "drawing"
  BY <1>1, <1>3, DrawsCollects DEF Mark
<1>6. QED
  BY <1>3, <1>4, <1>5, StepMarks

-----------------------------------------------------------------------------
(* The theorems.                                                           *)

LEMMA DrawStarts ==
    ASSUME DrawAssumption, DrawInit
    PROVE  DrawInv
<1>1. /\ IsSession(NoOverlay) /\ NoOverlay.scope = 0 /\ Ids(NoOverlay) = {}
      /\ OnlyImages(NoOverlay) /\ overlay = NoOverlay
  BY NewSessionFits DEF DrawInit, NoOverlay, NoScope
<1>2. /\ talk = [number |-> 0, does |-> "nothing"]
      /\ reports = <<>> /\ completed = <<>> /\ news = <<>> /\ forgotten = 0
      /\ shown = [started |-> FALSE, number |-> 0]
      /\ scope = [number |-> 0, open |-> FALSE, frames |-> {}, removed |-> {}]
      /\ decided = 0 /\ escape = FALSE
      /\ display = [changes |-> 0, changed |-> FALSE]
      /\ valid = {} /\ hasty = {}
  BY DEF DrawInit, NoDictation, NoScope
<1>3. DOMAIN reports = {} /\ DOMAIN completed = {} /\ DOMAIN news = {}
  BY <1>2
<1>4. DrawTypeOK
  <2>1. MaxDisplayChanges \in Nat
    BY DrawAssumption
  <2>2. display \in [changes : 0..MaxDisplayChanges, changed : BOOLEAN]
    BY <1>2, <2>1
  <2>3. /\ talk \in [number : {NoDictation} \cup Dictation,
                     does : {"nothing", "records", "decodes"}]
        /\ forgotten \in {NoDictation} \cup Dictation
        /\ reports \in Seq([is : Status \cup Transcript, of : Dictation])
        /\ completed \in Seq(Dictation) /\ news \in Seq(Status)
    BY <1>2 DEF NoDictation
  <2>4. /\ shown \in [started : BOOLEAN, number : ScopeNumber]
        /\ scope \in [number : ScopeNumber, open : BOOLEAN, frames : SUBSET Drawing,
                      removed : SUBSET MarkId]
        /\ decided \in ScopeNumber /\ escape \in BOOLEAN
        /\ valid \subseteq Drawing /\ hasty \subseteq Dictation
    BY <1>2 DEF ScopeNumber
  <2>5. QED
    BY <1>1, <2>2, <2>3, <2>4 DEF DrawTypeOK
<1>5. EndsAnnounced
  BY <1>2, <1>3 DEF EndsAnnounced
<1>6. OneTranscript
  <2>1. Words = {} /\ Waiting = {}
    BY <1>3 DEF Words, Waiting
  <2>2. forgotten <= talk.number
    BY <1>2
  <2>3. QED
    BY <1>3, <2>1, <2>2 DEF OneTranscript
<1>7. OfTheLatest /\ ScopesGrow
  BY <1>1, <1>2 DEF OfTheLatest, ScopesGrow
<1>8. ~Awaited
  BY <1>2 DEF Awaited
<1>9. QED
  BY <1>1, <1>4, <1>5, <1>6, <1>7, <1>8 DEF DrawInv, OwnReports, NotBegun, ScopeFits

LEMMA DrawStutters ==
    ASSUME DrawInv, UNCHANGED drawVars
    PROVE  DrawInv'
<1>1. UNCHANGED <<talkVars, loopVars, news, shown, hasty>> /\ UNCHANGED <<overlay, scope, decided,
         display, escape, valid, talk, reports, completed, forgotten>>
  BY DEF drawVars, sketchVars, talkVars, loopVars
<1>2. DrawTypeOK' /\ ScopesGrow' /\ OfTheLatest' /\ OnlyImages(overlay)'
  BY <1>1 DEF DrawInv, DrawTypeOK, ScopesGrow, OfTheLatest
<1>3. TalkInv' /\ DrawnInv'
  BY <1>1, TalkSame, DrawnSame DEF DrawInv, TalkInv, DrawnInv
<1>4. QED
  BY <1>2, <1>3 DEF DrawInv, TalkInv, DrawnInv

LEMMA DrawSteps ==
    ASSUME DrawAssumption, DrawInv, [DrawNext]_drawVars
    PROVE  DrawInv'
<1>1. CASE UNCHANGED drawVars
  BY <1>1, DrawStutters
<1>2. CASE StartsTalking
  BY <1>2, StepStarts
<1>3. CASE StopsTalking \/ Decodes \/ CancelTalk
  BY <1>3, StepTalks
<1>4. CASE LoopReads
  BY <1>4, StepLoopReads
<1>5. CASE TakeKeyframes
  BY <1>5, StepTakes
<1>6. CASE PressEscape
  BY <1>6, StepEscape
<1>7. CASE WindowReads
  BY <1>7, StepWindowReads
<1>8. CASE OpenOverlay
  BY <1>8, StepOpens
<1>9. CASE ReplaceSurfaces
  BY <1>9, StepReplaces
<1>10. CASE CloseOverlay
  BY <1>10, StepCloses
<1>11. ASSUME NEW keys \in KeysSaid, NEW presented \in Presented, NEW arrived \in Arrived,
              Tick(keys, presented, arrived)
       PROVE  DrawInv'
  BY <1>11, StepTick
<1>12. CASE DrawInk
  BY <1>12, StepDraws
<1>13. CASE DropPin
  BY <1>13, StepPins
<1>14. CASE UndoStroke \/ UndoLast
  BY <1>14, StepUndoes
<1>15. CASE ToggleLock
  BY <1>15, StepLocks
<1>16. CASE CaptureEnds
  BY <1>16, StepCaptured
<1>17. CASE PickEnds
  BY <1>17, StepPicked
<1>18. CASE DisplayChanges
  BY <1>18, StepDisplays
<1>19. QED
  BY <1>1, <1>2, <1>3, <1>4, <1>5, <1>6, <1>7, <1>8, <1>9, <1>10, <1>11, <1>12, <1>13, <1>14,
     <1>15, <1>16, <1>17, <1>18 DEF DrawNext

\* Every reachable state of engine, loop, window and overlay has the inductive invariant: a
\* dictation that overlaps with no other has one transcript, and until that is taken the
\* scope holds an image for each mark of the overlay that has been captured, and for no other.
THEOREM DrawInvariant == DrawSpec => []DrawInv
<1>1. DrawInit => DrawInv
  BY DrawStarts, DrawAssumption
<1>2. DrawInv /\ [DrawNext]_drawVars => DrawInv'
  BY DrawSteps, DrawAssumption
<1>3. QED
  BY <1>1, <1>2, PTL DEF DrawSpec

\* Every variable keeps its type, for any number of dictations, marks and display changes.
THEOREM DrawTypes == DrawSpec => []DrawTypeOK
<1>1. DrawInv => DrawTypeOK
  BY DEF DrawInv
<1>2. QED
  BY <1>1, DrawInvariant, PTL

\* When a display is added, moved or removed, invalidate_layout drops every mark that has no
\* image yet before new surfaces are made: no mark that is still to be painted or captured
\* points at a surface that is gone.
THEOREM OnDisplays == DrawSpec => []MarksOnDisplays
<1>1. DrawInv => MarksOnDisplays
  BY DEF DrawInv, OnlyImages, MarksOnDisplays
<1>2. QED
  BY <1>1, DrawInvariant, PTL

\* take_keyframes pastes, with the words of a dictation that overlapped with no other, only
\* drawings made in it, and all of them once the overlay has closed its scope.
THEOREM DrawingsKeepWords == DrawSpec => DrawingsWithTheirWords
<1> DEFINE mine == {d \in valid : d.of = Head(completed)}
           Kept == Len(completed') < Len(completed) =>
                      (Head(completed) \notin hasty /\ "Recording" \notin Range(news) =>
                         (/\ scope.frames \subseteq mine
                          /\ ~scope.open => scope.frames = mine))
<1>1. DrawInv /\ [DrawNext]_drawVars => Kept
  <2>1. SUFFICES ASSUME DrawInv, [DrawNext]_drawVars, Len(completed') < Len(completed),
                        Head(completed) \notin hasty, "Recording" \notin Range(news)
                 PROVE  scope.frames \subseteq mine /\ (~scope.open => scope.frames = mine)
    OBVIOUS
  <2>2. DrawTypeOK /\ TalkInv /\ OfTheLatest /\ ScopeFits
    BY <2>1 DEF DrawInv, TalkInv
  <2>3. completed \in Seq(Dictation) /\ reports \in Seq(Report) /\ news \in Seq(Status)
    BY <2>2 DEF DrawTypeOK, Report
  <2>4. TakeKeyframes
    <3>1. completed' # completed
      BY <2>1, <2>3
    <3>2. ~LoopReads
      <4>1. ASSUME LoopReads
            PROVE  completed' = completed \/ completed' = Append(completed, Head(reports).of)
        BY <4>1 DEF LoopReads
      <4>2. ASSUME LoopReads PROVE Head(reports).of \in Dictation
        <5>1. Head(reports) \in Report
          BY <4>2, <2>3, Tailed DEF LoopReads
        <5>2. QED
          BY <5>1 DEF Report
      <4>3. /\ Len(completed) \in Nat
            /\ \A of \in Dictation : Len(Append(completed, of)) = Len(completed) + 1
        BY <2>3, Appended
      <4>4. QED
        BY <2>1, <3>1, <4>1, <4>2, <4>3
    <3>3. QED
      BY <2>1, <3>1, <3>2
         DEF DrawNext, drawVars, loopVars, StartsTalking, StopsTalking, Decodes,
         CancelTalk, PressEscape, WindowReads, OpenOverlay, ReplaceSurfaces,
         CloseOverlay, Tick, DrawInk, DropPin, NewMark, UndoStroke, UndoLast, ToggleLock,
         CaptureEnds, PickEnds, DisplayChanges
  <2>5. Head(completed) = talk.number /\ Awaited
    BY <2>1, <2>2, <2>4, TakesTalk
  <2>6. ~Unseen
    <3>1. completed # <<>>
      BY <2>4 DEF TakeKeyframes
    <3>2. \A i \in DOMAIN reports : reports[i].is # "Recording"
      BY <2>2, <2>5, <3>1 DEF TalkInv, OwnReports
    <3>3. \A i \in DOMAIN news : news[i] # "Recording"
      BY <2>1 DEF Range
    <3>4. QED
      BY <3>2, <3>3 DEF Unseen
  <2>7. mine = valid
    BY <2>2, <2>5 DEF OfTheLatest
  <2>8. CASE Collecting
    <3>1. Captured(overlay) \subseteq Ids(overlay)
      BY DEF Captured, Those
    <3>2. scope.frames \subseteq valid /\ scope.open
      BY <2>8, <3>1 DEF Collecting, Drawn
    <3>3. QED
      BY <2>7, <3>2
  <2>9. CASE Collected
    BY <2>7, <2>9 DEF Collected
  <2>10. QED
    BY <2>2, <2>5, <2>6, <2>8, <2>9 DEF ScopeFits
<1>2. QED
  BY <1>1, DrawInvariant, PTL DEF DrawSpec, DrawingsWithTheirWords
=============================================================================
