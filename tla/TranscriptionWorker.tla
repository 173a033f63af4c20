------------------------ MODULE TranscriptionWorker ------------------------
(***************************************************************************)
(* From the microphone to the text: the stream's callback and the sample   *)
(* collector (audio.rs), the transcription worker                          *)
(* (transcription/background.rs), and the engine that starts, stops,       *)
(* cancels and replaces them (runtime.rs).                                 *)
(*                                                                         *)
(* The callback writes a ring buffer.  The collector thread empties it,    *)
(* keeps every sample, and forwards a copy to the worker, which decodes    *)
(* while the user still speaks.  The engine takes the worker's result when *)
(* the recording is over, or sends the whole audio for a second try, or    *)
(* saves it.  The worker takes its jobs one by one and keeps one voice     *)
(* detector for all of them; it may be a recording behind the engine.      *)
(*                                                                         *)
(* A sound <<t, n>> stands for one chunk of samples, the n-th of recording *)
(* t.  Every sound is speech.                                              *)
(***************************************************************************)
EXTENDS Naturals, Sequences

CONSTANTS
    MaxTakes,       \* bound: recordings begun
    MaxSounds,      \* bound: sounds in one recording
    RingSize,       \* sounds the ring buffer holds
    DirectLimit,    \* sounds up to which a recording is decoded in one piece
    Decoders        \* kinds of decoder a model may bring

ASSUME BoundsAssumption ==
    /\ MaxTakes \in Nat /\ MaxSounds \in Nat
    /\ RingSize \in Nat \ {0} /\ DirectLimit \in Nat \ {0}
\* "streaming": Nemotron.  "vad": Parakeet with voice detection.  "plain": without.
ASSUME DecodersAssumption == Decoders \subseteq {"streaming", "vad", "plain"}

VARIABLES
    pc,         \* what the engine does
    take,       \* the latest recording, 0 before the first
    stage,      \* how far each recording has come
    kept,       \* its text, or the audio saved in place of it
    said,       \* history: sounds the microphone heard
    spoiled,    \* recordings with an overflow or a stream error
    ring,       \* the ring buffer
    collecting, \* the collector thread of the latest recording runs
    samples,    \* what it has collected
    chunks,     \* each recording's channel to the worker
    jobs,       \* the worker's command channel
    session,    \* the worker's reply about the latest recording
    answer,     \* its reply to the latest whole-file or media job
    cancelled,  \* recordings whose cancel flag is set
    decoder,    \* what the active model decodes with
    worker,     \* what the worker does
    hearing,    \* the recording it listens to, 0 when it does not
    heard,      \* the sounds it took from that recording
    speech,     \* the voice detector: heard and not yet decoded
    parts       \* decoded

engineVars == <<pc, take, stage, kept>>
micVars == <<said, spoiled, ring, collecting, samples>>
workerVars == <<decoder, worker, hearing, heard, speech, parts>>
channelVars == <<chunks, jobs, session, answer, cancelled>>
vars == <<engineVars, micVars, channelVars, workerVars>>

Take == 1..MaxTakes
Sounds == Take \X (1..MaxSounds)
Steps == {"idle", "recording", "stopping", "dropping", "finish", "whole",
          "media", "replacing", "leaving", "shutdown", "gone"}
Stages == {"unused", "recording", "stopped", "given", "failed", "lost", "discarded"}
Job == [op : {"Record"}, take : Take] \cup [op : {"Transcribe", "Media", "Quit"}, take : {0}]
RecordJob(t) == [op |-> "Record", take |-> t]
PlainJob(op) == [op |-> op, take |-> 0]

Reply == [kind : {"none", "text", "nothing", "error"}, words : Seq(Sounds)]
Answered(kind) == [kind |-> kind, words |-> <<>>]
NoReply == Answered("none")
Text(words) == [kind |-> "text", words |-> words]

\* Every variable has the values its counterpart has in the code.
TypeOK ==
    /\ pc \in Steps /\ take \in 0..MaxTakes
    /\ stage \in [Take -> Stages] /\ kept \in [Take -> Seq(Sounds)]
    /\ said \in [Take -> 0..MaxSounds] /\ spoiled \subseteq Take
    /\ ring \in Seq(Sounds) /\ Len(ring) <= RingSize
    /\ collecting \in BOOLEAN /\ samples \in Seq(Sounds)
    /\ chunks \in [Take -> Seq(Sounds)] /\ jobs \in Seq(Job)
    /\ session \in Reply /\ answer \in Reply /\ cancelled \subseteq Take
    /\ decoder \in Decoders
    /\ worker \in {"idle", "record", "whole", "media", "ended"}
    /\ hearing \in 0..MaxTakes /\ (hearing # 0 <=> worker = "record")
    /\ heard \in Seq(Sounds) /\ speech \in Seq(Sounds) /\ parts \in Seq(Sounds)

Init ==
    /\ pc = "idle" /\ take = 0
    /\ stage = [t \in Take |-> "unused"] /\ kept = [t \in Take |-> <<>>]
    /\ said = [t \in Take |-> 0] /\ spoiled = {}
    /\ ring = <<>> /\ collecting = FALSE /\ samples = <<>>
    /\ chunks = [t \in Take |-> <<>>] /\ jobs = <<>>
    /\ session = NoReply /\ answer = NoReply /\ cancelled = {}
    /\ decoder \in Decoders /\ worker = "idle"
    /\ hearing = 0 /\ heard = <<>> /\ speech = <<>> /\ parts = <<>>

-----------------------------------------------------------------------------
(* The microphone.  Its stream is open while pc = "recording".             *)

\* The callback pushes into the ring buffer; a full one loses the sound and
\* remembers that it did.
Sound ==
    /\ pc = "recording" /\ said[take] < MaxSounds
    /\ said' = [said EXCEPT ![take] = @ + 1]
    /\ IF Len(ring) < RingSize
         THEN ring' = Append(ring, <<take, said'[take]>>) /\ UNCHANGED spoiled
         ELSE spoiled' = spoiled \cup {take} /\ UNCHANGED ring
    /\ UNCHANGED <<engineVars, collecting, samples, channelVars, workerVars>>

\* The stream's error callback.
StreamError ==
    /\ pc = "recording"
    /\ spoiled' = spoiled \cup {take}
    /\ UNCHANGED <<engineVars, said, ring, collecting, samples, channelVars, workerVars>>

\* The worker still has the receiving end of a recording's channel.
Receives(t) == hearing = t \/ \E i \in DOMAIN jobs : jobs[i] = RecordJob(t)

\* One turn of the collector: keep the sound, and forward it to a listener.
Collect ==
    /\ collecting /\ ring # <<>>
    /\ ring' = Tail(ring)
    /\ samples' = Append(samples, Head(ring))
    /\ chunks' = IF Receives(take)
                   THEN [chunks EXCEPT ![take] = Append(@, Head(ring))] ELSE chunks
    /\ UNCHANGED <<engineVars, said, spoiled, collecting, jobs, session, answer,
                   cancelled, workerVars>>

\* Told to stop, with the buffer empty: the thread returns its samples, and its
\* end of the channel is dropped.
CollectorEnds ==
    /\ collecting /\ pc # "recording" /\ ring = <<>>
    /\ collecting' = FALSE
    /\ UNCHANGED <<engineVars, said, spoiled, ring, samples, channelVars, workerVars>>

-----------------------------------------------------------------------------
(* The engine.                                                             *)

Send(job) == jobs' = IF worker = "ended" THEN jobs ELSE Append(jobs, job)
Advance(t, s) == stage' = [stage EXCEPT ![t] = s]

\* The recorder runs, and the worker is told to listen.  With the worker gone
\* this fails and leaves nothing behind, so it is no step.
StartRecording ==
    /\ pc = "idle" /\ take < MaxTakes /\ worker # "ended"
    /\ take' = take + 1
    /\ pc' = "recording" /\ Advance(take + 1, "recording")
    /\ ring' = <<>> /\ samples' = <<>> /\ collecting' = TRUE
    /\ Send(RecordJob(take + 1)) /\ session' = NoReply
    /\ UNCHANGED <<kept, said, spoiled, chunks, answer, cancelled, workerVars>>

\* finish_with_warning closes the stream and tells the collector.
StopRecording ==
    /\ pc = "recording"
    /\ pc' = "stopping" /\ Advance(take, "stopped")
    /\ UNCHANGED <<take, kept, micVars, channelVars, workerVars>>

\* Mutant: a recording with a warning is refused.
JoinCollectorStrict ==
    /\ pc = "stopping" /\ ~collecting
    /\ IF samples = <<>> \/ take \in spoiled
         THEN pc' = "idle" /\ Advance(take, "discarded") /\ cancelled' = cancelled \cup {take}
         ELSE pc' = "finish" /\ UNCHANGED <<stage, cancelled>>
    /\ UNCHANGED <<take, kept, micVars, chunks, jobs, session, answer, workerVars>>

\* The collector is joined.  Without a sound there is no recording; with a
\* warning the session is dropped and the whole audio goes to the worker.
JoinCollector ==
    /\ pc = "stopping" /\ ~collecting
    /\ IF samples = <<>>
         THEN pc' = "idle" /\ Advance(take, "discarded")
         ELSE /\ pc' = IF take \in spoiled THEN "whole" ELSE "finish"
              /\ UNCHANGED stage
    /\ cancelled' = IF samples = <<>> \/ take \in spoiled
                      THEN cancelled \cup {take} ELSE cancelled
    /\ IF pc' = "whole" THEN Send(PlainJob("Transcribe")) ELSE UNCHANGED jobs
    /\ UNCHANGED <<take, kept, micVars, chunks, session, answer, workerVars>>

Keep(t, words) == kept' = [kept EXCEPT ![t] = words]
Silent(reply) == reply = NoReply /\ worker = "ended"

\* Mutant: waits for a reply without noticing that the worker is gone.
FinishSessionPatient ==
    /\ pc = "finish" /\ session # NoReply
    /\ IF session.kind = "text"
         THEN /\ pc' = "idle" /\ Advance(take, "given") /\ Keep(take, session.words)
              /\ UNCHANGED jobs
         ELSE /\ pc' = "whole" /\ Send(PlainJob("Transcribe"))
              /\ UNCHANGED <<stage, kept>>
    /\ cancelled' = cancelled \cup {take}
    /\ UNCHANGED <<take, micVars, chunks, session, answer, workerVars>>

\* TranscriptionWorker::finish: the background result, or a second try with the
\* whole audio when there is none (a short recording) or it failed.
FinishSession ==
    /\ pc = "finish" /\ (session # NoReply \/ Silent(session))
    /\ IF session.kind = "text"
         THEN /\ pc' = "idle" /\ Advance(take, "given") /\ Keep(take, session.words)
              /\ UNCHANGED jobs
         ELSE /\ pc' = "whole" /\ Send(PlainJob("Transcribe"))
              /\ UNCHANGED <<stage, kept>>
    /\ cancelled' = cancelled \cup {take}
    /\ UNCHANGED <<take, micVars, chunks, session, answer, workerVars>>

\* TranscriptionWorker::transcribe: the text, or the audio in Failed Recordings,
\* or the news that it could not be saved there.
FinishWhole ==
    /\ pc = "whole" /\ (answer # NoReply \/ Silent(answer))
    /\ IF answer.kind = "text"
         THEN Advance(take, "given") /\ Keep(take, answer.words)
         ELSE \/ Advance(take, "failed") /\ Keep(take, samples)
              \/ Advance(take, "lost") /\ UNCHANGED kept
    /\ pc' = "idle" /\ answer' = NoReply
    /\ UNCHANGED <<take, micVars, chunks, jobs, session, cancelled, workerVars>>

CancelRecording ==
    /\ pc = "recording"
    /\ pc' = "dropping"
    /\ UNCHANGED <<take, stage, kept, micVars, channelVars, workerVars>>

\* The recorder is dropped first, then the session, whose drop sets the flag.
DropSession ==
    /\ pc = "dropping" /\ ~collecting
    /\ pc' = "idle" /\ Advance(take, "discarded")
    /\ cancelled' = cancelled \cup {take}
    /\ UNCHANGED <<take, kept, micVars, chunks, jobs, session, answer, workerVars>>

BeginMedia ==
    /\ pc = "idle" /\ worker # "ended"
    /\ pc' = "media" /\ Send(PlainJob("Media"))
    /\ UNCHANGED <<take, stage, kept, micVars, chunks, session, answer, cancelled, workerVars>>

\* try_recv in the engine's loop: a reply that will never come is not noticed.
MediaReply ==
    /\ pc = "media" /\ answer # NoReply
    /\ pc' = "idle" /\ answer' = NoReply
    /\ UNCHANGED <<take, stage, kept, micVars, chunks, jobs, session, cancelled, workerVars>>

\* Mutant: stopping a worker only sets the flag.
ShutdownUnsent ==
    /\ cancelled' = cancelled \cup ({take} \ {0})
    /\ UNCHANGED jobs

\* Mutant: marks a recording although there was none.
ShutdownUnguarded ==
    /\ cancelled' = cancelled \cup {take}
    /\ Send(PlainJob("Quit"))

\* TranscriptionWorker::shutdown, up to the join: `active` is the latest recording.
Shutdown ==
    /\ cancelled' = cancelled \cup ({take} \ {0})
    /\ Send(PlainJob("Quit"))

\* Another model is loaded: the old worker is stopped before it is replaced.
SwitchModel ==
    /\ pc = "idle"
    /\ pc' = "replacing" /\ Shutdown
    /\ UNCHANGED <<take, stage, kept, micVars, chunks, session, answer, workerVars>>

Replace ==
    /\ pc = "replacing" /\ worker = "ended"
    /\ pc' = "idle" /\ worker' = "idle" /\ decoder' \in Decoders /\ speech' = <<>>
    /\ UNCHANGED <<take, stage, kept, micVars, channelVars, hearing, heard, parts>>

\* The code after the engine's loop.  The session is dropped before the recorder,
\* the media job after it; `leaving` lasts until the recorder's collector is joined.
Leave ==
    /\ pc \in {"idle", "recording", "media"}
    /\ pc' = "leaving"
    /\ cancelled' = IF pc = "recording" THEN cancelled \cup {take} ELSE cancelled
    /\ UNCHANGED <<take, stage, kept, micVars, chunks, jobs, session, answer, workerVars>>

StopWorker ==
    /\ pc = "leaving" /\ ~collecting
    /\ pc' = "shutdown" /\ Shutdown
    /\ stage' = [t \in Take |-> IF stage[t] = "recording" THEN "discarded" ELSE stage[t]]
    /\ UNCHANGED <<take, kept, micVars, chunks, session, answer, workerVars>>

Gone ==
    /\ pc = "shutdown" /\ worker = "ended"
    /\ pc' = "gone"
    /\ UNCHANGED <<take, stage, kept, micVars, channelVars, workerVars>>

-----------------------------------------------------------------------------
(* The worker.                                                             *)

Started(op) == CASE op = "Record" -> "record" [] op = "Transcribe" -> "whole"
                 [] op = "Media" -> "media"   [] op = "Quit" -> "ended"

\* A Quit ends the thread; there is no job behind it.
TakeJob ==
    /\ worker = "idle" /\ jobs # <<>>
    /\ jobs' = Tail(jobs)
    /\ worker' = Started(Head(jobs).op) /\ hearing' = Head(jobs).take
    /\ UNCHANGED <<engineVars, micVars, chunks, session, answer, cancelled,
                   decoder, heard, speech, parts>>

\* The job is over; its reply reaches the engine only if that still listens.
EndRecord(reply) ==
    /\ worker' = "idle" /\ hearing' = 0 /\ heard' = <<>> /\ parts' = <<>>
    /\ chunks' = [chunks EXCEPT ![hearing] = <<>>]
    /\ session' = IF hearing = take THEN reply ELSE session
    /\ UNCHANGED <<engineVars, micVars, jobs, answer, cancelled, decoder>>

NextSound == Head(chunks[hearing])
Hears(kind) ==
    /\ worker = "record" /\ decoder = kind
    /\ hearing \notin cancelled /\ chunks[hearing] # <<>>
TakeSound ==
    /\ chunks' = [chunks EXCEPT ![hearing] = Tail(@)]
    /\ heard' = Append(heard, NextSound)
    /\ UNCHANGED <<engineVars, micVars, jobs, session, answer, cancelled,
                   decoder, worker, hearing>>

IsLong(audio) == Len(audio) > DirectLimit

\* Mutant: the voice detector is not reset when a recording turns out long.
DetectorUnreset(sounds) ==
    IF Len(sounds) = DirectLimit + 1 THEN speech \o sounds
    ELSE Append(speech, sounds[Len(sounds)])

\* What the detector holds once the latest of these sounds has gone in.  It is
\* reset, and given the sounds put aside, when the recording turns out long.
Detector(sounds) ==
    IF Len(sounds) = DirectLimit + 1 THEN sounds
    ELSE Append(speech, sounds[Len(sounds)])

\* Parakeet puts sounds aside up to the limit, then decodes what the detector
\* closes.
HearAndDecode ==
    /\ Hears("vad") /\ TakeSound
    /\ IF IsLong(heard')
         THEN \E n \in 0..Len(Detector(heard')) :
                /\ parts' = parts \o SubSeq(Detector(heard'), 1, n)
                /\ speech' = SubSeq(Detector(heard'), n + 1, Len(Detector(heard')))
         ELSE UNCHANGED <<speech, parts>>

\* A decode fails, or there is no resampler.  The closed segments are gone.
HearAndFail ==
    /\ Hears("vad") /\ IsLong(Append(heard, NextSound))
    /\ \E n \in 0..Len(Detector(Append(heard, NextSound))) :
         speech' = SubSeq(Detector(Append(heard, NextSound)), n + 1,
                          Len(Detector(Append(heard, NextSound))))
    /\ EndRecord(Answered("error"))

\* Nemotron decodes as it listens.
HearLive ==
    /\ Hears("streaming") /\ TakeSound
    /\ parts' = Append(parts, NextSound)
    /\ UNCHANGED speech

\* Without a detector the sounds are dropped; the whole audio is decoded later.
HearPlain ==
    /\ Hears("plain") /\ TakeSound
    /\ UNCHANGED <<speech, parts>>

\* The flag is looked at with every sound and every 25 ms without one.
Abandon ==
    /\ worker = "record" /\ hearing \in cancelled
    /\ EndRecord(Answered(IF decoder = "plain" THEN "nothing" ELSE "error"))
    /\ UNCHANGED speech

\* The collector dropped its end and the channel is empty: what is left is
\* decoded.
EndOfRecording ==
    /\ worker = "record" /\ hearing \notin cancelled /\ chunks[hearing] = <<>>
    /\ hearing # take \/ ~collecting
    /\ CASE decoder = "streaming" ->
              /\ \E r \in {Text(parts), Answered("error")} : EndRecord(r)
              /\ UNCHANGED speech
         [] decoder = "vad" /\ IsLong(heard) ->
              /\ \E r \in {Text(parts \o speech), Answered("error")} : EndRecord(r)
              /\ speech' = <<>>
         [] OTHER -> EndRecord(Answered("nothing")) /\ UNCHANGED speech

\* Mutant: an error is logged and not sent.
EndJobUnsent(reply) ==
    /\ worker' = "idle"
    /\ answer' = IF reply.kind = "error" THEN answer ELSE reply
    /\ UNCHANGED <<engineVars, micVars, chunks, jobs, session, cancelled,
                   decoder, hearing, heard, parts>>

\* The reply is sent, and the worker looks for its next job.
EndJob(reply) ==
    /\ worker' = "idle" /\ answer' = reply
    /\ UNCHANGED <<engineVars, micVars, chunks, jobs, session, cancelled,
                   decoder, hearing, heard, parts>>

\* The whole recording; a long one goes through the detector, reset before it.
Transcribe ==
    /\ worker = "whole"
    /\ \E r \in {Text(samples), Answered("error")} : EndJob(r)
    /\ speech' = IF decoder # "plain" /\ IsLong(samples) THEN <<>> ELSE speech

\* A media file, in pieces of 30 seconds; a cancelled one ends between two.
TranscribeMedia ==
    /\ worker = "media"
    /\ \E kind \in {"nothing", "error"} :
         /\ kind = "nothing" => pc = "media"
         /\ EndJob(Answered(kind))
    /\ speech' \in {speech, <<>>}

\* A panic in a job: the thread ends, and all it held is dropped.
Panic ==
    /\ worker \in {"record", "whole", "media"}
    /\ worker' = "ended" /\ jobs' = <<>> /\ chunks' = [t \in Take |-> <<>>]
    /\ hearing' = 0 /\ heard' = <<>> /\ speech' = <<>> /\ parts' = <<>>
    /\ UNCHANGED <<engineVars, micVars, session, answer, cancelled, decoder>>

-----------------------------------------------------------------------------
Collector == Collect \/ CollectorEnds
EngineWaits == JoinCollector \/ FinishSession \/ FinishWhole \/ DropSession
               \/ MediaReply \/ Replace \/ StopWorker \/ Gone
UserActs == StartRecording \/ StopRecording \/ CancelRecording \/ BeginMedia
            \/ SwitchModel \/ Leave
Work == TakeJob \/ HearAndDecode \/ HearAndFail \/ HearLive \/ HearPlain
        \/ Abandon \/ EndOfRecording \/ Transcribe \/ TranscribeMedia

Next == Sound \/ StreamError \/ Collector \/ EngineWaits \/ UserActs \/ Work \/ Panic

Spec == Init /\ [][Next]_vars

\* The operating system runs every thread that can run.  Users and panics are
\* not bound to come.
Fairness == WF_vars(Collector) /\ WF_vars(EngineWaits) /\ WF_vars(Work)

-----------------------------------------------------------------------------
(* What must hold.                                                         *)

\* The worker and its helpers keep what Dictations promises: the text of a recording, or
\* the audio saved in place of it, holds its sounds and no other's, in order, and all of
\* them unless the user was warned of a gap.  It has to hold over two copies of the audio,
\* a detector shared by all jobs, decodes that fail halfway and a worker that panics
\* (background.rs, finish and transcribe).
Promise == INSTANCE Dictations WITH stage <- stage, said <- said, spoiled <- spoiled,
                                    kept <- kept
DictationsKept == Promise!Spec

\* Whatever the engine waits for comes to an end: a recording that was stopped or
\* cancelled is settled, also with a worker that panics or still listens to an earlier
\* one; a worker that is replaced or told to quit leaves its recording or its media file,
\* and its thread is joined; a media job ends while the worker lives.
EveryWaitEnds ==
    /\ pc \in {"stopping", "dropping", "finish", "whole"} ~> pc = "idle"
    /\ pc = "replacing" ~> pc = "idle"
    /\ pc \in {"leaving", "shutdown"} ~> pc = "gone"
    /\ pc = "media" ~> (pc # "media" \/ worker = "ended")
=============================================================================
