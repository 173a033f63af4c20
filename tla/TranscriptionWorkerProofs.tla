-------------------- MODULE TranscriptionWorkerProofs --------------------
(***************************************************************************)
(* Proofs about TranscriptionWorker: it implements Dictations, for any     *)
(* number of recordings and sounds, every size of the ring buffer, every   *)
(* limit of a short recording, and whatever decoders the models bring.     *)
(***************************************************************************)
EXTENDS MCTranscriptionWorker, DrawSessionProofs, SequenceTheorems, TLAPS

\* The collector's thread runs from the start of a recording until it has emptied the
\* ring buffer, and the engine goes on from there only when it has ended.
PcFits ==
    /\ pc = "recording" => collecting
    /\ pc \in {"idle", "finish", "whole", "media", "replacing", "shutdown", "gone"} => ~collecting
    /\ ~collecting => ring = <<>>
    /\ pc \in {"recording", "stopping", "dropping", "finish", "whole"} \/ collecting => take # 0

\* How far a recording can be when it is the latest.
EngineAt(step, s) ==
    /\ step \in {"recording", "dropping"} => s = "recording"
    /\ step \in {"stopping", "finish", "whole"} => s = "stopped"
    /\ step \in {"idle", "media", "replacing", "shutdown", "gone"} =>
         s \notin {"recording", "stopped"}
    /\ step = "leaving" => s # "stopped"

\* What the engine does tells how far the latest recording is; the others are over, or
\* have not begun.
StageFits ==
    /\ \A t \in Take : t > take =>
         stage[t] = "unused" /\ said[t] = 0 /\ t \notin spoiled /\ chunks[t] = <<>>
    /\ \A t \in Take : t # take => stage[t] \notin {"recording", "stopped"}
    /\ \A t \in Take : stage[t] \notin {"given", "failed"} => kept[t] = <<>>
    /\ take # 0 => EngineAt(pc, stage[take])

\* The audio of the latest recording: collected, or still in the ring buffer.
Audio == samples \o ring

\* It is what was said, up to a gap the user is warned of, and there is some as soon as
\* something was said.
MicFits ==
    take # 0 => Promise!Faithful(take, Audio) /\ (said[take] > 0 => Audio # <<>>)

\* A job whose reply is not about the latest recording's session.
Plain(op) == op \in {"Transcribe", "Media"}

\* A job in the worker's channel fits what the engine does; a Quit is behind all others.
JobFits(i) ==
    /\ jobs[i].op = "Record" => jobs[i].take \in (hearing + 1)..take
    /\ jobs[i].op = "Quit" => i = Len(jobs) /\ pc \in {"replacing", "shutdown", "gone"}
    /\ jobs[i].op = "Transcribe" => pc = "whole"
    /\ jobs[i].op = "Media" => pc \in {"media", "leaving", "shutdown", "gone"}
    /\ Plain(jobs[i].op) => worker \notin {"whole", "media"} /\ answer = NoReply

\* Recordings are in their order, and the engine waits for one job at a time.
JobsInOrder ==
    \A i, j \in DOMAIN jobs : i < j =>
        /\ jobs[i].op = "Record" /\ jobs[j].op = "Record" => jobs[i].take < jobs[j].take
        /\ ~(Plain(jobs[i].op) /\ Plain(jobs[j].op))

JobsFit ==
    /\ worker = "ended" => jobs = <<>>
    /\ \A i \in DOMAIN jobs : JobFits(i)
    /\ JobsInOrder

\* The worker is at a job the engine waits for, or the engine has left it behind.
WorkerFits ==
    /\ worker = "whole" => pc = "whole" /\ answer = NoReply
    /\ worker = "media" => pc \in {"media", "leaving", "shutdown", "gone"} /\ answer = NoReply

\* What the worker has heard of the latest recording, and what is on its way to it, is
\* all that was collected; a recording it has still to begin waits in its channel.
ListenFits ==
    /\ hearing <= take
    /\ hearing = take /\ take # 0 => heard \o chunks[take] = samples
    /\ \A i \in DOMAIN jobs : jobs[i] = RecordJob(take) => chunks[take] = samples

\* The decoded parts and what the detector still holds are what was heard.
DecodeFits ==
    /\ worker # "record" => heard = <<>> /\ parts = <<>>
    /\ decoder = "streaming" => parts = heard
    /\ decoder = "vad" /\ IsLong(heard) => parts \o speech = heard
    /\ decoder = "vad" /\ ~IsLong(heard) => parts = <<>>

\* A text the engine may take holds the whole audio.
ReplyFits ==
    /\ session.kind = "text" => session.words = samples /\ ~collecting /\ take # 0
    /\ answer.kind = "text" => answer.words = samples /\ pc = "whole"
    /\ answer # NoReply => pc \in {"whole", "media", "leaving", "shutdown", "gone"}

\* What holds in every state and is kept by every step.
WorkerInv ==
    TypeOK /\ PcFits /\ StageFits /\ MicFits /\ JobsFit /\ WorkerFits /\ ListenFits
    /\ DecodeFits /\ ReplyFits

-----------------------------------------------------------------------------
(* Sequences.                                                              *)

\* Appending to the second of two sequences appends to both.
LEMMA AppendJoins ==
    ASSUME NEW S, NEW s \in Seq(S), NEW t \in Seq(S), NEW x \in S
    PROVE  s \o Append(t, x) = Append(s \o t, x)
<1>1. t \o <<x>> = Append(t, x) /\ (s \o t) \o <<x>> = Append(s \o t, x)
  BY AppendIsConcat, ConcatProperties
<1>2. <<x>> \in Seq(S)
  OBVIOUS
<1>3. QED
  BY <1>1, <1>2, ConcatAssociative

\* Moving the first element of the second sequence to the end of the first changes
\* nothing in the two together.
LEMMA MoveOver ==
    ASSUME NEW S, NEW s \in Seq(S), NEW t \in Seq(S), t # <<>>
    PROVE  Append(s, Head(t)) \o Tail(t) = s \o t
<1>1. /\ Head(t) \in S /\ Tail(t) \in Seq(S) /\ <<Head(t)>> \in Seq(S)
      /\ Len(Tail(t)) = Len(t) - 1
      /\ \A i \in 1..Len(Tail(t)) : Tail(t)[i] = t[i + 1]
  BY HeadTailProperties
<1>2. Append(s, Head(t)) = s \o <<Head(t)>>
  BY <1>1, AppendIsConcat
<1>3. <<Head(t)>> \o Tail(t) = t
  <2>1. <<Head(t)>> \o Tail(t) \in Seq(S) /\ Len(<<Head(t)>> \o Tail(t)) = Len(t)
    BY <1>1, ConcatProperties
  <2>2. \A i \in 1..Len(t) : (<<Head(t)>> \o Tail(t))[i] = t[i]
    BY <1>1, ConcatProperties
  <2>3. QED
    BY <2>1, <2>2, SeqEqual
<1>4. QED
  BY <1>1, <1>2, <1>3, ConcatAssociative

\* A sequence is its first n elements and the rest.
LEMMA CutAnywhere ==
    ASSUME NEW S, NEW s \in Seq(S), NEW n \in 0..Len(s)
    PROVE  /\ SubSeq(s, 1, n) \in Seq(S) /\ SubSeq(s, n + 1, Len(s)) \in Seq(S)
           /\ SubSeq(s, 1, n) \o SubSeq(s, n + 1, Len(s)) = s
<1>1. SubSeq(s, 1, n) \in Seq(S) /\ SubSeq(s, n + 1, Len(s)) \in Seq(S)
  BY SubSeqProperties
<1>2. 1 \in 1..(Len(s) + 1) /\ n \in (1 - 1)..Len(s) /\ Len(s) \in n..Len(s)
  OBVIOUS
<1>3. QED
  BY <1>1, <1>2, ConcatAdjacentSubSeq, SubSeqFull

\* The same of sequences of sounds.
LEMMA SoundsJoin ==
    /\ \A s, t \in Seq(Sounds), x \in Sounds : s \o Append(t, x) = Append(s \o t, x)
    /\ \A s, t \in Seq(Sounds) : t # <<>> => Append(s, Head(t)) \o Tail(t) = s \o t
    /\ \A s, t, u \in Seq(Sounds) : (s \o t) \o u = s \o (t \o u)
<1>1. ASSUME NEW s \in Seq(Sounds), NEW t \in Seq(Sounds), NEW x \in Sounds
      PROVE  s \o Append(t, x) = Append(s \o t, x)
  BY <1>1, AppendJoins
<1>2. ASSUME NEW s \in Seq(Sounds), NEW t \in Seq(Sounds), t # <<>>
      PROVE  Append(s, Head(t)) \o Tail(t) = s \o t
  BY <1>2, MoveOver
<1>3. ASSUME NEW s \in Seq(Sounds), NEW t \in Seq(Sounds), NEW u \in Seq(Sounds)
      PROVE  (s \o t) \o u = s \o (t \o u)
  BY <1>3, ConcatAssociative
<1>4. QED
  BY <1>1, <1>2, <1>3

\* A queue with a job behind it: the old ones keep their places.
LEMMA Behind ==
    ASSUME NEW S, NEW s \in Seq(S), NEW x \in S
    PROVE  /\ Append(s, x) \in Seq(S) /\ Len(Append(s, x)) = Len(s) + 1
           /\ DOMAIN s = 1..Len(s) /\ DOMAIN Append(s, x) = 1..(Len(s) + 1)
           /\ \A i \in DOMAIN s : Append(s, x)[i] = s[i]
           /\ Append(s, x)[Len(s) + 1] = x
  BY AppendProperties

\* A queue without its first job: the others move up by one.
LEMMA MovesUp ==
    ASSUME NEW S, NEW s \in Seq(S), s # <<>>
    PROVE  /\ Head(s) = s[1] /\ Head(s) \in S /\ Tail(s) \in Seq(S)
           /\ 1 \in DOMAIN s /\ Len(Tail(s)) = Len(s) - 1
           /\ \A i \in DOMAIN Tail(s) : i \in Nat /\ i + 1 \in DOMAIN s /\ Tail(s)[i] = s[i + 1]
  BY HeadTailProperties

-----------------------------------------------------------------------------
(* Types.                                                                  *)

\* The jobs the engine sends are jobs.
LEMMA JobsTyped ==
    /\ \A t \in Take : RecordJob(t) \in Job
    /\ \A op \in {"Transcribe", "Media", "Quit"} : PlainJob(op) \in Job
    /\ \A j \in Job : /\ j.op = "Record" => j.take \in Take /\ j = RecordJob(j.take)
                      /\ j.op # "Record" => j.take = 0
                      /\ j.op \in {"Record", "Transcribe", "Media", "Quit"}
  BY DEF Job, RecordJob, PlainJob

\* A reply holds a sequence of sounds.
LEMMA RepliesTyped ==
    /\ \A kind \in {"none", "nothing", "error"} :
         /\ Answered(kind) \in Reply /\ Answered(kind).kind = kind
    /\ NoReply \in Reply /\ NoReply.kind = "none"
    /\ \A words \in Seq(Sounds) :
         Text(words) \in Reply /\ Text(words).kind = "text" /\ Text(words).words = words
  BY DEF Reply, Answered, NoReply, Text

\* A step of the microphone or the collector keeps the types.
LEMMA MicTypes ==
    ASSUME WorkerInv, Sound \/ StreamError \/ Collector
    PROVE  TypeOK'
<1> USE BoundsAssumption DEF engineVars, channelVars, workerVars, Take
<1>1. TypeOK /\ PcFits
  BY DEF WorkerInv
<1>2. CASE Sound
  <2>1. take \in Take /\ said[take] \in Nat
    BY <1>1, <1>2 DEF TypeOK, PcFits, Sound
  <2>2. said' \in [Take -> 0..MaxSounds] /\ said'[take] = said[take] + 1
    <3>1. said \in [Take -> 0..MaxSounds] /\ said[take] < MaxSounds
      BY <1>1, <1>2 DEF TypeOK, Sound
    <3>2. said' = [said EXCEPT ![take] = said[take] + 1]
      BY <1>2 DEF Sound
    <3>3. said[take] + 1 \in 0..MaxSounds
      BY <2>1, <3>1
    <3>4. QED
      BY <2>1, <3>1, <3>2, <3>3
  <2>3. <<take, said'[take]>> \in Sounds
    BY <1>1, <1>2, <2>1, <2>2 DEF TypeOK, Sounds, Sound
  <2>4. ring' \in Seq(Sounds) /\ Len(ring') <= RingSize
    <3>1. ring \in Seq(Sounds) /\ Len(ring) \in Nat /\ Len(ring) <= RingSize
      BY <1>1 DEF TypeOK
    <3>2. CASE Len(ring) < RingSize
      <4>1. ring' = Append(ring, <<take, said'[take]>>)
        BY <1>2, <3>2 DEF Sound
      <4>2. QED
        BY <2>3, <3>1, <3>2, <4>1, AppendProperties
    <3>3. CASE ~(Len(ring) < RingSize)
      BY <1>2, <3>1, <3>3 DEF Sound
    <3>4. QED
      BY <3>2, <3>3
  <2>5. spoiled' \subseteq Take
    <3>1. spoiled' \in {spoiled, spoiled \cup {take}} /\ spoiled \subseteq Take
      BY <1>1, <1>2 DEF TypeOK, Sound
    <3>2. QED
      BY <2>1, <3>1
  <2>6. QED
    BY <1>1, <1>2, <2>2, <2>4, <2>5 DEF TypeOK, Sound
<1>3. CASE StreamError
  <2>1. take \in Take /\ spoiled \subseteq Take /\ spoiled' = spoiled \cup {take}
    BY <1>1, <1>3 DEF TypeOK, PcFits, StreamError
  <2>2. spoiled' \subseteq Take
    BY <2>1
  <2>3. QED
    BY <1>1, <1>3, <2>2 DEF TypeOK, StreamError
<1>4. CASE Collect
  <2>1. /\ Head(ring) \in Sounds /\ ring' \in Seq(Sounds) /\ Len(ring') <= RingSize
        /\ samples' \in Seq(Sounds)
    BY <1>1, <1>4, HeadTailProperties, AppendProperties DEF TypeOK, Collect
  <2>2. take \in Take
    BY <1>1, <1>4 DEF TypeOK, PcFits, Collect
  <2>3. chunks' \in [Take -> Seq(Sounds)]
    BY <1>1, <1>4, <2>1, <2>2, AppendProperties DEF TypeOK, Collect
  <2>4. QED
    BY <1>1, <1>4, <2>1, <2>3 DEF TypeOK, Collect
<1>5. CASE CollectorEnds
  BY <1>1, <1>5 DEF TypeOK, CollectorEnds
<1>6. QED
  BY <1>2, <1>3, <1>4, <1>5 DEF Collector

\* What the engine sends keeps the type of the worker's channel.
LEMMA SendTyped ==
    ASSUME TypeOK, NEW job \in Job, Send(job)
    PROVE  jobs' \in Seq(Job)
  BY AppendProperties DEF TypeOK, Send

\* A step of the engine keeps the types.
LEMMA EngineTypes ==
    ASSUME WorkerInv, EngineWaits \/ UserActs
    PROVE  TypeOK'
<1> USE BoundsAssumption DEF engineVars, micVars, channelVars, workerVars, Take, Steps, Stages,
        Advance, Keep
<1>1. TypeOK /\ PcFits
  BY DEF WorkerInv
<1>2. pc \in {"recording", "stopping", "dropping", "finish", "whole"} => take \in Take
  BY <1>1 DEF TypeOK, PcFits
<1>3. CASE StartRecording
  <2>1. take + 1 \in Take
    BY <1>1, <1>3 DEF TypeOK, StartRecording
  <2>2. jobs' \in Seq(Job)
    BY <1>1, <1>3, <2>1, SendTyped, JobsTyped DEF StartRecording
  <2>3. stage' \in [Take -> Stages] /\ take' \in 0..MaxTakes
    BY <1>1, <1>3, <2>1 DEF TypeOK, StartRecording
  <2>4. ring' \in Seq(Sounds) /\ Len(ring') <= RingSize /\ samples' \in Seq(Sounds)
    BY <1>3 DEF StartRecording
  <2>5. QED
    BY <1>1, <1>3, <2>2, <2>3, <2>4, RepliesTyped DEF TypeOK, StartRecording
<1>4. CASE StopRecording \/ CancelRecording \/ DropSession \/ Gone \/ MediaReply
  BY <1>1, <1>2, <1>4, RepliesTyped
     DEF TypeOK, StopRecording, CancelRecording, DropSession, Gone, MediaReply
<1>5. CASE JoinCollector
  <2>1. jobs' \in Seq(Job)
    BY <1>1, <1>5, SendTyped, JobsTyped DEF TypeOK, JoinCollector
  <2>2. QED
    BY <1>1, <1>2, <1>5, <2>1 DEF TypeOK, JoinCollector
<1>6. CASE FinishSession
  <2>1. jobs' \in Seq(Job)
    BY <1>1, <1>6, SendTyped, JobsTyped DEF TypeOK, FinishSession
  <2>2. session.words \in Seq(Sounds)
    BY <1>1 DEF TypeOK, Reply
  <2>3. kept' \in [Take -> Seq(Sounds)] /\ stage' \in [Take -> Stages]
    BY <1>1, <1>2, <1>6, <2>2 DEF TypeOK, FinishSession
  <2>4. QED
    BY <1>1, <1>2, <1>6, <2>1, <2>3 DEF TypeOK, FinishSession
<1>7. CASE FinishWhole
  <2>1. answer.words \in Seq(Sounds)
    BY <1>1 DEF TypeOK, Reply
  <2>2. kept' \in [Take -> Seq(Sounds)] /\ stage' \in [Take -> Stages]
    BY <1>1, <1>2, <1>7, <2>1 DEF TypeOK, FinishWhole
  <2>3. QED
    BY <1>1, <1>7, <2>2, RepliesTyped DEF TypeOK, FinishWhole
<1>8. CASE BeginMedia \/ SwitchModel \/ StopWorker
  <2>1. jobs' \in Seq(Job)
    BY <1>1, <1>8, SendTyped, JobsTyped DEF TypeOK, BeginMedia, SwitchModel, StopWorker, Shutdown
  <2>2. cancelled' \subseteq Take
    <3>1. /\ cancelled' = cancelled \/ cancelled' = cancelled \cup ({take} \ {0})
          /\ cancelled \subseteq Take /\ take \in 0..MaxTakes
      BY <1>1, <1>8 DEF TypeOK, BeginMedia, SwitchModel, StopWorker, Shutdown
    <3>2. take # 0 => take \in Take
      BY <3>1
    <3>3. QED
      BY <3>1, <3>2
  <2>3. stage' \in [Take -> Stages]
    BY <1>1, <1>8 DEF TypeOK, BeginMedia, SwitchModel, StopWorker
  <2>4. QED
    BY <1>1, <1>8, <2>1, <2>2, <2>3 DEF TypeOK, BeginMedia, SwitchModel, StopWorker
<1>9. CASE Replace \/ Leave
  <2>1. <<>> \in Seq(Sounds)
    OBVIOUS
  <2>2. QED
    BY <1>1, <1>2, <1>9, <2>1 DEF TypeOK, Replace, Leave
<1>10. QED
  BY <1>3, <1>4, <1>5, <1>6, <1>7, <1>8, <1>9 DEF EngineWaits, UserActs

\* A sound taken from its channel is the next the worker hears.
LEMMA SoundTaken ==
    ASSUME WorkerInv, worker = "record", chunks[hearing] # <<>>
    PROVE  /\ hearing \in Take /\ chunks[hearing] \in Seq(Sounds)
           /\ NextSound \in Sounds /\ Tail(chunks[hearing]) \in Seq(Sounds)
           /\ Append(heard, NextSound) \in Seq(Sounds)
           /\ Len(Append(heard, NextSound)) = Len(heard) + 1
           /\ Append(heard, NextSound)[Len(heard) + 1] = NextSound
<1>1. hearing \in Take /\ heard \in Seq(Sounds) /\ chunks \in [Take -> Seq(Sounds)]
  BY BoundsAssumption DEF WorkerInv, TypeOK, Take
<1>2. NextSound \in Sounds /\ Tail(chunks[hearing]) \in Seq(Sounds)
  BY <1>1, HeadTailProperties DEF NextSound
<1>3. QED
  BY <1>1, <1>2, AppendProperties

\* What the detector holds after the next sound is a sequence of sounds.
LEMMA DetectorTyped ==
    ASSUME WorkerInv, worker = "record", chunks[hearing] # <<>>,
           NEW n \in 0..Len(Detector(Append(heard, NextSound)))
    PROVE  LET held == Detector(Append(heard, NextSound))
           IN  /\ held \in Seq(Sounds)
               /\ SubSeq(held, 1, n) \in Seq(Sounds)
               /\ SubSeq(held, n + 1, Len(held)) \in Seq(Sounds)
               /\ SubSeq(held, 1, n) \o SubSeq(held, n + 1, Len(held)) = held
<1>1. speech \in Seq(Sounds) /\ heard \in Seq(Sounds)
  BY DEF WorkerInv, TypeOK
<1>2. Append(speech, NextSound) \in Seq(Sounds)
  BY <1>1, SoundTaken, AppendProperties
<1>3. Detector(Append(heard, NextSound)) \in Seq(Sounds)
  BY <1>1, <1>2, SoundTaken DEF Detector
<1>4. QED
  BY <1>3, CutAnywhere

\* The end of a job that listened keeps the types.
LEMMA EndRecordTyped ==
    ASSUME WorkerInv, worker = "record", NEW reply \in Reply, EndRecord(reply),
           speech' \in Seq(Sounds)
    PROVE  TypeOK'
<1>1. hearing \in Take /\ chunks' \in [Take -> Seq(Sounds)] /\ session' \in Reply
  <2>1. /\ hearing \in 0..MaxTakes /\ hearing # 0 /\ chunks \in [Take -> Seq(Sounds)]
        /\ session \in Reply
    BY DEF WorkerInv, TypeOK
  <2>2. hearing \in Take
    BY <2>1, BoundsAssumption DEF Take
  <2>3. chunks' = [chunks EXCEPT ![hearing] = <<>>] /\ session' \in {reply, session}
    BY DEF EndRecord
  <2>4. QED
    BY <2>1, <2>2, <2>3
<1>2. heard' \in Seq(Sounds) /\ parts' \in Seq(Sounds)
  BY DEF EndRecord
<1>3. /\ worker' = "idle" /\ hearing' = 0 /\ 0 \in 0..MaxTakes
      /\ UNCHANGED <<pc, take, stage, kept, said, spoiled, ring, collecting, samples>>
      /\ UNCHANGED <<jobs, answer, cancelled, decoder>>
  BY BoundsAssumption DEF EndRecord, engineVars, micVars
<1>4. TypeOK
  BY DEF WorkerInv
<1>5. QED
  BY <1>1, <1>2, <1>3, <1>4 DEF TypeOK

\* A step of the worker keeps the types.
LEMMA WorkTypes ==
    ASSUME WorkerInv, Work \/ Panic
    PROVE  TypeOK'
<1> USE BoundsAssumption DEF engineVars, micVars, Take
<1>1. TypeOK /\ DecodeFits
  BY DEF WorkerInv
<1>2. <<>> \in Seq(Sounds) /\ <<>> \in Seq(Job)
  OBVIOUS
<1>3. CASE TakeJob
  <2>1. jobs' \in Seq(Job) /\ Head(jobs) \in Job
    BY <1>1, <1>3, MovesUp DEF TypeOK, TakeJob
  <2>2. /\ worker' \in {"idle", "record", "whole", "media", "ended"}
        /\ hearing' \in 0..MaxTakes /\ (hearing' # 0 <=> worker' = "record")
    <3>1. Head(jobs).op \in {"Record", "Transcribe", "Media", "Quit"}
      BY <2>1, JobsTyped
    <3>2. CASE Head(jobs).op = "Record"
      BY <1>3, <2>1, <3>2, JobsTyped DEF TakeJob, Started
    <3>3. CASE Head(jobs).op # "Record"
      BY <1>3, <2>1, <3>1, <3>3, JobsTyped DEF TakeJob, Started
    <3>4. QED
      BY <3>2, <3>3
  <2>3. QED
    BY <1>1, <1>3, <2>1, <2>2 DEF TypeOK, TakeJob
<1>4. CASE HearAndDecode \/ HearLive \/ HearPlain
  <2>1. worker = "record" /\ chunks[hearing] # <<>> /\ TakeSound
    BY <1>4 DEF HearAndDecode, HearLive, HearPlain, Hears
  <2>2. chunks' \in [Take -> Seq(Sounds)] /\ heard' \in Seq(Sounds)
    BY <1>1, <2>1, SoundTaken DEF TypeOK, TakeSound
  <2>3. speech' \in Seq(Sounds) /\ parts' \in Seq(Sounds)
    <3>1. speech \in Seq(Sounds) /\ parts \in Seq(Sounds)
      BY <1>1 DEF TypeOK
    <3>2. CASE HearAndDecode
      <4>1. CASE UNCHANGED <<speech, parts>>
        BY <3>1, <4>1
      <4>2. CASE \E n \in 0..Len(Detector(heard')) :
                   /\ parts' = parts \o SubSeq(Detector(heard'), 1, n)
                   /\ speech' = SubSeq(Detector(heard'), n + 1, Len(Detector(heard')))
        <5>1. heard' = Append(heard, NextSound)
          BY <2>1 DEF TakeSound
        <5>2. PICK n \in 0..Len(Detector(Append(heard, NextSound))) :
                /\ parts' = parts \o SubSeq(Detector(Append(heard, NextSound)), 1, n)
                /\ speech' = SubSeq(Detector(Append(heard, NextSound)), n + 1,
                                    Len(Detector(Append(heard, NextSound))))
          BY <4>2, <5>1
        <5>3. /\ SubSeq(Detector(Append(heard, NextSound)), 1, n) \in Seq(Sounds)
              /\ speech' \in Seq(Sounds)
          BY <2>1, <5>2, DetectorTyped
        <5>4. QED
          BY <3>1, <5>2, <5>3, ConcatProperties
      <4>3. QED
        BY <3>2, <4>1, <4>2 DEF HearAndDecode
    <3>3. CASE HearLive
      BY <2>1, <3>1, <3>3, SoundTaken, AppendProperties DEF HearLive
    <3>4. CASE HearPlain
      BY <3>1, <3>4 DEF HearPlain
    <3>5. QED
      BY <1>4, <3>2, <3>3, <3>4
  <2>4. QED
    BY <1>1, <2>1, <2>2, <2>3 DEF TypeOK, TakeSound
<1>5. CASE HearAndFail
  <2>1. speech' \in Seq(Sounds)
    BY <1>5, DetectorTyped DEF HearAndFail, Hears
  <2>2. QED
    BY <1>5, <2>1, RepliesTyped, EndRecordTyped DEF HearAndFail, Hears
<1>6. CASE Abandon
  BY <1>1, <1>6, RepliesTyped, EndRecordTyped DEF Abandon, TypeOK
<1>7. CASE EndOfRecording
  <2>1. worker = "record"
    BY <1>7 DEF EndOfRecording
  <2>2. /\ parts \in Seq(Sounds) /\ speech \in Seq(Sounds) /\ parts \o speech \in Seq(Sounds)
        /\ Text(parts) \in Reply /\ Text(parts \o speech) \in Reply
        /\ Answered("error") \in Reply /\ Answered("nothing") \in Reply
    BY <1>1, RepliesTyped, ConcatProperties DEF TypeOK
  <2>3. speech' \in Seq(Sounds)
    BY <1>2, <1>7, <2>2 DEF EndOfRecording
  <2>4. \E r \in Reply : EndRecord(r)
    BY <1>7, <2>2 DEF EndOfRecording
  <2>5. QED
    BY <2>1, <2>3, <2>4, EndRecordTyped
<1>8. CASE Transcribe \/ TranscribeMedia
  <2>1. speech' \in Seq(Sounds) /\ hearing = 0
    BY <1>1, <1>2, <1>8 DEF TypeOK, Transcribe, TranscribeMedia
  <2>2. \E r \in Reply : EndJob(r)
    BY <1>1, <1>8, RepliesTyped DEF TypeOK, Transcribe, TranscribeMedia
  <2>3. QED
    BY <1>1, <2>1, <2>2 DEF TypeOK, EndJob
<1>9. CASE Panic
  <2>1. chunks' \in [Take -> Seq(Sounds)]
    BY <1>2, <1>9 DEF Panic
  <2>2. jobs' \in Seq(Job) /\ worker' = "ended" /\ hearing' = 0 /\ 0 \in 0..MaxTakes
    BY <1>2, <1>9 DEF Panic
  <2>3. heard' \in Seq(Sounds) /\ speech' \in Seq(Sounds) /\ parts' \in Seq(Sounds)
    BY <1>2, <1>9 DEF Panic
  <2>4. QED
    BY <1>1, <1>9, <2>1, <2>2, <2>3 DEF TypeOK, Panic
<1>10. QED
  BY <1>3, <1>4, <1>5, <1>6, <1>7, <1>8, <1>9 DEF Work

-----------------------------------------------------------------------------
(* Who changes what.                                                       *)

\* The worker touches neither the engine's state nor the recorder's.
LEMMA WorkLeaves ==
    ASSUME Work \/ Panic
    PROVE  UNCHANGED <<pc, take, stage, kept, said, spoiled, ring, collecting, samples>>
<1> USE DEF engineVars, micVars
<1>1. \A reply : EndRecord(reply) \/ EndJob(reply) =>
        UNCHANGED <<pc, take, stage, kept, said, spoiled, ring, collecting, samples>>
  BY DEF EndRecord, EndJob
<1>2. CASE TakeJob \/ Panic
  BY <1>2 DEF TakeJob, Panic
<1>3. CASE HearAndDecode \/ HearLive \/ HearPlain
  BY <1>3 DEF HearAndDecode, HearLive, HearPlain, TakeSound
<1>4. CASE HearAndFail \/ Abandon
  BY <1>1, <1>4 DEF HearAndFail, Abandon
<1>5. CASE EndOfRecording
  <2>1. \E reply : EndRecord(reply)
    BY <1>5 DEF EndOfRecording
  <2>2. QED
    BY <1>1, <2>1
<1>6. CASE Transcribe \/ TranscribeMedia
  BY <1>1, <1>6 DEF Transcribe, TranscribeMedia
<1>7. QED
  BY <1>2, <1>3, <1>4, <1>5, <1>6 DEF Work

\* Only the beginning of a recording touches the recorder.
LEMMA EngineLeaves ==
    ASSUME EngineWaits \/ UserActs, ~StartRecording
    PROVE  UNCHANGED <<take, said, spoiled, ring, collecting, samples, chunks, hearing, heard,
                       parts>>
<1> USE DEF engineVars, micVars, channelVars, workerVars
<1>1. CASE EngineWaits
  BY <1>1 DEF EngineWaits, JoinCollector, FinishSession, FinishWhole, DropSession, MediaReply,
              Replace, StopWorker, Gone
<1>2. CASE UserActs
  BY <1>2 DEF UserActs, StopRecording, CancelRecording, BeginMedia, SwitchModel, Leave
<1>3. QED
  BY <1>1, <1>2

-----------------------------------------------------------------------------
(* The engine and the recorder.                                            *)

\* Every step keeps PcFits.
LEMMA PcStep ==
    ASSUME WorkerInv, Next
    PROVE  PcFits'
<1>1. PcFits
  BY DEF WorkerInv
<1>2. CASE Sound \/ StreamError \/ Collector
  BY <1>1, <1>2 DEF PcFits, Sound, StreamError, Collector, Collect, CollectorEnds, engineVars
<1>3. CASE StartRecording
  <2>1. take' # 0
    BY <1>3 DEF WorkerInv, TypeOK, StartRecording
  <2>2. QED
    BY <1>3, <2>1 DEF PcFits, StartRecording
<1>4. CASE (EngineWaits \/ UserActs) /\ ~StartRecording
  <2>1. UNCHANGED <<take, ring, collecting>>
    BY <1>4, EngineLeaves
  <2>2. \/ pc \in {"recording", "dropping"} /\ pc' \in {"stopping", "dropping"}
        \/ pc' \in {"idle", "finish", "whole", "media", "replacing", "shutdown", "gone"}
             /\ ~collecting /\ (pc' \in {"finish", "whole"} => pc \in {"stopping", "finish"})
        \/ pc' = "leaving"
    <3>1. CASE EngineWaits
      BY <1>1, <3>1
         DEF PcFits, EngineWaits, JoinCollector, FinishSession, FinishWhole, DropSession,
                        MediaReply, Replace, StopWorker, Gone
    <3>2. CASE UserActs
      BY <1>1, <1>4, <3>2 DEF PcFits, UserActs, StopRecording, CancelRecording, BeginMedia,
                              SwitchModel, Leave
    <3>3. QED
      BY <1>4, <3>1, <3>2
  <2>3. QED
    BY <1>1, <2>1, <2>2 DEF PcFits
<1>5. CASE Work \/ Panic
  BY <1>1, <1>5, WorkLeaves DEF PcFits
<1>6. QED
  BY <1>2, <1>3, <1>4, <1>5 DEF Next

\* What the worker does to the channels of recordings that have not begun: nothing.
LEMMA ChannelsAhead ==
    ASSUME WorkerInv, Work \/ Panic, NEW t \in Take, t > take, chunks[t] = <<>>
    PROVE  chunks'[t] = <<>>
<1>1. chunks \in [Take -> Seq(Sounds)] /\ hearing # t
  <2>1. chunks \in [Take -> Seq(Sounds)] /\ take \in 0..MaxTakes /\ hearing \in 0..MaxTakes
    BY DEF WorkerInv, TypeOK
  <2>2. hearing <= take
    BY DEF WorkerInv, ListenFits
  <2>3. QED
    BY <2>1, <2>2, BoundsAssumption DEF Take
<1>2. \A reply : EndRecord(reply) => chunks'[t] = <<>>
  BY <1>1 DEF EndRecord
<1>3. \A reply : EndJob(reply) => chunks'[t] = <<>>
  BY DEF EndJob
<1>4. CASE TakeJob
  BY <1>4 DEF TakeJob
<1>5. CASE HearAndDecode \/ HearLive \/ HearPlain
  BY <1>1, <1>5 DEF HearAndDecode, HearLive, HearPlain, TakeSound
<1>6. CASE HearAndFail \/ Abandon
  BY <1>2, <1>6 DEF HearAndFail, Abandon
<1>7. CASE EndOfRecording
  <2>1. \E reply : EndRecord(reply)
    BY <1>7 DEF EndOfRecording
  <2>2. QED
    BY <1>2, <2>1
<1>8. CASE Transcribe \/ TranscribeMedia
  BY <1>3, <1>8 DEF Transcribe, TranscribeMedia
<1>9. CASE Panic
  BY <1>9 DEF Panic
<1>10. QED
  BY <1>4, <1>5, <1>6, <1>7, <1>8, <1>9 DEF Work

\* Where a recording is, and the types of what is said about it.
LEMMA TakeTyped ==
    ASSUME WorkerInv
    PROVE  /\ take \in Nat /\ Take \subseteq Nat /\ (take # 0 => take \in Take)
           /\ stage \in [Take -> Stages] /\ kept \in [Take -> Seq(Sounds)]
           /\ chunks \in [Take -> Seq(Sounds)] /\ samples \in Seq(Sounds) /\ ring \in Seq(Sounds)
           /\ Audio \in Seq(Sounds) /\ (ring = <<>> => Audio = samples)
<1>1. take \in 0..MaxTakes /\ samples \in Seq(Sounds) /\ ring \in Seq(Sounds)
  BY DEF WorkerInv, TypeOK
<1>2. take \in Nat /\ Take \subseteq Nat /\ (take # 0 => take \in Take)
  BY <1>1, BoundsAssumption DEF Take
<1>3. Audio \in Seq(Sounds) /\ (ring = <<>> => Audio = samples)
  BY <1>1, ConcatProperties, ConcatEmptySeq DEF Audio
<1>4. QED
  BY <1>1, <1>2, <1>3 DEF WorkerInv, TypeOK

\* What a step of the engine's does with the latest recording, other than begin it: it
\* only goes on, or stops the recording, or discards it, or settles it with its audio.
LEMMA EngineMoves ==
    ASSUME WorkerInv, EngineWaits \/ UserActs, ~StartRecording
    PROVE  \/ UNCHANGED <<stage, kept>> /\ (take # 0 => EngineAt(pc', stage[take]))
           \/ /\ take \in Take
              /\ \E s \in Stages :
                   /\ stage' = [stage EXCEPT ![take] = s] /\ EngineAt(pc', s)
                   /\ \/ /\ s = "stopped" /\ stage[take] = "recording" /\ kept' = kept
                      \/ /\ s = "discarded" /\ kept' = kept
                         /\ \/ stage[take] = "recording"
                            \/ stage[take] = "stopped" /\ Audio = <<>>
                      \/ /\ s = "lost" /\ stage[take] = "stopped" /\ kept' = kept
                      \/ /\ s \in {"given", "failed"} /\ stage[take] = "stopped"
                         /\ kept' = [kept EXCEPT ![take] = Audio]
<1> USE DEF Stages, Advance, Keep
<1>1. PcFits /\ StageFits /\ ReplyFits
  BY DEF WorkerInv
<1>2. pc \in {"recording", "stopping", "dropping", "finish", "whole"} => take # 0 /\ take \in Take
  BY <1>1, TakeTyped DEF PcFits
<1>3. take # 0 => EngineAt(pc, stage[take])
  BY <1>1 DEF StageFits
<1>4. CASE StopRecording
  BY <1>2, <1>3, <1>4 DEF StopRecording, EngineAt
<1>5. CASE CancelRecording \/ BeginMedia \/ MediaReply \/ SwitchModel \/ Replace \/ Gone
  BY <1>3, <1>5
     DEF CancelRecording, BeginMedia, MediaReply, SwitchModel, Replace, Gone, EngineAt
<1>6. CASE JoinCollector
  <2>1. /\ take \in Take /\ take # 0 /\ stage[take] = "stopped" /\ Audio = samples /\ kept' = kept
        /\ pc = "stopping"
    BY <1>1, <1>2, <1>3, <1>6, TakeTyped DEF JoinCollector, EngineAt, PcFits
  <2>2. CASE samples = <<>>
    <3>1. pc' = "idle" /\ stage' = [stage EXCEPT ![take] = "discarded"]
      BY <1>6, <2>2 DEF JoinCollector
    <3>2. QED
      BY <2>1, <2>2, <3>1 DEF EngineAt
  <2>3. CASE samples # <<>>
    BY <1>6, <2>1, <2>3 DEF JoinCollector, EngineAt
  <2>4. QED
    BY <2>2, <2>3
<1>7. CASE FinishSession
  <2>1. take \in Take /\ take # 0 /\ stage[take] = "stopped" /\ Audio = samples
    BY <1>1, <1>2, <1>3, <1>7, TakeTyped DEF FinishSession, EngineAt, PcFits
  <2>2. CASE session.kind = "text"
    <3>1. /\ pc' = "idle" /\ stage' = [stage EXCEPT ![take] = "given"]
          /\ kept' = [kept EXCEPT ![take] = Audio]
      BY <1>1, <1>7, <2>1, <2>2 DEF FinishSession, ReplyFits
    <3>2. QED
      BY <2>1, <3>1 DEF EngineAt
  <2>3. CASE session.kind # "text"
    BY <1>7, <2>1, <2>3 DEF FinishSession, EngineAt
  <2>4. QED
    BY <2>2, <2>3
<1>8. CASE FinishWhole
  <2>1. take \in Take /\ take # 0 /\ stage[take] = "stopped" /\ Audio = samples /\ pc' = "idle"
    BY <1>1, <1>2, <1>3, <1>8, TakeTyped DEF FinishWhole, EngineAt, PcFits
  <2>2. \/ /\ \E s \in {"given", "failed"} : stage' = [stage EXCEPT ![take] = s]
           /\ kept' = [kept EXCEPT ![take] = Audio]
        \/ stage' = [stage EXCEPT ![take] = "lost"] /\ kept' = kept
    BY <1>1, <1>8, <2>1 DEF FinishWhole, ReplyFits
  <2>3. QED
    BY <2>1, <2>2 DEF EngineAt
<1>9. CASE DropSession
  <2>1. /\ take \in Take /\ stage[take] = "recording" /\ kept' = kept /\ pc' = "idle"
        /\ stage' = [stage EXCEPT ![take] = "discarded"]
    BY <1>2, <1>3, <1>9 DEF DropSession, EngineAt
  <2>2. QED
    BY <2>1 DEF EngineAt
<1>10. CASE Leave
  BY <1>3, <1>10 DEF Leave, EngineAt
<1>11. CASE StopWorker
  <2>1. /\ pc = "leaving" /\ pc' = "shutdown" /\ kept' = kept
        /\ stage' = [t \in Take |-> IF stage[t] = "recording" THEN "discarded" ELSE stage[t]]
    BY <1>11 DEF StopWorker
  <2>2. stage \in [Take -> Stages] /\ \A t \in Take : t # take => stage[t] # "recording"
    BY <1>1, TakeTyped DEF StageFits
  <2>3. CASE take \in Take /\ stage[take] = "recording"
    <3>1. stage' = [stage EXCEPT ![take] = "discarded"]
      BY <2>1, <2>2, <2>3
    <3>2. QED
      BY <2>1, <2>3, <3>1 DEF EngineAt
  <2>4. CASE ~(take \in Take /\ stage[take] = "recording")
    <3>1. stage' = stage
      BY <2>1, <2>2, <2>4
    <3>2. QED
      BY <1>3, <2>1, <2>4, <3>1, TakeTyped DEF EngineAt
  <2>5. QED
    BY <2>3, <2>4
<1>12. QED
  BY <1>4, <1>5, <1>6, <1>7, <1>8, <1>9, <1>10, <1>11 DEF EngineWaits, UserActs

\* Every step keeps StageFits.
LEMMA StageStep ==
    ASSUME WorkerInv, Next
    PROVE  StageFits'
<1> USE TakeTyped
<1>1. StageFits /\ PcFits
  BY DEF WorkerInv
<1>2. CASE Sound \/ StreamError \/ Collector
  <2>1. UNCHANGED <<pc, take, stage, kept>>
    BY <1>2 DEF Sound, StreamError, Collector, Collect, CollectorEnds, engineVars
  <2>2. CASE UNCHANGED <<said, spoiled, chunks>>
    BY <1>1, <2>1, <2>2 DEF StageFits
  <2>3. CASE Sound \/ StreamError
    <3>1. take \in Take /\ UNCHANGED chunks
      BY <1>1, <2>3 DEF PcFits, Sound, StreamError, channelVars
    <3>2. \A t \in Take : t # take => said'[t] = said[t] /\ (t \in spoiled' => t \in spoiled)
      BY <1>1, <2>3 DEF WorkerInv, TypeOK, Sound, StreamError
    <3>3. \A t \in Take : t > take => t # take
      OBVIOUS
    <3>4. \A t \in Take : t > take' =>
            stage'[t] = "unused" /\ said'[t] = 0 /\ t \notin spoiled' /\ chunks'[t] = <<>>
      BY <1>1, <2>1, <3>1, <3>2, <3>3 DEF StageFits
    <3>5. QED
      BY <1>1, <2>1, <3>4 DEF StageFits
  <2>4. CASE Collect
    <3>1. \A t \in Take : t # take => chunks'[t] = chunks[t]
      BY <2>4 DEF Collect
    <3>2. UNCHANGED <<said, spoiled>>
      BY <2>4 DEF Collect
    <3>3. \A t \in Take : t > take => t # take
      OBVIOUS
    <3>4. QED
      BY <1>1, <2>1, <3>1, <3>2, <3>3 DEF StageFits
  <2>5. QED
    BY <1>2, <2>2, <2>3, <2>4 DEF Collector, CollectorEnds, channelVars
<1>3. CASE StartRecording
  <2>1. /\ take' = take + 1 /\ pc' = "recording" /\ pc = "idle"
        /\ stage' = [stage EXCEPT ![take + 1] = "recording"]
        /\ UNCHANGED <<kept, said, spoiled, chunks>>
    BY <1>3 DEF StartRecording, Advance
  <2>2. take + 1 \in Take
    BY <1>3, BoundsAssumption DEF StartRecording, Take
  <2>3. stage'[take + 1] = "recording" /\ \A t \in Take : t # take + 1 => stage'[t] = stage[t]
    BY <2>1, <2>2
  <2>4. \A t \in Take : t > take' => t > take /\ t # take + 1
    BY <2>1
  <2>5. \A t \in Take : t > take' =>
          stage'[t] = "unused" /\ said'[t] = 0 /\ t \notin spoiled' /\ chunks'[t] = <<>>
    BY <1>1, <2>1, <2>3, <2>4 DEF StageFits
  <2>6. \A t \in Take : t # take' => stage'[t] \notin {"recording", "stopped"}
    <3>1. take # 0 => take \in Take /\ stage[take] \notin {"recording", "stopped"}
      BY <1>1, <2>1 DEF StageFits, EngineAt
    <3>2. \A t \in Take : t = take => take # 0
      BY DEF Take
    <3>3. \A t \in Take : stage[t] \notin {"recording", "stopped"}
      BY <1>1, <3>1, <3>2 DEF StageFits
    <3>4. QED
      BY <2>1, <2>3, <3>3
  <2>7. \A t \in Take : stage'[t] \notin {"given", "failed"} => kept'[t] = <<>>
    <3>1. take + 1 > take
      OBVIOUS
    <3>2. stage[take + 1] = "unused"
      BY <1>1, <2>2, <3>1 DEF StageFits
    <3>3. QED
      BY <1>1, <2>1, <2>3, <3>2 DEF StageFits
  <2>8. QED
    BY <2>1, <2>3, <2>5, <2>6, <2>7 DEF StageFits, EngineAt
<1>4. CASE (EngineWaits \/ UserActs) /\ ~StartRecording
  <2>1. UNCHANGED <<take, said, spoiled, chunks>>
    BY <1>4, EngineLeaves
  <2>2. CASE UNCHANGED <<stage, kept>> /\ (take # 0 => EngineAt(pc', stage[take]))
    BY <1>1, <2>1, <2>2 DEF StageFits
  <2>3. CASE /\ take \in Take
             /\ \E s \in Stages :
                  /\ stage' = [stage EXCEPT ![take] = s] /\ EngineAt(pc', s)
                  /\ \/ /\ kept' = kept /\ s \notin {"given", "failed"}
                        /\ stage[take] \notin {"given", "failed"}
                     \/ s \in {"given", "failed"} /\ kept' = [kept EXCEPT ![take] = Audio]
    <3>1. PICK s \in Stages :
            /\ stage' = [stage EXCEPT ![take] = s] /\ EngineAt(pc', s)
            /\ \/ /\ kept' = kept /\ s \notin {"given", "failed"}
                  /\ stage[take] \notin {"given", "failed"}
               \/ s \in {"given", "failed"} /\ kept' = [kept EXCEPT ![take] = Audio]
      BY <2>3
    <3>2. stage'[take] = s /\ \A t \in Take : t # take => stage'[t] = stage[t] /\ kept'[t] = kept[t]
      BY <2>3, <3>1
    <3>3. \A t \in Take : t > take => t # take
      OBVIOUS
    <3>4. \A t \in Take : t > take' =>
            stage'[t] = "unused" /\ said'[t] = 0 /\ t \notin spoiled' /\ chunks'[t] = <<>>
      BY <1>1, <2>1, <3>2, <3>3 DEF StageFits
    <3>5. \A t \in Take : t # take' => stage'[t] \notin {"recording", "stopped"}
      BY <1>1, <2>1, <3>2 DEF StageFits
    <3>6. \A t \in Take : stage'[t] \notin {"given", "failed"} => kept'[t] = <<>>
      BY <1>1, <2>3, <3>1, <3>2 DEF StageFits
    <3>7. take' # 0 => EngineAt(pc', stage'[take'])
      BY <2>1, <3>1, <3>2
    <3>8. QED
      BY <3>4, <3>5, <3>6, <3>7 DEF StageFits
  <2>4. QED
    BY <1>4, <2>2, <2>3, EngineMoves
<1>5. CASE Work \/ Panic
  <2>1. UNCHANGED <<pc, take, stage, kept, said, spoiled>>
    BY <1>5, WorkLeaves
  <2>2. \A t \in Take : t > take => chunks'[t] = <<>>
    BY <1>1, <1>5, ChannelsAhead DEF StageFits
  <2>3. QED
    BY <1>1, <2>1, <2>2 DEF StageFits
<1>6. QED
  BY <1>2, <1>3, <1>4, <1>5 DEF Next

\* A sound that reaches the ring buffer continues the audio; one that is lost leaves a
\* gap of which the user is warned.
LEMMA SoundKeepsAudio ==
    ASSUME WorkerInv, Sound
    PROVE  MicFits'
<1>1. TypeOK /\ PcFits /\ MicFits /\ pc = "recording"
  BY DEF WorkerInv, Sound
<1>2. /\ take \in Take /\ take # 0 /\ take' = take /\ samples' = samples
      /\ said \in [Take -> 0..MaxSounds] /\ said[take] \in Nat
  <2>1. take # 0 /\ take' = take /\ samples' = samples
    BY <1>1 DEF PcFits, Sound, engineVars
  <2>2. take \in Take /\ said \in [Take -> 0..MaxSounds]
    BY <1>1, <2>1, TakeTyped DEF TypeOK
  <2>3. QED
    BY <2>1, <2>2
<1>3. said'[take] = said[take] + 1
  BY <1>2 DEF Sound
<1>4. Promise!Faithful(take, Audio)
  BY <1>1, <1>2 DEF MicFits
<1>5. Audio \in Seq(Sounds) /\ Len(Audio) \in Nat /\ DOMAIN Audio = 1..Len(Audio)
  BY TakeTyped
<1>6. CASE Len(ring) < RingSize
  <2>1. ring' = Append(ring, <<take, said[take] + 1>>) /\ spoiled' = spoiled
    BY <1>3, <1>6 DEF Sound
  <2>2. <<take, said[take] + 1>> \in Sounds
    <3>1. said[take] < MaxSounds
      BY DEF Sound
    <3>2. said[take] + 1 \in 1..MaxSounds
      BY <1>2, <3>1, BoundsAssumption
    <3>3. QED
      BY <1>2, <3>2 DEF Sounds
  <2>3. Audio' = Append(Audio, <<take, said[take] + 1>>)
    <3>1. samples \o Append(ring, <<take, said[take] + 1>>) =
            Append(samples \o ring, <<take, said[take] + 1>>)
      BY <2>2, TakeTyped, SoundsJoin
    <3>2. QED
      BY <1>2, <2>1, <3>1 DEF Audio
  <2>4. /\ Len(Audio') = Len(Audio) + 1 /\ DOMAIN Audio' = 1..(Len(Audio) + 1) /\ Audio' # <<>>
        /\ \A i \in 1..Len(Audio) : Audio'[i] = Audio[i]
        /\ Audio'[Len(Audio) + 1] = <<take, said[take] + 1>>
    BY <1>5, <2>2, <2>3, AppendProperties
  <2>5. Promise!Faithful(take, Audio)'
    <3>1. \A i \in DOMAIN Audio : Audio[i][1] = take /\ Audio[i][2] \in 1..said[take]
      BY <1>4 DEF Promise!Faithful
    <3>2. \A i \in DOMAIN Audio' : Audio'[i][1] = take /\ Audio'[i][2] \in 1..said'[take]
      BY <1>2, <1>3, <1>5, <2>4, <3>1
    <3>3. \A i, j \in DOMAIN Audio : i < j => Audio[i][2] < Audio[j][2]
      BY <1>4 DEF Promise!Faithful
    <3>4. \A i, j \in DOMAIN Audio' : i < j => Audio'[i][2] < Audio'[j][2]
      BY <1>2, <1>5, <2>4, <3>1, <3>3
    <3>5. take \notin spoiled => Audio' = Promise!Whole(take, said'[take])
      <4>1. SUFFICES ASSUME take \notin spoiled PROVE Audio' = Promise!Whole(take, said'[take])
        OBVIOUS
      <4>2. Audio = Promise!Whole(take, said[take])
        BY <1>4, <4>1 DEF Promise!Faithful
      <4>3. Len(Audio) = said[take] /\ \A i \in 1..Len(Audio) : Audio[i] = <<take, i>>
        BY <1>2, <1>5, <4>2 DEF Promise!Whole
      <4>4. \A i \in 1..(said[take] + 1) : Audio'[i] = <<take, i>>
        BY <1>2, <2>4, <4>3
      <4>5. Audio' = [i \in 1..(said[take] + 1) |-> <<take, i>>]
        <5>1. Audio' \in Seq(Sounds)
          BY <1>5, <2>2, <2>3, AppendProperties
        <5>2. Audio' = [i \in 1..(said[take] + 1) |-> Audio'[i]]
          BY <2>4, <4>3, <5>1
        <5>3. QED
          BY <4>4, <5>2
      <4>6. QED
        BY <1>3, <4>5 DEF Promise!Whole
    <3>6. QED
      BY <1>2, <2>1, <3>2, <3>4, <3>5 DEF Promise!Faithful
  <2>6. QED
    BY <1>2, <2>4, <2>5 DEF MicFits
<1>7. CASE ~(Len(ring) < RingSize)
  <2>1. ring' = ring /\ spoiled' = spoiled \cup {take} /\ Audio' = Audio
    BY <1>2, <1>7 DEF Sound, Audio
  <2>2. Audio # <<>>
    <3>1. ring # <<>> /\ ring \in Seq(Sounds) /\ samples \in Seq(Sounds)
      BY <1>1, <1>7, BoundsAssumption DEF TypeOK
    <3>2. QED
      BY <3>1, ConcatEqualIffEmpty DEF Audio
  <2>3. Promise!Faithful(take, Audio)'
    <3>1. \A i \in DOMAIN Audio : Audio[i][1] = take /\ Audio[i][2] \in 1..said'[take]
      BY <1>2, <1>3, <1>4 DEF Promise!Faithful
    <3>2. QED
      BY <1>2, <1>4, <2>1, <3>1 DEF Promise!Faithful
  <2>4. QED
    BY <1>2, <2>1, <2>2, <2>3 DEF MicFits
<1>8. QED
  BY <1>6, <1>7

\* Every step keeps MicFits.
LEMMA MicStep ==
    ASSUME WorkerInv, Next
    PROVE  MicFits'
<1>1. MicFits /\ PcFits /\ TypeOK
  BY DEF WorkerInv
<1>2. ASSUME UNCHANGED <<take, said, Audio>>, spoiled' \in {spoiled, spoiled \cup {take}}
      PROVE  MicFits'
  BY <1>1, <1>2 DEF MicFits, Promise!Faithful, Promise!Whole
<1>3. CASE StreamError \/ CollectorEnds
  BY <1>2, <1>3 DEF StreamError, CollectorEnds, engineVars, Audio
<1>4. CASE Collect
  <2>1. Audio' = Audio
    BY <1>4, TakeTyped, SoundsJoin DEF Collect, Audio
  <2>2. QED
    BY <1>2, <1>4, <2>1 DEF Collect, engineVars
<1>5. CASE StartRecording
  <2>1. /\ take' = take + 1 /\ said' = said /\ spoiled' = spoiled /\ take + 1 \in Take
        /\ take + 1 > take
    BY <1>5, TakeTyped, BoundsAssumption DEF StartRecording, Take
  <2>2. said[take + 1] = 0 /\ take + 1 \notin spoiled
    BY <2>1 DEF WorkerInv, StageFits
  <2>3. Audio' = <<>>
    BY <1>5 DEF StartRecording, Audio
  <2>4. <<>> = Promise!Whole(take + 1, 0)
    BY DEF Promise!Whole
  <2>5. Promise!Faithful(take, Audio)'
    BY <2>1, <2>2, <2>3, <2>4 DEF Promise!Faithful
  <2>6. QED
    BY <2>1, <2>2, <2>5 DEF MicFits
<1>6. CASE (EngineWaits \/ UserActs) /\ ~StartRecording
  BY <1>2, <1>6, EngineLeaves DEF Audio
<1>7. CASE Work \/ Panic
  BY <1>2, <1>7, WorkLeaves DEF Audio
<1>8. QED
  BY <1>3, <1>4, <1>5, <1>6, <1>7, SoundKeepsAudio DEF Next, Collector

-----------------------------------------------------------------------------
(* The worker's channel.                                                   *)

\* The channel holds jobs, at the places 1 to its length.
LEMMA JobsShape ==
    ASSUME WorkerInv
    PROVE  /\ jobs \in Seq(Job) /\ DOMAIN jobs = 1..Len(jobs) /\ Len(jobs) \in Nat
           /\ \A i \in DOMAIN jobs : i \in Nat /\ jobs[i] \in Job /\ JobFits(i)
           /\ JobsInOrder /\ (worker = "ended" => jobs = <<>>)
           /\ hearing \in Nat /\ (hearing # 0 <=> worker = "record")
<1>1. jobs \in Seq(Job) /\ hearing \in Nat /\ (hearing # 0 <=> worker = "record")
  BY BoundsAssumption DEF WorkerInv, TypeOK
<1>2. QED
  BY <1>1 DEF WorkerInv, JobsFit

\* While the engine waits for nothing of the worker's, only recordings are in the channel.
LEMMA OnlyRecordings ==
    ASSUME WorkerInv,
           \/ pc \in {"idle", "recording", "stopping", "dropping", "finish"}
           \/ pc \in {"whole", "media"} /\ answer # NoReply
           \/ worker = "ended"
    PROVE  \A i \in DOMAIN jobs : jobs[i].op = "Record"
<1>1. CASE worker = "ended"
  BY <1>1, JobsShape
<1>2. CASE worker # "ended"
  BY <1>2, JobsShape, JobsTyped DEF JobFits, Plain
<1>3. QED
  BY <1>1, <1>2

\* A channel of recordings alone fits every place of the engine.
LEMMA RecordingsFit ==
    ASSUME WorkerInv, jobs' = jobs, hearing' \in {hearing, 0}, take' = take,
           worker' = "ended" => jobs = <<>>,
           \A i \in DOMAIN jobs : jobs[i].op = "Record"
    PROVE  JobsFit'
<1>1. \A i \in DOMAIN jobs : jobs[i].take \in (hearing' + 1)..take
  <2>1. \A i \in DOMAIN jobs : jobs[i].take \in (hearing + 1)..take
    BY JobsShape DEF JobFits
  <2>2. QED
    BY <2>1, JobsShape, TakeTyped
<1>2. \A i \in DOMAIN jobs' : JobFits(i)'
  BY <1>1 DEF JobFits, Plain
<1>3. JobsInOrder'
  BY JobsShape DEF JobsInOrder
<1>4. QED
  BY <1>2, <1>3 DEF JobsFit

\* A job sent behind recordings, or a Quit behind anything, fits.
LEMMA SentFits ==
    ASSUME WorkerInv, NEW job \in Job, worker # "ended", jobs' = Append(jobs, job),
           UNCHANGED <<hearing, worker, answer>>, take' \in {take, take + 1},
           \A i \in DOMAIN jobs :
             \/ jobs[i].op = "Record"
             \/ jobs[i].op = "Media" /\ job.op = "Quit" /\ pc' \in {"shutdown", "leaving"},
           job.op = "Record" => take' = take + 1 /\ job.take = take + 1 /\ hearing <= take,
           job.op = "Quit" => pc' \in {"replacing", "shutdown"},
           job.op = "Transcribe" => pc' = "whole", job.op = "Media" => pc' = "media",
           Plain(job.op) => worker \notin {"whole", "media"} /\ answer = NoReply
    PROVE  JobsFit'
<1>1. /\ DOMAIN jobs' = 1..(Len(jobs) + 1) /\ Len(jobs') = Len(jobs) + 1
      /\ \A i \in DOMAIN jobs : jobs'[i] = jobs[i]
      /\ jobs'[Len(jobs) + 1] = job
      /\ \A i \in DOMAIN jobs' : i \in DOMAIN jobs \/ i = Len(jobs) + 1
  BY JobsShape, Behind
<1>2. \A i \in DOMAIN jobs : JobFits(i)'
  <2>1. TAKE i \in DOMAIN jobs
  <2>2. /\ JobFits(i) /\ jobs'[i] = jobs[i]
        /\ hearing' = hearing /\ answer' = answer /\ worker' = worker
    BY <1>1, JobsShape
  <2>3. CASE jobs[i].op = "Record"
    <3>1. jobs[i].take \in (hearing + 1)..take'
      BY <2>2, <2>3, JobsShape, TakeTyped DEF JobFits
    <3>2. QED
      BY <2>2, <2>3, <3>1 DEF JobFits, Plain
  <2>4. CASE jobs[i].op = "Media" /\ pc' \in {"shutdown", "leaving"}
    BY <2>2, <2>4 DEF JobFits, Plain
  <2>5. QED
    BY <2>3, <2>4
<1>3. ASSUME NEW i \in DOMAIN jobs', i = Len(jobs) + 1
      PROVE  JobFits(i)'
  <2>1. jobs'[i] = job /\ Len(jobs') = i
    BY <1>1, <1>3
  <2>2. job.op = "Record" => job.take \in (hearing' + 1)..take'
    BY JobsShape, TakeTyped
  <2>3. QED
    BY <2>1, <2>2 DEF JobFits
<1>4. JobsInOrder'
  <2>1. SUFFICES ASSUME NEW i \in DOMAIN jobs', NEW j \in DOMAIN jobs', i < j
                 PROVE  /\ jobs'[i].op = "Record" /\ jobs'[j].op = "Record" =>
                             jobs'[i].take < jobs'[j].take
                        /\ ~(Plain(jobs'[i].op) /\ Plain(jobs'[j].op))
    BY DEF JobsInOrder
  <2>2. i \in DOMAIN jobs /\ jobs'[i] = jobs[i]
    BY <1>1, <2>1, JobsShape
  <2>3. CASE j \in DOMAIN jobs
    BY <1>1, <2>1, <2>2, <2>3, JobsShape DEF JobsInOrder
  <2>4. CASE j = Len(jobs) + 1
    <3>1. jobs'[j] = job
      BY <1>1, <2>4
    <3>2. jobs[i].op = "Record" => jobs[i].take \in (hearing + 1)..take
      BY <2>2, JobsShape DEF JobFits
    <3>3. CASE jobs[i].op = "Record"
      BY <2>2, <3>1, <3>2, <3>3, JobsShape, TakeTyped DEF Plain
    <3>4. CASE jobs[i].op = "Media" /\ job.op = "Quit"
      BY <2>2, <3>1, <3>4 DEF Plain
    <3>5. QED
      BY <2>2, <3>3, <3>4
  <2>5. QED
    BY <1>1, <2>3, <2>4
<1>5. \A i \in DOMAIN jobs' : JobFits(i)'
  BY <1>1, <1>2, <1>3
<1>6. QED
  BY <1>4, <1>5 DEF JobsFit

\* A step of the engine keeps JobsFit.
LEMMA EngineJobs ==
    ASSUME WorkerInv, EngineWaits \/ UserActs
    PROVE  JobsFit'
<1> USE DEF engineVars, micVars, channelVars, workerVars
<1>1. /\ WorkerFits /\ ReplyFits /\ hearing <= take
      /\ take \in Nat
  BY TakeTyped DEF WorkerInv, ListenFits
<1>2. ASSUME NEW job \in Job, Send(job), UNCHANGED <<hearing, worker, answer>>, take' = take,
             \A i \in DOMAIN jobs :
               \/ jobs[i].op = "Record"
               \/ jobs[i].op = "Media" /\ job.op = "Quit" /\ pc' \in {"shutdown", "leaving"},
             job.op # "Record", job.op = "Quit" => pc' \in {"replacing", "shutdown"},
             job.op = "Transcribe" => pc' = "whole", job.op = "Media" => pc' = "media",
             Plain(job.op) => pc \in {"idle", "stopping", "finish"}
      PROVE  JobsFit'
  <2>1. CASE worker = "ended"
    <3>1. jobs' = jobs /\ jobs = <<>>
      BY <1>2, <2>1, JobsShape DEF Send
    <3>2. QED
      BY <1>2, <3>1, RecordingsFit
  <2>2. CASE worker # "ended"
    <3>1. Plain(job.op) => worker \notin {"whole", "media"} /\ answer = NoReply
      BY <1>1, <1>2 DEF WorkerFits, ReplyFits
    <3>2. jobs' = Append(jobs, job)
      BY <1>2, <2>2 DEF Send
    <3>3. QED
      BY <1>2, <2>2, <3>1, <3>2, SentFits
  <2>3. QED
    BY <2>1, <2>2
<1>3. /\ PlainJob("Transcribe") \in Job /\ PlainJob("Transcribe").op = "Transcribe"
      /\ PlainJob("Media") \in Job /\ PlainJob("Media").op = "Media"
      /\ PlainJob("Quit") \in Job /\ PlainJob("Quit").op = "Quit"
  BY DEF PlainJob, Job
<1>4. CASE StartRecording
  <2>1. /\ pc = "idle" /\ worker # "ended" /\ take' = take + 1 /\ take + 1 \in Take
        /\ jobs' = Append(jobs, RecordJob(take + 1)) /\ UNCHANGED <<hearing, worker, answer>>
    BY <1>1, <1>4, BoundsAssumption DEF StartRecording, Send, Take
  <2>2. /\ RecordJob(take + 1) \in Job /\ RecordJob(take + 1).op = "Record"
        /\ RecordJob(take + 1).take = take + 1
    BY <2>1 DEF RecordJob, Job
  <2>3. QED
    BY <1>1, <2>1, <2>2, OnlyRecordings, SentFits DEF Plain
<1>5. CASE StopRecording \/ CancelRecording \/ DropSession \/ FinishWhole \/ MediaReply
  <2>1. \A i \in DOMAIN jobs : jobs[i].op = "Record"
    BY <1>5, OnlyRecordings
       DEF StopRecording, CancelRecording, DropSession, FinishWhole, MediaReply,
                                Silent
  <2>2. UNCHANGED <<jobs, hearing, take, worker>>
    BY <1>5 DEF StopRecording, CancelRecording, DropSession, FinishWhole, MediaReply
  <2>3. QED
    BY <2>1, <2>2, JobsShape, RecordingsFit
<1>6. CASE Replace \/ Gone
  <2>1. jobs = <<>> /\ UNCHANGED <<jobs, hearing, take>>
    BY <1>6, JobsShape DEF Replace, Gone
  <2>2. QED
    BY <2>1, RecordingsFit
<1>7. CASE Leave
  <2>1. pc \in {"idle", "recording", "media"} /\ pc' = "leaving"
        /\ UNCHANGED <<jobs, hearing, take, worker, answer>>
    BY <1>7 DEF Leave
  <2>2. \A i \in DOMAIN jobs' : JobFits(i)'
    BY <2>1, JobsShape DEF JobFits
  <2>3. QED
    BY <2>1, <2>2, JobsShape DEF JobsFit, JobsInOrder
<1>8. CASE JoinCollector
  <2>1. pc = "stopping" /\ \A i \in DOMAIN jobs : jobs[i].op = "Record"
    BY <1>8, OnlyRecordings DEF JoinCollector
  <2>2. UNCHANGED <<hearing, worker, answer, take>>
    BY <1>8 DEF JoinCollector
  <2>3. CASE pc' = "whole"
    BY <1>2, <1>3, <1>8, <2>1, <2>2, <2>3 DEF JoinCollector
  <2>4. CASE pc' # "whole"
    BY <1>8, <2>1, <2>2, <2>4, JobsShape, RecordingsFit DEF JoinCollector
  <2>5. QED
    BY <2>3, <2>4
<1>9. CASE FinishSession
  <2>1. pc = "finish" /\ \A i \in DOMAIN jobs : jobs[i].op = "Record"
    BY <1>9, OnlyRecordings DEF FinishSession
  <2>2. UNCHANGED <<hearing, worker, answer, take>>
    BY <1>9 DEF FinishSession
  <2>3. CASE session.kind = "text"
    BY <1>9, <2>1, <2>2, <2>3, JobsShape, RecordingsFit DEF FinishSession
  <2>4. CASE session.kind # "text"
    BY <1>2, <1>3, <1>9, <2>1, <2>2, <2>4 DEF FinishSession
  <2>5. QED
    BY <2>3, <2>4
<1>10. CASE BeginMedia \/ SwitchModel
  <2>1. pc = "idle" /\ \A i \in DOMAIN jobs : jobs[i].op = "Record"
    BY <1>10, OnlyRecordings DEF BeginMedia, SwitchModel
  <2>2. UNCHANGED <<hearing, worker, answer, take>>
    BY <1>10 DEF BeginMedia, SwitchModel
  <2>3. CASE BeginMedia
    BY <1>2, <1>3, <2>1, <2>2, <2>3 DEF BeginMedia
  <2>4. CASE SwitchModel
    BY <1>2, <1>3, <2>1, <2>2, <2>4 DEF SwitchModel, Shutdown, Plain
  <2>5. QED
    BY <1>10, <2>3, <2>4
<1>11. CASE StopWorker
  <2>1. pc = "leaving" /\ pc' = "shutdown" /\ Send(PlainJob("Quit"))
        /\ UNCHANGED <<hearing, worker, answer, take>>
    BY <1>11 DEF StopWorker, Shutdown
  <2>2. \A i \in DOMAIN jobs : jobs[i].op \in {"Record", "Media"}
    BY <2>1, JobsShape, JobsTyped DEF JobFits
  <2>3. QED
    BY <1>2, <1>3, <2>1, <2>2 DEF Plain
<1>12. QED
  BY <1>4, <1>5, <1>6, <1>7, <1>8, <1>9, <1>10, <1>11 DEF EngineWaits, UserActs

\* The worker takes a job from its channel: those behind it still fit.
LEMMA TakeJobFits ==
    ASSUME WorkerInv, TakeJob
    PROVE  JobsFit' /\ WorkerFits'
<1>1. /\ jobs # <<>> /\ jobs' = Tail(jobs) /\ worker = "idle"
      /\ worker' = Started(Head(jobs).op) /\ hearing' = Head(jobs).take
      /\ UNCHANGED <<pc, take, answer>>
  BY DEF TakeJob, engineVars
<1>2. /\ Head(jobs) = jobs[1] /\ 1 \in DOMAIN jobs /\ Len(jobs') = Len(jobs) - 1
      /\ \A i \in DOMAIN jobs' : i \in Nat /\ i + 1 \in DOMAIN jobs /\ jobs'[i] = jobs[i + 1]
  BY <1>1, JobsShape, MovesUp
<1>3. Head(jobs).op \in {"Record", "Transcribe", "Media", "Quit"} /\ JobFits(1) /\ hearing = 0
  BY <1>1, <1>2, JobsShape, JobsTyped
<1>4. CASE Head(jobs).op = "Quit"
  <2>1. Len(jobs) = 1
    BY <1>2, <1>3, <1>4 DEF JobFits
  <2>2. worker' = "ended" /\ jobs' = <<>>
    <3>1. jobs' \in Seq(Job) /\ Len(jobs') = 0
      BY <1>1, <1>2, <2>1, JobsShape, MovesUp
    <3>2. QED
      BY <1>1, <1>4, <3>1, EmptySeq DEF Started
  <2>3. QED
    BY <2>2 DEF JobsFit, JobsInOrder, WorkerFits
<1>5. CASE Head(jobs).op # "Quit"
  <2>1. worker' # "ended"
    BY <1>1, <1>3, <1>5 DEF Started
  <2>2. ASSUME NEW i \in DOMAIN jobs'
        PROVE  JobFits(i)'
    <3>1. /\ i + 1 \in DOMAIN jobs /\ jobs'[i] = jobs[i + 1] /\ JobFits(i + 1) /\ 1 < i + 1
          /\ i \in Nat /\ 1 <= i
      BY <1>1, <1>2, JobsShape, MovesUp
    <3>2. /\ Head(jobs).op = "Record" /\ jobs[i + 1].op = "Record" =>
               Head(jobs).take < jobs[i + 1].take
          /\ ~(Plain(Head(jobs).op) /\ Plain(jobs[i + 1].op))
      BY <1>2, <3>1, JobsShape DEF JobsInOrder
    <3>3. jobs'[i].op = "Record" => jobs'[i].take \in (hearing' + 1)..take'
      <4>1. SUFFICES ASSUME jobs'[i].op = "Record" PROVE jobs[i + 1].take \in (hearing' + 1)..take
        BY <1>1, <3>1
      <4>2. jobs[i + 1].take \in 1..take
        BY <1>3, <3>1, <4>1 DEF JobFits
      <4>3. hearing' = 0 \/ (hearing' \in Nat /\ hearing' < jobs[i + 1].take)
        <5>1. Head(jobs) \in Job /\ Take \subseteq Nat
          BY <1>2, JobsShape, TakeTyped
        <5>2. CASE Head(jobs).op = "Record"
          BY <1>1, <3>1, <3>2, <4>1, <5>1, <5>2, JobsTyped
        <5>3. CASE Head(jobs).op # "Record"
          BY <1>1, <5>1, <5>3, JobsTyped
        <5>4. QED
          BY <5>2, <5>3
      <4>4. QED
        BY <4>2, <4>3, TakeTyped
    <3>4. jobs'[i].op = "Quit" => i = Len(jobs') /\ pc' \in {"replacing", "shutdown", "gone"}
      BY <1>1, <1>2, <3>1, JobsShape DEF JobFits
    <3>5. /\ jobs'[i].op = "Transcribe" => pc' = "whole"
          /\ jobs'[i].op = "Media" => pc' \in {"media", "leaving", "shutdown", "gone"}
      BY <1>1, <3>1 DEF JobFits
    <3>6. Plain(jobs'[i].op) => worker' \notin {"whole", "media"} /\ answer' = NoReply
      BY <1>1, <1>3, <3>1, <3>2 DEF JobFits, Plain, Started
    <3>7. QED
      BY <3>3, <3>4, <3>5, <3>6 DEF JobFits
  <2>3. JobsInOrder'
    <3>1. \A i, j \in DOMAIN jobs' : i < j => i + 1 < j + 1
      BY <1>2
    <3>2. QED
      BY <1>2, <3>1, JobsShape DEF JobsInOrder
  <2>4. WorkerFits'
    BY <1>1, <1>2, <1>3 DEF WorkerFits, JobFits, Plain, Started
  <2>5. QED
    BY <2>1, <2>2, <2>3, <2>4 DEF JobsFit
<1>6. QED
  BY <1>4, <1>5

\* Every step keeps JobsFit and WorkerFits.
LEMMA JobsStep ==
    ASSUME WorkerInv, Next
    PROVE  JobsFit' /\ WorkerFits'
<1> USE DEF engineVars, micVars, channelVars, workerVars
<1>1. JobsFit /\ WorkerFits /\ JobsInOrder
  BY DEF WorkerInv, JobsFit
<1>2. ASSUME UNCHANGED <<jobs, pc, take, worker, hearing, answer>>
      PROVE  JobsFit' /\ WorkerFits'
  <2>1. \A i \in DOMAIN jobs' : JobFits(i)'
    BY <1>1, <1>2 DEF JobsFit, JobFits
  <2>2. QED
    BY <1>1, <1>2, <2>1 DEF JobsFit, WorkerFits, JobsInOrder
<1>3. CASE Sound \/ StreamError \/ Collector
  BY <1>2, <1>3 DEF Sound, StreamError, Collector, Collect, CollectorEnds
<1>4. CASE EngineWaits \/ UserActs
  <2>1. WorkerFits'
    <3>1. worker' \in {"whole", "media"} => worker' = worker /\ worker # "ended"
      <4>1. CASE Replace
        BY <4>1 DEF Replace
      <4>2. CASE ~Replace
        <5>1. worker' = worker
          BY <1>4, <4>2 DEF EngineWaits, UserActs, StartRecording, StopRecording, CancelRecording,
             BeginMedia, SwitchModel, Leave, JoinCollector, FinishSession, FinishWhole, DropSession,
             MediaReply, StopWorker, Gone
        <5>2. QED
          BY <5>1
      <4>3. QED
        BY <4>1, <4>2
    <3>2. CASE worker \in {"whole", "media"}
      <4>1. answer = NoReply /\ worker # "ended"
        BY <1>1, <3>2 DEF WorkerFits
      <4>2. CASE worker = "whole"
        <5>1. pc = "whole"
          BY <1>1, <4>2 DEF WorkerFits
        <5>2. QED
          BY <1>4, <4>1, <5>1 DEF EngineWaits, UserActs, StartRecording, StopRecording,
             CancelRecording, BeginMedia, SwitchModel, Leave, JoinCollector, FinishSession,
             FinishWhole, DropSession, MediaReply, StopWorker, Gone, Replace, Silent
      <4>3. CASE worker = "media"
        <5>1. pc \in {"media", "leaving", "shutdown", "gone"}
          BY <1>1, <4>3 DEF WorkerFits
        <5>2. pc' \in {"media", "leaving", "shutdown", "gone"} /\ answer' = answer
          BY <1>4, <4>1, <5>1 DEF EngineWaits, UserActs, StartRecording, StopRecording,
             CancelRecording, BeginMedia, SwitchModel, Leave, JoinCollector, FinishSession,
             FinishWhole, DropSession, MediaReply, StopWorker, Gone, Replace
        <5>3. QED
          BY <3>1, <4>1, <4>3, <5>2 DEF WorkerFits
      <4>4. QED
        BY <3>2, <4>2, <4>3
    <3>3. CASE worker \notin {"whole", "media"}
      BY <3>1, <3>3 DEF WorkerFits
    <3>4. QED
      BY <3>2, <3>3
  <2>2. QED
    BY <1>4, <2>1, EngineJobs
<1>5. ASSUME NEW reply, EndRecord(reply), worker = "record"
      PROVE  JobsFit' /\ WorkerFits'
  <2>1. /\ UNCHANGED <<jobs, pc, take, answer>> /\ worker' = "idle" /\ hearing' = 0
        /\ take \in Nat /\ hearing \in Nat
    BY <1>5, JobsShape, TakeTyped DEF EndRecord
  <2>2. ASSUME NEW i \in DOMAIN jobs'
        PROVE  JobFits(i)'
    <3>1. JobFits(i) /\ jobs'[i] = jobs[i]
      BY <2>1, <2>2, JobsShape
    <3>2. jobs[i].op = "Record" => jobs[i].take \in (hearing' + 1)..take'
      BY <2>1, <3>1 DEF JobFits
    <3>3. QED
      BY <2>1, <3>1, <3>2 DEF JobFits
  <2>3. QED
    BY <1>1, <2>1, <2>2 DEF JobsFit, WorkerFits, JobsInOrder
<1>6. ASSUME NEW reply, EndJob(reply), worker \in {"whole", "media"}
      PROVE  JobsFit' /\ WorkerFits'
  <2>1. UNCHANGED <<jobs, pc, take, hearing>> /\ worker' = "idle"
    BY <1>6 DEF EndJob
  <2>2. ASSUME NEW i \in DOMAIN jobs'
        PROVE  JobFits(i)'
    <3>1. JobFits(i) /\ jobs'[i] = jobs[i]
      BY <2>1, <2>2, JobsShape
    <3>2. QED
      BY <1>6, <2>1, <3>1 DEF JobFits
  <2>3. QED
    BY <1>1, <2>1, <2>2 DEF JobsFit, WorkerFits, JobsInOrder
<1>7. CASE Work
  <2>1. CASE HearAndDecode \/ HearLive \/ HearPlain
    BY <1>2, <2>1 DEF HearAndDecode, HearLive, HearPlain, TakeSound
  <2>2. CASE HearAndFail \/ Abandon
    BY <1>5, <2>2 DEF HearAndFail, Abandon, Hears
  <2>3. CASE EndOfRecording
    <3>1. worker = "record" /\ \E reply : EndRecord(reply)
      BY <2>3 DEF EndOfRecording
    <3>2. QED
      BY <1>5, <3>1
  <2>4. CASE Transcribe \/ TranscribeMedia
    BY <1>6, <2>4 DEF Transcribe, TranscribeMedia
  <2>5. QED
    BY <1>7, <2>1, <2>2, <2>3, <2>4, TakeJobFits DEF Work
<1>8. CASE Panic
  BY <1>8 DEF Panic, JobsFit, JobsInOrder, WorkerFits
<1>9. QED
  BY <1>3, <1>4, <1>7, <1>8 DEF Next

-----------------------------------------------------------------------------
(* What the worker has heard.                                              *)

\* A step of the engine sends no recording but the one it begins.
LEMMA NoOtherRecording ==
    ASSUME WorkerInv, EngineWaits \/ UserActs, ~StartRecording, NEW i \in DOMAIN jobs',
           NEW t, jobs'[i] = RecordJob(t)
    PROVE  \E k \in DOMAIN jobs : jobs[k] = RecordJob(t)
<1> USE DEF channelVars
<1>1. jobs' = jobs \/ \E op \in {"Transcribe", "Media", "Quit"} : jobs' = Append(jobs, PlainJob(op))
  <2>1. CASE EngineWaits
    BY <2>1
       DEF EngineWaits, JoinCollector, FinishSession, FinishWhole, DropSession, MediaReply,
           Replace,
                StopWorker, Gone, Shutdown, Send
  <2>2. CASE UserActs
    BY <2>2
       DEF UserActs, StopRecording, CancelRecording, BeginMedia, SwitchModel, Leave,
           Shutdown, Send
  <2>3. QED
    BY <2>1, <2>2
<1>2. CASE jobs' = jobs
  BY <1>2
<1>3. ASSUME NEW op \in {"Transcribe", "Media", "Quit"}, jobs' = Append(jobs, PlainJob(op))
      PROVE  \E k \in DOMAIN jobs : jobs[k] = RecordJob(t)
  <2>1. PlainJob(op) # RecordJob(t) /\ PlainJob(op) \in Job
    BY DEF PlainJob, RecordJob, Job
  <2>2. i \in DOMAIN jobs /\ jobs'[i] = jobs[i]
    BY <1>3, <2>1, JobsShape, Behind
  <2>3. QED
    BY <2>2
<1>4. QED
  BY <1>1, <1>2, <1>3

\* A recording that waits in the channel is none the worker listens to.
LEMMA WaitingOrHeard ==
    ASSUME WorkerInv, NEW i \in DOMAIN jobs, jobs[i] = RecordJob(take)
    PROVE  hearing < take /\ take \in Take /\ chunks[take] = samples
<1>1. jobs[i].op = "Record" /\ jobs[i].take = take
  BY DEF RecordJob
<1>2. take \in (hearing + 1)..take
  BY <1>1, JobsShape DEF JobFits
<1>3. QED
  BY <1>2, JobsShape, TakeTyped DEF WorkerInv, ListenFits

\* The collector forwards what it collects.
LEMMA CollectListens ==
    ASSUME WorkerInv, Collect
    PROVE  ListenFits'
<1>1. /\ UNCHANGED <<take, jobs, hearing, heard>> /\ samples' = Append(samples, Head(ring))
      /\ take \in Take /\ Head(ring) \in Sounds
  <2>1. take \in Take
    BY TakeTyped DEF Collect, WorkerInv, PcFits
  <2>2. QED
    BY <2>1, TakeTyped, HeadTailProperties DEF Collect, engineVars, workerVars
<1>2. Receives(take) => chunks'[take] = Append(chunks[take], Head(ring))
  BY <1>1, TakeTyped DEF Collect
<1>3. heard \in Seq(Sounds) /\ chunks[take] \in Seq(Sounds) /\ hearing <= take
  BY <1>1, TakeTyped DEF WorkerInv, TypeOK, ListenFits
<1>4. hearing = take => heard \o chunks'[take] = samples'
  <2>1. SUFFICES ASSUME hearing = take PROVE heard \o chunks'[take] = samples'
    OBVIOUS
  <2>2. heard \o chunks[take] = samples
    BY <1>1, <2>1, JobsShape DEF WorkerInv, ListenFits, Take
  <2>3. heard \o Append(chunks[take], Head(ring)) = Append(samples, Head(ring))
    <3>1. heard \o Append(chunks[take], Head(ring)) = Append(heard \o chunks[take], Head(ring))
      BY <1>1, <1>3, SoundsJoin
    <3>2. QED
      BY <2>2, <3>1
  <2>4. QED
    BY <1>1, <1>2, <2>1, <2>3 DEF Receives
<1>5. ASSUME NEW i \in DOMAIN jobs, jobs[i] = RecordJob(take)
      PROVE  chunks'[take] = samples'
  <2>1. chunks[take] = samples
    BY <1>5, WaitingOrHeard
  <2>2. QED
    BY <1>1, <1>2, <1>5, <2>1 DEF Receives
<1>6. QED
  BY <1>1, <1>3, <1>4, <1>5 DEF ListenFits

\* The end of a job that listened leaves what waits.
LEMMA EndRecordListens ==
    ASSUME WorkerInv, NEW reply, EndRecord(reply), worker = "record"
    PROVE  ListenFits'
<1>1. UNCHANGED <<take, jobs, samples>> /\ hearing' = 0
  BY DEF EndRecord, engineVars, micVars
<1>2. ASSUME NEW i \in DOMAIN jobs, jobs[i] = RecordJob(take)
      PROVE  chunks'[take] = samples
  <2>1. hearing < take /\ take \in Take /\ chunks[take] = samples
    BY <1>2, WaitingOrHeard
  <2>2. chunks' = [chunks EXCEPT ![hearing] = <<>>] /\ hearing # take
    BY <2>1, JobsShape, TakeTyped DEF EndRecord
  <2>3. QED
    BY <2>1, <2>2, TakeTyped
<1>3. QED
  BY <1>1, <1>2, TakeTyped DEF ListenFits

\* A sound goes from the channel to what was heard.
LEMMA TakeSoundListens ==
    ASSUME WorkerInv, TakeSound, worker = "record", chunks[hearing] # <<>>
    PROVE  ListenFits'
<1>1. /\ UNCHANGED <<take, jobs, samples, hearing>> /\ heard' = Append(heard, NextSound)
      /\ chunks' = [chunks EXCEPT ![hearing] = Tail(chunks[hearing])]
  BY DEF TakeSound, engineVars, micVars
<1>2. /\ hearing \in Take /\ hearing <= take /\ heard \in Seq(Sounds)
      /\ chunks[hearing] \in Seq(Sounds)
  BY SoundTaken DEF WorkerInv, ListenFits, TypeOK
<1>3. hearing = take => heard' \o chunks'[take] = samples
  <2>1. SUFFICES ASSUME hearing = take PROVE heard' \o chunks'[take] = samples
    OBVIOUS
  <2>2. heard \o chunks[take] = samples
    BY <1>2, <2>1 DEF WorkerInv, ListenFits, Take
  <2>3. Append(heard, Head(chunks[take])) \o Tail(chunks[take]) = samples
    BY <1>2, <2>1, <2>2, SoundsJoin
  <2>4. chunks'[take] = Tail(chunks[take])
    BY <1>1, <1>2, <2>1, TakeTyped
  <2>5. QED
    BY <1>1, <2>1, <2>3, <2>4 DEF NextSound
<1>4. ASSUME NEW i \in DOMAIN jobs, jobs[i] = RecordJob(take)
      PROVE  chunks'[take] = samples
  <2>1. hearing < take /\ take \in Take /\ chunks[take] = samples
    BY <1>4, WaitingOrHeard
  <2>2. hearing # take
    BY <2>1, JobsShape, TakeTyped
  <2>3. QED
    BY <1>1, <2>1, <2>2, TakeTyped
<1>5. QED
  BY <1>1, <1>2, <1>3, <1>4 DEF ListenFits

\* Every step keeps ListenFits.
LEMMA ListenStep ==
    ASSUME WorkerInv, Next
    PROVE  ListenFits'
<1> USE DEF engineVars, micVars, channelVars, workerVars
<1>1. ListenFits /\ DecodeFits
  BY DEF WorkerInv
<1>2. CASE UNCHANGED <<take, samples, hearing, heard, chunks, jobs>>
  BY <1>1, <1>2 DEF ListenFits
<1>3. CASE StartRecording
  <2>1. /\ take' = take + 1 /\ hearing' = hearing /\ samples' = <<>> /\ chunks' = chunks
        /\ take + 1 \in Take /\ take + 1 > take
    BY <1>3, BoundsAssumption, TakeTyped DEF StartRecording, Take
  <2>2. chunks[take + 1] = <<>>
    BY <2>1 DEF WorkerInv, StageFits
  <2>3. hearing <= take /\ hearing < take + 1
    BY <1>1, JobsShape, TakeTyped DEF ListenFits
  <2>4. QED
    BY <2>1, <2>2, <2>3, JobsShape, TakeTyped DEF ListenFits
<1>4. CASE (EngineWaits \/ UserActs) /\ ~StartRecording
  <2>1. UNCHANGED <<take, samples, hearing, heard, chunks>>
    BY <1>4, EngineLeaves
  <2>2. \A i \in DOMAIN jobs' : jobs'[i] = RecordJob(take) => chunks[take] = samples
    BY <1>4, NoOtherRecording, WaitingOrHeard
  <2>3. QED
    BY <1>1, <2>1, <2>2 DEF ListenFits
<1>5. CASE TakeJob
  <2>1. /\ UNCHANGED <<take, samples, heard, chunks>> /\ jobs # <<>> /\ jobs' = Tail(jobs)
        /\ hearing' = Head(jobs).take /\ worker = "idle"
    BY <1>5 DEF TakeJob
  <2>2. /\ Head(jobs) = jobs[1] /\ 1 \in DOMAIN jobs /\ Head(jobs) \in Job
        /\ \A i \in DOMAIN jobs' : i + 1 \in DOMAIN jobs /\ jobs'[i] = jobs[i + 1]
    BY <2>1, JobsShape, MovesUp
  <2>3. JobFits(1) /\ heard = <<>>
    BY <1>1, <2>1, <2>2, JobsShape DEF DecodeFits
  <2>4. hearing' <= take /\ (hearing' = take /\ take # 0 => Head(jobs) = RecordJob(take))
    <3>1. CASE Head(jobs).op = "Record"
      <4>1. Head(jobs).take \in (hearing + 1)..take /\ Head(jobs) = RecordJob(Head(jobs).take)
        BY <2>2, <2>3, <3>1, JobsTyped DEF JobFits
      <4>2. QED
        BY <2>1, <4>1, JobsShape, TakeTyped
    <3>2. CASE Head(jobs).op # "Record"
      BY <2>1, <2>2, <3>2, JobsTyped, TakeTyped
    <3>3. QED
      BY <3>1, <3>2
  <2>5. hearing' = take /\ take # 0 => heard \o chunks[take] = samples
    <3>1. SUFFICES ASSUME hearing' = take, take # 0 PROVE heard \o chunks[take] = samples
      OBVIOUS
    <3>2. chunks[take] = samples
      BY <2>2, <2>4, <3>1, WaitingOrHeard
    <3>3. QED
      BY <2>3, <3>2, TakeTyped, ConcatEmptySeq
  <2>6. \A i \in DOMAIN jobs' : jobs'[i] = RecordJob(take) => chunks[take] = samples
    BY <2>2, WaitingOrHeard
  <2>7. QED
    BY <2>1, <2>4, <2>5, <2>6 DEF ListenFits
<1>6. CASE HearAndDecode \/ HearLive \/ HearPlain
  BY <1>6, TakeSoundListens DEF HearAndDecode, HearLive, HearPlain, Hears
<1>7. CASE HearAndFail \/ Abandon
  BY <1>7, EndRecordListens DEF HearAndFail, Abandon, Hears
<1>8. CASE EndOfRecording
  <2>1. worker = "record" /\ \E reply : EndRecord(reply)
    BY <1>8 DEF EndOfRecording
  <2>2. QED
    BY <2>1, EndRecordListens
<1>9. CASE Transcribe \/ TranscribeMedia
  BY <1>2, <1>9 DEF Transcribe, TranscribeMedia, EndJob
<1>10. CASE Panic
  <2>1. jobs' = <<>> /\ hearing' = 0 /\ take' = take /\ DOMAIN <<>> = {}
    BY <1>10 DEF Panic
  <2>2. QED
    BY <2>1, TakeTyped DEF ListenFits
<1>11. CASE Sound \/ StreamError \/ CollectorEnds
  BY <1>2, <1>11 DEF Sound, StreamError, CollectorEnds
<1>12. QED
  BY <1>3, <1>4, <1>5, <1>6, <1>7, <1>8, <1>9, <1>10, <1>11, CollectListens
     DEF Next, Collector, Work

\* A recording as long as the limit is short; a longer one has sounds.
LEMMA ShortOrLong ==
    /\ ~IsLong(<<>>)
    /\ \A audio \in Seq(Sounds), x \in Sounds :
         IsLong(Append(audio, x)) =>
           \/ Len(Append(audio, x)) = DirectLimit + 1 /\ ~IsLong(audio)
           \/ Len(Append(audio, x)) # DirectLimit + 1 /\ IsLong(audio)
<1>1. ~IsLong(<<>>)
  BY BoundsAssumption DEF IsLong
<1>2. ASSUME NEW audio \in Seq(Sounds), NEW x \in Sounds, IsLong(Append(audio, x))
      PROVE  \/ Len(Append(audio, x)) = DirectLimit + 1 /\ ~IsLong(audio)
             \/ Len(Append(audio, x)) # DirectLimit + 1 /\ IsLong(audio)
  <2>1. Len(Append(audio, x)) = Len(audio) + 1 /\ Len(audio) \in Nat
    BY <1>2, AppendProperties
  <2>2. QED
    BY <1>2, <2>1, BoundsAssumption DEF IsLong
<1>3. QED
  BY <1>1, <1>2

\* With voice detection: the parts and what the detector holds are what was heard, also
\* at the sound that makes a recording long.
LEMMA DecodeKeepsAll ==
    ASSUME WorkerInv, HearAndDecode
    PROVE  DecodeFits'
<1>1. /\ worker = "record" /\ decoder = "vad" /\ chunks[hearing] # <<>>
      /\ worker' = worker /\ decoder' = decoder /\ heard' = Append(heard, NextSound)
  BY DEF HearAndDecode, Hears, TakeSound
<1>2. /\ heard \in Seq(Sounds) /\ parts \in Seq(Sounds) /\ speech \in Seq(Sounds)
      /\ NextSound \in Sounds
  BY <1>1, SoundTaken DEF WorkerInv, TypeOK
<1>3. CASE IsLong(heard')
  <2>1. PICK n \in 0..Len(Detector(Append(heard, NextSound))) :
          /\ parts' = parts \o SubSeq(Detector(Append(heard, NextSound)), 1, n)
          /\ speech' = SubSeq(Detector(Append(heard, NextSound)), n + 1,
                              Len(Detector(Append(heard, NextSound))))
    BY <1>1, <1>3 DEF HearAndDecode
  <2>2. /\ SubSeq(Detector(Append(heard, NextSound)), 1, n) \in Seq(Sounds)
        /\ speech' \in Seq(Sounds)
        /\ SubSeq(Detector(Append(heard, NextSound)), 1, n) \o speech' =
             Detector(Append(heard, NextSound))
    BY <1>1, <2>1, DetectorTyped
  <2>3. parts' \o speech' = parts \o Detector(Append(heard, NextSound))
    <3>1. PICK closed \in Seq(Sounds) :
            closed = SubSeq(Detector(Append(heard, NextSound)), 1, n)
      BY <2>2
    <3>2. PICK held \in Seq(Sounds) : held = speech'
      BY <2>2
    <3>3. (parts \o closed) \o held = parts \o (closed \o held)
      BY <1>2, SoundsJoin
    <3>4. QED
      BY <2>1, <2>2, <3>1, <3>2, <3>3
  <2>4. parts \o Detector(Append(heard, NextSound)) = Append(heard, NextSound)
    <3>1. CASE Len(Append(heard, NextSound)) = DirectLimit + 1 /\ ~IsLong(heard)
      <4>1. Detector(Append(heard, NextSound)) = Append(heard, NextSound) /\ parts = <<>>
        BY <1>1, <3>1 DEF Detector, WorkerInv, DecodeFits
      <4>2. Append(heard, NextSound) \in Seq(Sounds)
        BY <1>2, AppendProperties
      <4>3. QED
        BY <4>1, <4>2, ConcatEmptySeq
    <3>2. CASE Len(Append(heard, NextSound)) # DirectLimit + 1 /\ IsLong(heard)
      <4>1. Detector(Append(heard, NextSound)) = Append(speech, NextSound)
        BY <1>1, <3>2, SoundTaken DEF Detector
      <4>2. parts \o speech = heard
        BY <1>1, <3>2 DEF WorkerInv, DecodeFits
      <4>3. parts \o Append(speech, NextSound) = Append(parts \o speech, NextSound)
        BY <1>2, SoundsJoin
      <4>4. QED
        BY <4>1, <4>2, <4>3
    <3>3. QED
      BY <1>1, <1>2, <1>3, <3>1, <3>2, ShortOrLong
  <2>5. QED
    BY <1>1, <1>3, <2>3, <2>4 DEF DecodeFits
<1>4. CASE ~IsLong(heard')
  <2>1. parts' = parts
    BY <1>4 DEF HearAndDecode
  <2>2. ~IsLong(heard)
    <3>1. Len(heard') = Len(heard) + 1 /\ Len(heard) \in Nat
      BY <1>1, <1>2, AppendProperties
    <3>2. QED
      BY <1>4, <3>1, BoundsAssumption DEF IsLong
  <2>3. parts = <<>>
    BY <1>1, <2>2 DEF WorkerInv, DecodeFits
  <2>4. QED
    BY <1>1, <1>4, <2>1, <2>3 DEF DecodeFits
<1>5. QED
  BY <1>3, <1>4

\* Every step keeps DecodeFits.
LEMMA DecodeStep ==
    ASSUME WorkerInv, Next
    PROVE  DecodeFits'
<1> USE DEF engineVars, micVars, channelVars, workerVars
<1>1. DecodeFits
  BY DEF WorkerInv
<1>2. CASE UNCHANGED <<decoder, worker, heard, speech, parts>>
  BY <1>1, <1>2 DEF DecodeFits, IsLong
<1>3. ASSUME heard' = <<>>, parts' = <<>>
      PROVE  DecodeFits'
  BY <1>3, ShortOrLong DEF DecodeFits, IsLong
<1>4. CASE Sound \/ StreamError \/ Collector
  BY <1>2, <1>4 DEF Sound, StreamError, Collector, Collect, CollectorEnds
<1>5. CASE EngineWaits \/ UserActs
  <2>1. CASE Replace
    BY <1>1, <1>3, <2>1 DEF Replace, DecodeFits
  <2>2. CASE ~Replace
    BY <1>2, <1>5, <2>2 DEF EngineWaits, UserActs, StartRecording, StopRecording, CancelRecording,
       BeginMedia, SwitchModel, Leave, JoinCollector, FinishSession, FinishWhole, DropSession,
       MediaReply, StopWorker, Gone
  <2>3. QED
    BY <2>1, <2>2
<1>6. CASE TakeJob
  BY <1>1, <1>3, <1>6 DEF TakeJob, DecodeFits
<1>7. CASE HearLive \/ HearPlain
  BY <1>1, <1>7 DEF HearLive, HearPlain, Hears, TakeSound, DecodeFits
<1>8. CASE HearAndFail \/ Abandon
  BY <1>3, <1>8 DEF HearAndFail, Abandon, EndRecord
<1>9. CASE EndOfRecording
  <2>1. \E reply : EndRecord(reply)
    BY <1>9 DEF EndOfRecording
  <2>2. QED
    BY <1>3, <2>1 DEF EndRecord
<1>10. CASE Transcribe \/ TranscribeMedia
  <2>1. heard = <<>> /\ parts = <<>> /\ UNCHANGED <<heard, parts>>
    BY <1>1, <1>10 DEF Transcribe, TranscribeMedia, EndJob, DecodeFits
  <2>2. QED
    BY <1>3, <2>1
<1>11. CASE Panic
  BY <1>3, <1>11 DEF Panic
<1>12. QED
  BY <1>4, <1>5, <1>6, <1>7, <1>8, <1>9, <1>10, <1>11, DecodeKeepsAll DEF Next, Work

-----------------------------------------------------------------------------
(* The replies.                                                            *)

\* A text the worker gives for the latest recording is its whole audio.
LEMMA SessionText ==
    ASSUME WorkerInv, EndOfRecording
    PROVE  session'.kind = "text" =>
             session'.words = samples /\ ~collecting /\ take # 0
<1>1. /\ worker = "record" /\ chunks[hearing] = <<>> /\ (hearing # take \/ ~collecting)
      /\ hearing # 0 /\ heard \in Seq(Sounds)
      /\ session.kind = "text" => session.words = samples /\ ~collecting /\ take # 0
  BY JobsShape DEF EndOfRecording, WorkerInv, ReplyFits, TypeOK
<1>2. CASE session' = session
  BY <1>1, <1>2
<1>3. ASSUME NEW reply, EndRecord(reply), hearing = take
      PROVE  session' = reply
  BY <1>3 DEF EndRecord
<1>4. CASE hearing = take
  <2>1. heard = samples
    <3>1. heard \o <<>> = samples
      BY <1>1, <1>4 DEF WorkerInv, ListenFits
    <3>2. QED
      BY <1>1, <3>1, ConcatEmptySeq
  <2>2. /\ ~collecting /\ take # 0
        /\ decoder = "streaming" => parts = samples
        /\ decoder = "vad" /\ IsLong(heard) => parts \o speech = samples
    BY <1>1, <1>4, <2>1 DEF WorkerInv, DecodeFits
  <2>3. /\ Answered("error").kind # "text" /\ Answered("nothing").kind # "text"
        /\ Text(parts).words = parts /\ Text(parts \o speech).words = parts \o speech
    BY DEF Answered, Text
  <2>4. CASE decoder = "streaming"
    BY <1>3, <1>4, <2>2, <2>3, <2>4 DEF EndOfRecording
  <2>5. CASE decoder = "vad" /\ IsLong(heard)
    BY <1>3, <1>4, <2>2, <2>3, <2>5 DEF EndOfRecording
  <2>6. CASE ~(decoder = "streaming") /\ ~(decoder = "vad" /\ IsLong(heard))
    BY <1>3, <1>4, <2>3, <2>6 DEF EndOfRecording
  <2>7. QED
    BY <2>4, <2>5, <2>6
<1>5. CASE hearing # take
  <2>1. \E reply : EndRecord(reply)
    BY DEF EndOfRecording
  <2>2. session' = session
    BY <1>5, <2>1 DEF EndRecord
  <2>3. QED
    BY <1>2, <2>2
<1>6. QED
  BY <1>4, <1>5

\* Every step keeps ReplyFits.
LEMMA ReplyStep ==
    ASSUME WorkerInv, Next
    PROVE  ReplyFits'
<1> USE DEF engineVars, micVars, channelVars, workerVars
<1>1. ReplyFits /\ WorkerFits /\ PcFits
  BY DEF WorkerInv
<1>2. /\ NoReply.kind # "text" /\ Answered("error").kind # "text"
      /\ Answered("nothing").kind # "text"
      /\ \A words : Text(words).kind = "text" /\ Text(words).words = words
  BY DEF NoReply, Answered, Text
<1>3. CASE UNCHANGED <<session, answer, samples, take, pc>> /\ (collecting' => collecting)
  BY <1>1, <1>3 DEF ReplyFits
<1>4. CASE Sound \/ StreamError \/ CollectorEnds
  BY <1>3, <1>4 DEF Sound, StreamError, CollectorEnds
<1>5. CASE Collect
  <2>1. collecting /\ pc # "whole" /\ session.kind # "text" /\ answer.kind # "text"
    BY <1>1, <1>5 DEF Collect, PcFits, ReplyFits
  <2>2. QED
    BY <1>1, <1>5, <2>1 DEF Collect, ReplyFits
<1>6. CASE StartRecording
  BY <1>1, <1>2, <1>6 DEF StartRecording, ReplyFits
<1>7. CASE (EngineWaits \/ UserActs) /\ ~StartRecording
  <2>1. UNCHANGED <<samples, take, collecting>>
    BY <1>7, EngineLeaves
  <2>2. session' = session
    BY <1>7 DEF EngineWaits, UserActs, StopRecording, CancelRecording,
       BeginMedia, SwitchModel, Leave, JoinCollector, FinishSession, FinishWhole, DropSession,
       MediaReply, StopWorker, Gone, Replace
  <2>3. \/ answer' = NoReply
        \/ answer' = answer /\ pc # "whole"
             /\ (answer # NoReply => pc' \in {"whole", "media", "leaving", "shutdown", "gone"})
    BY <1>1, <1>7 DEF ReplyFits, EngineWaits, UserActs, StopRecording, CancelRecording,
       BeginMedia, SwitchModel, Leave, JoinCollector, FinishSession, FinishWhole, DropSession,
       MediaReply, StopWorker, Gone, Replace
  <2>4. QED
    BY <1>1, <1>2, <2>1, <2>2, <2>3 DEF ReplyFits
<1>8. CASE Work \/ Panic
  <2>1. UNCHANGED <<pc, take, samples, collecting>>
    BY <1>8, WorkLeaves
  <2>2. CASE UNCHANGED <<session, answer>>
    BY <1>1, <2>1, <2>2 DEF ReplyFits
  <2>3. CASE HearAndFail \/ Abandon
    <3>1. answer' = answer /\ (session' = session \/ session'.kind # "text")
      BY <1>2, <2>3 DEF HearAndFail, Abandon, EndRecord
    <3>2. QED
      BY <1>1, <2>1, <3>1 DEF ReplyFits
  <2>4. CASE EndOfRecording
    <3>1. \E reply : EndRecord(reply)
      BY <2>4 DEF EndOfRecording
    <3>2. answer' = answer
      BY <3>1 DEF EndRecord
    <3>3. QED
      BY <1>1, <2>1, <2>4, <3>2, SessionText DEF ReplyFits
  <2>5. CASE Transcribe
    <3>1. pc = "whole" /\ session' = session
      BY <1>1, <2>5 DEF Transcribe, WorkerFits, EndJob
    <3>2. answer' \in {Text(samples), Answered("error")}
      BY <2>5 DEF Transcribe, EndJob
    <3>3. QED
      BY <1>1, <1>2, <2>1, <3>1, <3>2 DEF ReplyFits
  <2>6. CASE TranscribeMedia
    <3>1. pc \in {"media", "leaving", "shutdown", "gone"} /\ session' = session
      BY <1>1, <2>6 DEF TranscribeMedia, WorkerFits, EndJob
    <3>2. answer' \in {Answered("nothing"), Answered("error")}
      BY <2>6 DEF TranscribeMedia, EndJob
    <3>3. QED
      BY <1>1, <1>2, <2>1, <3>1, <3>2 DEF ReplyFits
  <2>7. CASE TakeJob \/ HearAndDecode \/ HearLive \/ HearPlain \/ Panic
    BY <2>2, <2>7 DEF TakeJob, HearAndDecode, HearLive, HearPlain, Panic, TakeSound
  <2>8. QED
    BY <1>8, <2>3, <2>4, <2>5, <2>6, <2>7 DEF Work
<1>9. QED
  BY <1>4, <1>5, <1>6, <1>7, <1>8 DEF Next, Collector

-----------------------------------------------------------------------------
(* The theorems.                                                           *)

\* Initially no recording has begun and nothing is under way.
LEMMA InitWorker == Init => WorkerInv
<1> SUFFICES ASSUME Init PROVE WorkerInv
  OBVIOUS
<1>1. TypeOK
  <2>1. /\ stage \in [Take -> Stages] /\ kept \in [Take -> Seq(Sounds)]
        /\ said \in [Take -> 0..MaxSounds] /\ chunks \in [Take -> Seq(Sounds)]
    BY BoundsAssumption DEF Init, Stages
  <2>2. ring \in Seq(Sounds) /\ Len(ring) <= RingSize /\ jobs \in Seq(Job)
    BY BoundsAssumption DEF Init
  <2>3. pc \in Steps /\ take \in 0..MaxTakes /\ hearing \in 0..MaxTakes
    BY BoundsAssumption DEF Init, Steps
  <2>4. QED
    BY <2>1, <2>2, <2>3, RepliesTyped DEF Init, TypeOK
<1>2. PcFits /\ MicFits /\ WorkerFits
  BY DEF Init, PcFits, MicFits, WorkerFits
<1>3. StageFits
  BY DEF Init, StageFits
<1>4. JobsFit /\ ListenFits
  BY DEF Init, JobsFit, JobsInOrder, ListenFits
<1>5. DecodeFits
  BY ShortOrLong DEF Init, DecodeFits
<1>6. ReplyFits
  BY RepliesTyped DEF Init, ReplyFits
<1>7. QED
  BY <1>1, <1>2, <1>3, <1>4, <1>5, <1>6 DEF WorkerInv

\* Every step keeps the invariant.
LEMMA NextWorker == WorkerInv /\ [Next]_vars => WorkerInv'
<1>1. CASE Next
  <2>1. WorkerInv => TypeOK'
    BY <1>1, MicTypes, EngineTypes, WorkTypes DEF Next
  <2>2. QED
    BY <1>1, <2>1, PcStep, StageStep, MicStep, JobsStep, ListenStep, DecodeStep, ReplyStep
       DEF WorkerInv
<1>2. CASE UNCHANGED vars
  <2>1. SUFFICES ASSUME WorkerInv PROVE WorkerInv'
    OBVIOUS
  <2>2. UNCHANGED <<pc, take, stage, kept, said, spoiled, ring, collecting, samples>>
    BY <1>2 DEF vars, engineVars, micVars
  <2>3. UNCHANGED <<chunks, jobs, session, answer, cancelled, decoder, worker, hearing, heard,
                    speech, parts>>
    BY <1>2 DEF vars, channelVars, workerVars
  <2>4. TypeOK' /\ PcFits' /\ StageFits'
    BY <2>1, <2>2, <2>3 DEF WorkerInv, TypeOK, PcFits, StageFits
  <2>5. MicFits' /\ WorkerFits' /\ ReplyFits'
    BY <2>1, <2>2, <2>3 DEF WorkerInv, MicFits, Audio, Promise!Faithful, WorkerFits, ReplyFits
  <2>6. JobsFit'
    BY <2>1, <2>2, <2>3 DEF WorkerInv, JobsFit, JobFits, JobsInOrder
  <2>7. ListenFits' /\ DecodeFits'
    BY <2>1, <2>2, <2>3 DEF WorkerInv, ListenFits, DecodeFits, IsLong
  <2>8. QED
    BY <2>4, <2>5, <2>6, <2>7 DEF WorkerInv
<1>3. QED
  BY <1>1, <1>2

\* The invariant: the audio in the collector and the ring buffer is what was said, what
\* the worker has heard or has still to read is what was collected, what it decoded and
\* what the detector holds is what it heard, and a text that reaches the engine is all
\* of that.
THEOREM WorkerInvariant == Spec => []WorkerInv
  BY InitWorker, NextWorker, PTL DEF Spec

\* Every variable has the values its counterpart has in the code.
THEOREM WorkerTypes == Spec => []TypeOK
<1>1. WorkerInv => TypeOK
  BY DEF WorkerInv
<1>2. QED
  BY <1>1, WorkerInvariant, PTL

\* A step of the program is a step of Dictations, or changes nothing there.
LEMMA StepKeepsPromise ==
    ASSUME WorkerInv, Next
    PROVE  Promise!Next \/ UNCHANGED Promise!vars
<1> USE DEF Promise!vars, Promise!Take, Take
<1>1. PcFits /\ StageFits /\ MicFits
  BY DEF WorkerInv
<1>2. /\ stage \in [Take -> Stages] /\ kept \in [Take -> Seq(Sounds)]
      /\ said \in [Take -> 0..MaxSounds] /\ take \in Nat
      /\ take # 0 => take \in Take /\ EngineAt(pc, stage[take])
      /\ take \in Take => take # 0 /\ said[take] \in Nat
  <2>1. take \in Take => take # 0 /\ said[take] \in Nat
    BY BoundsAssumption DEF WorkerInv, TypeOK
  <2>2. QED
    BY <1>1, <2>1, TakeTyped DEF WorkerInv, TypeOK, StageFits
<1>3. CASE Sound \/ StreamError
  <2>1. /\ take \in Take /\ stage[take] = "recording" /\ UNCHANGED <<stage, kept>>
        /\ said' \in {said, [said EXCEPT ![take] = @ + 1]}
        /\ spoiled' \in {spoiled, spoiled \cup {take}}
    BY <1>1, <1>2, <1>3 DEF Sound, StreamError, PcFits, EngineAt, engineVars
  <2>2. Promise!Record(take)
    BY <2>1 DEF Promise!Record
  <2>3. QED
    BY <2>1, <2>2 DEF Promise!Next
<1>4. CASE Collector
  BY <1>4 DEF Collector, Collect, CollectorEnds, engineVars
<1>5. CASE StartRecording
  <2>1. /\ take + 1 \in Take /\ stage' = [stage EXCEPT ![take + 1] = "recording"] /\ pc = "idle"
        /\ UNCHANGED <<said, spoiled, kept>> /\ take + 1 > take
    BY <1>2, <1>5, BoundsAssumption DEF StartRecording, Advance
  <2>2. stage[take + 1] = "unused"
    BY <1>1, <2>1 DEF StageFits
  <2>3. \A u \in Take : stage[u] \notin {"recording", "stopped"}
    BY <1>1, <1>2, <2>1 DEF StageFits, EngineAt
  <2>4. Promise!Begin(take + 1)
    BY <2>1, <2>2, <2>3 DEF Promise!Begin
  <2>5. QED
    BY <2>1, <2>4 DEF Promise!Next
<1>6. CASE (EngineWaits \/ UserActs) /\ ~StartRecording
  <2>1. UNCHANGED <<said, spoiled>>
    BY <1>6, EngineLeaves
  <2>2. CASE UNCHANGED <<stage, kept>>
    BY <2>1, <2>2
  <2>3. ASSUME take \in Take, NEW s \in Stages, stage' = [stage EXCEPT ![take] = s],
               \/ s = "stopped" /\ stage[take] = "recording" /\ kept' = kept
               \/ /\ s = "discarded" /\ kept' = kept
                  /\ \/ stage[take] = "recording"
                     \/ stage[take] = "stopped" /\ Audio = <<>>
               \/ s = "lost" /\ stage[take] = "stopped" /\ kept' = kept
               \/ /\ s \in {"given", "failed"} /\ stage[take] = "stopped"
                  /\ kept' = [kept EXCEPT ![take] = Audio]
        PROVE  Promise!Next
    <3>1. stage'[take] = s
      BY <1>2, <2>3
    <3>2. CASE s = "stopped"
      <4>1. Promise!Stop(take)
        BY <2>1, <2>3, <3>2 DEF Promise!Stop
      <4>2. QED
        BY <2>3, <4>1 DEF Promise!Next
    <3>3. CASE s = "discarded"
      <4>1. Audio = <<>> => said[take] = 0
        BY <1>1, <1>2, <2>3 DEF MicFits
      <4>2. Promise!Discard(take)
        BY <2>1, <2>3, <3>3, <4>1 DEF Promise!Discard
      <4>3. QED
        BY <2>3, <4>2 DEF Promise!Next
    <3>4. CASE s = "lost"
      <4>1. stage[take] = "stopped" /\ kept' = kept /\ kept[take] = <<>>
        BY <1>1, <2>3, <3>4 DEF StageFits
      <4>2. kept' = [kept EXCEPT ![take] = kept'[take]]
        BY <1>2, <2>3, <4>1
      <4>3. Promise!Settle(take)
        BY <2>1, <2>3, <3>1, <3>4, <4>1, <4>2 DEF Promise!Settle, Promise!Settled
      <4>4. QED
        BY <2>3, <4>3 DEF Promise!Next
    <3>5. CASE s \in {"given", "failed"}
      <4>1. stage[take] = "stopped" /\ kept' = [kept EXCEPT ![take] = Audio]
        BY <2>3, <3>5
      <4>2. kept'[take] = Audio /\ kept' = [kept EXCEPT ![take] = kept'[take]]
        BY <1>2, <2>3, <4>1
      <4>3. Promise!Faithful(take, kept'[take])
        BY <1>1, <1>2, <2>3, <4>2 DEF MicFits
      <4>4. Promise!Settle(take)
        BY <2>1, <2>3, <3>1, <3>5, <4>1, <4>2, <4>3 DEF Promise!Settle, Promise!Settled
      <4>5. QED
        BY <2>3, <4>4 DEF Promise!Next
    <3>6. QED
      BY <2>3, <3>2, <3>3, <3>4, <3>5
  <2>4. QED
    BY <1>6, <2>2, <2>3, EngineMoves
<1>7. CASE Work \/ Panic
  BY <1>7, WorkLeaves
<1>8. QED
  BY <1>3, <1>4, <1>5, <1>6, <1>7 DEF Next

\* The worker and its helpers keep what Dictations promises: one recording at a time; its
\* text, or the audio saved in place of it, holds its sounds and no other's, in order,
\* and all of them unless the user was warned of a gap; and a recording that was stopped
\* with something said in it is not thrown away.  It holds over two copies of the audio, a
\* detector shared by all jobs, decodes that fail halfway and a worker that panics.
THEOREM PromiseKept == Spec => DictationsKept
<1>1. Init => Promise!Init
  BY DEF Init, Promise!Init, Take, Promise!Take
<1>2. WorkerInv /\ [Next]_vars => [Promise!Next]_Promise!vars
  <2>1. CASE Next
    BY <2>1, StepKeepsPromise
  <2>2. CASE UNCHANGED vars
    BY <2>2 DEF vars, engineVars, micVars, Promise!vars
  <2>3. QED
    BY <2>1, <2>2
<1>3. QED
  BY <1>1, <1>2, WorkerInvariant, PTL DEF Spec, DictationsKept, Promise!Spec

-----------------------------------------------------------------------------
(* The worker, or the drawing overlay.                                     *)

\* The invariants of the two machines, of which TLC runs one at a time.
BothHold == WorkerInv /\ DrawInv

\* Whichever of the two runs, the worker (worker.rs) and the drawing overlay (linux/sketch.rs)
\* keep to their types.
THEOREM PartTypes == PartSpec => []PartTypeOK
<1>1. PartInit => BothHold
  BY InitWorker, DrawStarts, DrawAssumption DEF PartInit, BothHold
<1>2. BothHold /\ [PartNext]_partVars => BothHold'
  <2> SUFFICES ASSUME BothHold, [PartNext]_partVars PROVE BothHold'
    OBVIOUS
  <2>1. [Next]_vars /\ [DrawNext]_drawVars
    BY DEF PartNext, partVars
  <2>2. WorkerInv' /\ DrawInv'
    BY <2>1, NextWorker, DrawSteps, DrawAssumption DEF BothHold
  <2>3. QED
    BY <2>2 DEF BothHold
<1>3. BothHold => PartTypeOK
  BY DEF BothHold, PartTypeOK, WorkerInv, DrawInv
<1>4. QED
  BY <1>1, <1>2, <1>3, PTL DEF PartSpec
=============================================================================
