----------------------- MODULE MCTranscriptionWorker -----------------------
(***************************************************************************)
(* For TLC: two machines the program waits for.  They are the worker, with *)
(* two recordings of up to two sounds (one is a short recording, two are a *)
(* long one) and every kind of decoder; and the drawing overlay, with one  *)
(* dictation and one drawing.  They share nothing, so a behaviour runs the *)
(* one that `part` names.  Of the other, nothing fairness asks for is      *)
(* enabled then.                                                           *)
(***************************************************************************)
EXTENDS TranscriptionWorker, DrawSession

AllDecoders == {"streaming", "vad", "plain"}
OneEach == [d \in 1..MaxDictations |-> 1]

VARIABLE part
partVars == <<part, vars, drawVars>>

PartInit == part \in {"worker", "drawing"} /\ Init /\ DrawInit

PartNext ==
    /\ UNCHANGED part
    /\ \/ part = "worker" /\ Next /\ UNCHANGED drawVars
       \/ part = "drawing" /\ DrawNext /\ UNCHANGED vars

PartSpec == PartInit /\ [][PartNext]_partVars /\ Fairness /\ DrawFairness

\* Both parts keep to their types.
PartTypeOK == TypeOK /\ DrawTypeOK
=============================================================================
