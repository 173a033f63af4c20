-------------------------- MODULE MCTranscriptKept --------------------------
(***************************************************************************)
(* For TLC: what must survive between the engine and the paste.  The       *)
(* history with its recovery keeps a transcript until it is on disk, the   *)
(* Windows desktop until it is pasted, and the drawing overlay brings the  *)
(* drawings to their words.  They share nothing here, so a behaviour runs  *)
(* the one that `part` names.                                              *)
(***************************************************************************)
EXTENDS HistoryRecovery, WindowsDesktop, DrawSession

\* One sketch or pin in each dictation.
OneEach == [d \in 1..MaxDictations |-> 1]

VARIABLE part
partVars == <<part, vars, winVars, drawVars>>

\* Of a part that does not run, one initial state is enough.
PartInit ==
    /\ part \in {"history", "windows", "drawing"}
    /\ Init /\ WinInit /\ DrawInit
    /\ part # "history" => located /\ works = Stores

PartNext ==
    /\ UNCHANGED part
    /\ \/ part = "history" /\ Next /\ UNCHANGED <<winVars, drawVars>>
       \/ part = "windows" /\ WinNext /\ UNCHANGED <<vars, drawVars>>
       \/ part = "drawing" /\ DrawNext /\ UNCHANGED <<vars, winVars>>

PartSpec == PartInit /\ [][PartNext]_partVars
=============================================================================
