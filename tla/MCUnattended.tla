---------------------------- MODULE MCUnattended ----------------------------
(***************************************************************************)
(* For TLC: two machines that must get on by themselves, the sharing of    *)
(* the microphone with two recorders and one settings window (more windows *)
(* only add workers that hold each other up, and the proofs cover any      *)
(* number), and the update with its watcher.  They share nothing, so a     *)
(* behaviour runs the one that `part` names, with its fairness.            *)
(***************************************************************************)
EXTENDS MicrophonePriority, Updates

CONSTANTS r1, r2, p1

TwoRecorders == {r1, r2}
OneWindow == {p1}

VARIABLE part
partVars == <<part, vars, updatesVars>>

\* Of the part that does not run, one initial state is enough.
PartInit ==
    /\ part \in {"microphone", "updates"}
    /\ Init /\ UpdatesInit
    /\ part # "updates" => works = Build

PartNext ==
    /\ UNCHANGED part
    /\ \/ part = "microphone" /\ Next /\ UNCHANGED updatesVars
       \/ part = "updates" /\ UpdatesNext /\ UNCHANGED vars

PartSpec ==
    /\ PartInit /\ [][PartNext]_partVars
    /\ part = "microphone" => MicFairness
    /\ part = "updates" => UpdatesFairness

\* Both parts keep to their types.
PartTypeOK == TypeOK /\ UpdatesTypeOK
=============================================================================
