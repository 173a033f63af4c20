----------------------------- MODULE Dictations -----------------------------
(***************************************************************************)
(* What Koett promises of a dictation from the first sound to the text,    *)
(* whatever thread does the work: one at a time, the transcript holds all  *)
(* that was said and nothing else, and a dictation that was stopped ends   *)
(* with its text, or with its audio in Failed Recordings, or with the news *)
(* that neither was possible.  A stopped dictation in which something was  *)
(* said is never silently thrown away.                                     *)
(***************************************************************************)
EXTENDS Naturals, Sequences

CONSTANT MaxTakes   \* bound: recordings begun

VARIABLES
    stage,      \* how far each recording has come
    said,       \* how many sounds the microphone heard for it
    spoiled,    \* recordings the user is warned about: the audio has a gap
    kept        \* the text, or the audio saved in place of it

vars == <<stage, said, spoiled, kept>>

Take == 1..MaxTakes
Settled == {"given", "failed", "lost"}

\* The n sounds of recording t, in order.
Whole(t, n) == [i \in 1..n |-> <<t, i>>]

\* All of the recording, or with a gap in it what is left, in order.
Faithful(t, words) ==
    /\ \A i \in DOMAIN words : words[i][1] = t /\ words[i][2] \in 1..said[t]
    /\ \A i, j \in DOMAIN words : i < j => words[i][2] < words[j][2]
    /\ t \notin spoiled => words = Whole(t, said[t])

Init ==
    /\ stage = [t \in Take |-> "unused"] /\ said = [t \in Take |-> 0]
    /\ spoiled = {} /\ kept = [t \in Take |-> <<>>]

Begin(t) ==
    /\ stage[t] = "unused"
    /\ \A u \in Take : stage[u] \notin {"recording", "stopped"}
    /\ stage' = [stage EXCEPT ![t] = "recording"]
    /\ UNCHANGED <<said, spoiled, kept>>

Record(t) ==
    /\ stage[t] = "recording"
    /\ said' \in {said, [said EXCEPT ![t] = @ + 1]}
    /\ spoiled' \in {spoiled, spoiled \cup {t}}
    /\ UNCHANGED <<stage, kept>>

Stop(t) ==
    /\ stage[t] = "recording"
    /\ stage' = [stage EXCEPT ![t] = "stopped"]
    /\ UNCHANGED <<said, spoiled, kept>>

Discard(t) ==
    /\ stage[t] = "recording" \/ (stage[t] = "stopped" /\ said[t] = 0)
    /\ stage' = [stage EXCEPT ![t] = "discarded"]
    /\ UNCHANGED <<said, spoiled, kept>>

Settle(t) ==
    /\ stage[t] = "stopped"
    /\ \E s \in Settled : stage' = [stage EXCEPT ![t] = s]
    /\ kept' = [kept EXCEPT ![t] = kept'[t]]
    /\ IF stage'[t] = "lost" THEN kept'[t] = <<>> ELSE Faithful(t, kept'[t])
    /\ UNCHANGED <<said, spoiled>>

Next == \E t \in Take : Begin(t) \/ Record(t) \/ Stop(t) \/ Discard(t) \/ Settle(t)

Spec == Init /\ [][Next]_vars
=============================================================================
