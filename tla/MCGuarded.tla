------------------------------ MODULE MCGuarded ------------------------------
(***************************************************************************)
(* For TLC: four machines that guard something of the user's against what  *)
(* happens at the same time, a newer copy on the clipboard, a model on     *)
(* disk, a media player, the words of a dictation on the Mac.  They share  *)
(* nothing, so a behaviour runs the one that `part` names.                 *)
(***************************************************************************)
EXTENDS ClipboardDelivery, ModelSetup, MediaPlayers, MacDictation

VARIABLE part
partVars == <<part, clipVars, setupVars, playersVars, macVars>>

\* Of a part that does not run, one initial state is enough.  On the Mac, a transcript that
\* an earlier launch left is tried with one of the engines; the queue does not know them.
PartInit ==
    /\ part \in {"clipboard", "models", "players", "mac"}
    /\ ClipInit /\ SetupInit /\ PlayersInit /\ MacInit
    /\ part # "clipboard" => selection = Empty
    /\ cache["nemotron"] = "plain"
    /\ part # "models" => selected = "compact" /\ \A m \in Model : cache[m] = "plain"
    /\ part # "players" => \A n \in Players : players[n].playing
    /\ part = "mac" => (failed = {} <=> speechEngine = "parakeet")
    /\ part # "mac" => speechEngine = "parakeet" /\ failed = {}

PartNext ==
    /\ UNCHANGED part
    /\ \/ part = "clipboard" /\ ClipNext /\ UNCHANGED <<setupVars, playersVars, macVars>>
       \/ part = "models" /\ SetupNext /\ UNCHANGED <<clipVars, playersVars, macVars>>
       \/ part = "players" /\ PlayersNext /\ UNCHANGED <<clipVars, setupVars, macVars>>
       \/ part = "mac" /\ MacNext /\ UNCHANGED <<clipVars, setupVars, playersVars>>

PartSpec == PartInit /\ [][PartNext]_partVars

\* Every part keeps to its types.
PartTypeOK == ClipTypeOK /\ SetupTypeOK /\ PlayersTypeOK /\ MacTypeOK
=============================================================================
