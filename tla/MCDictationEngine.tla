------------------------- MODULE MCDictationEngine -------------------------
(***************************************************************************)
(* Instances of DictationEngine for TLC: the commands each run lets the    *)
(* user send, and the windows, which are interchangeable.                  *)
(***************************************************************************)
EXTENDS DictationEngine, TLC

CONSTANTS w1, w2

OneWindow == {w1}
TwoWindows == {w1, w2}
WindowSymmetry == Permutations(TwoWindows)

TapsOnly == {"Toggle"}
DictationCommands == {"Toggle", "Start", "Stop", "Cancel"}
ConfigurationCommands == {"Toggle", "SwitchModel", "FormatOn", "FormatOff"}
JobCommands == {"Toggle", "Cancel", "Media", "MediaInvalid"}
=============================================================================
