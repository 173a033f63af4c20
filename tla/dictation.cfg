\* Two dictations, every dictation command, two windows.
SPECIFICATION Spec
CONSTANTS
    w1 = w1
    w2 = w2
    NoWindow = none
    Windows <- TwoWindows
    Commands <- DictationCommands
    MaxSessions = 2
    MaxQueue = 3
    FormattingEnabled = FALSE
    UpdatesEnabled = FALSE
    StorageFails = FALSE
SYMMETRY WindowSymmetry
INVARIANTS
    PausedOnlyWhileRecording
    LatestCancelHolds
    DeliveredInOrder
    PastedWhereStopped
CHECK_DEADLOCK FALSE
