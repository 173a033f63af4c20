\* A second Cancel before the first transcript is read.
SPECIFICATION Spec
CONSTANTS
    w1 = w1
    w2 = w2
    NoWindow = none
    Windows <- OneWindow
    Commands <- DictationCommands
    MaxSessions = 2
    MaxQueue = 4
    FormattingEnabled = FALSE
    UpdatesEnabled = FALSE
    StorageFails = FALSE
INVARIANT CancelledNeverDelivered
CHECK_DEADLOCK FALSE
