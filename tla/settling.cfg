\* Two dictations and media jobs: everything begun comes to an end.
SPECIFICATION FairSpec
CONSTANTS
    w1 = w1
    w2 = w2
    NoWindow = none
    Windows <- OneWindow
    Commands <- JobCommands
    MaxSessions = 2
    MaxQueue = 2
    FormattingEnabled = FALSE
    UpdatesEnabled = FALSE
    StorageFails = FALSE
PROPERTY EveryDictationSettles
CHECK_DEADLOCK FALSE
