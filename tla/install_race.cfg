\* An update reserves the app while a dictation begins.
SPECIFICATION Spec
CONSTANTS
    w1 = w1
    w2 = w2
    NoWindow = none
    Windows <- OneWindow
    Commands <- TapsOnly
    MaxSessions = 2
    MaxQueue = 4
    FormattingEnabled = FALSE
    UpdatesEnabled = TRUE
    StorageFails = FALSE
INVARIANT InstallExcludesRecording
CHECK_DEADLOCK FALSE
