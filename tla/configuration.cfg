\* Model switches, formatting, updates and quitting around one dictation.
SPECIFICATION Spec
CONSTANTS
    w1 = w1
    w2 = w2
    NoWindow = none
    Windows <- OneWindow
    Commands <- ConfigurationCommands
    MaxSessions = 1
    MaxQueue = 3
    FormattingEnabled = TRUE
    UpdatesEnabled = TRUE
    StorageFails = TRUE
INVARIANTS
    QuietMeansQuittable
    ViewCatchesUp
CHECK_DEADLOCK FALSE
