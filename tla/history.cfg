\* Three threads, two stores that fail, one restart; the Windows desktop with two
\* dictations; and two dictations with a drawing in each.
SPECIFICATION PartSpec
CONSTANTS
    Loop = loop
    Engine = engine
    Control = control
    NoThread = NoThread
    MaxTranscripts = 2
    MaxEnds = 1
    Commands = {"Toggle", "Cancel"}
    MaxSessions = 2
    MaxUnread = 2
    FormattingEnabled = FALSE
    MaxDictations = 2
    MaxMarks <- OneEach
    MaxBehind = 1
    MaxDisplayChanges = 1
INVARIANTS
    NothingForgotten
    CountCoversMemory
    LastIsNewest
    LastSurvives
    
    
    MarksOnDisplays
PROPERTIES
    CancelledNotTyped
    
    DrawingsWithTheirWords
CHECK_DEADLOCK FALSE
