\* The clipboard, the models, the players, the Mac app: nothing of the user's is lost.
SPECIFICATION PartSpec
CONSTANTS
    MaxCopies = 3
    Tools = {"tool"}
    ToolModels = {"v2"}
    MaxLooks = 2
    MaxMishaps = 1
    Players = {"player"}
    MaxCaptures = 2
    MaxTouches = 2
    MaxDelays = 1
    MaxRecordings = 2
    MaxWork = 1
INVARIANTS
    PartTypeOK
    OverwriteReported
    ValidModelSurvives
    QuitCutsSetupShort
    WordsKept
    NothingAfterCancel
    QuitKeepsWords
    ReservedWithoutWork
PROPERTIES
    NewerCopyPreserved
    ResumesItsOwn
CHECK_DEADLOCK FALSE
