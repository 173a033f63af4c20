\* The microphone and its waiters, the update and its watcher, under fairness.
SPECIFICATION PartSpec
CONSTANTS
    r1 = r1
    r2 = r2
    p1 = p1
    Nobody = nobody
    Recorders <- TwoRecorders
    Previews <- OneWindow
    MaxSelections = 3
    MaxBuild = 3
    MaxIncidents = 2
INVARIANTS
    PartTypeOK
    OneMicrophoneUser
    ReadingIsCurrent
    WayBack
PROPERTIES
    MicrophoneGoesRound
    RefusedStaysOut
    ComesBack
CHECK_DEADLOCK FALSE
