\* Two recordings, media, a model switch, panics and quitting; and the overlay of one
\* dictation with one drawing.
SPECIFICATION PartSpec
CONSTANTS
    MaxTakes = 2
    MaxSounds = 2
    RingSize = 1
    DirectLimit = 1
    Decoders <- AllDecoders
    MaxDictations = 1
    MaxMarks <- OneEach
    MaxBehind = 2
    MaxDisplayChanges = 1
INVARIANTS
    PartTypeOK
PROPERTIES
    DictationsKept
    EveryWaitEnds
    OverlayGoes
CHECK_DEADLOCK FALSE
