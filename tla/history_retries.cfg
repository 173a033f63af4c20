SPECIFICATION FairSpec
CONSTANTS
    Loop = loop
    Engine = engine
    Control = control
    NoThread = NoThread
    MaxTranscripts = 1
    MaxEnds = 1
PROPERTIES
    EveryCallReturns
    RetrySaves
