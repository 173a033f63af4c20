\* Setting up the selected model is cancelled at startup.
SPECIFICATION SetupSpec
CONSTANTS
    Tools = {"tool"}
    ToolModels = {"v2"}
    MaxLooks = 2
    MaxMishaps = 0
INVARIANT FallbackWorks
CHECK_DEADLOCK FALSE
