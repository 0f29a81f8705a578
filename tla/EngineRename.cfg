SPECIFICATION EngineSpec
CHECK_DEADLOCK FALSE
CONSTANTS
    MaxFrameData = 1
    SizeLimits = {13, 17, 19, 30}
    FrameBudget = 2
    Targets = {0, 2}
    MaxTicks = 4
    MaxEngines = 2
PROPERTIES
    RenameFailureKeepsLog
