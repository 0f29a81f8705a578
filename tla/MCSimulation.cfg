SPECIFICATION SimulationSpec
CHECK_DEADLOCK FALSE
CONSTANTS
    NsPerSecond = 4
    TickRate = 3
    MaxCatchUp = 2
    ChurnBudget = 2
    MaxSystems = 2
    MaxTime = 7
    MaxOps = 2
    MaxFrameData = 1
    SizeLimits = {13, 17, 19, 30}
    FrameBudget = 2
    Targets = {0, 2}
    MaxTicks = 4
    MaxEngines = 2
INVARIANTS
    NeverAheadOfClock
    FrameAccounting
    SystemsInLockStep
    FinalLogIsWhole
    OutcomeMatchesFile
PROPERTIES
    LoopCatchesUp
    RunReturns
