SPECIFICATION ServicesSpec
CHECK_DEADLOCK FALSE
SYMMETRY Symmetry
CONSTANTS
    Capacity = 1
    GenerationMod = 5
    Components = {pos}
    Position = pos
    Values = {u, v}
    MaxArchetypes = 1
    InitialRows = 1
    MaxCreates = 2
    MaxTicks = 3
    MaxFrames = 2
    NsPerSecond = 4
    TimeMax = 9
    FrameRate = 2
    TickRate = 2
    MaxTickRate = 3
    ScalarOne = 8
    PoolCount = 2
    PoolCapacity = 2
    PoolGenerations = 2
    MaxElements = 4
    MaxStores = 3
    Loop = "loop"
    Others = {"other"}
    MaxAllocs = 3
    MaxParticles = 3
    MaxEmitters = 2
    MaxLife = 2
    MaxBurst = 2
    MaxSpawns = 4
    MaxUpdates = 3
    Documents <- TestDocuments
    Defaults <- TestDefaults
    Overrides <- TestOverrides
    MinRate = 1
    MaxRate = 240
    MaxEntities = 1000
    MaxSeed = 10
    MaxUint = 5000
    MaxEdits = 4
    LogThreads = {owner, render}
    NoThread = NoThread
    Events = {"warned", "noted"}
    Limited = {"warned"}
    RateWindow = 2
    MaxTime = 2
    MaxCalls = 5
    Budgets <- TestBudgets
    Entries <- TestEntries
    MeasuredTimes = {0, 3}
    FrameWindow = 2
    SystemWindow = 2
    TickWindow = 2
    LastNs = {0}
    CriticalMultiplier = 3
    MaxRunFrames = 3
    MaxFrameTicks = 1
INVARIANTS
    SampleMixesOneEntity
    SuppressedAreReported
    PoolsKeepTheirElements
    ParticlesAgeOnce
    ReportIsWhatHappened
    LiveFollowsAcceptedFile
PROPERTIES
    PictureAdvances
    ReadCountsTheTick
