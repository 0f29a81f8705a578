SPECIFICATION Spec
CONSTANTS
    MaxFrames = 3
    CounterMod = 64
INVARIANTS
    WaitIdleBarrier
    TornByAtMostOne
    DropsAreLogged
    QuietStatsExact
PROPERTIES
    WaitIdleReturns
    HandoffImplemented
