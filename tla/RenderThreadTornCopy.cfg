SPECIFICATION Spec
CONSTANTS
    MaxFrames = 2
    CounterMod = 64
INVARIANTS
    AcceptedCopyConsistent
