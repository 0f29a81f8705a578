SPECIFICATION Spec
CONSTANTS
    Objects = {a, b}
    None = None
INVARIANTS
    StoppedMeansJoined
CHECK_DEADLOCK FALSE
