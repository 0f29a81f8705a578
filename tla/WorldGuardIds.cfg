SPECIFICATION Spec
SYMMETRY WorldSymmetry
CONSTANTS
    Capacity = 3
    GenerationMod = 3
    Components = {pos, vel}
    Values = {u, v}
    MaxArchetypes = 2
    InitialRows = 1
    MaxCreates = 3
INVARIANTS
    GuardIdsInRange
