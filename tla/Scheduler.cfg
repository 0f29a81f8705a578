SPECIFICATION Spec
SYMMETRY Symmetry
CONSTANTS
    Names = {render, move, spawn}
    NoName = NoName
    Components = {1}
    MaxSystems = 3
    MaxDeps = 2
INVARIANTS
    ScheduleIsTheStableSort
    TickReadsWhatItWrote
