SPECIFICATION Spec
CONSTANTS
    Targets = {x, y}
    Refnums = {0, 3}
    Widths = {2, 3}
    MaxWindows = 3
    MaxRooms = 2
SYMMETRY mcSymmetry
INVARIANTS
    EveryWindowIsFound
    OnlyCurrentIsVisible
    InputsFit
    StatusShowsARoom
    CyclingReachesAll
