SPECIFICATION SessionSpec
CONSTANTS
    NR = 4
    MaxPid = 6
    InputSize = 3
    Data <- AllLocals
    Fresh <- NoLocals
    Point <- Points
    Entry <- SessionPoints
    Syscalls <- AllCalls
    Keys <- SessionKeys
    Stages = 1
    Lists <- TwoInList
    MaxLines = 1
PROPERTY
    CancelStopsTheList
