SPECIFICATION Spec
CONSTANTS
    NR = 4
    MaxPid = 4
    InputSize = 3
    Data = {d0}
    Fresh = d0
    Point = {p0}
    Entry = {p0}
    Syscalls <- TreeCalls
    Keys <- TreeKeys
INVARIANTS
    PidsOK
    EveryoneHasAFather
PROPERTIES
    InterruptMarksTheTree
    ZombiesWait
