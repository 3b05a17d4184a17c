SPECIFICATION FairSpec
CONSTANTS
    NR = 3
    MaxPid = 3
    InputSize = 3
    Data = {d0}
    Fresh = d0
    Point = {p0}
    Entry = {p0}
    Syscalls <- YieldCalls
    Keys <- YieldKeys
PROPERTIES
    EveryoneRuns
    MemoryIsPrivate
