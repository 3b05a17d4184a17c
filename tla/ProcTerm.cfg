SPECIFICATION HistSpec
CONSTANTS
    NR = 2
    MaxPid = 3
    InputSize = 3
    Data = {d0}
    Fresh = d0
    Point = {p0}
    Entry = {p0}
    Syscalls <- TermCalls
    Keys <- TermKeys
INVARIANTS
    NoMissedWakeup
    NothingMarkedRuns
    IInv
    FlagsBelongToTheirProcess
