SPECIFICATION FairSession
CONSTANTS
    NR = 4
    MaxPid = 16
    InputSize = 3
    Data <- AllLocals
    Fresh <- NoLocals
    Point <- Points
    Entry <- SessionPoints
    Syscalls <- AllCalls
    Keys <- SessionKeys
    Stages = 3
    Lists <- SomeLists
    MaxLines = 2
INVARIANTS
    TempsAreRemoved
    ShellSurvives
PROPERTIES
    CancelTakesEffect
    NoPublishAfterCancel
