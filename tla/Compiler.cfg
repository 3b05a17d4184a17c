SPECIFICATION Spec
CONSTANTS
    Jobs <- SomeJobs
    PpPrograms <- SomePrograms
    PpFiles <- SomeFiles
    IncDirs <- SomeDirs
    PpDefines <- SomeDefines
    MaxInclude = 3
    MaxCond = 4
    ByteBits = 4
    ImmBits = 12
    FrameBase = 2048
    PoolFloor = 2064
    StackTop = 16368
    PollPeriod = 2
    HaltAt = 320
    RamSize = 32768
    DiskSize = 16
    MaxInstr = 4000
    NsPerInsn = 3
    KeyValues = {0, 7}
    KernelBase = 512
    UserBase = 8192
    UserLimit = 12288
    BranchGate = 256
    SyscallGate = 260
INVARIANTS
    CompilerTypeOK
    ResultIsMeaning
    ValidProgramsRun
    StackIsBalanced
    LabelsAreExact
    MnemonicsDoWhatTheySay
    OutputIsC
