SPECIFICATION HistSpec
CONSTANTS
    NBuffers = 2
    NInodes = 2
    DataBlocks <- TwoBlocks
    Inos <- TwoInos
    InodeBlock <- SameBlock
    Owner <- OneOwner
    Val = {0, 1}
    Zero = 0
    Junk = 2
    NoBlock = "none"
    MaxOpen = 2
INVARIANTS
    NoDuplicates
    NothingHeldAtRest
    ReadsAreCurrent
PROPERTIES
    CacheIsTransparent
    SyncIsDurable
