SPECIFICATION Spec
CONSTANTS
    Bits = 8
    Origin = 8
    Stack = 160
    Sizes = {0, 8, 40, 224, 250}
    Gaps = {8}
INVARIANTS
    NoOverlap
    HeldIsUsable
    BinsAreExact
    FreeNeighboursJoined
    HeapInv
PROPERTIES
    GrowsOnlyWhenFull
