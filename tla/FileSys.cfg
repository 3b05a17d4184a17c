SPECIFICATION Spec
CONSTANTS
    Procs = {p, q}
    Fds = {0, 1}
    Files = {1, 2}
    Inos = {1, 2, 3}
    Zones = {1, 2, 3}
    PerBlock = 3
    MaxBlocks = 1
    MaxEntries = 4
    Paths <- SomePaths
INVARIANTS
    LinksMatchEntries
    RefsMatch
    MapsAreExact
    DirsFormATree
SYMMETRY Symmetry
