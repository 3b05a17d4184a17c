SPECIFICATION Spec
CONSTANTS
    InputSize = 4
    MaxHead = 9
    Counts = {1, 2, 5}
INVARIANTS
    RingOK
    ModifiersFollowKeys
    AlwaysRoomForNewline
PROPERTIES
    RingIsAQueue
