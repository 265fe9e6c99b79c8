SPECIFICATION Spec
CONSTANTS
    Words <- AllWords
    Keys <- TagKeys
    MaxText = 4
    MaxQueue = 3
    Offsets = {0, 1, 2}
INVARIANTS
    TypeOK
    ScannedIsText
    OnlyAdjacentSectionsLeak
PROPERTIES
    PeekIsKept
