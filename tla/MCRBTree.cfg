CONSTANTS
    Null = Null
    Keys <- MCKeys8
    Pinned <- MCKeys8
    MaxHeld = 8
SPECIFICATION FairTreeSpec
CHECK_DEADLOCK FALSE
INVARIANTS
    TreeTypeOK
    AlwaysIntact
    ScansInOrder
    RedBlack
PROPERTIES
    InsertionEnds
