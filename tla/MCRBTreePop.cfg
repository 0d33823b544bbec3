CONSTANTS
    Null = Null
    Keys <- MCKeys6
    Pinned = {1}
    MaxHeld = 6
SPECIFICATION TreeSpec
CHECK_DEADLOCK FALSE
PROPERTIES
    LosesOnlyByMisplacing
    SmallTreeImplementsSet
