CONSTANTS
    CharMod = 8
    SizeMod = 64
    Room = 16
    Fillings <- MCFillings
    Lengths = {0, 1, 2, 3}
SPECIFICATION ConvertSpec
CHECK_DEADLOCK FALSE
INVARIANTS
    EncodesMessage
    RoundTrip
    RefusedKeepsAddress
