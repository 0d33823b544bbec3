CONSTANTS
    Memory <- MCMemory
    SizeMod = 64
    Decimals = 2
    MaxDigits = 9
    Texts <- MCTexts
    Samples <- MCSamples
    Behind <- MCBehind
    Strings <- MCStrings
    Ints <- MCInts
    Floats <- MCFloats
    MaxWork = 4
    MaxTokens = 3
    MaxCharacters = 3
SPECIFICATION JsonSpec
CHECK_DEADLOCK FALSE
INVARIANTS
    JsonTypeOK
    OwnedOnce
    NothingFromBehind
    RoundTrip
    OnlyOpenArrayExhausts
    AccessorsStayInList
PROPERTIES
    ParseEnds
    ConcatKeepsItems
