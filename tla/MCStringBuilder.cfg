CONSTANTS
    Cells = {c1, c2, c3, c4}
    Buffers = {b1, b2, b3, b4}
    Null = Null
    Texts <- MCTexts
    NoText = NoText
    Zero = 0
    MaxLength = 4
SPECIFICATION BuilderSpec
SYMMETRY Symmetry
CHECK_DEADLOCK FALSE
INVARIANTS
    ChainHoldsMemory
    GivenTextStays
    ChReadsContents
PROPERTIES
    ImplementsText
