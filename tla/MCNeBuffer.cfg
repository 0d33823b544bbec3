CONSTANTS
    Null = Null
    Cells = {c1, c2, c3}
    Payloads <- MCPayloads
    SizeMod = 8
    MaxQueued = 1
    MaxPushes = 4
SPECIFICATION BufferSpec
INVARIANTS
    ListHoldsMemory
    BytesInOrder
PROPERTIES
    ImplementsQueue
