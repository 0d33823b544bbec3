CONSTANTS
    ListenFd = l
    Fds = {l, a, b}
    Payloads <- MCPayloads
    MaxEvents = 2
    SizeMod = 8
    MaxWire = 2
SPECIFICATION ManagerSpec
CONSTRAINT Bounded
CHECK_DEADLOCK FALSE
PROPERTIES
    FailedWriteDropsBuffer
