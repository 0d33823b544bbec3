CONSTANTS
    ListenFd = l
    Fds = {l, a, b}
    Payloads <- MCPayloads
    MaxEvents = 2
    SizeMod = 8
    MaxWire = 2
SPECIFICATION ManagerSpec
SYMMETRY Symmetry
CONSTRAINT Bounded
CHECK_DEADLOCK FALSE
INVARIANTS
    ManagerTypeOK
    InterestMirrorsNodes
    WritesAreArmed
    QueuedBuffersHaveBytes
