CONSTANTS
    ListenFd = l
    Fds = {l, a, b}
    Payloads <- MCPayloads
    MaxEvents = 3
    SizeMod = 64
    CharMod = 8
    Scripts <- OneClient
    Cuts = {4}
    MaxConns = 2
SPECIFICATION FairSpec
CHECK_DEADLOCK FALSE
PROPERTIES
    Reaped
