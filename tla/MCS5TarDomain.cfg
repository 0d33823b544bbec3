CONSTANTS
    ListenFd = l
    Fds = {l, a}
    Payloads <- MCPayloads
    MaxEvents = 2
    SizeMod = 64
    CharMod = 8
    Scripts <- OneClient
    Cuts = {4}
    MaxConns = 1
SPECIFICATION Spec
CHECK_DEADLOCK FALSE
PROPERTIES
    RequestReadWhole
