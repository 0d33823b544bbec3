CONSTANTS
    ListenFd = l
    Fds = {l, a}
    Payloads <- MCPayloads
    MaxEvents = 2
    SizeMod = 64
    CharMod = 8
    Scripts <- AddressClients
    Cuts = {1, 2, 3, 4, 6, 9}
    MaxConns = 2
SPECIFICATION FairSpec
CHECK_DEADLOCK FALSE
INVARIANTS
    S5TarTypeOK
    HandlerFitsStage
    FrameAligned
    MethodReplyFirst
PROPERTIES
    GreetingAnswered
    BacklogServed
    RequestReadWhole
    ImplementsManager
