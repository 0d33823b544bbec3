CONSTANTS
    ListenFd = l
    Fds = {l, a, b}
    Payloads <- MCPayloads
    MaxEvents = 2
    SizeMod = 64
    CharMod = 8
    Scripts <- DomainClients
    Cuts = {2, 5}
    MaxConns = 3
SPECIFICATION Spec
SYMMETRY Symmetry
CHECK_DEADLOCK FALSE
INVARIANTS
    EventsHaveNodes
PROPERTIES
    FreshNodeHasNoEvent
