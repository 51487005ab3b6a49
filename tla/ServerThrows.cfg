CONSTANTS
    Conns = {c1, c2}
    PacketsOf <- OneInAll
    MayVanish = TRUE
    Endpoints = {c1, c2}
    EndpointOf <- OwnEndpoint
    FdLimit = 2
    IdModulus = 65536
    Throws = {"onConnection", "onDisconnection"}
    RacyContainers = TRUE
    EarlyCallbacks = {"onMessageReception"}
    AppCalls = {"stop"}

SPECIFICATION Spec

SYMMETRY Symmetry

CHECK_DEADLOCK FALSE

PROPERTIES
    OnlyAnnounced
