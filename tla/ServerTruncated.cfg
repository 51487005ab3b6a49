CONSTANTS
    Conns = {c1, c2, c3}
    PacketsOf <- NoneEach
    MayVanish = FALSE
    Endpoints = {c1, c2, c3}
    EndpointOf <- OwnEndpoint
    FdLimit = 3
    IdModulus = 2
    Throws = {}
    RacyContainers = FALSE
    EarlyCallbacks = {"onConnection", "onDisconnection", "onMessageReception"}
    AppCalls = {}

SPECIFICATION Spec

SYMMETRY Symmetry

PROPERTIES
    DisconnectionsAreReal
