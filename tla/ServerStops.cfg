CONSTANTS
    Conns = {c1, c2}
    PacketsOf <- NoneEach
    MayVanish = FALSE
    Endpoints = {c1, c2}
    EndpointOf <- OwnEndpoint
    FdLimit = 2
    IdModulus = 65536
    Throws = {}
    RacyContainers = TRUE
    EarlyCallbacks = {"onConnection", "onDisconnection", "onMessageReception"}
    AppCalls = {"createUdp", "destroy"}

SPECIFICATION Spec

SYMMETRY Symmetry

CHECK_DEADLOCK FALSE

INVARIANTS
    RegistryAgrees
    QueueAgrees

PROPERTIES
    SessionsSpec
    SilentWhenDestroyed
    OnlyRacesKill
