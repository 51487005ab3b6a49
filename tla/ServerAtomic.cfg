CONSTANTS
    Conns = {c1, c2, c3}
    PacketsOf <- OneInAll
    MayVanish = FALSE
    Endpoints = {c1, c2, c3}
    EndpointOf <- OwnEndpoint
    FdLimit = 2
    IdModulus = 65536
    Throws = {}
    RacyContainers = FALSE
    EarlyCallbacks = {"onDisconnection", "onMessageReception"}
    AppCalls = {}

SPECIFICATION Spec

SYMMETRY Symmetry

INVARIANTS
    TypeOK
    RegistryAgrees
    QueueAgrees
    NoOrphans
    ThreadsSurvive

PROPERTIES
    SessionsSpec
    DisconnectionsAreReal
