CONSTANTS
    Conns = {c1, c2}
    PacketsOf <- NoneEach
    MayVanish = FALSE
    Endpoints = {c1, c2}
    EndpointOf <- OwnEndpoint
    FdLimit = 2
    IdModulus = 65536
    Throws = {}
    RacyContainers = TRUE
    EarlyCallbacks = {"onConnection", "onDisconnection", "onMessageReception"}
    AppCalls = {"createUdp", "broadcast"}
    Callers = {"main", "tcp", "udp"}
    Lists <- YoungestFirst
    MaxCalls = 2

SPECIFICATION BroadcastSpec

SYMMETRY Symmetry

CHECK_DEADLOCK FALSE

INVARIANTS
    BroadcastTypeOK
    PhantomsAreClosed
    MainIsUndisturbed

PROPERTIES
    OpenClientsAreServed
    OnlyTheDeadKill
    SessionsSpec
