CONSTANTS
    Conns = {c1, c2}
    PacketsOf <- OneInAll
    MayVanish = FALSE
    Endpoints = {c1, c2}
    EndpointOf <- OwnEndpoint
    FdLimit = 2
    IdModulus = 65536
    Throws = {}
    RacyContainers = FALSE
    EarlyCallbacks = {"onConnection", "onDisconnection", "onMessageReception"}
    AppCalls = {"destroy"}

SPECIFICATION FairSpec

INVARIANTS
    QueueAgrees

PROPERTIES
    DeadClientsLeave
    BacklogDrains
    ShutdownCompletes
