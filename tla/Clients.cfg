CONSTANTS
    c1 = c1
    c2 = c2
    Clients = {c1, c2}
    Ports = {p1, p2}
    MaxCalls <- SomeCalls
    MaxMessages = 1
    OneAtATime = FALSE
    Sends = TRUE

SPECIFICATION FairSpec

INVARIANTS
    TypeOK
    DatagramsReachNoOther
    ConnectionComesFirst
    ConnectedIsServed
    ConnectedSurvives
    ClosedAfterUse

PROPERTIES
    SentIsDelivered
    ClientsEnd
