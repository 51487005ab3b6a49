CONSTANTS
    c1 = c1
    c2 = c2
    Clients = {c1, c2}
    Ports = {p1, p2}
    MaxCalls <- SomeCalls
    MaxMessages = 1
    OneAtATime = TRUE
    Sends = FALSE

SPECIFICATION Spec

INVARIANTS
    Survives
