CONSTANTS
    Senders = {s1, s2}
    Packets <- SomePackets
    Size <- SomeSizes
    HeaderBytes = 2
    Window = 4
    Lengths = {0, 1, 3}
    Interrupts = TRUE
    ReaderSide = "SERVER"
    MaxSent = 3

SPECIFICATION FairSpec

CHECK_DEADLOCK FALSE

INVARIANTS
    TypeOK
    InStep

PROPERTIES
    ChannelSpec
    SendsReturn
    EverySentIsDelivered
