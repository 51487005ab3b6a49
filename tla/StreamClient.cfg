CONSTANTS
    Senders = {s1}
    Packets <- SomePackets
    Size <- SomeSizes
    HeaderBytes = 2
    Window = 4
    Lengths = {0, 1, 3}
    Interrupts = FALSE
    ReaderSide = "CLIENT"
    MaxSent = 3

SPECIFICATION FairSpec

CHECK_DEADLOCK FALSE

INVARIANTS
    InStep
