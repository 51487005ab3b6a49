CONSTANTS
    Base = 2
    Values <- SomeValues
    Strings <- SomeStrings
    MaxBytes = 9
    Relays = FALSE
    InStep = TRUE

SPECIFICATION Spec

INVARIANTS
    TypeOK
    SizesAgree
    ReadBack
    NothingLeft
