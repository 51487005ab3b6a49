CONSTANTS
    Base = 2
    Values <- SomeValues
    Strings <- SomeStrings
    MaxBytes = 6
    Relays = FALSE
    InStep = FALSE

SPECIFICATION Spec

PROPERTIES
    ValuesStayInside
