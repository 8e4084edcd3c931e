CONSTANTS
    Caller = {c, d}
    N <- MCOne
    Items <- SomeItems
    Windows <- FirstLimited
    PositiveCache <- OnOrOff
    NegativeCache <- On
SPECIFICATION Spec
SYMMETRY Symmetry
PROPERTIES
    ProviderWindowHonoured
CHECK_DEADLOCK FALSE
