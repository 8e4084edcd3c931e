CONSTANTS
    Caller = {c, d}
    N <- MCTwo
    Items <- SomeItems
    Windows <- FirstLimited
    PositiveCache <- OnOrOff
    NegativeCache <- On
SPECIFICATION Spec
SYMMETRY Symmetry
INVARIANTS
    TypeOK
    NotFoundIsTrue
    StoresAreTrue
    NoOrphanCall
PROPERTIES
    BlacklistHonoured
CHECK_DEADLOCK FALSE
