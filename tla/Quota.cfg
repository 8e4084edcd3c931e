CONSTANTS
    Limit = 4
    Window = 12
    Spread = TRUE
    Slices = 2
    TicksPerMs = 3
    Gap = 1
    MaxTime = 40
SPECIFICATION Spec
INVARIANTS
    TypeOK
    FreshWindowIsOpen
PROPERTIES
    ImplementsRateBudget
CHECK_DEADLOCK FALSE
