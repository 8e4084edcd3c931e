CONSTANTS
    Provider = {p}
    Symbol = {a}
    Allow <- AllowAll
    MaxTs = 1
    OutCapacity = 1
    InCapacity = 1
    Budget = 1
    EnforceMonotonic = TRUE
    Attentive = TRUE
SPECIFICATION ConsumedSpec
PROPERTY DropTerminates
CHECK_DEADLOCK FALSE
