CONSTANTS
    Provider = {p}
    Symbol = {a}
    Allow <- AllowAll
    MaxTs = 1
    OutCapacity = 1
    InCapacity = 1
    Budget = 1
    EnforceMonotonic = TRUE
    Attentive = TRUE
SPECIFICATION ConsumedSpec
INVARIANT StopTerminatesAll
CHECK_DEADLOCK FALSE
