CONSTANTS
    Provider = {p}
    Symbol = {a}
    Allow <- AllowAll
    MaxTs = 1
    OutCapacity = 1
    InCapacity = 1
    Budget = 3
    EnforceMonotonic = TRUE
    Attentive = TRUE
SPECIFICATION FairSpec
PROPERTY StopTerminates
CHECK_DEADLOCK FALSE
