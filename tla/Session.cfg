CONSTANTS
    Provider = {p}
    Symbol = {a, b, x}
    Allow <- AllowOthers
    MaxTs = 2
    OutCapacity = 1
    InCapacity = 1
    Budget = 3
    EnforceMonotonic = TRUE
    Attentive = TRUE
SPECIFICATION ConsumedSpec
INVARIANTS
    TypeOK
    InOrder
    AcceptedIsDelivered
    StoppedMeansGone
PROPERTIES
    ReconnectStartsClean
    StreamWindsDown
CHECK_DEADLOCK FALSE
