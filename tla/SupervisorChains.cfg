CONSTANTS
    N <- MCThree
    Symbol = {a, b}
    Plans <- ChainPlans
    Recoveries <- NoRecovery
    MinBackoff = 1
    MaxBackoff = 1
    Factor = 2
SPECIFICATION Spec
SYMMETRY Symmetry
INVARIANTS
    TypeOK
    ViewMatchesTasks
    NoIdleWork
    ClosedFormIsLoop
PROPERTIES
    ImplementsContract
    StartsRespectPriority
    PreemptionIsSound
CHECK_DEADLOCK FALSE
