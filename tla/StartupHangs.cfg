CONSTANTS
    N <- MCTwo
    Symbol = {a}
    Plans <- ChainPlans
    Recoveries <- NoRecovery
    MinBackoff = 1
    MaxBackoff = 1
    Factor = 2
SPECIFICATION FairSpec
PROPERTIES
    StartupAlwaysResolves
CHECK_DEADLOCK FALSE
