CONSTANTS
    N <- MCTwo
    Symbol = {a, b}
    Plans <- ChainPlans
    Recoveries <- FirstOrSecond
    MinBackoff = 1
    MaxBackoff = 1
    Factor = 2
SPECIFICATION FairSpec
PROPERTIES
    StartupResolves
    EverySymbolRecovers
    PrimaryRecovers
    StopCompletes
CHECK_DEADLOCK FALSE
