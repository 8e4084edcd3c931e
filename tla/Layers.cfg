\* Layers put together in every order, and the calls to what they make.
SPECIFICATION Spec
CONSTANTS
    None = None
    Refused = Refused
    TicksPerMs = 2
    PerSecond = 2
    MaxCustoms = 1
    MaxEntries = 2
    Customs = {"a"}
    Durations = {2, 4}
    Limits = {5, 9}
    Strategies = {"Unit", "EvenSpreadHourly"}
    Caches <- MCCaches
    Quotas <- MCQuotas
    Stacks <- MCStacks
    Outer <- MCOuter
    Inner <- MCInner
    Requests <- MCRequests
INVARIANTS
    OrderProtectsQuota
    AnswersMatch
PROPERTY
    ImplementsSettings
\* A builder whose build was refused is gone.
CHECK_DEADLOCK FALSE
