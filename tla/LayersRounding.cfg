\* A window shorter than a millisecond.
SPECIFICATION Spec
CONSTANTS
    None = None
    Refused = Refused
    TicksPerMs = 2
    PerSecond = 2
    MaxCustoms = 1
    MaxEntries = 2
    Customs = {"a"}
    Durations = {2, 4}
    Limits = {5, 9}
    Strategies = {"Unit", "EvenSpreadHourly"}
    Caches <- MCCaches
    Quotas <- MCShortQuotas
    Stacks <- MCStacks
    Outer <- MCOuter
    Inner <- MCInner
    Requests <- MCRequests
PROPERTY
    ImplementsSettings
\* A builder whose build was refused is gone.
CHECK_DEADLOCK FALSE
