CONSTANTS
    Limit = 4
    Window = 12
    Spread = FALSE
    Slices = 2
    TicksPerMs = 3
    Gap = 0
    MaxTime = 16
SPECIFICATION HistorySpec
INVARIANT SlidingBudget
CHECK_DEADLOCK FALSE
