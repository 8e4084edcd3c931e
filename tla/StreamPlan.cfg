CONSTANTS
    N = 2
    a = a
    b = b
    equity = equity
    nyse = nyse
    ghost = ghost
    None = None
    Symbol = {a, b}
    Kind = {equity}
    Exchange = {nyse}
    Unknown = {ghost}
    Lists <- MCLists
    Rules <- MCRules
    Requests <- MCRequests
    MaxEntries = 2
    MaxReconnects = 1
SPECIFICATION Spec
INVARIANTS
    TypeOK
    OpenCoversRequest
    PrimaryCoversAll
    PolicyIsObeyed
    RefusalIsTrue
PROPERTIES
    EverythingEnds
CHECK_DEADLOCK FALSE
