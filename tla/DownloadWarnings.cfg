CONSTANTS
    i1 = i1
    i2 = i2
    aapl = aapl
    ibm = ibm
    Day = 8
    None = None
    Connectors <- MCConnectors
    Eligibles <- MCEligibles
    Supports <- MCSupports
    Requests <- MCRequests
    Configs <- MCConfigs
    Responses <- MCResponses
    Instruments <- MCInstruments
    MaxBatch = 3
    Results <- MCResults
    Preferences <- MCPreferences
    Kinds <- MCKinds
    Limits <- MCLimits
    SupportsKind <- MCSupportsKind
    Searchers <- MCSearchers
    Failures <- MCFailures
SPECIFICATION FanSpec
INVARIANT WarningsTellApart
