CONSTANTS
    Day = 8
    None = None
    Connectors <- MCConnectors
    Eligibles <- MCEligibles
    Supports <- MCSupports
    Requests <- WeekRequests
    Configs <- DstConfigs
    Responses <- WeekResponses
SPECIFICATION Spec
INVARIANT WeeksAreLocal
