CONSTANTS
    Day = 8
    None = None
    Connectors <- MCConnectors
    Eligibles <- MCEligibles
    Supports <- MCSupports
    Requests <- DstRequests
    Configs <- DstConfigs
    Responses <- DstResponses
SPECIFICATION Spec
INVARIANT ResampledInOrder
