SPECIFICATION MethodsSpec
CONSTANTS
    LinkMayFail = TRUE
    ServerMayRefuse = TRUE
    Values <- MCValues
    Fields <- MCFields
    Starts <- MCStarts
    Stops <- MCStops
    IntBits = 3
    FreshVariables = TRUE
    MaxLen = 2
    MaxDoubts = 2
INVARIANTS
    RangeBeginsAtStart
