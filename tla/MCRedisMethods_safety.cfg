SPECIFICATION MethodsSpec
CONSTANTS
    LinkMayFail = TRUE
    ServerMayRefuse = TRUE
    Values <- MCValues
    Fields <- MCFields
    Starts <- MCStarts
    Stops <- MCStops
    IntBits = 3
    FreshVariables = TRUE
    MaxLen = 3
    MaxDoubts = 2
INVARIANTS
    MethodsTypeOK
    FalseMeansNoEffect
    TrueMeansDone
    ReasonIsTrue
    ResultsAccountForTheList
PROPERTIES
    ImplementsAtomicKey
