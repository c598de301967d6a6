CONSTANT MaxRetries = 3
SPECIFICATION UnwatchSpec
INVARIANTS
    ClientTypeOK
    ResultExplained
    ServerDelayHonoured
    SuccessMeansUnwatched
PROPERTIES
    ContextEndsCall
    CallEnds
