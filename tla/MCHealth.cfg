SPECIFICATION FairSpec
CONSTANTS
    a = a
    b = b
    c1 = c1
    c2 = c2
    Instances <- MCInstances
    Callers <- MCOne
    Initial <- MCInitial
    Fallback <- MCFallback
    FailureThreshold = 1
    SuccessThreshold = 1
    HalfOpenMax = 0
    Timeout = 0
    MaxRetry = 2
    SickAfter = 2
    WellAfter = 1
    Commands <- MCRegistry
    MaxAdmin = 3
PROPERTY ChecksSound
