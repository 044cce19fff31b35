SPECIFICATION Spec
CONSTANTS
    a = a
    b = b
    c1 = c1
    c2 = c2
    Instances <- MCInstances
    Callers <- MCTwo
    Initial <- MCInitial
    Fallback <- MCFallback
    FailureThreshold = 2
    SuccessThreshold = 2
    HalfOpenMax = 1
    Timeout = 1
    MaxRetry = 2
    SickAfter = 2
    WellAfter = 2
    Commands <- MCForce
    MaxAdmin = 1
INVARIANT ProbesBounded
PROPERTY BreakerFollowsResults
SYMMETRY MCSymmetry
