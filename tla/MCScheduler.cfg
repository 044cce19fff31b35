SPECIFICATION FairSpec
CONSTANTS
    sAt = sAt
    sInterval = sInterval
    sWindow = sWindow
    Schedules = {sInterval, sWindow}
    Policies <- MCPolicies
    PolicyOf <- MCPolicyOf
    Handlers = {h1}
    DayLength = 3
    Hour = 1
    MaxDue = 2
    MaxTime = 5
    MaxCount = 2
    MaxPatches = 1
    MaxCrashes = 1
INVARIANT TicksSound
PROPERTIES
    NextNeverBack
    FiringsGoOn
