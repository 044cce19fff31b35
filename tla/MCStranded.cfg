SPECIFICATION FairSpec
CONSTANTS
    low = low
    high = high
    file1 = file1
    file2 = file2
    orchestrator = orchestrator
    bff = bff
    Tasks <- MCTasks
    Remotes = {remote}
    RunnerId = runner
    Services <- MCServices
    Bff = bff
    NoAgent = NoAgent
    NoTask = NoTask
    Priority <- MCPriority
    MaxPriority = 10
    ClientLimits <- MCClientLimits
    LeaseTTL = 1
    KeyFiles <- MCKeyFiles
    FileOf <- MCFileOf
    MaxCrashes = 1
    MaxRestarts = 0
    MaxRemoteClaims = 1
PROPERTY InterruptedItemsResume
