SPECIFICATION FairSpec
CONSTANTS
    r1 = r1
    r2 = r2
    Runs <- MCRuns
    Nodes <- MCNodes
    Kind <- MCKind
    Dags <- MCDags
    NoDag = NoDag
    Keys <- MCKeys
    KeyOf <- MCOwnKeys
    ScanLimit = 2
    MaxAsked = 1
    MaxUpserts = 2
    MaxPublishes = 2
    MaxCrashes = 1
INVARIANT RowsSound
PROPERTIES
    DispatchSound
    RunsAdvance
