CONSTANTS
    c1 = c1  c2 = c2  s1 = s1  s2 = s2  w1 = w1  w2 = w2  w3 = w3
    i1 = i1  i2 = i2  a1 = a1  a2 = a2  f1 = f1  f2 = f2  none = none
    Releases = {c1, c2}
    Strategies = {s1}
    ReleaseOf <- MCReleaseOf
    FirstShare = 1
    ShareStep = 2
    FullShare = 4
    RollsBack = {c1}
    Promotes = {c1, c2}
    Lessons = {1, 2}
    Pressing = {2}
    Learners = {w1, w2, w3}
    NumLearners = 2
    QueueSize = 2
    MaxAttempts = 2
    MaxStops = 1
    Auditors = {i1, i2}
    Reviews = {a1, a2}
    Sources <- MCSources
    DimensionSets <- MCDimensionSets
    Required = 80
    MaxRegistered = 3
    Subjects = {a1}
    Foreign = a2
    Readers = {s1}
    Replays = {c1, c2}
    MaxLines = 3
    MaxBatch = 2
    MaxCrashes = 2
    Watchers = {w1, w2}
    Complaints = {a1, a2}
    Places = {c1, c2}
    KnownMatches <- MCKnownMatches
    NewMatches <- MCNewMatches
    KeptHours = 1
    ReportHours = 1
    MaxKinds = 3
    MaxWatched = 3
    MaxHours = 2
    MaxFailed = 2
    MaxAsked = 1
    Phases = {s1, s2}
    FirstPhase = s1
    RichPhases = {s2}
    UpdatingPhases = {s1}
    Callers = {c1, c2}
    CheckpointsKept = 4
    MaxSaved = 5
    MaxSeconds = 2
    MaxEnds = 1
    Planned = {f1, f2}
    Needs <- MCNeeds
    PriorityRank <- MCPriorityRank
    Tested = TRUE
    CheckpointInterval = 1
    MaxCheckpointed = 2
    MaxNumbered = 5
    MaxDeaths = 1
    FileNames = {"a", "b"}
    Contents = {c1, c2}
    Folders = {f1}
    Shares = {s1}
    Targets = {"cloudrive", "temp"}
    Rule <- MCRule
    VersionsKept = 2
    Limits = {0, 1}
    Expiries = {0, 1}
    MaxDepth = 2
    MaxAnswered = 4
    MaxShared = 1
    Remembered = {s1, s2, c1}
    HubKeys = {s1}
    Confidences = {0, 1, 2, 3}
    Certain = 2
    Assured = 2
    Lifetime = 1
    PadSize = 2
    Reports = {c1, c2, f1}
    HeadOf <- MCHeadOf
    HeadsIn <- MCHeadsIn
    DebtSize = 3
    MaxStored = 3
    MaxTicks = 2
    MaxTraces = 4
SPECIFICATION Spec
INVARIANTS LearningSound CanariesSound AuditorsIndependent NothingSkipped QualitySound ErrorsSound
    ContextOnDisk SessionsSound MemorySound
PROPERTY DriveSound
CHECK_DEADLOCK FALSE
