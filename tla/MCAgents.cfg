CONSTANTS
    a = a  b = b  c = c  d = d  k1 = k1  k2 = k2  s1 = s1  s2 = s2  s3 = s3
    Agents = {a}
    Hands = {1, 2}
    Supply = 3
    Ration = 2
    Room = 2
    Steps = {a, b, c}
    FirstStep = a
    StepsAfter <- MCStepsAfter
    InputsOf <- MCInputsOf
    Finishers = {k1, k2}
    NoHand = 0
    MaxBegun = 2
    Acts = {a, b}
    FirstAct = a
    Findings = {c, d}
    Yields <- MCYields
    Askers = {k1}
    Conductor = k2
    MaxTries = 2
    MaxMade = 3
    MaxMerged = 2
    MaxCleared = 1
    MaxBroken = 1
    Workers = {a, b}
    Jobs = {c, d, s1}
    MaxWorkers = 2
    Subscriptions = {s1, s2, s3}
    Senders = {k1, k2}
    Kept = 2
    MaxSent = 2
    Cleanups = {a, b}
    Minders = {k1, k2}
    Alarms = {c, d}
    Effort = 1
    Memory = 2
    Pause = 2
    Shown = 2
    Expiry = 2
    Window = 2
    Table = 2
    Reload = 2
    Lasting = 2
    Levels <- MCLevels
    Averages = {0, 3000, 10000}
    Spreads = {0, 5000}
    Enough = 1
    Calm = 1
    MaxSwept = 3
    MaxRung = 3
    MaxHalts = 1
    MaxHours = 3
    Cases = {a}
    Results = {s1, s2}
    Themes = {k1, k2}
    Papers = {b}
    Decrees = {c}
    Ttl = 1
    Span = 1
    MaxDays = 2
    MaxEdits = 5
    NoAgent = none
    Priorities = {1, 2}
    RetryAttempts = 1
    MaxTasks = 3
    Policies <- MCPolicies
    MaxSchedules = 2
    MaxTime = 5
SPECIFICATION MCSpec
INVARIANTS WorkflowSound OneTaskAtATime SubscribersServed EntropySound MeasureSound
PROPERTY BrainSound
CHECK_DEADLOCK FALSE
