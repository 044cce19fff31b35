CONSTANTS
    r1 = r1  r2 = r2  a = a  b = b  c = c  t1 = t1  t2 = t2  none = none
    Pools = {1, 2}
    Resources = {r1, r2}
    PoolOf <- MCPoolOf
    Tenants = {a}
    Capacity <- MCCapacity
    Requested = {1, 3}
    MaxAllocs = 2
    MaxAdds = 2
    RateKeys = {a}
    RateLimits <- MCLimits
    MaxClock = 3
    MaxWindows = 2
    TenantThreads = {t1, t2}
    Names = {a, b}
    MaxTenants = 2
    LocalKeys = {a, b, c, t1}
    Tags = {r1}
    Sizes = {1, 2}
    MaxEntries = 3
    MaxSize = 4
    CacheKeys = {a}
    CacheTagged = {a}
    CacheThreads = {t1, t2}
    MaxSource = 2
    MaxWrites = 3
    MaxSynced = 2
    Processes = {t1, t2}
    Nodes = {a}
    NodeStatuses = {c}
    LeaseTtl = 2
    Statements = {r1, r2, c}
    Migrations <- MCMigrations
    MaxPuts = 2
    LastTick = 3
    MaxDeaths = 1
SPECIFICATION Spec
INVARIANTS TenancySound CacheSound StoresSound ConsoleSound RoutingSound
PROPERTY SwapKeepsUpdates
CHECK_DEADLOCK FALSE
