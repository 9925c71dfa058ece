\* CircuitBreaker: three concurrent callers, the code's threshold of two, a cooldown of
\* two ticks: two failures open the breaker while a third call is still out.  The caller
\* p is a prefetch, which end_read may abort.  The other parts' values are listed in the
\* order of their modules in MCMount.
SPECIFICATION SuiteSpec
CONSTANTS
    Ops = {o1, o2, p}
    Abortable = {p}
    FailureThreshold = 2
    Cooldown = 2
    MaxCount = 5
    HasSmb = TRUE
    Vpn = TRUE
    Https = TRUE
    Recheck = 2
    TunnelRecheck = 2
    MaxFlips = 2
    MaxLogins = 2
    Patience = 2
    Keep = 2
    MaxBytes = 2
    MaxRecords = 7
    MaxFaults = 1
    MaxStarts = 1
    MaxLost = 3
    MaxIntrusions = 1
    ClientCalls = {"c1", "c2"}
    MaxExpiries = 2
    Requesters = {"c1", "c2", "c3"}
    MaxConcurrency = 2
    Interval = 2
    MaxAttempts = 2
    BackoffBase = 1
    BackoffMax = 3
    Handles = {"h1", "h2"}
    Caching = TRUE
    MaxChanges = 1
    MaxFetches = 2
    Pids = {1}
    Spares = {9}
    HeldDirs = 2
    WalkDirs = 1
    WalkFor = 1
    Quiet = 2
    ResolveEvery = 2
    PruneEvery = 1
    WalkStarts = 2
    MaxOpens = 2
    MaxTime = 3
    QueueDepth = 1
    SpillAt = 1
    NameAttempts = 2
    MaxLen = 3
    Bytes = {1, 2}
    Paths <- TwoDirectories
    Longer <- OneBeginsAnother
    NasThings <- FileInTheShorter
    NameThreads = {"t1", "t2"}
    MaxJobs = 2
    PageNames = {"a", "b", "c", "d"}
    PageSize = 2
    MaxPages = 3
    PageChanges = 2
    Lengths <- GrowsAndShrinks
    MaxSize = 3
INVARIANTS TrialOutstanding EndsInOrder LogKept MoveIsRename CallsKept PassIsOneListing WalkersOnly BytesKept
PROPERTIES CoolsInFull LegsHold NamesHold
\* Mounts and calls end.
CHECK_DEADLOCK FALSE
