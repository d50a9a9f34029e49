SPECIFICATION MCSpec
CONSTANTS
    Focuses = {"cache", "resolution", "upstream", "trust"}
    None = None
    c1 = c1
    c2 = c2
    r1 = r1
    Name = {1, 2}
    Route <- ARoute
    Asker = {c1, c2}
    Refresher = {r1}
    Casts <- ACasts
    Slots <- ASlots
    Ttl = 1
    NegTtl = 1
    StaleServe = 1
    Prefetch = 1
    KickEvery = 1
    ServeCap = 1
    RefreshCap = 1
    MaxEntries = 1
    SweepEvery = 2
    Horizon = 2
    SweepBatch = 1
    MaxAnswerChanges = 1
    MaxWedges = 1
    MaxCacheRestarts = 1
    MaxCacheClock = 3
    Ident = {1, 2}
    Ts <- RTs
    Sound = {1, 2}
    Member = {1, 2}
    Configs <- RConfigs
    CarrierLease = 1
    ContestWindow = 1
    AliasReuseDelay = 1
    FreshWindow = 1
    SkewTolerance = 0
    RrTtl = 3
    TtlCap = 2
    ContestedTtlCap = 1
    MaxRatchetAliases = 2
    MaxCarriers = 2
    MaxReboots = 1
    MaxResClock = 2
    Fwd = {1, 2}
    Upstreams <- UUps
    NServers = 2
    NAttempts = 2
    MaxSwaps = 1
    MaxBoots = 1
    Handler = {h1, h2}
    h1 = h1
    h2 = h2
    Tld = {1, 2}
    CaKey = {1, 2}
    Matures <- TMatures
    CaLife = 2
    RefreshWithin = 1
    RotationGrace = 1
    MintThrottle = 1
    DiskFaults = TRUE
    MaxOwnerChanges = 1
    MaxCrashes = 1
    MaxTrustClock = 2
SYMMETRY MCSymmetry
INVARIANTS
    AnswersAreRecent
    FlightsHaveLeaders
    NoLegLeftUntried
PROPERTIES
    EstablishedIsNotDisplaced
    RotationIsObserved
CHECK_DEADLOCK FALSE
