SPECIFICATION MCSpec
CONSTANTS
    Focuses = {"evict", "rpc", "walk", "lease", "swarm", "cache", "upstream", "turn", "reach", "certs"}
    None = None
    c1 = c1
    c2 = c2
    r1 = r1
    Peer = {1, 2}
    Addr = {1}
    BucketOf <- PBucket
    NumBuckets = 1
    HeardAt <- PHeard
    TaughtAt <- PTaught
    Viable = {1}
    Capacity = 1
    MaxAddrsPerContact = 1
    ContactIdleTTL = 0
    PeerBookRecency = 2
    EvictQueue = 1
    Seeds <- PSeeds
    MaxPeerClock = 1
    MaxConfirms = 1
    MaxTasks = 2
    Call = {"a"}
    Query = {"q1", "q2"}
    Heavy = {"q1", "q2"}
    PoolQueue = 1
    PoolWorkers = 1
    MaxCopies = 1
    Node = {0, 1, 2, 3, 4}
    Self = 0
    Walk = {1, 2}
    KindChoices <- WKinds
    Table0 = {1}
    Confirmed0 = {1}
    Veteran = {}
    Knows <- WKnows
    Holds <- WHolds
    Flaky = {1}
    Throttler = {}
    MultiHomed = {}
    WalkSlots = 1
    KClosest = 2
    RoundWidth = 1
    WantNodes = 2
    MaxRounds = 6
    PenaltyWindow = 1
    MaxWalkClock = 1
    Holder = {1, 2}
    StorageKey = {1, 2}
    NameKey = 1
    Lease = 4
    RenewBelow = 2
    LeaseGrace = 3
    VerifyEvery = 2
    Faults = 1
    Worker = {1, 2}
    Seeders <- SSeeders
    Liars = {"s2"}
    NChunks = 1
    RetryBudget = 1
    MaxThrottles = 1
    Name = {1}
    Route <- ARoute
    Asker = {c1, c2}
    Refresher = {r1}
    Casts <- ACasts
    Slots <- ASlots
    Ttl = 1
    NegTtl = 1
    StaleServe = 1
    Prefetch = 1
    KickEvery = 1
    ServeCap = 1
    RefreshCap = 2
    MaxEntries = 1
    SweepEvery = 2
    Horizon = 2
    SweepBatch = 1
    MaxAnswerChanges = 0
    MaxWedges = 1
    MaxCacheRestarts = 0
    MaxCacheClock = 3
    Fwd = {1}
    Upstreams <- UUps
    NServers = 2
    NAttempts = 2
    MaxSwaps = 1
    MaxBoots = 2
    TurnClient = {1}
    IpOf <- TIpOf
    Remote = {1}
    MaxAllocsPerIP = 1
    MaxTotalAllocs = 2
    MaxPermissions = 1
    Lifetime = 2
    Wait = 1
    DialAttempts = 2
    RefreshFailMax = 3
    LateRequests = FALSE
    MaxLosses = 2
    Ladders <- RLadders
    MaxEvents = 1
    MaxRouterSlips = 1
    Vhosts = {1}
    Twin = 2
    LeafLife = 3
    RenewBefore = 2
    MaxMissed = 0
    Slips = {"death"}
PROPERTIES
    WorkEnds
    LossHeals
    LeaseConverges
CHECK_DEADLOCK FALSE
