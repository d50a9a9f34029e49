SPECIFICATION MCSpec
CONSTANTS
    Focuses = {"contested", "races", "restart", "rpc", "rates", "ledger", "tokens", "lease",
               "difficulty", "blob"}
    Peer = {1, 2, 3, 4}
    Addr = {1, 2, 3}
    BucketOf <- PBucket
    NumBuckets = 2
    HeardAt <- PHeard
    TaughtAt <- PTaught
    Viable = {1, 2}
    Capacity = 1
    MaxAddrsPerContact = 2
    ContactIdleTTL = 0
    PeerBookRecency = 2
    EvictQueue = 1
    Seeds <- PSeeds
    MaxPeerClock = 3
    MaxConfirms = 1
    MaxTasks = 2
    Call = {"a", "b"}
    Query = {"q1", "q2", "q3"}
    Heavy = {"q1", "q2"}
    PoolQueue = 1
    PoolWorkers = 1
    MaxCopies = 2
    Source = {1, 2, 3}
    LimRate = 1
    LimBurst = 2
    PacketRate = 3
    PacketBurst = 4
    LimMax = 2
    LimTarget = 1
    LimIdle = 2
    MaxSeconds = 5
    Proc = {1, 2}
    Offender = {1, 2}
    FlagTTL = 1
    MaxLedgerClock = 3
    Client = {1, 2}
    Rotation = 3
    Tolerance = 1
    MaxFlight = 2
    MaxTime = 6
    Holder = {1, 2}
    StorageKey = {1, 2}
    NameKey = 1
    Lease = 4
    RenewBelow = 2
    LeaseGrace = 3
    VerifyEvery = 2
    Faults = 3
    DInit = 2
    DCeiling = 5
    RetargetBlock = 2
    TargetInterval = 2
    RingSize = 3
    Gossiped = {1, 3, 4, 5}
    Told = {3, 4}
    MaxCosigns = 3
    MaxDiffRestarts = 1
    MaxDiffClock = 2
    Blob = {1, 2}
    ArchiveChunks = 2
    Storer = {1}
    Wants <- BWants
    Fetcher = {1, 2}
    IpAt <- BIpAt
    MaxConnsGlobal = 2
    MaxConnsPerIP = 1
    MaxCacheEntries = 1
    MaxStores = 2
    MaxStreams = 1
INVARIANTS
    ConfirmationsAreEarned
    EvictionMarkExact
    AtMostOneAnswer
    FlagsLastADay
    RefreshOnceSuffices
    LeaseNeverLapses
    
    
PROPERTIES
    LimiterIsTokenBuckets
CHECK_DEADLOCK FALSE
