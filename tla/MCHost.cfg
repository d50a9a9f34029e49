SPECIFICATION MCSpec
CONSTANTS
    Focuses = {"swarm", "upgrade", "certs", "turn", "reach"}
    None = None
    Worker = {1, 2}
    Seeders <- SSeeders
    Liars = {"s2"}
    NChunks = 2
    RetryBudget = 1
    MaxThrottles = 1
    Platforms = {"unix", "windows"}
    Vhosts = {1, 2}
    Twin = 3
    LeafLife = 4
    RenewBefore = 2
    MaxMissed = 1
    Slips = {"reload", "write", "death", "overlap"}
    TurnClient = {1, 2}
    IpOf <- TIpOf
    Remote = {1}
    MaxAllocsPerIP = 2
    MaxTotalAllocs = 2
    MaxPermissions = 1
    Lifetime = 2
    Wait = 1
    DialAttempts = 2
    RefreshFailMax = 2
    LateRequests = FALSE
    MaxLosses = 1
    Ladders <- RLadders
    MaxEvents = 3
    MaxRouterSlips = 2
INVARIANTS
    WayBackKept
    
    NothingIsLost
    
CHECK_DEADLOCK FALSE
