SPECIFICATION MCSpec
CONSTANTS
    Focuses = {"succession"}
    None = None
    Node = {0, 1, 2, 3, 4}
    Self = 0
    Walk = {1, 2}
    KindChoices <- WKinds
    Table0 = {1, 3}
    Confirmed0 = {3}
    Veteran = {3}
    Knows <- WKnows
    Holds <- WHolds
    Flaky = {1, 3}
    Throttler = {2}
    MultiHomed = {3}
    WalkSlots = 1
    KClosest = 2
    RoundWidth = 1
    WantNodes = 2
    MaxRounds = 6
    PenaltyWindow = 1
    MaxWalkClock = 2
    Looker = {1,2}
    CopyLease = 2
    Window = 1
    Grace = 1
    MaxGens = 2
    MaxFreshClock = 2
    WitnessNode = {1, 2, 3}
    WitnessSet = {1, 2}
    Unenforced = Unenforced
    Quorum = 2
    MaxEvaluations = 2
    Skew = 0
    PresentWindow = 1
    FreshnessWindow = 1
    Stamps = {2, 3, 4, 5}
    ClaimTs = 3
    Rival <- QRival
    MaxSheet = 3
    Witness = {1, 2}
    OpsQuorum = 2
    Replica = {1, 2}
    MaxKeys = 1
    MaxSets = 2
    RecCount = 2
    WitnessWindow = 2
    Cooldown = 3
    Attempts = 2
    Menu <- OMenu
    MaxRuns = 2
    MaxSlips = 2
    MaxOpsClock = 2
    Owners = {1, 2}
    Founder = 1
    Delegates = {Nobody, 1, 9}
    Custodians = {7, 8}
    Threshold = 2
    Timelock = 1
    RecordTTL = 3
    MinRemaining = 1
    StoreGrace = 1
    MaxDepth = 2
    Nobody = Nobody
    MaxFiles = 4
    MaxSuccClock = 3
PROPERTY
    RenewalStaysProvable
CHECK_DEADLOCK FALSE
