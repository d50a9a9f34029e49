SPECIFICATION MCSpec
CONSTANTS
    Alias = {1, 2}
    Ident = {1, 2, 3, 4, 5}
    Id <- MCId
    Carrier = {1, 2, 3}
    Carries <- RenewalCarries
    Node = {1}
    MaxKeys = 2
    MaxBytes = 9
    ReAttestMaxSets = 1
    AliasReuseDelay = 5
    ReAttestHold = 3
    MaxTime = 14
    ReAttested = {}
    Self = 1
    SkewTolerance = 0
    WitnessPresentWindow = 12
    WitnessCooldown = 4
    WitnessLastPruneAt = 2
    MaxHandlers = 2
    MaxSignatures = 4
    HandlerDelay = 1
    SweepLag = 1
INVARIANTS
    WitnessSpacing
PROPERTIES
    LiveNameExclusive
