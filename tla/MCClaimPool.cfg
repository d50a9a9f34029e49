SPECIFICATION MCPoolSpec
CONSTANTS
    Alias = {1, 2}
    Ident = {1, 2, 3, 4}
    Id <- MCId
    Carrier = {1, 2, 3, 4, 5}
    Carries <- MCCarries
    Node = {1}
    MaxKeys = 2
    MaxBytes = 4
    ReAttestMaxSets = 1
    AliasReuseDelay = 1
    ReAttestHold = 1
    MaxTime = 4
    ReAttested = {1}
INVARIANTS
    PoolExact
    ReloadKeepsTop2
    HoldSurvivesRestart
PROPERTIES
    TombstonesStay
