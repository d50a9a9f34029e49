SPECIFICATION MCSpec
CONSTANTS
    a = a
    b = b
    r = r
    g1 = g1
    g2 = g2
    Principal <- MCPrincipal
    Key <- MCKey
    Hash <- MCHash
    Env <- MCEnv
    Blob <- MCBlob
    Evidence <- MCEvidence
    Half = 64
    ExpiryGrace = 1
    MaxBytes = 2
    HistoryMax = 3
    HistMaxBytes = 3
    EvidenceMax = 2
    EvidMaxBytes = 3
    MaxBlobLen = 2
    MaxTime = 3
INVARIANTS
    EvidenceQueueExact
    BudgetsHold
PROPERTIES
    LiveRecordSafe
    SupersededIsRetained
