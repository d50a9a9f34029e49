SPECIFICATION RestartSpec
CONSTANTS
    a = a
    b = b
    r = r
    g = g
    Principal <- MCPrincipal
    Key <- MCKey
    Hash <- OneHopHashes
    Env <- OneHopEnv
    Blob <- MCBlob
    Evidence <- MCEvidence
    Half = 64
    ExpiryGrace = 1
    MaxBytes = 8
    HistoryMax = 4
    HistMaxBytes = 8
    EvidenceMax = 2
    EvidMaxBytes = 3
    MaxBlobLen = 2
    MaxTime = 2
PROPERTIES
    ReseedsWinner
