SPECIFICATION SubjectSpec
CONSTANTS
    Shares = {s1}
    Peers = {w1, w2}
    Expected = 2
    TailLines = 2
    SshTimeout = 1
    PeerWindow = 2
    StaleAfter = 1
    Retention = 1
    PurgeEvery = 1
    MaxClock = 6
    LogTime = 4
    MaxLog = 3
    MaxFaults = 1
INVARIANTS
    CountedOnce
    FreshMeansCounted
    DownloadsAgree
    HealthyMeansUp
PROPERTIES
    VisitsCounted
