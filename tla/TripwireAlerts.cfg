SPECIFICATION FairSpec
CONSTANTS
    Coalesce = 3
    TickEvery = 2
    MaxNotify = 1
    Throttle = 1
    MaxLines = 4
    MaxFaults = 2
INVARIANTS
    SummaryExact
    ReportedInTime
    ReportedOnce
PROPERTY FollowsAgain
