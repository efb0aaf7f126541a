SPECIFICATION MonitorSpec
CONSTANTS
    Links = {k1}
    NoLink = nolink
    Timers = {"timer1", "timer2"}
    MaxTroubles = 1
    Hands = {h1, h2}
    NoHand = nobody
    Asked <- SomeRequests
    MaxMishaps = 2
    Clients = {c1}
    Wrong = {w1, w2, w3}
    Right = right
    Limit = 2
    Window = 3
    MaxDelay = 1
    MaxWaiting = 2
    MaxClock = 5
    Threads = {t1, t2}
    Every = 2
    MaxTime = 5
    MaxMessages = 5
    Monitors = {m1}
    Pids = {7, 8}
    Configs <- SomeConfigs
    MaxSalts = 4
    MaxStartFaults = 3
INVARIANTS
    AnsweredOnce
    FailuresTold
    LockComesBack
    GuessesBounded
    LinesSpaced
    SaltKept
PROPERTIES
    TableCatchesUp
    ButtonReturns
    Restored
    ServesAgain
