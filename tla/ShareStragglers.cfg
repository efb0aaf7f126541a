SPECIFICATION Spec
CONSTANTS
    Keys = {k1, k2}
    EternalKeys = {}
    Globals = globals
    NoKey = nokey
    Procs = {p1}
    Prefixes <- AllPrefixes
    MaxFaults = 1
    MaxLate = 1
    MaxMeddles = 0
    MaxKills = 1
INVARIANTS
    OwnershipKept
    OnlyRecordedPublished
PROPERTY KeepsLifecycle
