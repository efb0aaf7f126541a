SPECIFICATION Spec
CONSTANTS
    Keys = {k1}
    EternalKeys = {}
    Globals = globals
    NoKey = nokey
    Procs = {p1}
    Prefixes <- AllPrefixes
    MaxFaults = 1
    MaxLate = 0
    MaxMeddles = 0
    MaxKills = 0
INVARIANT FullyClosedIsClosed
