SPECIFICATION FairSpec
CONSTANTS
    Keys = {k1, k2}
    EternalKeys = {}
    Globals = globals
    NoKey = nokey
    Procs = {p1}
    Prefixes <- AllPrefixes
    MaxFaults = 1
    MaxLate = 1
    MaxMeddles = 0
    MaxKills = 0
PROPERTIES
    ExpiredIsRevoked
    PortalEmpties
