SPECIFICATION Spec
CONSTANTS
    Keys = {k1}
    EternalKeys = {}
    Globals = globals
    NoKey = nokey
    Procs = {p1, p2}
    Prefixes <- AllPrefixes
    MaxFaults = 0
    MaxLate = 1
    MaxMeddles = 0
    MaxKills = 1
PROPERTY MutationsSerialized
