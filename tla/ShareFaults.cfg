SPECIFICATION Spec
CONSTANTS
    Keys = {k1, k2, k3}
    EternalKeys = {k3}
    Globals = globals
    NoKey = nokey
    Procs = {p1, p2}
    Prefixes <- AllPrefixes
    MaxFaults = 2
    MaxLate = 0
    MaxMeddles = 1
    MaxKills = 1
SYMMETRY Symmetry
INVARIANTS
    FailedOpenStaysPrivate
    ActiveRoutesServed
    SucceedsWhole
    RevokesWhole
    OrphanMeansNoLink
    ClosedUnlessFailed
PROPERTY ForeignUntouched
