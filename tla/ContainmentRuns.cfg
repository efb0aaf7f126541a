SPECIFICATION Spec
CONSTANTS
    a1 = a1
    a2 = a2
    u1 = u1
    NoAddress = noaddress
    Addresses = {a1, a2, u1}
    Runs = {r1}
    Configs <- SomeConfigs
    FirstChains <- SomeChains
    MaxRemovals = 6
    MaxFaults = 1
    MaxMeddles = 1
INVARIANTS
    ApplyExact
PROPERTIES
    StaysContained
    UndisturbedSparesOthers
