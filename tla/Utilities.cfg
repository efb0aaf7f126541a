SPECIFICATION UtilitySpec
CONSTANTS
    Labels = {"phrase", "lone", "padded"}
    Folders = {"segment", "phrase", "lone"}
    Profiles = {"both", "archives"}
    Ttls = {299, 300, 301, 604800, 604860}
    FileSizes = {0, 1, 536870912, 536870913}
    FileCounts = {0, 1, 500, 501}
    Quotas = {1, 1073741824, 1073741825}
    Malformed = {"empty", "oversized", "garbled", "array", "repeated", "nested"}
    Lockdowns = {"true", "false", "other"}
    MaxBootFaults = 2
    LevelLists <- SomeLevels
    Durations = {9, 10, 300, 301}
    Cooldowns = {0, 61}
    MaxStarted = 2
INVARIANTS
    OpensWhatWasAsked
    CommandUndisturbed
    TunnelConfined
    RowAccounts
PROPERTIES
    RelayDeathFailsClosed
    SignalEndsContainer
