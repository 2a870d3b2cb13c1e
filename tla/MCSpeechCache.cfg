SPECIFICATION MCSpec
CONSTANTS
    Requests = {r1, r2, r3}
    Texts = {a, b}
    NoOne = NoOne
    MemoryLimit = 1
    DiskLimit = 2
    MaxCrashes = 1
INVARIANTS
    OneLeaderPerCall
    CachesBounded
PROPERTIES
    EveryRequestAnswered
